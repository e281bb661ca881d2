------------------------------ MODULE PagesProofs ------------------------------
(***************************************************************************)
(* Proofs about module Pages: the cards of the supply (SupplyPage), for    *)
(* any urls, any number of fetches in flight, and any number of            *)
(* reconnections and clicks; and the pages of a block and of an epoch      *)
(* (ChainPages), for any chains, any schedule whose epochs follow each     *)
(* other, any window and any number of calls in flight.                    *)
(***************************************************************************)
EXTENDS Pages, WellFoundedInduction, NaturalsInduction, TLAPS

(* Once the effects ran with a connection there is no "Not connected": the *)
(* effect of the provider has begun a fetch, and only a later effect, which *)
(* runs with another status, takes the state back.                         *)
NoDisconnectedWhenRan ==
  ran.status = "Connected" =>
    supply # Supply!Disconnected /\ richList # RichList!Disconnected

(* The inductive invariant. *)
IInv == TypeOK /\ LoadingIsInFlight /\ NoDisconnectedWhenRan

-------------------------------------------------------------------------------
(* What the steps of a provider do to its part of the invariant.           *)
SupplyInv == Supply!TypeOK /\ (Supply!Loading => Supply!InFlight)
RichListInv == RichList!TypeOK /\ (RichList!Loading => RichList!InFlight)

SupplyTags == supply' = Supply!Disconnected => supply = Supply!Disconnected
RichListTags == richList' = RichList!Disconnected => richList = RichList!Disconnected

LEMMA SupplyStarts ==
  ASSUME SupplyInv, NEW u \in Url, Supply!Start(u)
  PROVE  SupplyInv' /\ supply' # Supply!Disconnected
BY NoneAssumption
DEF SupplyInv, Supply!TypeOK, Supply!State, Supply!Loading, Supply!InFlight, Supply!Start,
    Supply!Connecting, Supply!Disconnected

LEMMA RichListStarts ==
  ASSUME RichListInv, NEW u \in Url, RichList!Start(u)
  PROVE  RichListInv' /\ richList' # RichList!Disconnected
BY NoneAssumption
DEF RichListInv, RichList!TypeOK, RichList!State, RichList!Loading, RichList!InFlight, RichList!Start,
    RichList!Connecting, RichList!Disconnected

LEMMA SupplyAnswers ==
  ASSUME SupplyInv, NEW f \in Fetch, Supply!Succeed(f) \/ Supply!Fail(f)
  PROVE  SupplyInv' /\ SupplyTags
<1>1. Supply!TypeOK'
  BY DEF SupplyInv, Supply!TypeOK, Supply!State, Supply!Succeed, Supply!Fail
<1>2. ~Supply!Loading' /\ SupplyTags
  BY DEF SupplyTags, Supply!Succeed, Supply!Fail, Supply!Loading, Supply!Data, Supply!Failed,
         Supply!Connecting, Supply!Disconnected
<1>. QED
  BY <1>1, <1>2 DEF SupplyInv

LEMMA RichListAnswers ==
  ASSUME RichListInv, NEW f \in Fetch, RichList!Succeed(f) \/ RichList!Fail(f)
  PROVE  RichListInv' /\ RichListTags
<1>1. RichList!TypeOK'
  BY DEF RichListInv, RichList!TypeOK, RichList!State, RichList!Succeed, RichList!Fail
<1>2. ~RichList!Loading' /\ RichListTags
  BY DEF RichListTags, RichList!Succeed, RichList!Fail, RichList!Loading, RichList!Data,
         RichList!Failed, RichList!Connecting, RichList!Disconnected
<1>. QED
  BY <1>1, <1>2 DEF RichListInv

LEMMA SupplyStays ==
  ASSUME SupplyInv, UNCHANGED supplyVars
  PROVE  SupplyInv' /\ SupplyTags
BY DEF SupplyInv, SupplyTags, supplyVars, Supply!TypeOK, Supply!Loading, Supply!InFlight

LEMMA RichListStays ==
  ASSUME RichListInv, UNCHANGED richListVars
  PROVE  RichListInv' /\ RichListTags
BY DEF RichListInv, RichListTags, richListVars, RichList!TypeOK, RichList!Loading, RichList!InFlight

(* The effect of a provider: what it leaves is not Disconnected if it ran  *)
(* with a connection.                                                      *)
LEMMA SupplyEffect ==
  ASSUME SupplyInv, NEW u \in Url, NEW s \in Conn!ClusterStatus, Supply!ConnectionEffect(s, u)
  PROVE  SupplyInv' /\ (s = "Connected" => supply' # Supply!Disconnected)
<1>1. CASE supply # Supply!Idle /\ s = "Connecting" /\ supply' = Supply!Disconnected /\ UNCHANGED supplyFetches
  BY <1>1 DEF SupplyInv, Supply!TypeOK, Supply!State, Supply!Loading, Supply!Connecting, Supply!Disconnected
<1>2. CASE supply # Supply!Idle /\ s = "Connected" /\ Supply!Start(u)
  BY <1>2, SupplyStarts
<1>3. CASE (supply = Supply!Idle \/ s = "Failure") /\ UNCHANGED <<supply, supplyFetches>>
  BY <1>3, SupplyStays DEF supplyVars, Supply!Idle, Supply!Disconnected
<1>. QED
  BY <1>1, <1>2, <1>3 DEF Supply!ConnectionEffect

LEMMA RichListEffect ==
  ASSUME RichListInv, NEW u \in Url, NEW s \in Conn!ClusterStatus, RichList!ConnectionEffect(s, u)
  PROVE  RichListInv' /\ (s = "Connected" => richList' # RichList!Disconnected)
<1>1. CASE richList # RichList!Idle /\ s = "Connecting" /\ richList' = RichList!Disconnected /\ UNCHANGED richListFetches
  BY <1>1 DEF RichListInv, RichList!TypeOK, RichList!State, RichList!Loading, RichList!Connecting, RichList!Disconnected
<1>2. CASE richList # RichList!Idle /\ s = "Connected" /\ RichList!Start(u)
  BY <1>2, RichListStarts
<1>3. CASE (richList = RichList!Idle \/ s = "Failure") /\ UNCHANGED <<richList, richListFetches>>
  BY <1>3, RichListStays DEF richListVars, RichList!Idle, RichList!Disconnected
<1>. QED
  BY <1>1, <1>2, <1>3 DEF RichList!ConnectionEffect

-------------------------------------------------------------------------------
(* The rest of the type invariant. *)
PageType ==
  /\ Conn!ConnTypeOK
  /\ ran \in [url : Url \cup {None}, status : Conn!ClusterStatus \cup {None}]
  /\ reconnects \in 0 .. MaxReconnects
  /\ clicks \in 0 .. MaxClicks

LEMMA Parts == IInv <=> PageType /\ SupplyInv /\ RichListInv /\ NoDisconnectedWhenRan
BY DEF IInv, TypeOK, PageType, SupplyInv, RichListInv, LoadingIsInFlight

LEMMA InitInv == Init => IInv
<1>. SUFFICES ASSUME Init PROVE PageType /\ SupplyInv /\ RichListInv /\ NoDisconnectedWhenRan
  BY Parts
<1>1. PageType
  BY BoundsAssumption DEF Init, PageType, Conn!ConnTypeOK
<1>2. SupplyInv
  BY DEF Init, SupplyInv, Supply!Init, Supply!TypeOK, Supply!State, Supply!Loading, Supply!Idle, Supply!Connecting
<1>3. RichListInv
  BY DEF Init, RichListInv, RichList!Init, RichList!TypeOK, RichList!State, RichList!Loading, RichList!Idle, RichList!Connecting
<1>4. NoDisconnectedWhenRan
  BY NoneAssumption DEF Init, NoDisconnectedWhenRan
<1>. QED
  BY <1>1, <1>2, <1>3, <1>4

LEMMA StepInv == IInv /\ [Next]_vars => IInv'
<1>. SUFFICES ASSUME PageType, SupplyInv, RichListInv, NoDisconnectedWhenRan, [Next]_vars
              PROVE  PageType' /\ SupplyInv' /\ RichListInv' /\ NoDisconnectedWhenRan'
  BY Parts, PTL
<1>0. url \in Url /\ status \in Conn!ClusterStatus
  BY DEF PageType, Conn!ConnTypeOK
<1>1. ASSUME NEW u \in Url, Reconnect(u) PROVE PageType' /\ SupplyInv' /\ RichListInv' /\ NoDisconnectedWhenRan'
  <2>1. PageType'
    BY <1>1, BoundsAssumption DEF Reconnect, PageType, Conn!ConnTypeOK, Conn!Reconnect, Conn!ClusterStatus
  <2>2. UNCHANGED <<supplyVars, richListVars, ran>>
    BY <1>1 DEF Reconnect
  <2>. QED
    BY <2>1, <2>2, SupplyStays, RichListStays DEF NoDisconnectedWhenRan, SupplyTags, RichListTags
<1>2. ASSUME NEW s \in Conn!ClusterStatus, Settle(s) PROVE PageType' /\ SupplyInv' /\ RichListInv' /\ NoDisconnectedWhenRan'
  <2>1. PageType'
    BY <1>2 DEF Settle, PageType, Conn!ConnTypeOK, Conn!Settle
  <2>2. UNCHANGED <<supplyVars, richListVars, ran>>
    BY <1>2 DEF Settle
  <2>. QED
    BY <2>1, <2>2, SupplyStays, RichListStays DEF NoDisconnectedWhenRan, SupplyTags, RichListTags
<1>3. ASSUME Effects PROVE PageType' /\ SupplyInv' /\ RichListInv' /\ NoDisconnectedWhenRan'
  <2>1. PageType'
    BY <1>3, <1>0 DEF Effects, PageType, Conn!ConnTypeOK
  <2>2. SupplyInv' /\ (status = "Connected" => supply' # Supply!Disconnected)
    BY <1>3, <1>0, SupplyStarts, SupplyEffect DEF Effects
  <2>3. RichListInv' /\ (status = "Connected" => richList' # RichList!Disconnected)
    BY <1>3, <1>0, RichListEffect DEF Effects
  <2>4. ran'.status = status
    BY <1>3 DEF Effects
  <2>. QED
    BY <2>1, <2>2, <2>3, <2>4 DEF NoDisconnectedWhenRan, Supply!Disconnected, RichList!Disconnected
<1>4. ASSUME RetrySupply PROVE PageType' /\ SupplyInv' /\ RichListInv' /\ NoDisconnectedWhenRan'
  <2>1. PageType'
    BY <1>4, BoundsAssumption DEF RetrySupply, Click, PageType, Conn!ConnTypeOK
  <2>2. SupplyInv' /\ supply' # Supply!Disconnected
    BY <1>4, <1>0, SupplyStarts DEF RetrySupply
  <2>3. RichListInv' /\ RichListTags
    BY <1>4, RichListStays DEF RetrySupply
  <2>4. ran' = ran
    BY <1>4 DEF RetrySupply, Click
  <2>. QED
    BY <2>1, <2>2, <2>3, <2>4 DEF NoDisconnectedWhenRan, RichListTags, Supply!Disconnected, RichList!Disconnected
<1>5. ASSUME LoadRichList PROVE PageType' /\ SupplyInv' /\ RichListInv' /\ NoDisconnectedWhenRan'
  <2>1. PageType'
    BY <1>5, BoundsAssumption DEF LoadRichList, Click, PageType, Conn!ConnTypeOK
  <2>2. RichListInv' /\ richList' # RichList!Disconnected
    BY <1>5, <1>0, RichListStarts DEF LoadRichList
  <2>3. SupplyInv' /\ SupplyTags
    BY <1>5, SupplyStays DEF LoadRichList
  <2>4. ran' = ran
    BY <1>5 DEF LoadRichList, Click
  <2>. QED
    BY <2>1, <2>2, <2>3, <2>4 DEF NoDisconnectedWhenRan, SupplyTags, Supply!Disconnected, RichList!Disconnected
<1>6. ASSUME SupplyAnswered PROVE PageType' /\ SupplyInv' /\ RichListInv' /\ NoDisconnectedWhenRan'
  <2>1. PageType' /\ UNCHANGED <<ran, richListVars>>
    BY <1>6 DEF SupplyAnswered, PageType, Conn!ConnTypeOK
  <2>2. SupplyInv' /\ SupplyTags
    BY <1>6, SupplyAnswers DEF SupplyAnswered
  <2>3. RichListInv' /\ RichListTags
    BY <2>1, RichListStays
  <2>. QED
    BY <2>1, <2>2, <2>3 DEF NoDisconnectedWhenRan, SupplyTags, RichListTags, Supply!Disconnected, RichList!Disconnected
<1>7. ASSUME RichListAnswered PROVE PageType' /\ SupplyInv' /\ RichListInv' /\ NoDisconnectedWhenRan'
  <2>1. PageType' /\ UNCHANGED <<ran, supplyVars>>
    BY <1>7 DEF RichListAnswered, PageType, Conn!ConnTypeOK
  <2>2. RichListInv' /\ RichListTags
    BY <1>7, RichListAnswers DEF RichListAnswered
  <2>3. SupplyInv' /\ SupplyTags
    BY <2>1, SupplyStays
  <2>. QED
    BY <2>1, <2>2, <2>3 DEF NoDisconnectedWhenRan, SupplyTags, RichListTags, Supply!Disconnected, RichList!Disconnected
<1>8. ASSUME UNCHANGED vars PROVE PageType' /\ SupplyInv' /\ RichListInv' /\ NoDisconnectedWhenRan'
  <2>1. PageType' /\ UNCHANGED <<ran, supplyVars, richListVars>>
    BY <1>8 DEF vars, PageType, Conn!ConnTypeOK
  <2>. QED
    BY <2>1, SupplyStays, RichListStays
       DEF NoDisconnectedWhenRan, SupplyTags, RichListTags, Supply!Disconnected, RichList!Disconnected
<1>. QED
  BY <1>1, <1>2, <1>3, <1>4, <1>5, <1>6, <1>7, <1>8 DEF Next

LEMMA Invariance == Spec => []IInv
BY InitInv, StepInv, PTL DEF Spec

-------------------------------------------------------------------------------
(* Every variable of the supply page keeps its type.                       *)
THEOREM TypeCorrect == Spec => []TypeOK
<1>1. IInv => TypeOK
  BY DEF IInv
<1>. QED
  BY <1>1, Invariance, PTL

(* Neither card is left loading without a request of its provider.         *)
THEOREM NoIdleSpinner == Spec => []LoadingIsInFlight
<1>1. IInv => LoadingIsInFlight
  BY DEF IInv
<1>. QED
  BY <1>1, Invariance, PTL

(* "Not connected to the cluster" is never shown of a connected cluster.   *)
THEOREM NotConnectedIsNeverWrong == Spec => []NotConnectedIsTrue
<1>1. IInv => NotConnectedIsTrue
  BY DEF IInv, NoDisconnectedWhenRan, NotConnectedIsTrue, EffectsDone
<1>. QED
  BY <1>1, Invariance, PTL

-------------------------------------------------------------------------------
(* The pages of a block and of an epoch.                                   *)
first(u, e) == Chain!getFirstSlotInEpoch(Schedule[u], e)
epochAt(u, s) == Chain!getEpochForSlot(Schedule[u], s)

(* An epoch that has begun by what is confirmed.                           *)
Begun(u, e) == e \in 0 .. MaxSlot /\ first(u, e) <= tip

EpochIs(d, u, k) ==
  /\ d = [firstBlock |-> d.firstBlock, lastBlock |-> d.lastBlock, asked |-> d.asked]
  /\ d.firstBlock = Chain!Min(Chain!blocksOf(u, k))
  /\ k < d.asked => d.lastBlock = Chain!Max(Chain!blocksOf(u, k))

After(u, k) == {b \in chains[u] : b > k}

BlockIs(d, u, k) ==
  /\ d = [block |-> d.block, childSlot |-> d.childSlot, blockLeader |-> d.blockLeader,
          childLeader |-> d.childLeader, parentLeader |-> d.parentLeader]
  /\ d.block # None =>
       /\ d.block.parentSlot = Chain!parentOf(u, k)
       /\ d.childSlot # None => d.childSlot = Chain!Min(After(u, k))
       /\ d.blockLeader \in {None, Chain!LeaderOf(u, k)}
       /\ d.blockLeader # None =>
            /\ d.parentLeader = Chain!LeaderOf(u, d.block.parentSlot)
            /\ d.childSlot # None => d.childLeader = Chain!LeaderOf(u, d.childSlot)

(* What a page may be told of the key k of the cluster u.                  *)
DataIs(d, u, k) == IF page.kind = "epoch" THEN EpochIs(d, u, k) ELSE BlockIs(d, u, k)

(* A call has so far found what is so, and knows which epoch had begun.    *)
EpochCall(q) ==
  /\ q = [url |-> q.url, key |-> q.key, currentEpoch |-> q.currentEpoch, waits |-> q.waits,
          firstBlock |-> q.firstBlock, lastBlock |-> q.lastBlock]
  /\ q.url \in Url /\ q.key \in Epochs /\ q.waits \subseteq {"first", "last"}
  /\ Begun(q.url, q.currentEpoch)
  /\ q.firstBlock # None => q.firstBlock = Chain!Min(Chain!blocksOf(q.url, q.key))
  /\ q.lastBlock # None /\ q.key < q.currentEpoch =>
       q.lastBlock = Chain!Max(Chain!blocksOf(q.url, q.key))

BlockCall(q) ==
  /\ q = [url |-> q.url, key |-> q.key, waits |-> q.waits, block |-> q.block,
          childSlot |-> q.childSlot]
  /\ q.url \in Url /\ q.key \in Slots /\ q.waits \in {{"block"}, {"child"}, {"leaders"}}
  /\ q.waits # {"block"} => q.block = [parentSlot |-> Chain!parentOf(q.url, q.key)]
  /\ q.childSlot # None => /\ q.childSlot \in After(q.url, q.key)
                           /\ q.childSlot = Chain!Min(After(q.url, q.key))

CallIs(q) ==
  \/ q = Chain!Idle
  \/ page.kind = "epoch" /\ EpochCall(q)
  \/ page.kind = "block" /\ BlockCall(q)

CallsAre == calls = [r \in Request |-> calls[r]] /\ \A r \in Request : CallIs(calls[r])

(* Every entry is of the cluster of the cache.                             *)
CacheIs(c) ==
  /\ c = [url |-> c.url, entries |-> c.entries]
  /\ c.entries = [k \in Epochs \cup Slots |-> c.entries[k]]
  /\ \A k \in Epochs \cup Slots : c.entries[k].data # None => DataIs(c.entries[k].data, c.url, k)

ConnectionIs ==
  /\ chainUrl \in Url /\ chainStatus \in Conn!ClusterStatus
  /\ clusterEpoch \in 0 .. MaxSlot \cup {None}
  /\ chainStatus = "Connected" => Begun(chainUrl, clusterEpoch)

(* The inductive invariant of the pages of the chain: once the effects     *)
(* have run, the cache is that of the cluster they ran with.               *)
ChainInv ==
  /\ ConnectionIs /\ chains \in Chains /\ tip \in 0 .. MaxSlot /\ page \in Chain!Pages
  /\ CallsAre /\ CacheIs(cache)
  /\ pageRan # None => pageRan.url = cache.url

-------------------------------------------------------------------------------
(* Of naturals there is a least, and a greatest when they are bounded.     *)
LEMMA LeastOf ==
  ASSUME NEW S \in SUBSET Nat, S # {}
  PROVE  \E m \in S : \A x \in S : m <= x
<1>1. PICK m \in S : \A y \in S : ~ (<<y, m>> \in OpToRel(<, Nat))
  BY WFMin, NatLessThanWellFounded, Zenon
<1>2. \A y \in S : ~ (y < m)
  BY <1>1 DEF OpToRel
<1>. QED
  BY <1>2

LEMMA MinOf ==
  ASSUME NEW S \in SUBSET (0 .. MaxSlot), S # {}
  PROVE  Chain!Min(S) \in S /\ \A x \in S : Chain!Min(S) <= x
<1>1. \E m \in S : \A x \in S : m <= x
  BY LeastOf
<1>. QED
  BY <1>1, Zenon DEF Chain!Min

LEMMA MinIs ==
  ASSUME NEW S \in SUBSET (0 .. MaxSlot), NEW m \in S, \A x \in S : m <= x
  PROVE  Chain!Min(S) = m
<1>1. Chain!Min(S) \in S /\ Chain!Min(S) <= m
  BY MinOf
<1>2. m <= Chain!Min(S)
  BY <1>1
<1>3. m \in 0 .. MaxSlot /\ Chain!Min(S) \in 0 .. MaxSlot
  BY <1>1
<1>4. \A x \in 0 .. MaxSlot : x \in Int
  BY SlotsAssumption
<1>. QED
  BY <1>1, <1>2, <1>3, <1>4

LEMMA MaxOf ==
  ASSUME NEW S \in SUBSET (0 .. MaxSlot), S # {}
  PROVE  Chain!Max(S) \in S /\ \A x \in S : x <= Chain!Max(S)
<1> DEFINE below == {u \in Nat : \A x \in S : x <= u}
<1>1. PICK m \in below : \A u \in below : m <= u
  <2>1. MaxSlot \in below
    BY SlotsAssumption
  <2>. QED
    BY <2>1, LeastOf
<1>2. m \in S
  <2>1. SUFFICES ASSUME m \notin S PROVE FALSE
    OBVIOUS
  <2>2. \A x \in S : x \in 0 .. MaxSlot /\ x <= m /\ x # m
    BY <2>1, <1>1
  <2>3. \A x \in 0 .. MaxSlot : x \in Nat
    BY SlotsAssumption
  <2>4. m \in Nat
    BY <1>1
  <2>5. \A x \in S : x \in Nat /\ x < m
    BY <2>2, <2>3, <2>4
  <2>6. m - 1 \in Nat
    <3>1. PICK x \in S : TRUE
      OBVIOUS
    <3>2. x \in Nat /\ x < m
      BY <2>5
    <3>. QED
      BY <2>4, <3>2
  <2>7. m - 1 \in below
    BY <2>4, <2>5, <2>6
  <2>. QED
    BY <1>1, <2>4, <2>7
<1>3. \E x \in S : \A y \in S : x >= y
  BY <1>1, <1>2
<1>4. Chain!Max(S) \in S /\ \A y \in S : Chain!Max(S) >= y
  BY <1>3, Zenon DEF Chain!Max
<1>. QED
  BY <1>4

LEMMA MaxIs ==
  ASSUME NEW S \in SUBSET (0 .. MaxSlot), NEW m \in S, \A x \in S : x <= m
  PROVE  Chain!Max(S) = m
<1>1. Chain!Max(S) \in S /\ m <= Chain!Max(S)
  BY MaxOf
<1>2. Chain!Max(S) <= m
  BY <1>1
<1>3. m \in 0 .. MaxSlot /\ Chain!Max(S) \in 0 .. MaxSlot
  BY <1>1
<1>4. \A x \in 0 .. MaxSlot : x \in Int
  BY SlotsAssumption
<1>. QED
  BY <1>1, <1>2, <1>3, <1>4

(* What the assumptions say of the blocks of a chain, and of its epochs.   *)
LEMMA ChainHas ==
  ASSUME chains \in Chains, NEW u \in Url
  PROVE  /\ chains[u] \subseteq 0 .. MaxSlot
         /\ \A k \in Epochs : Chain!blocksOf(u, k) # {}
BY ChainsAssumption DEF Chain!blocksOf

LEMMA EpochsBegin ==
  ASSUME NEW u \in Url, NEW e \in 0 .. MaxSlot + 1
  PROVE  /\ first(u, e) \in Nat
         /\ \A s \in 0 .. MaxSlot : epochAt(u, s) \in 0 .. MaxSlot /\ (first(u, e) <= s <=> e <= epochAt(u, s))
<1>1. 0 \in 0 .. MaxSlot
  BY SlotsAssumption
<1>. QED
  BY <1>1, ScheduleAssumption DEF first, epochAt

(* A cluster that does not warm up, as mainnet, has the schedule that is   *)
(* assumed: with k slots each, its epochs follow each other.               *)
LEMMA DivIs ==
  ASSUME NEW k \in Nat \ {0}, NEW s \in Nat, NEW e \in Nat
  PROVE  s \div k \in 0 .. s /\ (e * k <= s <=> e <= s \div k)
OBVIOUS

THEOREM EpochsWithoutWarmUp ==
  ASSUME NEW k \in Nat \ {0}, NEW schedule,
         schedule = [slotsPerEpoch |-> k, firstNormalEpoch |-> 0, firstNormalSlot |-> 0],
         NEW slot \in 0 .. MaxSlot, NEW epoch \in 0 .. MaxSlot + 1
  PROVE  /\ Chain!getEpochForSlot(schedule, slot) \in 0 .. MaxSlot
         /\ Chain!getFirstSlotInEpoch(schedule, epoch) \in Nat
         /\ Chain!getFirstSlotInEpoch(schedule, epoch) <= slot
              <=> epoch <= Chain!getEpochForSlot(schedule, slot)
<1>1. slot \in Nat /\ epoch \in Nat /\ MaxSlot \in Nat /\ slot <= MaxSlot
  BY SlotsAssumption
<1>2. /\ schedule.slotsPerEpoch = k /\ schedule.firstNormalEpoch = 0
      /\ schedule.firstNormalSlot = 0
  OBVIOUS
<1>3. Chain!getEpochForSlot(schedule, slot) = slot \div k
  <2>1. ~ (slot < 0) /\ slot - 0 = slot /\ slot \div k \in Int
    BY <1>1
  <2>. QED
    BY <1>2, <2>1 DEF Chain!getEpochForSlot
<1>4. Chain!getFirstSlotInEpoch(schedule, epoch) = epoch * k
  <2>1. CASE epoch = 0
    <3>1. Chain!getFirstSlotInEpoch(schedule, epoch) = (2^0 - 1) * MINIMUM_SLOT_PER_EPOCH
      BY <1>2, <2>1 DEF Chain!getFirstSlotInEpoch
    <3>2. 2^0 = 1 /\ 0 * k = 0 /\ 0 * MINIMUM_SLOT_PER_EPOCH = 0
      BY SlotsAssumption
    <3>. QED
      BY <2>1, <3>1, <3>2
  <2>2. CASE epoch # 0
    <3>1. ~ (epoch <= 0) /\ epoch - 0 = epoch /\ epoch * k \in Nat
      BY <1>1, <2>2
    <3>2. Chain!getFirstSlotInEpoch(schedule, epoch) = (epoch - 0) * k + 0
      BY <1>2, <3>1 DEF Chain!getFirstSlotInEpoch
    <3>. QED
      BY <3>1, <3>2
  <2>. QED
    BY <2>1, <2>2
<1>5. slot \div k \in 0 .. slot /\ (epoch * k <= slot <=> epoch <= slot \div k) /\ epoch * k \in Nat
  BY <1>1, DivIs
<1>. QED
  BY <1>1, <1>3, <1>4, <1>5

(* The first confirmed block from the start of an epoch on is its first,   *)
(* although the window may reach beyond it.                                *)
LEMMA FirstIsFirst ==
  ASSUME chains \in Chains, tip \in 0 .. MaxSlot, NEW u \in Url, NEW k \in Epochs,
         NEW b, b = Chain!First(Chain!Confirmed(u, first(u, k), first(u, k) + Window)), b # None
  PROVE  b = Chain!Min(Chain!blocksOf(u, k))
<1> DEFINE found == Chain!Confirmed(u, first(u, k), first(u, k) + Window)
           blocks == Chain!blocksOf(u, k)
<1>1. chains[u] \subseteq 0 .. MaxSlot /\ blocks # {} /\ k \in 0 .. MaxSlot /\ Window \in Nat
  BY ChainHas, SlotsAssumption
<1>2. /\ first(u, k) \in Nat /\ k \in 0 .. MaxSlot + 1 /\ k + 1 \in 0 .. MaxSlot + 1
      /\ \A s \in 0 .. MaxSlot : /\ epochAt(u, s) \in 0 .. MaxSlot
                                 /\ first(u, k) <= s <=> k <= epochAt(u, s)
                                 /\ first(u, k + 1) <= s <=> k + 1 <= epochAt(u, s)
      /\ first(u, k + 1) \in Nat
  <2>1. k \in 0 .. MaxSlot + 1 /\ k + 1 \in 0 .. MaxSlot + 1
    BY <1>1, SlotsAssumption
  <2>. QED
    BY <2>1, EpochsBegin
<1>3. \A s : s \in found <=> s \in chains[u] /\ first(u, k) <= s /\ s <= first(u, k) + Window /\ s <= tip
  BY DEF Chain!Confirmed
<1>4. \A s : s \in blocks <=> s \in chains[u] /\ epochAt(u, s) = k
  BY DEF Chain!blocksOf, epochAt
<1> HIDE DEF found, blocks
<1>5. found # {} /\ b = Chain!Min(found)
  BY DEF Chain!First, found
<1>6. b \in found /\ \A s \in found : b <= s
  BY <1>1, <1>3, <1>5, MinOf
<1>7. PICK b1 \in blocks : TRUE
  BY <1>1
<1>8. \A s \in blocks : b <= s
  BY <1>1, <1>2, <1>3, <1>4, <1>6
<1>9. b \in blocks
  BY <1>1, <1>2, <1>3, <1>4, <1>6, <1>7, <1>8
<1>. QED
  BY <1>1, <1>4, <1>8, <1>9, MinIs DEF blocks

LEMMA MaxOfTwo ==
  ASSUME NEW a \in Int, NEW b \in Int
  PROVE  Chain!Max({a, b}) \in Int
<1>1. \E x \in {a, b} : \A y \in {a, b} : x >= y
  OBVIOUS
<1>2. Chain!Max({a, b}) \in {a, b}
  BY <1>1, Zenon DEF Chain!Max
<1>. QED
  BY <1>2

(* The last confirmed block to the end of an epoch that is over is its     *)
(* last.                                                                   *)
LEMMA LastIsLast ==
  ASSUME chains \in Chains, tip \in 0 .. MaxSlot, NEW u \in Url, NEW k \in Epochs,
         NEW e, Begun(u, e), k < e, NEW from \in Int,
         NEW b, b = Chain!Last(Chain!Confirmed(u, from, first(u, k + 1) - 1)), b # None
  PROVE  b = Chain!Max(Chain!blocksOf(u, k))
<1> DEFINE found == Chain!Confirmed(u, from, first(u, k + 1) - 1)
           blocks == Chain!blocksOf(u, k)
<1>1. chains[u] \subseteq 0 .. MaxSlot /\ blocks # {} /\ k \in 0 .. MaxSlot /\ Window \in Nat
  BY ChainHas, SlotsAssumption
<1>2. /\ e \in 0 .. MaxSlot + 1 /\ k \in 0 .. MaxSlot + 1 /\ k + 1 \in 0 .. MaxSlot + 1
      /\ first(u, e) <= tip
  BY <1>1, SlotsAssumption DEF Begun
<1>3. /\ first(u, k + 1) \in Nat
      /\ \A s \in 0 .. MaxSlot : /\ epochAt(u, s) \in 0 .. MaxSlot
                                 /\ first(u, k) <= s <=> k <= epochAt(u, s)
                                 /\ first(u, k + 1) <= s <=> k + 1 <= epochAt(u, s)
                                 /\ first(u, e) <= s <=> e <= epochAt(u, s)
  BY <1>2, EpochsBegin
<1>4. first(u, k + 1) <= tip
  BY <1>1, <1>2, <1>3
<1>5. \A s : s \in found <=> s \in chains[u] /\ from <= s /\ s <= first(u, k + 1) - 1 /\ s <= tip
  BY DEF Chain!Confirmed
<1>6. \A s : s \in blocks <=> s \in chains[u] /\ epochAt(u, s) = k
  BY DEF Chain!blocksOf, epochAt
<1> HIDE DEF found, blocks
<1>7. found # {} /\ b = Chain!Max(found)
  BY DEF Chain!Last, found
<1>8. b \in found /\ \A s \in found : s <= b
  BY <1>1, <1>5, <1>7, MaxOf
<1>9. PICK b1 \in blocks : TRUE
  BY <1>1
<1>10. \A s \in blocks : s <= b
  BY <1>1, <1>3, <1>4, <1>5, <1>6, <1>8
<1>11. b \in blocks
  <2>1. b1 \in 0 .. MaxSlot /\ b \in 0 .. MaxSlot /\ b1 <= b /\ epochAt(u, b1) = k
    BY <1>1, <1>5, <1>6, <1>8, <1>9, <1>10
  <2>2. first(u, k) <= b1 /\ ~ (first(u, k + 1) <= b)
    BY <1>1, <1>3, <1>5, <1>8, <2>1
  <2>3. first(u, k) \in Nat
    BY <1>2, EpochsBegin
  <2>4. k <= epochAt(u, b) /\ ~ (k + 1 <= epochAt(u, b))
    BY <1>3, <2>1, <2>2, <2>3
  <2>5. epochAt(u, b) \in Int /\ k \in Int
    BY <1>1, <1>3, <2>1
  <2>6. epochAt(u, b) = k
    BY <2>4, <2>5
  <2>. QED
    BY <1>5, <1>6, <1>8, <2>6
<1>. QED
  BY <1>1, <1>6, <1>10, <1>11, MaxIs DEF blocks

(* The first confirmed block after a slot is the next one.                 *)
LEMMA ChildIsNext ==
  ASSUME chains \in Chains, tip \in 0 .. MaxSlot, NEW u \in Url, NEW k \in Slots,
         NEW b, b = Chain!First(Chain!Confirmed(u, k + 1, k + Window)), b # None
  PROVE  b \in After(u, k) /\ b = Chain!Min(After(u, k))
<1> DEFINE found == Chain!Confirmed(u, k + 1, k + Window)
<1>1. chains[u] \subseteq 0 .. MaxSlot /\ k \in 0 .. MaxSlot /\ Window \in Nat
  BY ChainHas, SlotsAssumption
<1>2. \A s : s \in found <=> s \in chains[u] /\ k + 1 <= s /\ s <= k + Window /\ s <= tip
  BY DEF Chain!Confirmed
<1>3. \A s : s \in After(u, k) <=> s \in chains[u] /\ s > k
  BY DEF After
<1> HIDE DEF found
<1>4. found # {} /\ b = Chain!Min(found)
  BY DEF Chain!First, found
<1>5. b \in found /\ \A s \in found : b <= s
  BY <1>1, <1>2, <1>4, MinOf
<1>6. b \in After(u, k) /\ \A s \in After(u, k) : b <= s
  BY <1>1, <1>2, <1>3, <1>5
<1>. QED
  BY <1>1, <1>3, <1>6, MinIs

LEMMA ParentIsBefore ==
  ASSUME chains \in Chains, NEW u \in Url, NEW k \in Slots
  PROVE  Chain!parentOf(u, k) \in 0 .. k
<1>1. chains[u] \subseteq 0 .. MaxSlot /\ k \in 0 .. MaxSlot
  BY ChainHas, SlotsAssumption
<1> DEFINE before == {b \in chains[u] : b < k}
<1>2. CASE before # {}
  <2>1. before \in SUBSET (0 .. MaxSlot)
    BY <1>1
  <2> HIDE DEF before
  <2>2. Chain!Max(before) \in before
    BY <1>2, <2>1, MaxOf
  <2>3. \E b \in chains[u] : b < k
    BY <1>2 DEF before
  <2>4. Chain!parentOf(u, k) = Chain!Max(before)
    BY <2>3 DEF Chain!parentOf, before
  <2>. QED
    BY <1>1, <2>2, <2>4 DEF before
<1>3. CASE before = {}
  BY <1>1, <1>3 DEF Chain!parentOf
<1>. QED
  BY <1>2, <1>3

-------------------------------------------------------------------------------
(* The reducer keeps to what is so: the update is merged into an entry     *)
(* that has all of its fields.                                             *)
LEMMA MergedIs ==
  ASSUME NEW u, NEW k, NEW e, NEW d, e # None => DataIs(e, u, k), d # None => DataIs(d, u, k)
  PROVE  /\ Chain!defaultReconciler(e, d) # None => DataIs(Chain!defaultReconciler(e, d), u, k)
<1> DEFINE merged == [f \in DOMAIN e \cup DOMAIN d |-> IF f \in DOMAIN d THEN d[f] ELSE e[f]]
<1>1. CASE e = None \/ d = None
  BY <1>1, Zenon DEF Chain!defaultReconciler
<1>2. CASE e # None /\ d # None
  <2>1. Chain!defaultReconciler(e, d) = merged
    BY <1>2, Zenon DEF Chain!defaultReconciler
  <2>2. DataIs(e, u, k) /\ DataIs(d, u, k)
    BY <1>2
  <2>3. CASE page.kind = "epoch"
    <3>1. PICK e1, e2, e3 : e = [firstBlock |-> e1, lastBlock |-> e2, asked |-> e3]
      BY <2>2, <2>3 DEF DataIs, EpochIs
    <3>2. PICK d1, d2, d3 : d = [firstBlock |-> d1, lastBlock |-> d2, asked |-> d3]
      BY <2>2, <2>3 DEF DataIs, EpochIs
    <3>3. merged = d
      BY <3>1, <3>2
    <3>. QED
      BY <2>1, <2>2, <3>3
  <2>4. CASE page.kind # "epoch"
    <3>1. PICK e1, e2, e3, e4, e5 :
            e = [block |-> e1, childSlot |-> e2, blockLeader |-> e3, childLeader |-> e4,
                 parentLeader |-> e5]
      BY <2>2, <2>4 DEF DataIs, BlockIs
    <3>2. PICK d1, d2, d3, d4, d5 :
            d = [block |-> d1, childSlot |-> d2, blockLeader |-> d3, childLeader |-> d4,
                 parentLeader |-> d5]
      BY <2>2, <2>4 DEF DataIs, BlockIs
    <3>3. merged = d
      BY <3>1, <3>2
    <3>. QED
      BY <2>1, <2>2, <3>3
  <2>. QED
    BY <2>3, <2>4
<1>. QED
  BY <1>1, <1>2

Updated(c, u, key, st, d) == Chain!defaultReducer(c, u, {key}, st, [k \in {key} |-> d])

LEMMA UpdatedIs ==
  ASSUME NEW c, CacheIs(c), NEW u, NEW key \in Epochs \cup Slots, NEW st,
         NEW d, d # None => DataIs(d, u, key)
  PROVE  CacheIs(Updated(c, u, key, st, d)) /\ Updated(c, u, key, st, d).url = c.url
<1> DEFINE Keys == Epochs \cup Slots
           updated == Updated(c, u, key, st, d)
           data == Chain!defaultReconciler(c.entries[key].data, d)
           new == [status |-> st, data |-> data]
           entries == [k \in Keys |-> IF k = key THEN new ELSE c.entries[k]]
<1>1. c = [url |-> c.url, entries |-> c.entries] /\ c.entries = [k \in Keys |-> c.entries[k]]
  BY DEF CacheIs
<1>2. CASE u # c.url
  <2>1. updated = c
    BY <1>2 DEF Updated, Chain!defaultReducer, Chain!UpdateAll
  <2>. QED
    BY <2>1
<1>3. CASE u = c.url
  <2>1. updated = [c EXCEPT !.entries =
           [k \in Keys |-> IF k \in {key}
                           THEN [status |-> st,
                                 data |-> [j \in {key} |->
                                             Chain!defaultReconciler(c.entries[j].data,
                                                                     [i \in {key} |-> d][j])][k]]
                           ELSE c.entries[k]]]
    BY <1>3 DEF Updated, Chain!defaultReducer, Chain!UpdateAll
  <2>2. [k \in Keys |-> IF k \in {key}
                        THEN [status |-> st,
                              data |-> [j \in {key} |->
                                          Chain!defaultReconciler(c.entries[j].data,
                                                                  [i \in {key} |-> d][j])][k]]
                        ELSE c.entries[k]] = entries
    OBVIOUS
  <2>3. updated = [url |-> c.url, entries |-> entries]
    <3>1. updated = [c EXCEPT !.entries = entries]
      BY <2>1, <2>2
    <3>2. PICK a, b : c = [url |-> a, entries |-> b]
      BY <1>1
    <3>3. c.url = a
      BY <3>2
    <3> HIDE DEF entries, updated
    <3>. QED
      BY <3>1, <3>2, <3>3
  <2> HIDE DEF updated
  <2>4. updated.url = c.url /\ updated.entries = entries
    BY <2>3
  <2>5. ASSUME NEW k \in Keys, entries[k].data # None
        PROVE  DataIs(entries[k].data, c.url, k)
    <3>1. CASE k = key
      <4>1. entries[k].data = data
        BY <3>1
      <4>2. c.entries[key].data # None => DataIs(c.entries[key].data, u, key)
        BY <1>3 DEF CacheIs
      <4>3. data # None => DataIs(data, u, key)
        BY <4>2, MergedIs
      <4>. QED
        BY <1>3, <2>5, <3>1, <4>1, <4>3
    <3>2. CASE k # key
      <4>1. entries[k] = c.entries[k]
        BY <3>2
      <4>. QED
        BY <2>5, <4>1 DEF CacheIs
    <3>. QED
      BY <3>1, <3>2
  <2>6. entries = [k \in Keys |-> entries[k]]
    OBVIOUS
  <2> HIDE DEF entries
  <2>. QED
    BY <2>3, <2>4, <2>5, <2>6 DEF CacheIs, updated
<1>. QED
  BY <1>2, <1>3

LEMMA ClearedIs ==
  ASSUME NEW u
  PROVE  CacheIs(Chain!Clear(u)) /\ Chain!Clear(u).url = u
<1> DEFINE c == Chain!Clear(u)
           entries == [k \in Epochs \cup Slots |-> Chain!Absent]
<1>1. c = [url |-> u, entries |-> entries]
  BY DEF Chain!Clear
<1> HIDE DEF c
<1>2. c.url = u /\ c.entries = entries
  BY <1>1
<1>3. \A k \in Epochs \cup Slots : c.entries[k].data = None
  BY <1>2 DEF Chain!Absent
<1>. QED
  BY <1>1, <1>2, <1>3 DEF CacheIs, c

-------------------------------------------------------------------------------
(* What is so stays so: the chain does not change, and a page remains of   *)
(* its kind.                                                               *)
SamePage == chains' = chains /\ page'.kind = page.kind

LEMMA DataStays ==
  ASSUME SamePage
  PROVE  \A d, u, k : DataIs(d, u, k)' <=> DataIs(d, u, k)
BY DEF SamePage, DataIs, EpochIs, BlockIs, After, Chain!blocksOf, Chain!parentOf

LEMMA CacheStays ==
  ASSUME SamePage
  PROVE  \A c : CacheIs(c)' <=> CacheIs(c)
BY DataStays, Zenon DEF CacheIs

LEMMA CallStays ==
  ASSUME SamePage, tip \in 0 .. MaxSlot, tip' \in 0 .. MaxSlot, tip <= tip'
  PROVE  /\ \A q : CallIs(q) => CallIs(q)'
         /\ \A u \in Url : \A e : Begun(u, e) => Begun(u, e)'
<1>1. \A u \in Url : \A e : Begun(u, e) => Begun(u, e)'
  <2> SUFFICES ASSUME NEW u \in Url, NEW e, Begun(u, e) PROVE Begun(u, e)'
    OBVIOUS
  <2>1. first(u, e) \in Nat
    <3>1. e \in 0 .. MaxSlot + 1
      BY SlotsAssumption DEF Begun
    <3>. QED
      BY <3>1, EpochsBegin
  <2>2. tip \in Nat /\ tip' \in Nat
    BY SlotsAssumption
  <2>3. first(u, e)' = first(u, e)
    BY DEF first, Chain!getFirstSlotInEpoch
  <2>. QED
    BY <2>1, <2>2, <2>3 DEF Begun
<1>2. \A q : EpochCall(q) => EpochCall(q)'
  BY <1>1 DEF EpochCall, SamePage, Chain!blocksOf
<1>3. \A q : BlockCall(q) => BlockCall(q)'
  BY DEF BlockCall, SamePage, After, Chain!parentOf
<1>. QED
  BY <1>1, <1>2, <1>3 DEF CallIs, SamePage

-------------------------------------------------------------------------------
LEMMA DepsAreThere ==
  ASSUME ChainInv
  PROVE  Chain!deps # None /\ Chain!deps.url = chainUrl
<1>1. CASE page.kind = "epoch"
  <2>1. Chain!deps = [page |-> page, url |-> chainUrl, status |-> chainStatus, epoch |-> clusterEpoch,
                      absent |-> Chain!entry = Chain!Absent]
    BY <1>1 DEF Chain!deps
  <2>2. Chain!deps \in [page : Chain!Pages, url : Url, status : Conn!ClusterStatus,
                        epoch : 0 .. MaxSlot \cup {None}, absent : BOOLEAN]
    BY <2>1 DEF ChainInv, ConnectionIs
  <2>. QED
    BY <2>1, <2>2, NoDepsAssumption
<1>2. CASE page.kind # "epoch"
  <2>1. Chain!deps = [page |-> page, url |-> chainUrl, status |-> chainStatus]
    BY <1>2 DEF Chain!deps
  <2>2. Chain!deps \in [page : Chain!Pages, url : Url, status : Conn!ClusterStatus]
    BY <2>1 DEF ChainInv, ConnectionIs
  <2>. QED
    BY <2>1, <2>2, NoDepsAssumption
<1>. QED
  BY <1>1, <1>2

LEMMA PageIs ==
  ASSUME ChainInv
  PROVE  /\ Chain!key \in Epochs \cup Slots
         /\ page.kind = "epoch" => Chain!key \in Epochs
         /\ page.kind # "epoch" => page.kind = "block" /\ Chain!key \in Slots
BY DEF ChainInv, Chain!Pages, Chain!key

(* A call is replaced by one that is so.                                   *)
LEMMA CallsChange ==
  ASSUME CallsAre, SamePage, tip \in 0 .. MaxSlot, tip' \in 0 .. MaxSlot, tip <= tip',
         NEW r \in Request, NEW q, CallIs(q),
         calls' = [s \in Request |-> IF s = r THEN q ELSE calls[s]]
  PROVE  CallsAre'
<1>1. \A x : CallIs(x) => CallIs(x)'
  BY CallStays
<1>2. \A s \in Request : CallIs(calls'[s])
  BY DEF CallsAre
<1>3. \A s \in Request : CallIs(calls[s])'
  BY <1>1, <1>2
<1>4. calls' = [s \in Request |-> calls'[s]]
  OBVIOUS
<1>. QED
  BY <1>3, <1>4 DEF CallsAre

(* A call that starts knows which epoch has begun.                         *)
LEMMA StartedCallIs ==
  ASSUME ChainInv, NEW r \in Request, Chain!start(r), UNCHANGED <<chains, page, tip>>,
         page.kind = "epoch" => chainStatus = "Connected" /\ Chain!key <= clusterEpoch
  PROVE  CallsAre'
<1> DEFINE q == calls'[r]
<1>1. CallsAre /\ SamePage /\ tip \in 0 .. MaxSlot /\ ConnectionIs
  BY DEF ChainInv, SamePage
<1>2. calls' = [s \in Request |-> IF s = r THEN q ELSE calls[s]]
  BY <1>1 DEF Chain!start, CallsAre
<1>4. CallIs(q)
  <2>1. CASE page.kind = "epoch"
    <3>1. q = [url |-> chainUrl, key |-> Chain!key, currentEpoch |-> clusterEpoch,
               waits |-> {"first", "last"}, firstBlock |-> None, lastBlock |-> None]
      BY <1>1, <2>1 DEF Chain!start, CallsAre
    <3>2. /\ q.url = chainUrl /\ q.key = Chain!key /\ q.currentEpoch = clusterEpoch
          /\ q.waits = {"first", "last"} /\ q.firstBlock = None /\ q.lastBlock = None
      BY <3>1
    <3>3. EpochCall(q)
      BY <1>1, <2>1, <3>1, <3>2, PageIs DEF EpochCall, ConnectionIs
    <3>. QED
      BY <2>1, <3>3 DEF CallIs
  <2>2. CASE page.kind # "epoch"
    <3>1. q = [url |-> chainUrl, key |-> Chain!key, waits |-> {"block"}, block |-> None,
               childSlot |-> None]
      BY <1>1, <2>2 DEF Chain!start, CallsAre
    <3>2. q.url = chainUrl /\ q.key = Chain!key /\ q.waits = {"block"} /\ q.block = None /\ q.childSlot = None
      BY <3>1
    <3>3. BlockCall(q)
      BY <1>1, <2>2, <3>1, <3>2, PageIs DEF BlockCall, ConnectionIs
    <3>. QED
      BY <2>2, <3>3, PageIs DEF CallIs
  <2>. QED
    BY <2>1, <2>2
<1>5. tip' \in 0 .. MaxSlot /\ tip <= tip'
  BY <1>1, SlotsAssumption
<1> HIDE DEF q
<1>. QED
  BY <1>1, <1>2, <1>4, <1>5, CallsChange

(* A step of a call alone: it goes on, or ends with what it tells.         *)
Waits == UNCHANGED <<Chain!connection, chains, tip, page, pageRan, Chain!bounds>>

LEMMA WaitsKeeps ==
  ASSUME ChainInv, Waits, CallsAre', CacheIs(cache)', cache'.url = cache.url
  PROVE  ChainInv'
<1>1. UNCHANGED <<chainUrl, chainStatus, clusterEpoch, chains, tip, page, pageRan>>
  BY DEF Waits, Chain!connection
<1>2. ConnectionIs'
  BY <1>1 DEF ChainInv, ConnectionIs, Begun
<1>. QED
  BY <1>1, <1>2 DEF ChainInv

LEMMA WaitsStays ==
  ASSUME ChainInv, Waits
  PROVE  /\ SamePage /\ tip \in 0 .. MaxSlot /\ tip' \in 0 .. MaxSlot /\ tip <= tip'
         /\ CallsAre /\ CacheIs(cache)
<1>1. UNCHANGED <<chains, tip, page>>
  BY DEF Waits
<1>. QED
  BY <1>1, SlotsAssumption DEF ChainInv, SamePage

LEMMA GoesOn ==
  ASSUME ChainInv, NEW r \in Request, NEW q, CallIs(q), Chain!Answered(r, q)
  PROVE  ChainInv'
<1>1. Waits /\ cache' = cache /\ calls' = [calls EXCEPT ![r] = q]
  BY DEF Chain!Answered, Waits, Chain!connection, Chain!bounds
<1>2. calls' = [s \in Request |-> IF s = r THEN q ELSE calls[s]]
  BY <1>1 DEF ChainInv, CallsAre
<1>3. CallsAre'
  BY <1>1, <1>2, WaitsStays, CallsChange
<1>4. \A c : CacheIs(c)' <=> CacheIs(c)
  BY <1>1, WaitsStays, CacheStays
<1>5. CacheIs(cache)'
  BY <1>1, <1>4, WaitsStays
<1>. QED
  BY <1>1, <1>3, <1>5, WaitsKeeps

LEMMA Ends ==
  ASSUME ChainInv, NEW r \in Request, calls[r].key \in Epochs \cup Slots,
         NEW st, NEW d, d # None => DataIs(d, calls[r].url, calls[r].key),
         Chain!Dispatch(calls[r], st, d), calls' = [calls EXCEPT ![r] = Chain!Idle], Waits
  PROVE  ChainInv'
<1>1. calls' = [s \in Request |-> IF s = r THEN Chain!Idle ELSE calls[s]]
  BY DEF ChainInv, CallsAre
<1>2. CallIs(Chain!Idle)
  BY DEF CallIs
<1>3. CallsAre'
  BY <1>1, <1>2, WaitsStays, CallsChange
<1> DEFINE next == Updated(cache, calls[r].url, calls[r].key, st, d)
<1>4. cache' = next
  BY DEF Chain!Dispatch, Updated
<1>5. CacheIs(next) /\ next.url = cache.url
  BY WaitsStays, UpdatedIs
<1> HIDE DEF next
<1>6. CacheIs(cache)' /\ cache'.url = cache.url
  <2>1. \A c : CacheIs(c)' <=> CacheIs(c)
    BY WaitsStays, CacheStays
  <2>2. CacheIs(cache')
    BY <1>4, <1>5
  <2>. QED
    BY <1>4, <1>5, <2>1, <2>2
<1>. QED
  BY <1>3, <1>6, WaitsKeeps

-------------------------------------------------------------------------------
(* The answers to an epoch. *)
LEMMA EpochCallIs ==
  ASSUME ChainInv, NEW r \in Request, Chain!Running(r), calls[r].waits \cap {"first", "last"} # {}
  PROVE  page.kind = "epoch" /\ EpochCall(calls[r])
BY DEF ChainInv, CallsAre, CallIs, BlockCall, Chain!Running

LEMMA FirstStep ==
  ASSUME ChainInv, NEW r \in Request, Chain!FirstAnswered(r)
  PROVE  ChainInv'
<1> DEFINE q == calls[r]
           slot == first(q.url, q.key)
           found == Chain!First(Chain!Confirmed(q.url, slot, slot + Window))
           next == [q EXCEPT !.waits = @ \ {"first"}, !.firstBlock = found]
<1>1. Chain!Running(r) /\ "first" \in q.waits /\ Chain!Answered(r, next)
  BY DEF Chain!FirstAnswered, first
<1>2. page.kind = "epoch" /\ EpochCall(q)
  BY <1>1, EpochCallIs
<1>3. found # None => found = Chain!Min(Chain!blocksOf(q.url, q.key))
  BY <1>2, FirstIsFirst DEF EpochCall, ChainInv
<1> HIDE DEF found
<1>4. next = [url |-> q.url, key |-> q.key, currentEpoch |-> q.currentEpoch,
              waits |-> q.waits \ {"first"}, firstBlock |-> found, lastBlock |-> q.lastBlock]
  <2>1. PICK a, b, c, d, e, f :
          q = [url |-> a, key |-> b, currentEpoch |-> c, waits |-> d, firstBlock |-> e, lastBlock |-> f]
    BY <1>2 DEF EpochCall
  <2>2. q.url = a /\ q.key = b /\ q.currentEpoch = c /\ q.waits = d /\ q.lastBlock = f
    BY <2>1
  <2> HIDE DEF q
  <2> DEFINE half == [q EXCEPT !.waits = d \ {"first"}]
  <2>3. half = [url |-> a, key |-> b, currentEpoch |-> c, waits |-> d \ {"first"},
                firstBlock |-> e, lastBlock |-> f]
    BY <2>1
  <2>4. next = [half EXCEPT !.firstBlock = found]
    BY <2>2
  <2> HIDE DEF half, next
  <2>5. next = [url |-> a, key |-> b, currentEpoch |-> c, waits |-> d \ {"first"},
                firstBlock |-> found, lastBlock |-> f]
    BY <2>3, <2>4
  <2>. QED
    BY <2>2, <2>5
<1> HIDE DEF next
<1>5. /\ next.url = q.url /\ next.key = q.key /\ next.currentEpoch = q.currentEpoch
      /\ next.waits = q.waits \ {"first"} /\ next.firstBlock = found /\ next.lastBlock = q.lastBlock
  BY <1>4
<1>6. EpochCall(next)
  BY <1>2, <1>3, <1>4, <1>5 DEF EpochCall
<1>7. CallIs(next)
  BY <1>2, <1>6 DEF CallIs
<1>. QED
  BY <1>1, <1>7, GoesOn

LEMMA LastStep ==
  ASSUME ChainInv, NEW r \in Request, Chain!LastAnswered(r)
  PROVE  ChainInv'
<1> DEFINE q == calls[r]
           slot == Chain!getLastSlotInEpoch(Schedule[q.url], q.key)
           from == Chain!Max({0, slot - Window})
           found == Chain!Last(Chain!Confirmed(q.url, from, slot))
           next == [q EXCEPT !.waits = @ \ {"last"}, !.lastBlock = found]
<1>1. Chain!Running(r) /\ "last" \in q.waits /\ Chain!Answered(r, next)
  BY DEF Chain!LastAnswered
<1>2. page.kind = "epoch" /\ EpochCall(q)
  BY <1>1, EpochCallIs
<1>3. slot = first(q.url, q.key + 1) - 1
  BY DEF Chain!getLastSlotInEpoch, first
<1>4. from \in Int
  <2>1. q.key + 1 \in 0 .. MaxSlot + 1
    <3>1. q.key \in 0 .. MaxSlot /\ MaxSlot \in Nat
      BY <1>2, SlotsAssumption DEF EpochCall
    <3> HIDE DEF q
    <3>. QED
      BY <3>1
  <2>2. slot \in Int
    BY <1>2, <1>3, <2>1, EpochsBegin DEF EpochCall
  <2> HIDE DEF slot
  <2>3. 0 \in Int /\ slot - Window \in Int
    BY <2>2, SlotsAssumption
  <2>. QED
    BY <2>3, MaxOfTwo
<1> HIDE DEF from
<1>5. found # None /\ q.key < q.currentEpoch => found = Chain!Max(Chain!blocksOf(q.url, q.key))
  BY <1>2, <1>3, <1>4, LastIsLast DEF EpochCall, ChainInv
<1> HIDE DEF found, slot
<1>6. next = [url |-> q.url, key |-> q.key, currentEpoch |-> q.currentEpoch,
              waits |-> q.waits \ {"last"}, firstBlock |-> q.firstBlock, lastBlock |-> found]
  <2>1. PICK a, b, c, d, e, f :
          q = [url |-> a, key |-> b, currentEpoch |-> c, waits |-> d, firstBlock |-> e, lastBlock |-> f]
    BY <1>2 DEF EpochCall
  <2>2. q.url = a /\ q.key = b /\ q.currentEpoch = c /\ q.waits = d /\ q.firstBlock = e
    BY <2>1
  <2> HIDE DEF q
  <2> DEFINE half == [q EXCEPT !.waits = d \ {"last"}]
  <2>3. half = [url |-> a, key |-> b, currentEpoch |-> c, waits |-> d \ {"last"},
                firstBlock |-> e, lastBlock |-> f]
    BY <2>1
  <2>4. next = [half EXCEPT !.lastBlock = found]
    BY <2>2
  <2> HIDE DEF half, next
  <2>5. next = [url |-> a, key |-> b, currentEpoch |-> c, waits |-> d \ {"last"},
                firstBlock |-> e, lastBlock |-> found]
    BY <2>3, <2>4
  <2>. QED
    BY <2>2, <2>5
<1> HIDE DEF next
<1>7. /\ next.url = q.url /\ next.key = q.key /\ next.currentEpoch = q.currentEpoch
      /\ next.waits = q.waits \ {"last"} /\ next.firstBlock = q.firstBlock /\ next.lastBlock = found
  BY <1>6
<1>8. EpochCall(next)
  BY <1>2, <1>5, <1>6, <1>7 DEF EpochCall
<1>9. CallIs(next)
  BY <1>2, <1>8 DEF CallIs
<1>. QED
  BY <1>1, <1>9, GoesOn

LEMMA FinishEpochStep ==
  ASSUME ChainInv, NEW r \in Request, Chain!FinishEpoch(r)
  PROVE  ChainInv'
<1> DEFINE q == calls[r]
           d == [firstBlock |-> q.firstBlock, lastBlock |-> q.lastBlock, asked |-> q.currentEpoch]
           fails == q.firstBlock = None \/ (q.key < q.currentEpoch /\ q.lastBlock = None)
<1>1. /\ Chain!Running(r) /\ page.kind = "epoch"
      /\ IF fails THEN Chain!Dispatch(q, "FetchFailed", None) ELSE Chain!Dispatch(q, "Fetched", d)
      /\ calls' = [calls EXCEPT ![r] = Chain!Idle] /\ Waits
  BY DEF Chain!FinishEpoch, Waits, Chain!connection, Chain!bounds
<1>2. EpochCall(q) /\ q.key \in Epochs \cup Slots
  BY <1>1 DEF ChainInv, CallsAre, CallIs, EpochCall, Chain!Running
<1>3. CASE fails
  BY <1>1, <1>2, <1>3, Ends
<1>4. CASE ~fails
  <2>1. d.firstBlock = q.firstBlock /\ d.lastBlock = q.lastBlock /\ d.asked = q.currentEpoch
    OBVIOUS
  <2>2. EpochIs(d, q.url, q.key)
    BY <1>2, <1>4, <2>1 DEF EpochIs, EpochCall
  <2> HIDE DEF d
  <2>3. DataIs(d, q.url, q.key)
    BY <1>1, <2>2 DEF DataIs
  <2>. QED
    BY <1>1, <1>2, <1>4, <2>3, Ends
<1>. QED
  BY <1>3, <1>4

-------------------------------------------------------------------------------
(* The answers to a block. *)
LEMMA BlockCallIs ==
  ASSUME ChainInv, NEW r \in Request, Chain!Running(r),
         calls[r].waits \cap {"block", "child", "leaders"} # {}
  PROVE  page.kind = "block" /\ BlockCall(calls[r])
BY DEF ChainInv, CallsAre, CallIs, EpochCall, Chain!Running

LEMMA BlockStep ==
  ASSUME ChainInv, NEW r \in Request, Chain!BlockAnswered(r)
  PROVE  ChainInv'
<1> DEFINE q == calls[r]
           parent == [parentSlot |-> Chain!parentOf(q.url, q.key)]
           next == [q EXCEPT !.waits = {"child"}, !.block = parent]
<1>1. Chain!Running(r) /\ "block" \in q.waits
  BY DEF Chain!BlockAnswered
<1>2. page.kind = "block" /\ BlockCall(q) /\ q.key \in Epochs \cup Slots
  BY <1>1, BlockCallIs DEF BlockCall
<1>3. CASE Chain!Confirmed(q.url, q.key, q.key) = {}
  <2>1. /\ Chain!Dispatch(q, "Fetched", Chain!NotFound)
        /\ calls' = [calls EXCEPT ![r] = Chain!Idle] /\ Waits
    BY <1>3 DEF Chain!BlockAnswered, Waits, Chain!connection, Chain!bounds
  <2>2. Chain!NotFound = [block |-> None, childSlot |-> None, blockLeader |-> None,
                          childLeader |-> None, parentLeader |-> None]
    BY DEF Chain!NotFound
  <2>3. /\ Chain!NotFound.block = None /\ Chain!NotFound.childSlot = None
        /\ Chain!NotFound.blockLeader = None /\ Chain!NotFound.childLeader = None
        /\ Chain!NotFound.parentLeader = None
    BY <2>2
  <2>4. DataIs(Chain!NotFound, q.url, q.key)
    BY <1>2, <2>2, <2>3 DEF DataIs, BlockIs
  <2>. QED
    BY <1>2, <2>1, <2>4, Ends
<1>4. CASE Chain!Confirmed(q.url, q.key, q.key) # {}
  <2>1. Chain!Answered(r, next)
    BY <1>4 DEF Chain!BlockAnswered
  <2>2. next = [url |-> q.url, key |-> q.key, waits |-> {"child"}, block |-> parent,
                childSlot |-> q.childSlot]
    <3>1. PICK a, b, c, d, e : q = [url |-> a, key |-> b, waits |-> c, block |-> d, childSlot |-> e]
      BY <1>2 DEF BlockCall
    <3>2. q.url = a /\ q.key = b /\ q.childSlot = e
      BY <3>1
    <3> HIDE DEF q, parent
    <3> DEFINE half == [q EXCEPT !.waits = {"child"}]
    <3>3. half = [url |-> a, key |-> b, waits |-> {"child"}, block |-> d, childSlot |-> e]
      BY <3>1
    <3>4. next = [half EXCEPT !.block = parent]
      OBVIOUS
    <3> HIDE DEF half, next
    <3>5. next = [url |-> a, key |-> b, waits |-> {"child"}, block |-> parent, childSlot |-> e]
      BY <3>3, <3>4
    <3>. QED
      BY <3>2, <3>5
  <2> HIDE DEF next
  <2>3. /\ next.url = q.url /\ next.key = q.key /\ next.waits = {"child"} /\ next.block = parent
        /\ next.childSlot = q.childSlot
    BY <2>2
  <2>4. BlockCall(next)
    BY <1>2, <2>2, <2>3 DEF BlockCall
  <2>5. CallIs(next)
    BY <1>2, <2>4 DEF CallIs
  <2>. QED
    BY <2>1, <2>5, GoesOn
<1>. QED
  BY <1>3, <1>4

LEMMA ChildStep ==
  ASSUME ChainInv, NEW r \in Request, Chain!ChildAnswered(r)
  PROVE  ChainInv'
<1> DEFINE q == calls[r]
           found == Chain!First(Chain!Confirmed(q.url, q.key + 1, q.key + Window))
           next == [q EXCEPT !.waits = {"leaders"}, !.childSlot = found]
<1>1. Chain!Running(r) /\ "child" \in q.waits /\ Chain!Answered(r, next)
  BY DEF Chain!ChildAnswered
<1>2. page.kind = "block" /\ BlockCall(q)
  BY <1>1, BlockCallIs
<1>3. found # None => found \in After(q.url, q.key) /\ found = Chain!Min(After(q.url, q.key))
  BY <1>2, ChildIsNext DEF BlockCall, ChainInv
<1> HIDE DEF found
<1>4. next = [url |-> q.url, key |-> q.key, waits |-> {"leaders"}, block |-> q.block,
              childSlot |-> found]
  <2>1. PICK a, b, c, d, e : q = [url |-> a, key |-> b, waits |-> c, block |-> d, childSlot |-> e]
    BY <1>2 DEF BlockCall
  <2>2. q.url = a /\ q.key = b /\ q.block = d
    BY <2>1
  <2> HIDE DEF q
  <2> DEFINE half == [q EXCEPT !.waits = {"leaders"}]
  <2>3. half = [url |-> a, key |-> b, waits |-> {"leaders"}, block |-> d, childSlot |-> e]
    BY <2>1
  <2>4. next = [half EXCEPT !.childSlot = found]
    OBVIOUS
  <2> HIDE DEF half, next
  <2>5. next = [url |-> a, key |-> b, waits |-> {"leaders"}, block |-> d, childSlot |-> found]
    BY <2>3, <2>4
  <2>. QED
    BY <2>2, <2>5
<1> HIDE DEF next
<1>5. /\ next.url = q.url /\ next.key = q.key /\ next.waits = {"leaders"} /\ next.block = q.block
      /\ next.childSlot = found
  BY <1>4
<1>6. BlockCall(next)
  BY <1>1, <1>2, <1>3, <1>4, <1>5 DEF BlockCall
<1>7. CallIs(next)
  BY <1>2, <1>6 DEF CallIs
<1>. QED
  BY <1>1, <1>7, GoesOn

(* The leaders are asked for from the parent to the child, or to the block *)
(* itself while it is the last.                                            *)
LEMMA LeadersStep ==
  ASSUME ChainInv, NEW r \in Request, Chain!LeadersAnswered(r)
  PROVE  ChainInv'
<1> DEFINE q == calls[r]
           parent == q.block.parentSlot
           last == IF q.childSlot # None THEN q.childSlot ELSE q.key
           range == parent .. (parent + Chain!slotLeadersLimit(parent, last) - 1)
           leader(leaders, slot) == IF slot \in leaders THEN Chain!LeaderOf(q.url, slot) ELSE None
           data(leaders) ==
             [block |-> q.block, childSlot |-> q.childSlot, blockLeader |-> leader(leaders, q.key),
              childLeader |-> IF q.childSlot # None THEN leader(leaders, q.childSlot) ELSE None,
              parentLeader |-> leader(leaders, parent)]
<1>1. /\ Chain!Running(r) /\ "leaders" \in q.waits
      /\ \E leaders \in {{}, range} : Chain!Dispatch(q, "Fetched", data(leaders))
      /\ calls' = [calls EXCEPT ![r] = Chain!Idle] /\ Waits
  BY DEF Chain!LeadersAnswered, Waits, Chain!connection, Chain!bounds
<1>2. page.kind = "block" /\ BlockCall(q) /\ q.key \in Epochs \cup Slots
  BY <1>1, BlockCallIs DEF BlockCall
<1>3. PICK leaders \in {{}, range} : Chain!Dispatch(q, "Fetched", data(leaders))
  BY <1>1
<1>4. parent = Chain!parentOf(q.url, q.key)
  BY <1>1, <1>2 DEF BlockCall
<1>5. parent \in 0 .. q.key /\ q.key \in Nat
  <2>1. q.url \in Url /\ q.key \in Slots
    BY <1>2 DEF BlockCall
  <2>2. chains \in Chains
    BY DEF ChainInv
  <2>3. Chain!parentOf(q.url, q.key) \in 0 .. q.key
    BY <2>1, <2>2, ParentIsBefore
  <2>4. q.key \in 0 .. MaxSlot /\ MaxSlot \in Nat
    BY <2>1, SlotsAssumption
  <2>5. q.key \in Nat
    <3> HIDE DEF q
    <3>. QED
      BY <2>4
  <2> HIDE DEF q, parent
  <2>. QED
    BY <1>4, <2>3, <2>5
<1>6. /\ q.childSlot # None => /\ q.childSlot = Chain!Min(After(q.url, q.key))
                               /\ q.childSlot \in Nat /\ q.childSlot > q.key
  <2>1. chains[q.url] \subseteq 0 .. MaxSlot
    BY <1>2, ChainHas DEF BlockCall, ChainInv
  <2>2. \A slot \in 0 .. MaxSlot : slot \in Nat
    BY SlotsAssumption
  <2>. QED
    BY <1>2, <2>1, <2>2 DEF BlockCall, After
<1>7. last \in Nat /\ parent \in Nat /\ parent <= q.key /\ q.key <= last
  BY <1>5, <1>6
<1>8. range = parent .. last
  <2>1. Chain!slotLeadersLimit(parent, last) = last - parent + 1
    BY DEF Chain!slotLeadersLimit
  <2> HIDE DEF last, parent
  <2>. QED
    BY <1>7, <2>1
<1>9. ASSUME q.key \in leaders
      PROVE  parent \in leaders /\ (q.childSlot # None => q.childSlot \in leaders)
  <2>1. leaders = parent .. last
    BY <1>3, <1>8, <1>9
  <2>2. q.childSlot # None => last = q.childSlot
    OBVIOUS
  <2>3. parent \in parent .. last /\ last \in parent .. last
    <3> HIDE DEF last, parent, q
    <3>. QED
      BY <1>5, <1>7
  <2> HIDE DEF last, parent, q
  <2>. QED
    BY <2>1, <2>2, <2>3
<1> DEFINE d == data(leaders)
<1>10. /\ d.block = q.block /\ d.childSlot = q.childSlot /\ d.blockLeader = leader(leaders, q.key)
       /\ d.childLeader = (IF q.childSlot # None THEN leader(leaders, q.childSlot) ELSE None)
       /\ d.parentLeader = leader(leaders, parent)
       /\ d = [block |-> d.block, childSlot |-> d.childSlot, blockLeader |-> d.blockLeader,
               childLeader |-> d.childLeader, parentLeader |-> d.parentLeader]
  OBVIOUS
<1> HIDE DEF d
<1>11. d.blockLeader \in {None, Chain!LeaderOf(q.url, q.key)}
  BY <1>10
<1>12. ASSUME d.blockLeader # None
       PROVE  /\ d.parentLeader = Chain!LeaderOf(q.url, parent)
              /\ d.childSlot # None => d.childLeader = Chain!LeaderOf(q.url, d.childSlot)
  BY <1>9, <1>10, <1>12
<1>13. BlockIs(d, q.url, q.key)
  BY <1>4, <1>6, <1>10, <1>11, <1>12 DEF BlockIs
<1>14. DataIs(d, q.url, q.key)
  BY <1>2, <1>13 DEF DataIs
<1>15. Chain!Dispatch(q, "Fetched", d)
  BY <1>3 DEF d
<1>. QED
  BY <1>1, <1>2, <1>14, <1>15, Ends

LEMMA FailStep ==
  ASSUME ChainInv, NEW r \in Request, Chain!Fail(r)
  PROVE  ChainInv'
<1>1. /\ Chain!Running(r) /\ Chain!Dispatch(calls[r], "FetchFailed", None)
      /\ calls' = [calls EXCEPT ![r] = Chain!Idle] /\ Waits
  BY DEF Chain!Fail, Waits, Chain!connection, Chain!bounds
<1>2. calls[r].key \in Epochs \cup Slots
  BY <1>1 DEF ChainInv, CallsAre, CallIs, EpochCall, BlockCall, Chain!Running
<1>. QED
  BY <1>1, <1>2, Ends

-------------------------------------------------------------------------------
(* The steps of the chain, of the connection and of the user.              *)
LEMMA ConfirmStep ==
  ASSUME ChainInv, Chain!Confirm
  PROVE  ChainInv'
<1>1. /\ tip' = tip + 1 /\ tip < MaxSlot
      /\ UNCHANGED <<chainUrl, chainStatus, clusterEpoch, chains, page, cache, calls, pageRan>>
  BY DEF Chain!Confirm, Chain!connection
<1>2. SamePage /\ tip \in 0 .. MaxSlot
  BY <1>1 DEF ChainInv, SamePage
<1>3. tip' \in 0 .. MaxSlot /\ tip <= tip'
  BY <1>1, <1>2, SlotsAssumption
<1>4. /\ \A q : CallIs(q) => CallIs(q)'
      /\ \A u \in Url : \A e : Begun(u, e) => Begun(u, e)'
      /\ \A c : CacheIs(c)' <=> CacheIs(c)
  BY <1>2, <1>3, CallStays, CacheStays
<1>5. CallsAre'
  BY <1>1, <1>4 DEF ChainInv, CallsAre
<1>6. CacheIs(cache)'
  BY <1>1, <1>4 DEF ChainInv
<1>7. ConnectionIs'
  <2>1. ConnectionIs
    BY DEF ChainInv
  <2>2. \A e : Begun(chainUrl, e) => e \in 0 .. MaxSlot /\ first(chainUrl, e) <= tip'
    <3>1. SUFFICES ASSUME NEW e, Begun(chainUrl, e) PROVE first(chainUrl, e) <= tip'
      BY DEF Begun
    <3>2. first(chainUrl, e) \in Nat
      <4>1. e \in 0 .. MaxSlot + 1 /\ chainUrl \in Url
        BY <2>1, <3>1, SlotsAssumption DEF ConnectionIs, Begun
      <4>. QED
        BY <4>1, EpochsBegin
    <3>3. tip \in Nat /\ tip' \in Nat
      BY <1>2, <1>3, SlotsAssumption
    <3>. QED
      BY <1>3, <3>1, <3>2, <3>3 DEF Begun
  <2>3. chainStatus = "Connected" => first(chainUrl, clusterEpoch) <= tip' /\ clusterEpoch \in 0 .. MaxSlot
    BY <2>1, <2>2 DEF ConnectionIs
  <2>. QED
    BY <1>1, <2>1, <2>3 DEF ConnectionIs, Begun
<1>. QED
  BY <1>1, <1>3, <1>5, <1>6, <1>7 DEF ChainInv

(* The calls and the cache are as they were.                               *)
LEMMA RestStays ==
  ASSUME ChainInv, chains' = chains, tip' = tip, page'.kind = page.kind, page' \in Chain!Pages,
         UNCHANGED <<cache, calls, pageRan>>, ConnectionIs'
  PROVE  ChainInv'
<1>1. SamePage /\ tip \in 0 .. MaxSlot /\ tip' \in 0 .. MaxSlot /\ tip <= tip'
  BY SlotsAssumption DEF ChainInv, SamePage
<1>2. (\A q : CallIs(q) => CallIs(q)') /\ (\A c : CacheIs(c)' <=> CacheIs(c))
  BY <1>1, CallStays, CacheStays
<1>3. CallsAre'
  BY <1>2 DEF ChainInv, CallsAre
<1>4. CacheIs(cache)'
  BY <1>2 DEF ChainInv
<1>. QED
  BY <1>1, <1>3, <1>4 DEF ChainInv

LEMMA EpochOfTipBegan ==
  ASSUME NEW u \in Url, tip \in 0 .. MaxSlot
  PROVE  Begun(u, epochAt(u, tip))
<1> DEFINE e == epochAt(u, tip)
<1>1. e \in 0 .. MaxSlot
  <2>1. 0 \in 0 .. MaxSlot + 1
    BY SlotsAssumption
  <2>. QED
    BY <2>1, EpochsBegin
<1>2. e \in 0 .. MaxSlot + 1 /\ e <= e
  BY <1>1, SlotsAssumption
<1>3. first(u, e) <= tip
  BY <1>2, EpochsBegin
<1>. QED
  BY <1>1, <1>3 DEF Begun

LEMMA SwitchStep ==
  ASSUME ChainInv, NEW u \in Url, Chain!Switch(u)
  PROVE  ChainInv'
<1>1. /\ chainUrl' = u /\ chainStatus' = "Connecting" /\ clusterEpoch' = None
      /\ UNCHANGED <<chains, tip, page, cache, calls, pageRan>>
  BY DEF Chain!Switch
<1>2. ConnectionIs'
  BY <1>1 DEF ConnectionIs, Conn!ClusterStatus
<1>. QED
  BY <1>1, <1>2, RestStays DEF ChainInv

LEMMA SettleStep ==
  ASSUME ChainInv, NEW s \in {"Connected", "Failure"}, Chain!Settle(s)
  PROVE  ChainInv'
<1>1. /\ chainStatus' = s
      /\ clusterEpoch' = IF s = "Connected" THEN epochAt(chainUrl, tip) ELSE None
      /\ UNCHANGED <<chainUrl, chains, tip, page, cache, calls, pageRan>>
  BY DEF Chain!Settle, epochAt
<1>2. chainUrl \in Url /\ tip \in 0 .. MaxSlot
  BY DEF ChainInv, ConnectionIs
<1>3. Begun(chainUrl, epochAt(chainUrl, tip))
  BY <1>2, EpochOfTipBegan
<1>4. ConnectionIs'
  BY <1>1, <1>2, <1>3 DEF ConnectionIs, Begun, Conn!ClusterStatus
<1>. QED
  BY <1>1, <1>4, RestStays DEF ChainInv

LEMMA NavigateStep ==
  ASSUME ChainInv, NEW k, Chain!Navigate(k)
  PROVE  ChainInv'
<1>1. /\ page' = [page EXCEPT !.key = k] /\ page' \in Chain!Pages
      /\ UNCHANGED <<chainUrl, chainStatus, clusterEpoch, chains, tip, cache, calls, pageRan>>
  BY DEF Chain!Navigate, Chain!connection
<1>2. page'.kind = page.kind
  BY <1>1 DEF ChainInv, Chain!Pages
<1>3. ConnectionIs'
  BY <1>1 DEF ChainInv, ConnectionIs, Begun
<1>. QED
  BY <1>1, <1>2, <1>3, RestStays

(* An effect that does not clear the cache has run with the cluster of the *)
(* cache, which is the one it asks.                                        *)
LEMMA EffectsStep ==
  ASSUME ChainInv, Chain!Effects
  PROVE  ChainInv'
<1> DEFINE clears == IF pageRan = None THEN TRUE ELSE pageRan.url # chainUrl
           fetched == IF Chain!fetches THEN Chain!Fetching(cache) ELSE cache
           asked == Updated(cache, chainUrl, Chain!key, "Fetching", None)
<1>1. /\ IF Chain!fetches
         THEN \E r \in Request : ~Chain!Running(r) /\ Chain!start(r)
         ELSE UNCHANGED calls
      /\ cache' = IF clears THEN Chain!Clear(chainUrl) ELSE fetched
      /\ pageRan' = [Chain!deps EXCEPT !.page = page]
      /\ UNCHANGED <<chainUrl, chainStatus, clusterEpoch, chains, tip, page>>
  BY DEF Chain!Effects, Chain!connection
<1>2. SamePage /\ tip \in 0 .. MaxSlot /\ tip' \in 0 .. MaxSlot /\ tip <= tip'
  BY <1>1, SlotsAssumption DEF ChainInv, SamePage
<1>3. CallsAre'
  <2>1. CASE Chain!fetches
    <3>1. page.kind = "epoch" => chainStatus = "Connected" /\ Chain!key <= clusterEpoch
      BY <2>1 DEF Chain!fetches
    <3>2. PICK r \in Request : Chain!start(r)
      BY <1>1, <2>1
    <3>. QED
      BY <1>1, <3>1, <3>2, StartedCallIs
  <2>2. CASE ~Chain!fetches
    <3>1. calls' = calls
      BY <1>1, <2>2
    <3>2. \A q : CallIs(q) => CallIs(q)'
      BY <1>2, CallStays
    <3>. QED
      BY <3>1, <3>2 DEF ChainInv, CallsAre
  <2>. QED
    BY <2>1, <2>2
<1>4. CacheIs(cache') /\ cache'.url = chainUrl
  <2>1. CASE clears
    BY <1>1, <2>1, ClearedIs
  <2>2. CASE ~clears
    <3>1. CacheIs(cache) /\ cache.url = chainUrl
      BY <2>2 DEF ChainInv
    <3>2. Chain!Fetching(cache) = asked
      BY DEF Chain!Fetching, Updated
    <3>3. CacheIs(asked) /\ asked.url = cache.url
      BY <3>1, PageIs, UpdatedIs
    <3>. QED
      BY <1>1, <2>2, <3>1, <3>2, <3>3, Zenon
  <2>. QED
    BY <2>1, <2>2
<1>5. CacheIs(cache)'
  <2>1. \A c : CacheIs(c)' <=> CacheIs(c)
    BY <1>2, CacheStays
  <2>. QED
    BY <1>4, <2>1
<1>6. pageRan'.url = chainUrl
  <2>1. CASE page.kind = "epoch"
    BY <1>1, <2>1 DEF Chain!deps
  <2>2. CASE page.kind # "epoch"
    BY <1>1, <2>2 DEF Chain!deps
  <2>. QED
    BY <2>1, <2>2
<1>7. ConnectionIs'
  BY <1>1 DEF ChainInv, ConnectionIs, Begun
<1>. QED
  BY <1>1, <1>2, <1>3, <1>4, <1>5, <1>6, <1>7 DEF ChainInv

LEMMA RetryStep ==
  ASSUME ChainInv, Chain!Retry
  PROVE  ChainInv'
<1> DEFINE asked == Updated(cache, chainUrl, Chain!key, "Fetching", None)
<1>1. /\ page.kind = "block" /\ \E r \in Request : Chain!start(r)
      /\ cache' = Chain!Fetching(cache)
      /\ UNCHANGED <<chainUrl, chainStatus, clusterEpoch, chains, tip, page, pageRan>>
  BY DEF Chain!Retry, Chain!connection
<1>2. SamePage /\ tip \in 0 .. MaxSlot
  BY <1>1 DEF ChainInv, SamePage
<1>3. PICK r \in Request : Chain!start(r)
  BY <1>1
<1>4. CallsAre'
  <2>1. ~ (page.kind = "epoch")
    BY <1>1
  <2>. QED
    BY <1>1, <1>3, <2>1, StartedCallIs
<1>5. cache' = asked
  BY <1>1 DEF Chain!Fetching, Updated
<1>6. CacheIs(asked) /\ asked.url = cache.url
  BY PageIs, UpdatedIs DEF ChainInv
<1> HIDE DEF asked
<1>7. CacheIs(cache)' /\ cache'.url = cache.url
  <2>1. \A c : CacheIs(c)' <=> CacheIs(c)
    BY <1>2, CacheStays
  <2>. QED
    BY <1>5, <1>6, <2>1
<1>8. ConnectionIs'
  BY <1>1 DEF ChainInv, ConnectionIs, Begun
<1>. QED
  BY <1>1, <1>2, <1>4, <1>7, <1>8 DEF ChainInv

-------------------------------------------------------------------------------
(* No call runs and the cache is clear.                                    *)
LEMMA StartsSo ==
  ASSUME ConnectionIs, chains \in Chains, tip \in 0 .. MaxSlot, page \in Chain!Pages,
         cache = Chain!Clear(chainUrl), calls = [r \in Request |-> Chain!Idle],
         pageRan # None => pageRan.url = chainUrl
  PROVE  ChainInv
<1>1. CallsAre
  BY DEF CallsAre, CallIs
<1>2. CacheIs(cache) /\ cache.url = chainUrl
  BY ClearedIs
<1>. QED
  BY <1>1, <1>2 DEF ChainInv

LEMMA ChainInvInit == PagesInit => ChainInv
<1>1. ASSUME Chain!Init PROVE ChainInv
  <2>1. /\ chainUrl \in Url /\ chainStatus \in {"Connecting", "Connected"} /\ chains \in Chains
        /\ tip \in (MaxSlot - MaxGrowth) .. MaxSlot
        /\ clusterEpoch = IF chainStatus = "Connected" THEN epochAt(chainUrl, tip) ELSE None
        /\ page \in Chain!Pages /\ cache = Chain!Clear(chainUrl)
        /\ calls = [r \in Request |-> Chain!Idle] /\ pageRan = None
    BY <1>1 DEF Chain!Init, epochAt
  <2>2. tip \in 0 .. MaxSlot
    BY <2>1, SlotsAssumption
  <2>3. Begun(chainUrl, epochAt(chainUrl, tip))
    BY <2>1, <2>2, EpochOfTipBegan
  <2>4. ConnectionIs
    BY <2>1, <2>3 DEF ConnectionIs, Begun, Conn!ClusterStatus
  <2>. QED
    BY <2>1, <2>2, <2>4, StartsSo
<1>2. ASSUME NoChain PROVE ChainInv
  <2>1. /\ chainUrl = FirstUrl /\ chainStatus = "Failure" /\ clusterEpoch = None
        /\ chains \in Chains /\ tip = 0 /\ cache = Chain!Clear(chainUrl)
        /\ page = [kind |-> "block", key |-> CHOOSE slot \in Slots : TRUE]
        /\ calls = [r \in Request |-> Chain!Idle] /\ pageRan = Chain!deps
    BY <1>2 DEF NoChain
  <2>2. FirstUrl \in Url
    BY SlotsAssumption, Zenon DEF FirstUrl
  <2>3. (CHOOSE slot \in Slots : TRUE) \in Slots
    BY SlotsAssumption, Zenon
  <2>4. page \in Chain!Pages /\ page.kind = "block"
    BY <2>1, <2>3 DEF Chain!Pages
  <2>5. tip \in 0 .. MaxSlot
    BY <2>1, SlotsAssumption
  <2>6. ConnectionIs
    BY <2>1, <2>2 DEF ConnectionIs, Conn!ClusterStatus
  <2>7. Chain!deps.url = chainUrl
    BY <2>4 DEF Chain!deps
  <2>. QED
    BY <2>1, <2>4, <2>5, <2>6, <2>7, StartsSo
<1>. QED
  BY <1>1, <1>2 DEF PagesInit

LEMMA ChainInvNext == ChainInv /\ [PagesNext]_<<part, vars, chainState, blockState>> => ChainInv'
<1> SUFFICES ASSUME ChainInv, [PagesNext]_<<part, vars, chainState, blockState>> PROVE ChainInv'
  OBVIOUS
<1>1. CASE Chain!Confirm
  BY <1>1, ConfirmStep
<1>2. ASSUME NEW u \in Url, Chain!Switch(u) PROVE ChainInv'
  BY <1>2, SwitchStep
<1>3. ASSUME NEW s \in {"Connected", "Failure"}, Chain!Settle(s) PROVE ChainInv'
  BY <1>3, SettleStep
<1>4. ASSUME NEW k, Chain!Navigate(k) PROVE ChainInv'
  BY <1>4, NavigateStep
<1>5. CASE Chain!Effects
  BY <1>5, EffectsStep
<1>6. CASE Chain!Retry
  BY <1>6, RetryStep
<1>7. ASSUME NEW r \in Request, Chain!Answer(r) PROVE ChainInv'
  <2>1. CASE Chain!FirstAnswered(r)
    BY <2>1, FirstStep
  <2>2. CASE Chain!LastAnswered(r)
    BY <2>2, LastStep
  <2>3. CASE Chain!FinishEpoch(r)
    BY <2>3, FinishEpochStep
  <2>4. CASE Chain!BlockAnswered(r)
    BY <2>4, BlockStep
  <2>5. CASE Chain!ChildAnswered(r)
    BY <2>5, ChildStep
  <2>6. CASE Chain!LeadersAnswered(r)
    BY <2>6, LeadersStep
  <2>7. CASE Chain!Fail(r)
    BY <2>7, FailStep
  <2>. QED
    BY <1>7, <2>1, <2>2, <2>3, <2>4, <2>5, <2>6, <2>7 DEF Chain!Answer
<1>8. CASE UNCHANGED chainState
  <2>1. UNCHANGED <<chainUrl, chainStatus, clusterEpoch, chains, tip, page, cache, calls, pageRan>>
    BY <1>8 DEF chainState
  <2>2. ConnectionIs'
    BY <2>1 DEF ChainInv, ConnectionIs, Begun
  <2>. QED
    BY <2>1, <2>2, RestStays DEF ChainInv
<1>9. CASE Chain!Next
  BY <1>1, <1>2, <1>3, <1>4, <1>5, <1>6, <1>7, <1>9 DEF Chain!Next
<1>. QED
  BY <1>8, <1>9 DEF PagesNext

(* Once the effects have run, the entry is of the cluster that is shown.   *)
LEMMA ChainInvTells == ChainInv => PagesOfChainAreTold
<1> SUFFICES ASSUME ChainInv PROVE PagesOfChainAreTold
  OBVIOUS
<1> DEFINE k == Chain!key
           data == Chain!entry.data
<1>1. ASSUME Chain!Shows
      PROVE  DataIs(data, chainUrl, k)
  <2>1. pageRan = Chain!deps /\ data # None
    BY <1>1 DEF Chain!Shows, Chain!EffectsDone
  <2>2. cache.url = chainUrl
    BY <2>1, DepsAreThere DEF ChainInv
  <2>3. data = cache.entries[k].data
    BY DEF Chain!entry
  <2>. QED
    BY <2>1, <2>2, <2>3, PageIs DEF ChainInv, CacheIs
<1>2. Chain!EpochIsTold
  <2>1. ASSUME Chain!Shows, page.kind = "epoch" PROVE EpochIs(data, chainUrl, k)
    BY <1>1, <2>1 DEF DataIs
  <2>. QED
    BY <2>1 DEF Chain!EpochIsTold, EpochIs
<1>3. Chain!BlockIsTold
  <2> SUFFICES ASSUME Chain!Shows, page.kind = "block" PROVE Chain!BlockIsTold
    BY DEF Chain!BlockIsTold
  <2>1. BlockIs(data, chainUrl, k)
    BY <1>1 DEF DataIs
  <2>2. chainUrl \in Url /\ k \in 0 .. MaxSlot
    BY PageIs, SlotsAssumption DEF ChainInv, ConnectionIs
  <2> DEFINE e == epochAt(chainUrl, k)
  <2>3. e \in 0 .. MaxSlot
    <3>1. 0 \in 0 .. MaxSlot + 1
      BY SlotsAssumption
    <3>. QED
      BY <2>2, <3>1, EpochsBegin
  <2>4. /\ e \in Int /\ k \in Int /\ e \in 0 .. MaxSlot + 1 /\ e + 1 \in 0 .. MaxSlot + 1
        /\ e <= e /\ ~ (e + 1 <= e)
    <3> HIDE DEF e, k
    <3>1. MaxSlot \in Nat
      BY SlotsAssumption
    <3>. QED
      BY <2>2, <2>3, <3>1
  <2>5. first(chainUrl, e) <= k /\ ~ (first(chainUrl, e + 1) <= k) /\ first(chainUrl, e + 1) \in Nat
    BY <2>2, <2>4, EpochsBegin
  <2>6. Chain!getLastSlotInEpoch(Schedule[chainUrl], e) = first(chainUrl, e + 1) - 1
    BY DEF Chain!getLastSlotInEpoch, first
  <2>7. k <= Chain!getLastSlotInEpoch(Schedule[chainUrl], e)
    <3> HIDE DEF e, k
    <3>. QED
      BY <2>4, <2>5, <2>6
  <2>8. Chain!getFirstSlotInEpoch(Schedule[chainUrl], e) <= k
    BY <2>5 DEF first
  <2>9. e = Chain!getEpochForSlot(Schedule[chainUrl], k)
    BY DEF epochAt
  <2>. QED
    BY <2>1, <2>7, <2>8, <2>9 DEF Chain!BlockIsTold, BlockIs, After
<1>. QED
  BY <1>2, <1>3 DEF PagesOfChainAreTold

(* What the pages of an epoch and of a block tell is so, on every chain,   *)
(* however the requests of a fetch interleave with the blocks that are     *)
(* confirmed, and whichever answers of other clusters come late.           *)
THEOREM PagesOfChainAreAlwaysTold == PagesSpec => []PagesOfChainAreTold
<1>1. PagesInit => ChainInv
  BY ChainInvInit
<1>2. ChainInv /\ [PagesNext]_<<part, vars, chainState, blockState>> => ChainInv'
  BY ChainInvNext
<1>3. ChainInv => PagesOfChainAreTold
  BY ChainInvTells
<1>. QED
  BY <1>1, <1>2, <1>3, PTL DEF PagesSpec
================================================================================
