------------------------------ MODULE ChainPages ------------------------------
(***************************************************************************)
(* The pages of a block and of an epoch (app/block/[slot], app/epoch/      *)
(* [epoch]) with their providers (providers/block.tsx, epoch.tsx).  Each   *)
(* page has a provider of its own, whose effect runs after that of the     *)
(* page; both ask the cluster several questions for one answer, while      *)
(* blocks are confirmed.                                                   *)
(***************************************************************************)
EXTENDS Integers, FiniteSetsExt

CONSTANTS
  Url,             \* see Connection
  MINIMUM_SLOT_PER_EPOCH,  \* 32, a power of two
  NoData,
  Chains,          \* the chains there may be: the slots with a block, by url
  Schedule,        \* the answer of getEpochSchedule, by url
  Window,          \* 100: how many slots are searched for a block
  LeaderSlots,     \* slots in a row that one validator leads
  Request,         \* slots for fetches in flight (a bound)
  Epochs, Slots,   \* the epochs and slots the user looks at
  MaxSlot,         \* bound on the confirmed chain
  MaxGrowth,       \* bound on the slots that are confirmed meanwhile
  MaxActs          \* bound on what the user does and on second answers

VARIABLES
  url, status,     \* the connection
  clusterEpoch,    \* clusterInfo.epochInfo.epoch, NoData without clusterInfo
  chains,          \* the slots that have a block, by url
  tip,             \* the last slot that is confirmed
  page,            \* which page is open: its kind and its parameter
  cache,           \* the reducer state of its provider
  calls,           \* fetchBlock or fetchEpoch calls, by slot
  ran,             \* what the effects last ran with, NoData at first
  growth, acts

connection == <<url, status, clusterEpoch>>
bounds == <<growth, acts>>
chainVars == <<connection, chains, tip, page, cache, calls, ran, bounds>>

INSTANCE FetchCache WITH Key <- Epochs \cup Slots

-------------------------------------------------------------------------------
(* Which slots an epoch has (utils/epoch-schedule.ts).  A cluster may warm *)
(* up: its epochs double from MINIMUM_SLOT_PER_EPOCH slots until they have *)
(* slotsPerEpoch, from firstNormalEpoch on, which begins with slot         *)
(* firstNormalSlot.                                                        *)

(* trailingZeros(nextPowerOfTwo(n)): the least power of two that is not    *)
(* below n, by its exponent.                                               *)
powerReaching(n) == CHOOSE p \in 0..n : 2^p >= n /\ (p = 0 \/ 2^(p - 1) < n)

getEpochForSlot(schedule, slot) ==
  IF slot < schedule.firstNormalSlot
  THEN powerReaching(slot + MINIMUM_SLOT_PER_EPOCH + 1) - powerReaching(MINIMUM_SLOT_PER_EPOCH) - 1
  ELSE schedule.firstNormalEpoch + (slot - schedule.firstNormalSlot) \div schedule.slotsPerEpoch

getFirstSlotInEpoch(schedule, epoch) ==
  IF epoch <= schedule.firstNormalEpoch
  THEN (2^epoch - 1) * MINIMUM_SLOT_PER_EPOCH
  ELSE (epoch - schedule.firstNormalEpoch) * schedule.slotsPerEpoch + schedule.firstNormalSlot

getLastSlotInEpoch(schedule, epoch) == getFirstSlotInEpoch(schedule, epoch + 1) - 1

-------------------------------------------------------------------------------
(* The cluster *)

LeaderOf(u, slot) == <<u, slot \div LeaderSlots>>

(* getBlocks, of what is confirmed by now. *)
Confirmed(u, from, to) == {b \in chains[u] : from <= b /\ b <= to /\ b <= tip}

First(blocks) == IF blocks = {} THEN NoData ELSE Min(blocks)
Last(blocks) == IF blocks = {} THEN NoData ELSE Max(blocks)

(* The parent of a block, the first block being its own. *)
parentOf(u, slot) ==
  IF \E b \in chains[u] : b < slot THEN Max({b \in chains[u] : b < slot}) ELSE slot

Confirm ==
  /\ tip < MaxSlot /\ growth < MaxGrowth
  /\ tip' = tip + 1
  /\ growth' = growth + 1
  /\ UNCHANGED <<connection, chains, page, cache, calls, ran, acts>>

-------------------------------------------------------------------------------
Idle == [url |-> NoData]

Running(r) == calls[r] # Idle

key == page.key
entry == cache.entries[key]

Pages == [kind : {"epoch"}, key : Epochs] \cup [kind : {"block"}, key : Slots]

Init ==
  /\ url \in Url /\ status \in {"Connecting", "Connected"}
  /\ chains \in Chains
  /\ tip \in (MaxSlot - MaxGrowth) .. MaxSlot
  /\ clusterEpoch = IF status = "Connected" THEN getEpochForSlot(Schedule[url], tip) ELSE NoData
  /\ page \in Pages
  /\ cache = Clear(url)
  /\ calls = [r \in Request |-> Idle]
  /\ ran = NoData
  /\ growth = 0 /\ acts = 0

(* The dependencies of the effects: the page of a block does not look at   *)
(* its entry again.                                                        *)
deps == IF page.kind = "epoch"
        THEN [page |-> page, url |-> url, status |-> status, epoch |-> clusterEpoch,
              absent |-> entry = Absent]
        ELSE [page |-> page, url |-> url, status |-> status]

EffectsDone == ran = deps

(* ClusterProvider turns to another cluster, or learns of its own. *)
Switch(u) ==
  /\ EffectsDone /\ acts < MaxActs /\ u # url
  /\ url' = u /\ status' = "Connecting" /\ clusterEpoch' = NoData
  /\ acts' = acts + 1
  /\ UNCHANGED <<chains, tip, page, cache, calls, ran, growth>>

(* An attempt to connect is answered; perhaps also an earlier one.         *)
Settle(s) ==
  /\ EffectsDone
  /\ status = "Connecting" \/ acts < MaxActs
  /\ status' = s
  /\ acts' = IF status = "Connecting" THEN acts ELSE acts + 1
  /\ clusterEpoch' = IF s = "Connected" THEN getEpochForSlot(Schedule[url], tip) ELSE NoData
  /\ UNCHANGED <<url, chains, tip, page, cache, calls, ran, growth>>

(* A link to another epoch, or to another block: the provider stays.       *)
Navigate(k) ==
  /\ EffectsDone /\ acts < MaxActs
  /\ k # key /\ [page EXCEPT !.key = k] \in Pages
  /\ page' = [page EXCEPT !.key = k]
  /\ acts' = acts + 1
  /\ UNCHANGED <<connection, chains, tip, cache, calls, ran, growth>>

(* fetchEpoch and fetchBlock, up to their first await.                     *)
start(r) ==
  calls' = [calls EXCEPT ![r] =
    IF page.kind = "epoch"
    THEN [url |-> url, key |-> key, currentEpoch |-> clusterEpoch, waits |-> {"first", "last"},
          firstBlock |-> NoData, lastBlock |-> NoData]
    ELSE [url |-> url, key |-> key, waits |-> {"block"}, block |-> NoData, childSlot |-> NoData]]

Fetching(c) == defaultReducer(c, url, {key}, "Fetching", [k \in {key} |-> NoData])

fetches ==
  /\ entry = Absent /\ status = "Connected"
  /\ page.kind = "epoch" => key <= clusterEpoch

(* The effects after a change: the page fetches, then the provider clears  *)
(* its cache when it has just been mounted or the url has changed.         *)
Effects ==
  /\ ~EffectsDone
  /\ IF fetches
     THEN \E r \in Request : ~Running(r) /\ start(r)
     ELSE UNCHANGED calls
  /\ LET fetched == IF fetches THEN Fetching(cache) ELSE cache
         clears == IF ran = NoData THEN TRUE ELSE ran.url # url
     IN  cache' = IF clears THEN Clear(url) ELSE fetched
  /\ ran' = [deps EXCEPT !.page = page]
  /\ UNCHANGED <<connection, chains, tip, page, bounds>>

(* The retry button of the block's error card. *)
Retry ==
  /\ EffectsDone /\ acts < MaxActs
  /\ page.kind = "block"
  /\ entry # Absent /\ entry.status # "Fetching"
  /\ entry.data # NoData => entry.data.block = NoData
  /\ \E r \in Request : ~Running(r) /\ start(r)
  /\ cache' = Fetching(cache)
  /\ acts' = acts + 1
  /\ UNCHANGED <<connection, chains, tip, page, ran, growth>>

-------------------------------------------------------------------------------
Dispatch(call, st, data) ==
  cache' = defaultReducer(cache, call.url, {call.key}, st, [k \in {call.key} |-> data])

Answered(r, call) ==
  /\ calls' = [calls EXCEPT ![r] = call]
  /\ UNCHANGED <<connection, chains, tip, page, cache, ran, bounds>>

(* The two requests for the blocks at the ends of an epoch are answered in *)
(* any order.                                                              *)
FirstAnswered(r) ==
  /\ Running(r) /\ "first" \in calls[r].waits
  /\ LET call == calls[r]
         slot == getFirstSlotInEpoch(Schedule[call.url], call.key)
     IN  Answered(r, [call EXCEPT !.waits = @ \ {"first"},
                                  !.firstBlock = First(Confirmed(call.url, slot, slot + Window))])

LastAnswered(r) ==
  /\ Running(r) /\ "last" \in calls[r].waits
  /\ LET call == calls[r]
         slot == getLastSlotInEpoch(Schedule[call.url], call.key)
     IN  Answered(r, [call EXCEPT !.waits = @ \ {"last"},
                                  !.lastBlock = Last(Confirmed(call.url, Max({0, slot - Window}), slot))])

(* fetchEpoch goes on when both are there; the times of the blocks are     *)
(* left out.  `asked` is the epoch that was in progress (for a property).  *)
FinishEpoch(r) ==
  /\ Running(r) /\ page.kind = "epoch" /\ calls[r].waits = {}
  /\ LET call == calls[r]
     IN  IF call.firstBlock = NoData \/ (call.key < call.currentEpoch /\ call.lastBlock = NoData)
         THEN Dispatch(call, "FetchFailed", NoData)
         ELSE Dispatch(call, "Fetched", [firstBlock |-> call.firstBlock, lastBlock |-> call.lastBlock,
                                         asked |-> call.currentEpoch])
  /\ calls' = [calls EXCEPT ![r] = Idle]
  /\ UNCHANGED <<connection, chains, tip, page, ran, bounds>>

(* fetchBlock: there is no such block, or its child is asked for next.     *)
NotFound == [block |-> NoData, childSlot |-> NoData,
             blockLeader |-> NoData, childLeader |-> NoData, parentLeader |-> NoData]

BlockAnswered(r) ==
  /\ Running(r) /\ "block" \in calls[r].waits
  /\ LET call == calls[r]
     IN  IF Confirmed(call.url, call.key, call.key) = {}
         THEN /\ Dispatch(call, "Fetched", NotFound)
              /\ calls' = [calls EXCEPT ![r] = Idle]
              /\ UNCHANGED <<connection, chains, tip, page, ran, bounds>>
         ELSE Answered(r, [call EXCEPT !.waits = {"child"},
                                       !.block = [parentSlot |-> parentOf(call.url, call.key)]])

ChildAnswered(r) ==
  /\ Running(r) /\ "child" \in calls[r].waits
  /\ LET call == calls[r]
     IN  Answered(r, [call EXCEPT !.waits = {"leaders"},
                        !.childSlot = First(Confirmed(call.url, call.key + 1, call.key + Window))])

(* Mutant: the leaders up to the last slot, without it.                    *)
slotLeadersLimitShort(parentSlot, lastLeaderSlot) == lastLeaderSlot - parentSlot

slotLeadersLimit(parentSlot, lastLeaderSlot) == lastLeaderSlot - parentSlot + 1

(* The leaders from the parent to the child, or none when that fails.      *)
LeadersAnswered(r) ==
  /\ Running(r) /\ "leaders" \in calls[r].waits
  /\ LET call == calls[r]
         first == call.block.parentSlot
         last == IF call.childSlot # NoData THEN call.childSlot ELSE call.key
     IN  \E leaders \in {{}, first .. (first + slotLeadersLimit(first, last) - 1)} :
           LET getLeader(slot) == IF slot \in leaders THEN LeaderOf(call.url, slot) ELSE NoData
           IN  Dispatch(call, "Fetched",
                 [block |-> call.block, childSlot |-> call.childSlot,
                  blockLeader |-> getLeader(call.key),
                  childLeader |-> IF call.childSlot # NoData THEN getLeader(call.childSlot) ELSE NoData,
                  parentLeader |-> getLeader(first)])
  /\ calls' = [calls EXCEPT ![r] = Idle]
  /\ UNCHANGED <<connection, chains, tip, page, ran, bounds>>

(* Mutant: a failure is only logged.                                       *)
FailSilently(r) ==
  /\ Running(r) /\ calls[r].waits # {"leaders"}
  /\ calls' = [calls EXCEPT ![r] = Idle]
  /\ UNCHANGED <<connection, chains, tip, page, cache, ran, bounds>>

Fail(r) ==
  /\ Running(r) /\ calls[r].waits # {"leaders"}
  /\ Dispatch(calls[r], "FetchFailed", NoData)
  /\ calls' = [calls EXCEPT ![r] = Idle]
  /\ UNCHANGED <<connection, chains, tip, page, ran, bounds>>

Answer(r) ==
  \/ FirstAnswered(r) \/ LastAnswered(r) \/ FinishEpoch(r)
  \/ BlockAnswered(r) \/ ChildAnswered(r) \/ LeadersAnswered(r)
  \/ Fail(r)

Next ==
  \/ Confirm
  \/ \E u \in Url : Switch(u)
  \/ \E s \in {"Connected", "Failure"} : Settle(s)
  \/ \E k \in Epochs \cup Slots : Navigate(k)
  \/ Effects
  \/ Retry
  \/ \E r \in Request : Answer(r)

Spec == Init /\ [][Next]_chainVars

(* Effects run and requests settle, however slowly; the rest is free.      *)
Fairness == WF_chainVars(Effects) /\ WF_chainVars(\E r \in Request : Answer(r))

FairSpec == Spec /\ Fairness

-------------------------------------------------------------------------------
Shows == EffectsDone /\ entry.data # NoData

blocksOf(u, epoch) == {b \in chains[u] : getEpochForSlot(Schedule[u], b) = epoch}

(* The page of an epoch shows its first block and, if it was over when it  *)
(* was asked for, its last block, although the requests meet a chain that  *)
(* grows, the window reaches into the epochs around a short epoch, and     *)
(* answers for other clusters and epochs come late.                        *)
EpochIsTold ==
  Shows /\ page.kind = "epoch" =>
    /\ entry.data.firstBlock = Min(blocksOf(url, key))
    /\ key < entry.data.asked => entry.data.lastBlock = Max(blocksOf(url, key))

(* The page of an epoch either says that it is in progress or shows its    *)
(* last block (page-client.tsx:141-145).                                   *)
LastBlockIsLast ==
  Shows /\ page.kind = "epoch" =>
    entry.data.lastBlock \in {NoData, Max(blocksOf(url, key))}

(* The page of a block shows its neighbours and, where the leaders are     *)
(* known, the leader of each of the three; the epoch it links to is the    *)
(* one whose page says that it begins before the block and ends after it.  *)
BlockIsTold ==
  Shows /\ page.kind = "block" =>
    LET data == entry.data
        epoch == getEpochForSlot(Schedule[url], key)
    IN  /\ data.block # NoData =>
             /\ data.block.parentSlot = parentOf(url, key)
             /\ data.childSlot # NoData => data.childSlot = Min({b \in chains[url] : b > key})
             /\ data.blockLeader \in {NoData, LeaderOf(url, key)}
             /\ data.blockLeader # NoData =>
                  /\ data.parentLeader = LeaderOf(url, data.block.parentSlot)
                  /\ data.childSlot # NoData => data.childLeader = LeaderOf(url, data.childSlot)
        /\ getFirstSlotInEpoch(Schedule[url], epoch) <= key
        /\ key <= getLastSlotInEpoch(Schedule[url], epoch)

(* On a cluster that is connected no page loads for ever: also when it was *)
(* mounted with its provider, whose effect clears what the fetch of the    *)
(* page has just put there.                                                *)
ChainPageSettles ==
  []<>(status = "Connected" /\ EffectsDone =>
         \/ entry.status \in {"Fetched", "FetchFailed"}
         \/ page.kind = "epoch" /\ key > clusterEpoch)
===============================================================================
