--------------------------- MODULE AccountCardsProofs ---------------------------
(***************************************************************************)
(* Proofs about module AccountCards: the rewards (Rewards), for any        *)
(* addresses, urls, page size and number of epochs; and what is told of    *)
(* the build and the multisig of a program (ProgramCards), for any         *)
(* programs, signers, answers of the registry, multisigs and urls.         *)
(***************************************************************************)
EXTENDS AccountCards, FiniteSetTheorems, WellFoundedInduction, NaturalsInduction, TLAPS

Call ==
  {Idle}
    \cup [url : Url, fromEpoch : Epoch \cup {NoData}, waits : {"epoch"}]
    \cup [url : Url, fromEpoch : Epoch \cup {-1}, waits : {"rewards"}]

TypeOK ==
  /\ url \in Url
  /\ cache = [url |-> cache.url, entries |-> [k \in {Address} |-> entry]]
  /\ cache.url \in Url
  /\ entry \in Entry(Rewards(cache.url))
  /\ open \in BOOLEAN
  /\ calls \in [Request -> Call]
  /\ epoch \in Epoch /\ deactivated \in Epoch \cup {NoData}
  /\ nulls \subseteq Epoch /\ old \subseteq Request /\ late \in BOOLEAN
  /\ newEpochs \in Nat /\ switches \in Nat /\ requests \in Nat

(* A call the cache has asked for since it was emptied.                    *)
Fresh(r) == calls[r].url = cache.url /\ r \notin old

OldAreOfUrl == \A r \in old : calls[r].url = cache.url

(* The button is gone once there is nothing below.                         *)
OldestIsFound ==
  entry.data # NoData /\ ~entry.data.foundOldest => entry.data.lowest >= 1

(* Such calls do not overlap.                                              *)
OneAtATime ==
  ~late => \A r \in Request : Fresh(r) =>
             /\ entry.status = "Fetching"
             /\ \A q \in Request : Fresh(q) => q = r

(* The first page does not begin before the newest epoch.                  *)
FirstPage ==
  ~late /\ entry.data = NoData =>
    \A r \in Request : Fresh(r) /\ calls[r].waits = "rewards" => calls[r].fromEpoch <= newest

(* The page that is loaded next ends where the range begins, or covers the *)
(* epochs up to where it ends.                                             *)
NextPage ==
  ~late /\ entry.data # NoData =>
    /\ entry.data.highest <= newest
    /\ entry.data.lowest >= 1 => entry.data.highest >= 1
    /\ \A r \in Request : Fresh(r) =>
         /\ entry.data.lowest >= 1
         /\ calls[r].waits = "rewards" =>
              \/ calls[r].fromEpoch = entry.data.lowest - 1
              \/ calls[r].fromEpoch >= entry.data.highest

(* The inductive invariant. *)
IInv ==
  /\ TypeOK /\ OldAreOfUrl /\ OldestIsFound
  /\ OneAtATime /\ FirstPage /\ NextPage /\ RangeIsComplete
-------------------------------------------------------------------------------
(* The epochs of a page. *)

(* They are the last PageSize ones up to fromEpoch, as far as there are    *)
(* that many, and their number tells the lowest.                           *)
LEMMA RequestedPage ==
  ASSUME NEW from \in Epoch \cup {-1}
  PROVE  LET lowest == from - Cardinality(Requested(from)) + 1
         IN  /\ lowest \in Epoch
             /\ lowest <= from + 1 /\ (from >= 0 => lowest <= from)
             /\ Requested(from) = lowest .. from
<1> DEFINE first == IF from - PageSize + 1 > 0 THEN from - PageSize + 1 ELSE 0
<1>1. /\ PageSize \in Int /\ PageSize > 0 /\ MaxEpoch \in Nat
      /\ from \in Int /\ from >= -1 /\ from <= MaxEpoch
  BY PageSizeAssumption, EpochsAssumption DEF Epoch
<1>2. first \in Int /\ first >= 0 /\ first <= from + 1 /\ first <= MaxEpoch
  BY <1>1
<1>3. Requested(from) = first .. from
  BY <1>1 DEF Requested, Epoch
<1>. HIDE DEF first
<1>4. Cardinality(Requested(from)) = from - first + 1
  BY <1>1, <1>2, <1>3, FS_Interval
<1>5. from - Cardinality(Requested(from)) + 1 = first
  BY <1>1, <1>2, <1>4
<1>6. first \in Epoch /\ (from >= 0 => first <= from)
  <2>1. from >= 0 => first <= from
    BY <1>1 DEF first
  <2>. QED
    BY <1>1, <1>2, <2>1 DEF Epoch
<1>7. first <= from + 1
  BY <1>2
<1>. QED
  BY <1>3, <1>5, <1>6, <1>7

LEMMA BeforeEpoch ==
  ASSUME NEW e \in Epoch
  PROVE  e - 1 \in Epoch \cup {-1}
BY EpochsAssumption DEF Epoch

(* The last complete epoch is one less than the current one; where the     *)
(* stake ended is an epoch above 0.                                        *)
LEMMA NewestType ==
  ASSUME epoch \in Epoch, deactivated \in Epoch \cup {NoData}
  PROVE  newest \in Epoch \cup {-1}
<1>1. epoch \in Int /\ epoch - 1 \in Epoch \cup {-1}
  BY EpochsAssumption DEF Epoch
<1>2. Truthy(deactivated) => deactivated \in Epoch
  BY DEF Truthy
<1>. QED
  BY <1>1, <1>2 DEF newest

LEMMA NewestGrows ==
  ASSUME epoch \in Epoch, deactivated \in Epoch \cup {NoData},
         epoch' = epoch + 1, deactivated' = deactivated
  PROVE  newest <= newest'
<1>1. epoch \in Int /\ (Truthy(deactivated) => deactivated \in Int)
  BY EpochsAssumption DEF Epoch, Truthy
<1>2. Truthy(deactivated') <=> Truthy(deactivated)
  BY DEF Truthy
<1>. QED
  BY <1>1, <1>2 DEF newest

-------------------------------------------------------------------------------
(* The cache and the calls. *)

LEMMA CallFields ==
  ASSUME TypeOK, NEW r \in Request, Running(r)
  PROVE  /\ calls[r].url \in Url
         /\ calls[r].waits \in {"epoch", "rewards"}
         /\ calls[r].waits = "rewards" => calls[r].fromEpoch \in Epoch \cup {-1}
BY DEF TypeOK, Call, Running, Idle

LEMMA WaitingRuns ==
  ASSUME TypeOK, NEW r \in Request, calls[r].waits \in {"epoch", "rewards"}
  PROVE  Running(r)
BY NoDataAssumption DEF TypeOK, Call, Running, Idle

LEMMA FreshRuns ==
  ASSUME TypeOK, NEW r \in Request, Fresh(r)
  PROVE  Running(r)
BY NoDataAssumption DEF TypeOK, Fresh, Running

(* What a dispatch does to the cache. *)
LEMMA DispatchEffect ==
  ASSUME TypeOK, NEW u, NEW status, NEW update, Dispatch(u, status, update)
  PROVE  /\ cache' = [url |-> cache'.url, entries |-> [k \in {Address} |-> entry']]
         /\ cache'.url = cache.url
         /\ u # cache.url => cache' = cache
         /\ u = cache.url => entry' = [status |-> status, data |-> reconcile(entry.data, update)]
<1> DEFINE data == [k \in {Address} |-> reconcile(cache.entries[k].data, update)]
<1>1. cache' = UpdateAll(cache, u, {Address}, status, data)
  BY DEF Dispatch
<1>2. data[Address] = reconcile(entry.data, update)
  BY DEF entry
<1>. HIDE DEF data
<1>3. CASE u # cache.url
  BY <1>1, <1>3 DEF UpdateAll, TypeOK, entry
<1>4. CASE u = cache.url
  <2>1. cache' = [url |-> cache.url,
                  entries |-> [k \in {Address} |-> [status |-> status, data |-> data[Address]]]]
    BY <1>1, <1>4 DEF UpdateAll, TypeOK
  <2>. QED
    BY <1>2, <1>4, <2>1 DEF entry
<1>. QED
  BY <1>3, <1>4

(* A pending or failed update leaves the rewards there are. *)
LEMMA StatusType ==
  ASSUME TypeOK, NEW u, NEW status \in {"Fetching", "FetchFailed"}, Dispatch(u, status, NoData)
  PROVE  /\ cache' = [url |-> cache'.url, entries |-> [k \in {Address} |-> entry']]
         /\ cache'.url = cache.url
         /\ entry' \in Entry(Rewards(cache'.url))
         /\ entry'.data = entry.data
         /\ u = cache.url => entry'.status = status
         /\ u # cache.url => cache' = cache
<1>1. reconcile(entry.data, NoData) = entry.data
  BY DEF reconcile
<1>2. entry \in Entry(Rewards(cache.url))
  BY DEF TypeOK
<1>3. entry.data \in Rewards(cache.url) \cup {NoData}
  BY <1>2 DEF Entry, Absent
<1>4. CASE u # cache.url
  <2>1. cache' = cache /\ entry' = entry
    BY <1>4, DispatchEffect DEF entry
  <2>. QED
    BY <1>2, <1>4, <2>1, DispatchEffect
<1>5. CASE u = cache.url
  <2>1. entry' = [status |-> status, data |-> entry.data]
    BY <1>1, <1>5, DispatchEffect
  <2>. HIDE DEF entry
  <2>2. entry' \in Entry(Rewards(cache.url))
    BY <1>3, <2>1 DEF Entry, FetchStatus
  <2>. QED
    BY <1>5, <2>1, <2>2, DispatchEffect
<1>. QED
  BY <1>4, <1>5
-------------------------------------------------------------------------------
(* The pages. *)

(* What an answer brings: a page that has every epoch of its range or got  *)
(* null for it, and ends at epoch 0 only as the oldest one.                *)
LEMMA AnswerBrings ==
  ASSUME TypeOK, NEW r \in Request, RewardsAnswered(r)
  PROVE  \E loaded \in Rewards(calls[r].url), null \in SUBSET Epoch :
           /\ Dispatch(calls[r].url, "Fetched", loaded)
           /\ nulls' = IF calls[r].url = cache.url THEN nulls \cup null ELSE nulls
           /\ loaded.highest = calls[r].fromEpoch
           /\ loaded.lowest >= 1 => loaded.highest >= 1
           /\ ~loaded.foundOldest => loaded.lowest >= 1
           /\ loaded.lowest .. loaded.highest \subseteq (UNION ToSet(loaded.rows)) \cup null
<1> DEFINE from == calls[r].fromEpoch
           lowest == from - Cardinality(Requested(from)) + 1
           u == calls[r].url
           oldest == lowest <= LowestAvailable[u]
           loaded(null) == [from |-> u, rows |-> <<Requested(from) \ null>>, highest |-> from,
                          lowest |-> lowest, foundOldest |-> oldest]
<1>1. from \in Epoch \cup {-1} /\ u \in Url
  BY WaitingRuns, CallFields DEF RewardsAnswered
<1>2. /\ lowest \in Epoch /\ lowest <= from + 1 /\ (from >= 0 => lowest <= from)
      /\ Requested(from) = lowest .. from
  BY <1>1, RequestedPage
<1>3. PICK null \in SUBSET Requested(from) :
        /\ nulls' = IF u = cache.url THEN nulls \cup null ELSE nulls
        /\ Dispatch(u, "Fetched", loaded(null))
  BY DEF RewardsAnswered
<1>4. /\ from \in Int /\ from >= -1 /\ lowest \in Int /\ lowest >= 0
      /\ LowestAvailable[u] \in Nat /\ oldest \in BOOLEAN
  BY <1>1, <1>2, EpochsAssumption DEF Epoch
<1>. HIDE DEF lowest
<1>5. /\ Requested(from) \in SUBSET Epoch /\ null \in SUBSET Epoch
      /\ <<Requested(from) \ null>> \in Seq(SUBSET Epoch)
  BY <1>3 DEF Requested
<1>6. loaded(null) \in Rewards(u)
  BY <1>1, <1>2, <1>4, <1>5 DEF Rewards
<1>7. (UNION ToSet(loaded(null).rows)) = Requested(from) \ null
  <2>1. ToSet(<<Requested(from) \ null>>) = {Requested(from) \ null}
    BY DEF ToSet
  <2>. QED
    BY <2>1
<1>8. ~oldest => lowest >= 1
  BY <1>4
<1>9. lowest >= 1 => from >= 1
  BY <1>2, <1>4
<1>10. lowest .. from \subseteq (UNION ToSet(loaded(null).rows)) \cup null
  BY <1>2, <1>7
<1>. QED
  BY <1>3, <1>5, <1>6, <1>8, <1>9, <1>10

LEMMA UnionOfBoth ==
  ASSUME NEW A, NEW B
  PROVE  UNION (A \cup B) = (UNION A) \cup (UNION B)
OBVIOUS

LEMMA ConcatRange ==
  ASSUME NEW S, NEW a \in Seq(S), NEW b \in Seq(S)
  PROVE  ToSet(a \o b) = ToSet(a) \cup ToSet(b)
<1>1. \A i \in DOMAIN (a \o b) : (a \o b)[i] \in ToSet(a) \cup ToSet(b)
  BY DEF ToSet
<1>2. \A i \in DOMAIN a : a[i] \in ToSet(a \o b)
  <2> SUFFICES ASSUME NEW i \in DOMAIN a PROVE a[i] \in ToSet(a \o b)
    OBVIOUS
  <2>1. i \in DOMAIN (a \o b) /\ (a \o b)[i] = a[i]
    OBVIOUS
  <2>. QED
    BY <2>1, Zenon DEF ToSet
<1>3. \A i \in DOMAIN b : b[i] \in ToSet(a \o b)
  <2> SUFFICES ASSUME NEW i \in DOMAIN b PROVE b[i] \in ToSet(a \o b)
    OBVIOUS
  <2>1. Len(a) + i \in DOMAIN (a \o b) /\ (a \o b)[Len(a) + i] = b[i]
    OBVIOUS
  <2>. QED
    BY <2>1, Zenon DEF ToSet
<1>. QED
  BY <1>1, <1>2, <1>3, Zenon DEF ToSet

(* A page that joins the rewards there are keeps where they began, and     *)
(* what they had.                                                          *)
LEMMA Joined ==
  ASSUME NEW u \in Url, NEW rewards \in Rewards(u), NEW loaded \in Rewards(u)
  PROVE  LET joined == reconcile(rewards, loaded)
         IN  /\ joined \in Rewards(u)
             /\ rewards.highest >= 1 => joined.highest = rewards.highest
             /\ joined.lowest = loaded.lowest
             /\ joined.foundOldest = loaded.foundOldest
             /\ UNION ToSet(joined.rows)
                  = (UNION ToSet(rewards.rows)) \cup (UNION ToSet(loaded.rows))
<1> DEFINE joined == reconcile(rewards, loaded)
           rows == rewards.rows \o loaded.rows
           highest == IF Truthy(rewards.highest) THEN rewards.highest ELSE loaded.highest
<1>1. loaded # NoData /\ rewards # NoData
  BY NoDataAssumption
<1>2. joined = [loaded EXCEPT !.rows = rows, !.highest = highest]
  BY <1>1 DEF reconcile
<1>3. rewards.rows \in Seq(SUBSET Epoch) /\ loaded.rows \in Seq(SUBSET Epoch) /\ rows \in Seq(SUBSET Epoch)
  BY DEF Rewards
<1>4. highest \in Epoch \cup {-1}
  BY DEF Rewards
<1>5. rewards.highest >= 1 => highest = rewards.highest
  <2>1. rewards.highest \in Int
    BY EpochsAssumption DEF Rewards, Epoch
  <2>. QED
    BY <2>1, NoDataAssumption DEF Truthy
<1>. HIDE DEF rows, highest, joined
<1>6. /\ joined.highest = highest /\ joined.lowest = loaded.lowest
      /\ joined.foundOldest = loaded.foundOldest /\ joined.rows = rows
  BY <1>2 DEF Rewards
<1>7. joined \in Rewards(u)
  BY <1>2, <1>3, <1>4 DEF Rewards
<1>8. ToSet(rows) = ToSet(rewards.rows) \cup ToSet(loaded.rows)
  BY <1>3, ConcatRange DEF rows
<1>9. UNION ToSet(rows) = (UNION ToSet(rewards.rows)) \cup (UNION ToSet(loaded.rows))
  BY <1>8, UnionOfBoth
<1>. QED
  BY <1>5, <1>6, <1>7, <1>9 DEF joined

-------------------------------------------------------------------------------
(* The invariant. *)

LEMMA InitInv == Init => IInv
<1> SUFFICES ASSUME Init PROVE IInv
  OBVIOUS
<1>1. /\ entry = Absent /\ cache.url = url /\ url \in Url /\ late = FALSE /\ old = {}
      /\ cache = [url |-> cache.url, entries |-> [k \in {Address} |-> entry]]
      /\ \A r \in Request : calls[r] = Idle
  BY DEF Init, Clear, entry
<1>2. TypeOK
  BY <1>1 DEF Init, TypeOK, Call, Entry
<1>3. OldAreOfUrl
  BY <1>1 DEF OldAreOfUrl
<1>4. \A r \in Request : ~Fresh(r)
  BY <1>1, NoDataAssumption DEF Fresh, Idle
<1>5. entry.data = NoData
  BY <1>1 DEF Absent
<1>. QED
  BY <1>2, <1>3, <1>4, <1>5
  DEF IInv, OldestIsFound, OneAtATime, FirstPage, NextPage, RangeIsComplete

(* Steps that leave the cache and the calls alone. *)
LEMMA WorldStep ==
  ASSUME IInv, UNCHANGED <<cache, calls, recorded>>, url' \in Url, open' \in BOOLEAN,
         newEpochs' \in Nat, switches' \in Nat, requests' \in Nat, deactivated' = deactivated,
         epoch' \in Epoch, epoch' = epoch \/ epoch' = epoch + 1
  PROVE  IInv'
<1>1. /\ entry' = entry /\ calls' = calls /\ cache' = cache
      /\ nulls' = nulls /\ old' = old /\ late' = late
  BY DEF entry, recorded
<1>2. TypeOK'
  BY <1>1 DEF IInv, TypeOK
<1>3. \A r \in Request : Fresh(r)' <=> Fresh(r)
  BY <1>1 DEF Fresh
<1>4. newest <= newest' /\ newest \in Int /\ newest' \in Int
  <2>1. newest \in Epoch \cup {-1}
    BY NewestType DEF IInv, TypeOK
  <2>2. CASE epoch' = epoch
    <3>1. newest' = newest
      BY <2>2 DEF newest, Truthy
    <3>. QED
      BY <2>1, <3>1 DEF Epoch
  <2>3. CASE epoch' = epoch + 1
    <3>1. newest <= newest'
      BY <2>3, NewestGrows DEF IInv, TypeOK
    <3>2. newest' \in Epoch \cup {-1}
      <4>1. Truthy(deactivated) => deactivated \in Epoch
        BY DEF IInv, TypeOK, Truthy
      <4>2. epoch' - 1 \in Epoch \cup {-1}
        BY BeforeEpoch
      <4>. QED
        BY <4>1, <4>2 DEF newest, Truthy
    <3>. QED
      BY <2>1, <3>1, <3>2 DEF Epoch
  <2>. QED
    BY <2>2, <2>3
<1>5. (OldAreOfUrl /\ OldestIsFound /\ OneAtATime /\ RangeIsComplete)'
  BY <1>1, <1>3 DEF IInv, OldAreOfUrl, OldestIsFound, OneAtATime, RangeIsComplete
<1>6. FirstPage'
  <2> SUFFICES ASSUME ~late, entry.data = NoData, NEW r \in Request, Fresh(r),
                      calls[r].waits = "rewards"
               PROVE  calls[r].fromEpoch <= newest'
    BY <1>1, <1>3 DEF FirstPage
  <2>1. calls[r].fromEpoch <= newest
    BY DEF IInv, FirstPage
  <2>2. calls[r].fromEpoch \in Epoch \cup {-1}
    BY CallFields, FreshRuns DEF IInv
  <2>3. calls[r].fromEpoch \in Int
    BY <2>2 DEF Epoch
  <2>. QED
    BY <1>4, <2>1, <2>3
<1>7. NextPage'
  <2> SUFFICES ASSUME ~late, entry.data # NoData
               PROVE  entry.data.highest <= newest'
    BY <1>1, <1>3 DEF IInv, NextPage
  <2>1. entry.data.highest <= newest
    BY DEF IInv, NextPage
  <2>2. entry.data \in Rewards(cache.url)
    BY DEF IInv, TypeOK, Entry, Absent
  <2>3. entry.data.highest \in Int
    BY <2>2, EpochsAssumption DEF Rewards, Epoch
  <2>. QED
    BY <1>4, <2>1, <2>3
<1>. QED
  BY <1>2, <1>5, <1>6, <1>7 DEF IInv
LEMMA ClearStep ==
  ASSUME IInv, ClearEffect
  PROVE  IInv'
<1>1. /\ cache' = Clear(url) /\ calls' = calls /\ late' = FALSE
      /\ old' = {r \in Request : calls[r].url = url} /\ nulls' = {}
      /\ url' = url /\ open' = open /\ epoch' = epoch /\ deactivated' = deactivated
      /\ newEpochs' = newEpochs /\ switches' = switches /\ requests' = requests
  BY DEF ClearEffect, world, bounds
<1>2. /\ entry' = Absent /\ cache'.url = url
      /\ cache' = [url |-> url, entries |-> [k \in {Address} |-> Absent]]
  BY <1>1 DEF Clear, entry
<1>3. TypeOK'
  BY <1>1, <1>2 DEF IInv, TypeOK, Entry
<1>4. \A r \in Request : ~Fresh(r)'
  BY <1>1, <1>2 DEF Fresh
<1>5. entry'.data = NoData
  BY <1>2 DEF Absent
<1>6. OldAreOfUrl'
  BY <1>1, <1>2 DEF OldAreOfUrl
<1>7. (OldestIsFound /\ NextPage /\ RangeIsComplete)'
  BY <1>5 DEF OldestIsFound, NextPage, RangeIsComplete
<1>8. (OneAtATime /\ FirstPage)'
  BY <1>4 DEF OneAtATime, FirstPage
<1>. QED
  BY <1>3, <1>6, <1>7, <1>8 DEF IInv

(* A call begins: no other one of this cache runs, unless one of before    *)
(* the last Clear has ended.                                               *)
LEMMA FetchStep ==
  ASSUME IInv, fetchRewards, EffectsDone, entry.status # "Fetching",
         entry.data # NoData => ~entry.data.foundOldest,
         UNCHANGED <<url, world, recorded>>, open' \in BOOLEAN,
         newEpochs' = newEpochs, switches' = switches
  PROVE  IInv'
<1>1. /\ url' = url /\ epoch' = epoch /\ deactivated' = deactivated
      /\ nulls' = nulls /\ old' = old /\ late' = late /\ cache.url = url
  BY DEF world, recorded, EffectsDone
<1> DEFINE waits == IF Truthy(nextEpoch) THEN "rewards" ELSE "epoch"
           begun == [url |-> url, fromEpoch |-> nextEpoch, waits |-> waits]
<1>2. PICK q \in Request :
        ~Running(q) /\ calls' = [calls EXCEPT ![q] = begun]
  BY DEF fetchRewards
<1>3. /\ cache' = [url |-> cache'.url, entries |-> [k \in {Address} |-> entry']]
      /\ cache'.url = cache.url
      /\ entry' \in Entry(Rewards(cache'.url))
      /\ entry'.data = entry.data
      /\ entry'.status = "Fetching"
  BY <1>1, StatusType DEF fetchRewards, IInv
<1>4. entry.data # NoData => entry.data.lowest \in Epoch
  BY DEF IInv, TypeOK, Entry, Absent, Rewards
<1>5. nextEpoch \in Epoch \cup {NoData}
  BY <1>4, EpochsAssumption DEF nextEpoch, Truthy, Epoch
<1>6. begun \in Call
  BY <1>5 DEF Call, Truthy, IInv, TypeOK
<1>. HIDE DEF begun
<1>7. calls' \in [Request -> Call] /\ calls'[q] = begun /\ \A r \in Request \ {q} : calls'[r] = calls[r]
  BY <1>2, <1>6 DEF IInv, TypeOK
<1>8. TypeOK'
  <2>1. requests' \in Nat
    BY DEF fetchRewards, IInv, TypeOK
  <2>. QED
    BY <1>1, <1>3, <1>7, <2>1 DEF IInv, TypeOK
<1>9. q \notin old
  BY <1>2, FreshRuns, NoDataAssumption DEF IInv, OldAreOfUrl, TypeOK, Running
<1>10. OldAreOfUrl'
  BY <1>1, <1>3, <1>7, <1>9 DEF IInv, OldAreOfUrl, TypeOK
<1>11. OldestIsFound'
  BY <1>3 DEF IInv, OldestIsFound
<1>12. ~late => \A r \in Request : ~Fresh(r)
  BY DEF IInv, OneAtATime
<1>13. \A r \in Request \ {q} : Fresh(r)' <=> Fresh(r)
  BY <1>1, <1>3, <1>7 DEF Fresh
<1>14. OneAtATime'
  BY <1>1, <1>3, <1>12, <1>13 DEF OneAtATime
<1>15. entry.data = NoData => calls'[q].waits = "epoch"
  BY <1>7 DEF begun, nextEpoch, Truthy
<1>16. FirstPage'
  BY <1>1, <1>3, <1>12, <1>13, <1>15 DEF FirstPage
<1>17. entry.data # NoData => /\ entry.data.lowest >= 1
                             /\ calls'[q].fromEpoch = entry.data.lowest - 1
  <2> SUFFICES ASSUME entry.data # NoData
               PROVE  /\ entry.data.lowest >= 1
                      /\ nextEpoch = entry.data.lowest - 1
    BY <1>7 DEF begun
  <2>1. entry.data.lowest >= 1
    BY DEF IInv, OldestIsFound
  <2>2. Truthy(entry.data.lowest)
    BY <1>4, <2>1, NoDataAssumption, EpochsAssumption DEF Truthy, Epoch
  <2>. QED
    BY <2>1, <2>2 DEF nextEpoch
<1>18. newest' = newest
  BY <1>1 DEF newest, Truthy
<1>19. NextPage'
  BY <1>1, <1>3, <1>12, <1>13, <1>17, <1>18 DEF IInv, NextPage
<1>20. RangeIsComplete'
  BY <1>1, <1>3 DEF IInv, RangeIsComplete
<1>. QED
  BY <1>8, <1>10, <1>11, <1>14, <1>16, <1>19, <1>20 DEF IInv
LEMMA EpochAnsweredStep ==
  ASSUME IInv, NEW r \in Request, EpochAnswered(r)
  PROVE  IInv'
<1>1. /\ cache' = cache /\ entry' = entry /\ url' = url /\ open' = open
      /\ epoch' = epoch /\ deactivated' = deactivated
      /\ nulls' = nulls /\ old' = old /\ late' = late
      /\ newEpochs' = newEpochs /\ switches' = switches /\ requests' = requests
  BY DEF EpochAnswered, world, recorded, bounds, entry
<1>2. Running(r) /\ calls[r].url \in Url /\ calls[r].waits = "epoch"
  BY WaitingRuns, CallFields DEF EpochAnswered, IInv
<1> DEFINE asked == [url |-> calls[r].url, fromEpoch |-> newest, waits |-> "rewards"]
<1>3. newest \in Epoch \cup {-1}
  BY NewestType DEF IInv, TypeOK
<1>4. calls' = [calls EXCEPT ![r] = asked]
  BY DEF EpochAnswered
<1>5. asked \in Call
  BY <1>2, <1>3 DEF Call
<1>. HIDE DEF asked
<1>6. calls' \in [Request -> Call] /\ calls'[r] = asked /\ \A q \in Request \ {r} : calls'[q] = calls[q]
  BY <1>4, <1>5 DEF IInv, TypeOK
<1>7. asked.url = calls[r].url /\ asked.fromEpoch = newest
  BY DEF asked
<1>8. \A q \in Request : calls'[q].url = calls[q].url
  BY <1>6, <1>7
<1>9. \A q \in Request : Fresh(q)' <=> Fresh(q)
  BY <1>1, <1>8 DEF Fresh
<1>10. newest' = newest /\ newest \in Int
  BY <1>1, <1>3 DEF newest, Truthy, Epoch
<1>11. TypeOK'
  BY <1>1, <1>6 DEF IInv, TypeOK
<1>12. (OldAreOfUrl /\ OldestIsFound /\ OneAtATime /\ RangeIsComplete)'
  BY <1>1, <1>8, <1>9
  DEF IInv, TypeOK, OldAreOfUrl, OldestIsFound, OneAtATime, RangeIsComplete
<1>13. FirstPage'
  BY <1>1, <1>6, <1>7, <1>9, <1>10 DEF IInv, FirstPage
<1>14. NextPage'
  <2> SUFFICES ASSUME ~late, entry.data # NoData, NEW q \in Request, Fresh(q)
               PROVE  /\ entry.data.lowest >= 1
                      /\ calls'[q].waits = "rewards" =>
                           \/ calls'[q].fromEpoch = entry.data.lowest - 1
                           \/ calls'[q].fromEpoch >= entry.data.highest
    BY <1>1, <1>9, <1>10 DEF IInv, NextPage
  <2>1. entry.data.highest <= newest /\ entry.data.highest \in Int
    <3>1. entry.data \in Rewards(cache.url)
      BY DEF IInv, TypeOK, Entry, Absent
    <3>. QED
      BY <3>1, EpochsAssumption DEF IInv, NextPage, Rewards, Epoch
  <2>2. CASE q = r
    BY <1>6, <1>7, <1>10, <2>1, <2>2 DEF IInv, NextPage
  <2>3. CASE q # r
    BY <1>6, <2>3 DEF IInv, NextPage
  <2>. QED
    BY <2>2, <2>3
<1>. QED
  BY <1>11, <1>12, <1>13, <1>14 DEF IInv

(* A call that is over.                                                    *)
LEMMA SettledCalls ==
  ASSUME IInv, NEW r \in Request, Running(r), Settles(r), cache'.url = cache.url
  PROVE  /\ calls' \in [Request -> Call]
         /\ old' \subseteq Request /\ late' \in BOOLEAN
         /\ OldAreOfUrl'
         /\ late' => late \/ r \in old
         /\ ~late' => ~late /\ r \notin old
         /\ \A q \in Request : Fresh(q)' => Fresh(q) /\ q # r /\ calls'[q] = calls[q]
<1>1. /\ calls' = [calls EXCEPT ![r] = Idle] /\ old' = old \ {r}
      /\ late' = (late \/ r \in old)
  BY DEF Settles
<1>2. /\ calls' \in [Request -> Call] /\ calls'[r] = Idle
      /\ \A q \in Request \ {r} : calls'[q] = calls[q]
  BY <1>1 DEF IInv, TypeOK, Call
<1>3. old' \subseteq Request /\ late' \in BOOLEAN
  BY <1>1 DEF IInv, TypeOK
<1>4. OldAreOfUrl'
  BY <1>1, <1>2, <1>3 DEF IInv, OldAreOfUrl
<1>5. ~Fresh(r)'
  BY <1>2, NoDataAssumption DEF Fresh, Idle, IInv, TypeOK
<1>6. \A q \in Request \ {r} : Fresh(q)' => Fresh(q)
  BY <1>1, <1>2 DEF Fresh
<1>. QED
  BY <1>1, <1>2, <1>3, <1>4, <1>5, <1>6

LEMMA EpochFailsStep ==
  ASSUME IInv, NEW r \in Request, EpochFails(r)
  PROVE  IInv'
<1>1. /\ Settles(r) /\ Dispatch(calls[r].url, "FetchFailed", NoData)
      /\ url' = url /\ open' = open /\ epoch' = epoch /\ deactivated' = deactivated
      /\ nulls' = nulls
      /\ newEpochs' = newEpochs /\ switches' = switches /\ requests' = requests
  BY DEF EpochFails, world, bounds
<1>2. Running(r)
  BY WaitingRuns DEF EpochFails, IInv
<1>3. /\ cache' = [url |-> cache'.url, entries |-> [k \in {Address} |-> entry']]
      /\ cache'.url = cache.url
      /\ entry' \in Entry(Rewards(cache'.url))
      /\ entry'.data = entry.data
      /\ calls[r].url # cache.url => cache' = cache
  BY <1>1, StatusType DEF IInv
<1>4. /\ calls' \in [Request -> Call]
      /\ old' \subseteq Request /\ late' \in BOOLEAN
      /\ OldAreOfUrl'
      /\ ~late' => ~late /\ r \notin old
      /\ \A q \in Request : Fresh(q)' => Fresh(q) /\ q # r /\ calls'[q] = calls[q]
  BY <1>1, <1>2, <1>3, SettledCalls
<1>5. TypeOK'
  BY <1>1, <1>3, <1>4 DEF IInv, TypeOK
<1>6. (OldestIsFound /\ RangeIsComplete)'
  BY <1>1, <1>3, <1>4 DEF IInv, OldestIsFound, RangeIsComplete
<1>7. newest' = newest
  BY <1>1 DEF newest, Truthy
<1>8. (FirstPage /\ NextPage)'
  BY <1>3, <1>4, <1>7 DEF IInv, FirstPage, NextPage
<1>9. OneAtATime'
  <2>1. CASE calls[r].url = cache.url
    BY <1>4, <2>1 DEF IInv, OneAtATime, Fresh
  <2>2. CASE calls[r].url # cache.url
    <3>1. entry' = entry
      BY <1>3, <2>2 DEF entry
    <3>. QED
      BY <1>4, <3>1 DEF IInv, OneAtATime
  <2>. QED
    BY <2>1, <2>2
<1>. QED
  BY <1>4, <1>5, <1>6, <1>8, <1>9 DEF IInv
LEMMA RewardsAnsweredStep ==
  ASSUME IInv, NEW r \in Request, RewardsAnswered(r)
  PROVE  IInv'
<1> DEFINE u == calls[r].url
<1>1. /\ Settles(r) /\ url' = url /\ open' = open /\ epoch' = epoch /\ deactivated' = deactivated
      /\ newEpochs' = newEpochs /\ switches' = switches /\ requests' = requests
  BY DEF RewardsAnswered, world, bounds
<1>2. Running(r) /\ u \in Url /\ calls[r].waits = "rewards" /\ calls[r].fromEpoch \in Epoch \cup {-1}
  BY WaitingRuns, CallFields DEF RewardsAnswered, IInv
<1>3. PICK loaded \in Rewards(u), null \in SUBSET Epoch :
        /\ Dispatch(u, "Fetched", loaded)
        /\ nulls' = IF u = cache.url THEN nulls \cup null ELSE nulls
        /\ loaded.highest = calls[r].fromEpoch
        /\ loaded.lowest >= 1 => loaded.highest >= 1
        /\ ~loaded.foundOldest => loaded.lowest >= 1
        /\ loaded.lowest .. loaded.highest \subseteq (UNION ToSet(loaded.rows)) \cup null
  BY AnswerBrings DEF IInv
<1> DEFINE joined == reconcile(entry.data, loaded)
<1>4. /\ cache' = [url |-> cache'.url, entries |-> [k \in {Address} |-> entry']]
      /\ cache'.url = cache.url
      /\ u # cache.url => cache' = cache
      /\ u = cache.url => entry' = [status |-> "Fetched", data |-> joined]
  BY <1>3, DispatchEffect DEF IInv
<1>5. /\ calls' \in [Request -> Call]
      /\ old' \subseteq Request /\ late' \in BOOLEAN
      /\ OldAreOfUrl'
      /\ ~late' => ~late /\ r \notin old
      /\ \A q \in Request : Fresh(q)' => Fresh(q) /\ q # r /\ calls'[q] = calls[q]
  BY <1>1, <1>2, <1>4, SettledCalls
<1>6. newest' = newest
  BY <1>1 DEF newest, Truthy
<1>7. nulls' \subseteq Epoch
  BY <1>3 DEF IInv, TypeOK
<1>8. CASE u # cache.url
  <2>1. entry' = entry /\ nulls' = nulls /\ cache' = cache
    BY <1>3, <1>4, <1>8 DEF entry
  <2>2. TypeOK'
    BY <1>1, <1>5, <1>7, <2>1 DEF IInv, TypeOK
  <2>3. (OldestIsFound /\ OneAtATime /\ RangeIsComplete)'
    BY <1>5, <2>1 DEF IInv, OldestIsFound, OneAtATime, RangeIsComplete
  <2>4. (FirstPage /\ NextPage)'
    BY <1>5, <1>6, <2>1 DEF IInv, FirstPage, NextPage
  <2>. QED
    BY <1>5, <2>2, <2>3, <2>4 DEF IInv
<1>9. CASE u = cache.url
  <2>1. entry' = [status |-> "Fetched", data |-> joined] /\ loaded \in Rewards(cache.url)
    BY <1>4, <1>9
  <2>2. entry.data \in Rewards(cache.url) \cup {NoData} /\ loaded # NoData /\ cache.url \in Url
    BY <2>1, NoDataAssumption DEF IInv, TypeOK, Entry, Absent
  <2>3. /\ joined \in Rewards(cache.url)
        /\ joined.lowest = loaded.lowest
        /\ joined.foundOldest = loaded.foundOldest
    <3>1. CASE entry.data = NoData
      BY <2>1, <2>2, <3>1 DEF reconcile
    <3>2. CASE entry.data # NoData
      BY <2>1, <2>2, <3>2, Joined
    <3>. QED
      BY <3>1, <3>2
  <2>4. joined # NoData
    BY <2>2, <2>3, NoDataAssumption
  <2>. HIDE DEF joined
  <2>5. entry'.data = joined /\ entry'.status = "Fetched" /\ entry' \in Entry(Rewards(cache.url))
    BY <2>1, <2>3 DEF Entry, FetchStatus
  <2>6. TypeOK'
    BY <1>1, <1>4, <1>5, <1>7, <2>5 DEF IInv, TypeOK
  <2>7. OldestIsFound'
    BY <1>3, <2>3, <2>5 DEF OldestIsFound
  (* Unless a call of before the last Clear has ended, this was the only   *)
  (* one of the cache.                                                     *)
  <2>8. ~late' => ~late /\ Fresh(r) /\ \A q \in Request : ~Fresh(q)'
    <3>1. ~late' => ~late /\ Fresh(r)
      BY <1>5, <1>9 DEF Fresh
    <3>2. ~late /\ Fresh(r) => \A q \in Request : Fresh(q) => q = r
      BY DEF IInv, OneAtATime
    <3>. QED
      BY <1>5, <3>1, <3>2
  <2>9. OneAtATime'
    BY <2>8 DEF OneAtATime
  <2>10. FirstPage'
    BY <2>8 DEF FirstPage
  <2>11. /\ loaded.lowest \in Int /\ loaded.highest \in Int /\ newest \in Int
         /\ calls[r].fromEpoch \in Int
    BY <1>2, <1>3, NewestType, EpochsAssumption DEF IInv, TypeOK, Rewards, Epoch
  <2>12. ~late' => /\ joined.highest <= newest
                   /\ joined.lowest >= 1 => joined.highest >= 1
                   /\ joined.lowest .. joined.highest
                        \subseteq (UNION ToSet(joined.rows)) \cup nulls'
    <3> SUFFICES ASSUME ~late'
                 PROVE  /\ joined.highest <= newest
                        /\ joined.lowest >= 1 => joined.highest >= 1
                        /\ joined.lowest .. joined.highest
                             \subseteq (UNION ToSet(joined.rows)) \cup nulls'
      OBVIOUS
    <3>1. ~late /\ Fresh(r) /\ nulls' = nulls \cup null
      BY <1>3, <1>9, <2>8
    <3>2. CASE entry.data = NoData
      <4>1. joined = loaded
        BY <2>2, <3>2 DEF joined, reconcile
      <4>2. loaded.highest <= newest
        BY <1>2, <1>3, <3>1, <3>2 DEF IInv, FirstPage
      <4>. QED
        BY <1>3, <3>1, <4>1, <4>2
    <3>3. CASE entry.data # NoData
      <4> DEFINE rewards == entry.data
      <4>1. /\ rewards \in Rewards(cache.url)
            /\ rewards.lowest \in Int /\ rewards.highest \in Int
        BY <2>2, <3>3, EpochsAssumption DEF Rewards, Epoch
      <4>2. /\ rewards.highest <= newest /\ rewards.highest >= 1
            /\ \/ loaded.highest = rewards.lowest - 1
               \/ loaded.highest >= rewards.highest
        BY <1>2, <1>3, <3>1, <3>3 DEF IInv, NextPage
      <4>3. rewards.lowest .. rewards.highest \subseteq (UNION ToSet(rewards.rows)) \cup nulls
        BY <3>1, <3>3 DEF IInv, RangeIsComplete
      <4>. HIDE DEF rewards
      <4>4. /\ joined.highest = rewards.highest
            /\ UNION ToSet(joined.rows) = (UNION ToSet(rewards.rows)) \cup (UNION ToSet(loaded.rows))
        BY <2>1, <2>2, <4>1, <4>2, Joined DEF joined, rewards
      <4>5. ASSUME NEW e \in loaded.lowest .. rewards.highest
            PROVE  e \in (UNION ToSet(joined.rows)) \cup nulls'
        <5>1. e \in loaded.lowest .. loaded.highest \/ e \in rewards.lowest .. rewards.highest
          BY <2>11, <4>1, <4>2
        <5>. QED
          BY <1>3, <3>1, <4>3, <4>4, <5>1
      <4>. QED
        BY <2>3, <4>2, <4>4, <4>5
    <3>. QED
      BY <3>2, <3>3
  <2>13. NextPage'
    BY <1>6, <2>5, <2>8, <2>12 DEF NextPage
  <2>14. RangeIsComplete'
    BY <2>5, <2>12 DEF RangeIsComplete
  <2>. QED
    BY <1>5, <2>6, <2>7, <2>9, <2>10, <2>13, <2>14 DEF IInv
<1>. QED
  BY <1>8, <1>9
LEMMA NextInv == IInv /\ [Next]_vars => IInv'
<1> SUFFICES ASSUME IInv, [Next]_vars PROVE IInv'
  OBVIOUS
<1>0. /\ url \in Url /\ open \in BOOLEAN /\ epoch \in Epoch
      /\ newEpochs \in Nat /\ switches \in Nat /\ requests \in Nat
  BY DEF IInv, TypeOK
<1>1. CASE NewEpoch
  <2>1. epoch' \in Epoch
    BY <1>0, <1>1, EpochsAssumption DEF NewEpoch, Epoch
  <2>. QED
    BY <1>0, <1>1, <2>1, WorldStep DEF NewEpoch, recorded
<1>2. ASSUME NEW u \in Url, Switch(u) PROVE IInv'
  <2>1. /\ url' \in Url /\ switches' \in Nat
        /\ newEpochs' \in Nat /\ requests' \in Nat
        /\ epoch' = epoch /\ epoch' \in Epoch /\ deactivated' = deactivated
        /\ UNCHANGED <<cache, calls, recorded>>
    BY <1>0, <1>2 DEF Switch, world
  <2>2. open' \in BOOLEAN
    BY <1>2, Zenon DEF Switch
  <2>. QED
    BY <2>1, <2>2, WorldStep
<1>3. CASE ClearEffect
  BY <1>3, ClearStep
<1>4. CASE OpenCard
  <2>1. CASE entry = Absent
    <3>1. entry.status # "Fetching" /\ entry.data = NoData
      BY <2>1 DEF Absent
    <3>. QED
      BY <1>4, <2>1, <3>1, FetchStep DEF OpenCard
  <2>2. CASE entry # Absent
    BY <1>0, <1>4, <2>2, WorldStep DEF OpenCard, world, recorded
  <2>. QED
    BY <2>1, <2>2
<1>5. CASE CloseCard
  BY <1>0, <1>5, WorldStep DEF CloseCard, world, recorded, bounds
<1>6. CASE LoadMore
  BY <1>0, <1>6, FetchStep DEF LoadMore
<1>7. ASSUME NEW r \in Request, EpochAnswered(r) PROVE IInv'
  BY <1>7, EpochAnsweredStep
<1>8. ASSUME NEW r \in Request, EpochFails(r) PROVE IInv'
  BY <1>8, EpochFailsStep
<1>9. ASSUME NEW r \in Request, RewardsAnswered(r) PROVE IInv'
  BY <1>9, RewardsAnsweredStep
<1>10. CASE UNCHANGED vars
  BY <1>0, <1>10, WorldStep DEF vars, world, recorded, bounds
<1>. QED
  BY <1>1, <1>2, <1>3, <1>4, <1>5, <1>6, <1>7, <1>8, <1>9, <1>10 DEF Next

LEMMA Invariance == Spec => []IInv
BY InitInv, NextInv, PTL DEF Spec

-------------------------------------------------------------------------------
(* The state stays of its type: the rewards in the cache are those of its  *)
(* url, in whatever order calls end and however the cluster is switched.   *)
THEOREM TypeCorrect == Spec => []TypeOK
<1>1. IInv => TypeOK
  BY DEF IInv
<1>. QED
  BY <1>1, Invariance, PTL

(* "No rewards issued between epochs ... and ...": every epoch in between  *)
(* is listed or was answered with null, whatever the size of a page, and   *)
(* however epochs begin meanwhile.  Without an answer from before a switch *)
(* away and back, the pages are asked for one after the other.             *)
THEOREM RangeHasNoHoles == Spec => []RangeIsComplete
<1>1. IInv => RangeIsComplete
  BY DEF IInv
<1>. QED
  BY <1>1, Invariance, PTL

-------------------------------------------------------------------------------
(* The refinement. *)

LEMMA SameTerms ==
  /\ \A u \in Url : Promise!Clear(u) = Clear(u)
  /\ \A u : Promise!Entry(Rewards(u)) = Entry(Rewards(u))
  /\ Promise!FetchStatus = FetchStatus
BY DEF Promise!Clear, Clear, Promise!Absent, Absent, Promise!Entry, Entry,
       Promise!FetchStatus, FetchStatus

(* A dispatch that leaves the entry in order is an update of the promise.  *)
LEMMA UpdatePromised ==
  ASSUME IInv, IInv', cache'.url = cache.url, cache' # cache,
         entry'.status \in FetchStatus,
         entry.data # NoData => entry'.data # NoData,
         entry'.status = "Fetched" => entry'.data # NoData
  PROVE  Promise!UpdateEntries
<1>1. /\ cache' = [url |-> cache.url, entries |-> [k \in {Address} |-> entry']]
      /\ cache = [url |-> cache.url, entries |-> [k \in {Address} |-> entry]]
      /\ entry' \in Entry(Rewards(cache.url))
  BY DEF IInv, TypeOK
<1> DEFINE new == entry'
           was == entry
           u == cache.url
<1>2. cache'.entries = [k \in {Address} |-> new] /\ cache.entries = [k \in {Address} |-> was]
  BY <1>1
<1>3. Promise!Changes(was, new)
  BY SameTerms DEF Promise!Changes
<1>4. cache'.entries \in [{Address} -> Promise!Entry(Rewards(u))]
  BY <1>1, <1>2, SameTerms
<1>5. cache' = [cache EXCEPT !.entries = cache'.entries]
  <2>1. PICK e, f : cache = [url |-> u, entries |-> e] /\ cache' = [url |-> u, entries |-> f]
    BY <1>1
  <2>. HIDE DEF u
  <2>. QED
    BY <2>1
<1>6. \A k \in {Address} : Promise!Changes(cache.entries[k], cache'.entries[k])
  <2>. HIDE DEF new, was
  <2>. QED
    BY <1>2, <1>3
<1>. QED
  BY <1>4, <1>5, <1>6 DEF Promise!UpdateEntries

(* The rewards provider implements the promise of UrlCache: what it has is *)
(* of the cache's url, only a Clear takes rewards away, and a page that    *)
(* joins others, or a failure after some, leaves them there.               *)
THEOREM KeepsPromise == Spec => ImplementsUrlCache
<1>1. Init => Promise!Init
  BY SameTerms DEF Init, Promise!Init
<1>2. IInv /\ IInv' /\ [Next]_vars => [Promise!Next]_cache
  <2> SUFFICES ASSUME IInv, IInv', [Next]_vars, cache' # cache PROVE Promise!Next
    OBVIOUS
  <2>1. CASE ClearEffect
    BY <2>1, SameTerms DEF IInv, TypeOK, ClearEffect, Promise!Next, Promise!Empty
  <2>2. ASSUME NEW u, NEW status \in {"Fetching", "FetchFailed"}, Dispatch(u, status, NoData)
        PROVE  Promise!Next
    <3>1. /\ cache'.url = cache.url /\ entry'.data = entry.data /\ u = cache.url
          /\ entry'.status = status
      BY <2>2, StatusType DEF IInv
    <3>. QED
      BY <3>1, UpdatePromised DEF Promise!Next, FetchStatus
  <2>3. ASSUME NEW r \in Request, RewardsAnswered(r) PROVE Promise!Next
    <3>1. PICK loaded \in Rewards(calls[r].url) : Dispatch(calls[r].url, "Fetched", loaded)
      BY <2>3, AnswerBrings DEF IInv
    <3>2. /\ cache'.url = cache.url /\ calls[r].url = cache.url
          /\ entry' = [status |-> "Fetched", data |-> reconcile(entry.data, loaded)]
      BY <3>1, DispatchEffect DEF IInv
    <3>3. cache.url \in Url /\ entry.data \in Rewards(cache.url) \cup {NoData}
      BY DEF IInv, TypeOK, Entry, Absent
    <3>4. reconcile(entry.data, loaded) # NoData
      <4>1. CASE entry.data = NoData
        BY <3>2, <3>3, <4>1, NoDataAssumption DEF reconcile
      <4>2. CASE entry.data # NoData
        BY <3>2, <3>3, <4>2, Joined, NoDataAssumption
      <4>. QED
        BY <4>1, <4>2
    <3>5. entry'.status = "Fetched" /\ entry'.data # NoData
      BY <3>2, <3>4
    <3>. QED
      BY <3>2, <3>5, UpdatePromised DEF Promise!Next, FetchStatus
  <2>4. CASE OpenCard
    BY <2>2, <2>4 DEF OpenCard, fetchRewards
  <2>5. CASE LoadMore
    BY <2>2, <2>5 DEF LoadMore, fetchRewards
  <2>6. ASSUME NEW r \in Request, EpochFails(r) PROVE Promise!Next
    BY <2>2, <2>6 DEF EpochFails
  <2>. QED
    BY <2>1, <2>3, <2>4, <2>5, <2>6
    DEF Next, vars, NewEpoch, Switch, CloseCard, EpochAnswered
<1>. QED
  BY <1>1, <1>2, Invariance, PTL DEF Spec, ImplementsUrlCache, Promise!Spec

-------------------------------------------------------------------------------
(* The cards of a program.                                                 *)
Hashes == {p.hash : p \in Programs}
Multisigs == {squadOf[a].multisig : a \in DOMAIN squadOf}

EntryIs(e) ==
  /\ e = [signer |-> e.signer, is_verified |-> e.is_verified, on_chain_hash |-> e.on_chain_hash]
  /\ e.is_verified \in BOOLEAN

(* What is kept of the registry has no entry it did not answer, none that  *)
(* verifies other bytes than those of p, and of the bytes that alone were  *)
(* compared every entry it answered.                                       *)
Verifies(e, o) ==
  o.signer = e.signer /\ o.on_chain_hash = e.on_chain_hash /\ (e.is_verified => o.is_verified)

KeptOf(kept, p, hashes) ==
  kept.status = "answered" =>
    /\ osec.status = "answered"
    /\ \A e \in kept.data :
         /\ EntryIs(e) /\ \E o \in osec.data : Verifies(e, o)
         /\ p # NoData /\ Program!trusts(p, e) => e.on_chain_hash = p.hash
    /\ \A h \in Hashes : hashes \subseteq {h} =>
         \A o \in osec.data : o.on_chain_hash = h => o \in kept.data

ServicesAre ==
  /\ programUrl \in Url /\ onChain \in [Url -> Programs] /\ programData \in Programs \cup {NoData}
  /\ osec \in {Program!Answered(a) : a \in Answers} \cup {Program!NoArray}

BuildsAre ==
  /\ pdas = [s \in Program!Signer |-> pdas[s]]
  /\ \A s \in Program!Signer :
       /\ pdas[s].status = "asked" => pdas[s].data \in Url
       /\ pdas[s].status = "answered" => \E u \in Url : pdas[s].data = <<s, u>>

SquadsAre ==
  /\ squads = [m \in Multisigs |-> squads[m]]
  /\ \A m \in Multisigs : squads[m].status = "answered" => squads[m].data = <<"members of", m>>

(* The inductive invariant of the cards of a program.                      *)
ProgramInv ==
  /\ ServicesAre /\ KeptOf(registry, programData, compared) /\ BuildsAre /\ SquadsAre

CardsInv == part = "program" => ProgramInv

(* What the registry answered is kept as it is, and a render that compares *)
(* it with a program keeps of it what is of that program's bytes.          *)
LEMMA OsecHas ==
  ASSUME ServicesAre
  PROVE  osec.status = "answered" => \A o \in osec.data : EntryIs(o)
<1>1. CASE osec = Program!NoArray
  BY <1>1 DEF Program!NoArray, Program!State
<1>2. ASSUME NEW a \in Answers, osec = Program!Answered(a)
      PROVE  \A o \in osec.data : EntryIs(o)
  BY <1>2, ProgramsAssumption DEF Program!Answered, Program!State, EntryIs
<1>. QED
  BY <1>1, <1>2 DEF ServicesAre

LEMMA CompareIs ==
  ASSUME NEW S, \A e \in S : EntryIs(e), NEW p
  PROVE  /\ \A c \in Program!Compare(S, p) :
              /\ EntryIs(c) /\ \E e \in S : Verifies(c, e)
              /\ Program!trusts(p, c) => c.on_chain_hash = p.hash
         /\ \A e \in S : e.on_chain_hash = p.hash => e \in Program!Compare(S, p)
<1> DEFINE compared1(e) == IF Program!trusts(p, e)
                           THEN [e EXCEPT !.is_verified = (e.on_chain_hash = p.hash)] ELSE e
<1>1. Program!Compare(S, p) = {compared1(e) : e \in S}
  BY DEF Program!Compare
<1>2. ASSUME NEW e \in S, Program!trusts(p, e)
      PROVE  compared1(e) = [signer |-> e.signer, is_verified |-> (e.on_chain_hash = p.hash),
                             on_chain_hash |-> e.on_chain_hash]
  BY <1>2 DEF EntryIs
<1>3. ASSUME NEW e \in S, Program!trusts(p, e)
      PROVE  /\ compared1(e).signer = e.signer /\ compared1(e).on_chain_hash = e.on_chain_hash
             /\ compared1(e).is_verified = (e.on_chain_hash = p.hash) /\ e.is_verified
  BY <1>2, <1>3 DEF Program!trusts
<1>4. ASSUME NEW e \in S, ~Program!trusts(p, e)
      PROVE  compared1(e) = e
  BY <1>4
<1>5. ASSUME NEW e \in S
      PROVE  /\ EntryIs(compared1(e)) /\ Verifies(compared1(e), e)
             /\ Program!trusts(p, compared1(e)) => compared1(e).on_chain_hash = p.hash
  <2>1. CASE Program!trusts(p, e)
    <3>1. EntryIs(compared1(e))
      BY <1>2, <1>3, <2>1, Zenon DEF EntryIs
    <3>2. Program!trusts(p, compared1(e)) => compared1(e).is_verified
      BY DEF Program!trusts
    <3> HIDE DEF compared1
    <3>. QED
      BY <1>3, <2>1, <3>1, <3>2, Zenon DEF Verifies
  <2>2. CASE ~Program!trusts(p, e)
    <3>1. compared1(e) = e
      BY <1>4, <2>2
    <3> HIDE DEF compared1
    <3>. QED
      BY <2>2, <3>1 DEF Verifies
  <2>. QED
    BY <2>1, <2>2
<1>6. ASSUME NEW e \in S, e.on_chain_hash = p.hash
      PROVE  compared1(e) = e
  <2>1. CASE Program!trusts(p, e)
    <3>1. e.is_verified = TRUE
      BY <2>1, Zenon DEF Program!trusts, EntryIs
    <3>2. (e.on_chain_hash = p.hash) = TRUE
      BY <1>6
    <3>3. compared1(e) = [signer |-> e.signer, is_verified |-> TRUE, on_chain_hash |-> e.on_chain_hash]
      BY <1>2, <2>1, <3>2, Zenon
    <3>. QED
      BY <3>1, <3>3, Zenon DEF EntryIs
  <2>2. CASE ~Program!trusts(p, e)
    BY <1>4, <2>2
  <2>. QED
    BY <2>1, <2>2
<1> HIDE DEF compared1
<1>. QED
  BY <1>1, <1>5, <1>6

(* A render with p of what was kept for another program, or for none. *)
LEMMA RenderKeeps ==
  ASSUME ServicesAre, osec' = osec, NEW kept, NEW q, KeptOf(kept, q, compared),
         NEW p \in Programs \cup {NoData}, Program!Render(kept, p)
  PROVE  /\ KeptOf(registry', p, compared')
<1>1. CASE p # NoData /\ kept.status = "answered"
  <2>1. registry' = Program!Answered(Program!Compare(kept.data, p)) /\ compared' = compared \cup {p.hash}
    BY <1>1 DEF Program!Render
  <2>2. registry'.status = "answered" /\ registry'.data = Program!Compare(kept.data, p)
    BY <2>1 DEF Program!Answered, Program!State
  <2>3. /\ osec.status = "answered"
        /\ \A e \in kept.data : EntryIs(e) /\ \E o \in osec.data : Verifies(e, o)
        /\ \A h \in Hashes : compared \subseteq {h} =>
             \A o \in osec.data : o.on_chain_hash = h => o \in kept.data
    BY <1>1 DEF KeptOf
  <2>4. ASSUME NEW c \in Program!Compare(kept.data, p)
        PROVE  /\ EntryIs(c) /\ \E o \in osec.data : Verifies(c, o)
               /\ Program!trusts(p, c) => c.on_chain_hash = p.hash
    <3>1. /\ EntryIs(c) /\ \E e \in kept.data : Verifies(c, e)
          /\ Program!trusts(p, c) => c.on_chain_hash = p.hash
      BY <2>3, CompareIs
    <3>2. PICK e \in kept.data : Verifies(c, e)
      BY <3>1
    <3>3. PICK o \in osec.data : Verifies(e, o)
      BY <2>3
    <3>4. Verifies(c, o)
      BY <3>2, <3>3, Zenon DEF Verifies
    <3>. QED
      BY <3>1, <3>4
  <2>5. ASSUME NEW h \in Hashes, compared' \subseteq {h}, NEW o \in osec.data, o.on_chain_hash = h
        PROVE  o \in Program!Compare(kept.data, p)
    <3>1. compared \subseteq {h} /\ p.hash = h
      BY <2>1, <2>5
    <3>2. o \in kept.data
      BY <2>3, <2>5, <3>1
    <3>. QED
      BY <2>3, <2>5, <3>1, <3>2, CompareIs
  <2>. QED
    BY <2>2, <2>3, <2>4, <2>5 DEF KeptOf
<1>2. CASE ~ (p # NoData /\ kept.status = "answered")
  <2>1. registry' = kept /\ compared' = compared
    BY <1>2 DEF Program!Render
  <2>. QED
    BY <1>2, <2>1 DEF KeptOf
<1>. QED
  BY <1>1, <1>2

-------------------------------------------------------------------------------
(* The steps.  Of a program whose account, builds and multisigs stay. *)
OthersStay == UNCHANGED <<programUrl, onChain, osec, pdas, squads>>

LEMMA RegistryStep ==
  ASSUME ProgramInv, OthersStay, programData' \in Programs \cup {NoData},
         KeptOf(registry', programData', compared')
  PROVE  ProgramInv'
<1>1. ServicesAre' /\ BuildsAre' /\ SquadsAre'
  BY DEF ProgramInv, ServicesAre, BuildsAre, SquadsAre, OthersStay
<1>2. KeptOf(registry, programData, compared)'
  BY DEF KeptOf, OthersStay
<1>. QED
  BY <1>1, <1>2 DEF ProgramInv

LEMMA KeptOfNone ==
  ASSUME NEW kept, NEW p, NEW hashes, KeptOf(kept, p, hashes)
  PROVE  KeptOf(kept, NoData, hashes)
BY DEF KeptOf

LEMMA ProgramFetchStep ==
  ASSUME ProgramInv, Program!Fetch
  PROVE  ProgramInv'
<1>1. /\ programData' = onChain[programUrl] /\ Program!Render(registry, onChain[programUrl])
      /\ OthersStay
  BY DEF Program!Fetch, OthersStay
<1>2. onChain[programUrl] \in Programs \cup {NoData} /\ osec' = osec /\ ServicesAre
  BY <1>1 DEF ProgramInv, ServicesAre, OthersStay
<1>3. KeptOf(registry', programData', compared')
  BY <1>1, <1>2, RenderKeeps DEF ProgramInv
<1>. QED
  BY <1>1, <1>2, <1>3, RegistryStep

LEMMA AnswerRegistryStep ==
  ASSUME ProgramInv, Program!AnswerRegistry
  PROVE  ProgramInv'
<1>1. Program!Render(osec, programData) /\ OthersStay /\ programData' = programData
  BY DEF Program!AnswerRegistry, OthersStay
<1>2. ServicesAre /\ programData \in Programs \cup {NoData} /\ osec' = osec
  BY <1>1 DEF ProgramInv, ServicesAre, OthersStay
<1>3. KeptOf(osec, NoData, compared)
  BY <1>2, OsecHas, Zenon DEF KeptOf, Verifies
<1>4. KeptOf(registry', programData', compared')
  BY <1>1, <1>2, <1>3, RenderKeeps
<1>. QED
  BY <1>1, <1>2, <1>4, RegistryStep

(* The registry is asked, or does not answer. *)
LEMMA UnansweredStep ==
  ASSUME ProgramInv, Program!AskRegistry \/ Program!FailRegistry
  PROVE  ProgramInv'
<1>1. registry'.status # "answered" /\ OthersStay /\ programData' = programData
  BY DEF Program!AskRegistry, Program!FailRegistry, Program!Asked, Program!Failed, Program!State,
         OthersStay
<1>2. KeptOf(registry', programData', compared')
  BY <1>1 DEF KeptOf
<1>. QED
  BY <1>1, <1>2, RegistryStep DEF ProgramInv, ServicesAre

(* The registry and the program that is shown stay.                        *)
LEMMA ShownStays ==
  ASSUME ProgramInv, UNCHANGED <<programData, osec, registry, compared>>,
         programUrl' \in Url, onChain' \in [Url -> Programs], BuildsAre', SquadsAre'
  PROVE  ProgramInv'
<1>1. ServicesAre'
  BY DEF ProgramInv, ServicesAre
<1>2. KeptOf(registry, programData, compared)'
  BY DEF ProgramInv, KeptOf
<1>. QED
  BY <1>1, <1>2 DEF ProgramInv

LEMMA SwitchStep ==
  ASSUME ProgramInv, NEW u \in Url, Program!Switch(u)
  PROVE  ProgramInv'
<1>1. /\ programUrl' = u /\ programData' = NoData
      /\ UNCHANGED <<onChain, osec, registry, pdas, squads, compared>>
  BY DEF Program!Switch
<1>2. KeptOf(registry, NoData, compared)
  BY KeptOfNone DEF ProgramInv
<1>3. KeptOf(registry, programData, compared)'
  BY <1>1, <1>2 DEF KeptOf
<1>4. ServicesAre' /\ BuildsAre' /\ SquadsAre'
  BY <1>1 DEF ProgramInv, ServicesAre, BuildsAre, SquadsAre
<1>. QED
  BY <1>3, <1>4 DEF ProgramInv

LEMMA UpgradeStep ==
  ASSUME ProgramInv, NEW p \in Programs, Program!Upgrade(p)
  PROVE  ProgramInv'
<1>1. /\ onChain' = [onChain EXCEPT ![programUrl] = p]
      /\ UNCHANGED <<programUrl, programData, osec, registry, pdas, squads, compared>>
  BY DEF Program!Upgrade
<1>2. onChain' \in [Url -> Programs] /\ programUrl' \in Url
  BY <1>1 DEF ProgramInv, ServicesAre
<1>3. BuildsAre' /\ SquadsAre'
  BY <1>1 DEF ProgramInv, BuildsAre, SquadsAre
<1>. QED
  BY <1>1, <1>2, <1>3, ShownStays

LEMMA QuietStep ==
  ASSUME ProgramInv, UNCHANGED <<programUrl, onChain, programData, osec, registry, pdas, squads, compared>>
  PROVE  ProgramInv'
<1>1. BuildsAre' /\ SquadsAre' /\ programUrl' \in Url /\ onChain' \in [Url -> Programs]
  BY DEF ProgramInv, ServicesAre, BuildsAre, SquadsAre
<1>. QED
  BY <1>1, ShownStays

(* What a build or a multisig becomes.                                     *)
LEMMA BuildStep ==
  ASSUME ProgramInv, NEW s \in Program!Signer, NEW state, pdas' = [pdas EXCEPT ![s] = state],
         state.status = "asked" => state.data \in Url,
         state.status = "answered" => \E u \in Url : state.data = <<s, u>>,
         UNCHANGED <<programUrl, onChain, programData, osec, registry, squads, compared>>
  PROVE  ProgramInv'
<1>1. pdas' = [t \in Program!Signer |-> IF t = s THEN state ELSE pdas[t]]
  BY DEF ProgramInv, BuildsAre
<1>2. BuildsAre'
  BY <1>1 DEF ProgramInv, BuildsAre
<1>3. SquadsAre' /\ programUrl' \in Url /\ onChain' \in [Url -> Programs]
  BY DEF ProgramInv, ServicesAre, SquadsAre
<1>. QED
  BY <1>2, <1>3, ShownStays

LEMMA SquadStep ==
  ASSUME ProgramInv, NEW m, NEW state, squads' = [squads EXCEPT ![m] = state],
         state.status = "answered" => state.data = <<"members of", m>>,
         UNCHANGED <<programUrl, onChain, programData, osec, registry, pdas, compared>>
  PROVE  ProgramInv'
<1>1. squads' = [n \in Multisigs |-> IF n = m THEN state ELSE squads[n]]
  BY DEF ProgramInv, SquadsAre
<1>2. SquadsAre'
  BY <1>1 DEF ProgramInv, SquadsAre
<1>3. BuildsAre' /\ programUrl' \in Url /\ onChain' \in [Url -> Programs]
  BY DEF ProgramInv, ServicesAre, BuildsAre
<1>. QED
  BY <1>2, <1>3, ShownStays

-------------------------------------------------------------------------------
(* Of naturals there is a least.                                             *)
LEMMA LeastOf ==
  ASSUME NEW S \in SUBSET Nat, S # {}
  PROVE  \E m \in S : \A x \in S : m <= x
<1>1. PICK m \in S : \A y \in S : ~ (<<y, m>> \in OpToRel(<, Nat))
  BY WFMin, NatLessThanWellFounded, Zenon
<1>2. \A y \in S : ~ (y < m)
  BY <1>1 DEF OpToRel
<1>. QED
  BY <1>2

(* Who is trusted: first the authority of the program.                     *)
Trusted(p) == Program!hierarchy(p)

LEMMA TrustedAre ==
  ASSUME NEW p \in Programs
  PROVE  /\ Len(Trusted(p)) \in Nat /\ Len(TRUSTED_SIGNERS) \in Nat
         /\ p.authority = NoData =>
              /\ Len(Trusted(p)) = Len(TRUSTED_SIGNERS)
              /\ \A i \in 1 .. Len(TRUSTED_SIGNERS) : Trusted(p)[i] = TRUSTED_SIGNERS[i]
         /\ p.authority # NoData =>
              /\ Len(Trusted(p)) = Len(TRUSTED_SIGNERS) + 1 /\ Trusted(p)[1] = p.authority
              /\ \A i \in 1 .. Len(TRUSTED_SIGNERS) : Trusted(p)[i + 1] = TRUSTED_SIGNERS[i]
         /\ \A i \in 1 .. Len(Trusted(p)) : Trusted(p)[i] \in Program!Signer
         /\ Program!ToSet(TRUSTED_SIGNERS) = {TRUSTED_SIGNERS[i] : i \in 1 .. Len(TRUSTED_SIGNERS)}
<1> DEFINE S == ToSet(TRUSTED_SIGNERS)
<1>1. TRUSTED_SIGNERS \in Seq(S)
  BY ProgramsAssumption
<1>2. Program!ToSet(TRUSTED_SIGNERS) = S /\ S = {TRUSTED_SIGNERS[i] : i \in 1 .. Len(TRUSTED_SIGNERS)}
  <2>1. DOMAIN TRUSTED_SIGNERS = 1 .. Len(TRUSTED_SIGNERS)
    BY <1>1
  <2>. QED
    BY <2>1 DEF Program!ToSet, ToSet
<1> HIDE DEF S
<1>3. Len(TRUSTED_SIGNERS) \in Nat
  BY <1>1
<1>4. CASE p.authority = NoData
  <2>1. Trusted(p) = <<>> \o TRUSTED_SIGNERS
    BY <1>4 DEF Trusted, Program!hierarchy
  <2>2. Trusted(p) = TRUSTED_SIGNERS
    BY <1>1, <2>1
  <2>3. \A i \in 1 .. Len(TRUSTED_SIGNERS) : TRUSTED_SIGNERS[i] \in Program!Signer
    BY <1>2 DEF Program!Signer
  <2>. QED
    BY <1>2, <1>3, <1>4, <2>2, <2>3
<1>5. CASE p.authority # NoData
  <2>1. Trusted(p) = <<p.authority>> \o TRUSTED_SIGNERS
    BY <1>5 DEF Trusted, Program!hierarchy
  <2>2. /\ Len(Trusted(p)) = Len(TRUSTED_SIGNERS) + 1 /\ Trusted(p)[1] = p.authority
        /\ \A i \in 1 .. Len(TRUSTED_SIGNERS) : Trusted(p)[i + 1] = TRUSTED_SIGNERS[i]
    <3>1. TRUSTED_SIGNERS \in Seq(S \cup {p.authority}) /\ <<p.authority>> \in Seq(S \cup {p.authority})
      BY <1>1
    <3> HIDE DEF Trusted
    <3>. QED
      BY <2>1, <3>1
  <2>3. p.authority \in Program!Signer
    BY <1>5 DEF Program!Signer
  <2>4. \A i \in 1 .. Len(TRUSTED_SIGNERS) : TRUSTED_SIGNERS[i] \in Program!Signer
    BY <1>2 DEF Program!Signer
  <2>5. ASSUME NEW i \in 1 .. Len(Trusted(p)) PROVE Trusted(p)[i] \in Program!Signer
    <3>1. i = 1 \/ (i - 1 \in 1 .. Len(TRUSTED_SIGNERS) /\ i = (i - 1) + 1)
      BY <1>3, <2>2
    <3>2. CASE i = 1
      BY <2>2, <2>3, <3>2
    <3>3. CASE i - 1 \in 1 .. Len(TRUSTED_SIGNERS) /\ i = (i - 1) + 1
      BY <2>2, <2>4, <3>3
    <3>. QED
      BY <3>1, <3>2, <3>3
  <2>. QED
    BY <1>2, <1>3, <1>5, <2>2, <2>5
<1>. QED
  BY <1>4, <1>5

(* An uploader of an entry of the registry that counts.                    *)
Uploaded(s) == \E e \in registry.data : e.signer = s /\ Program!trusts(programData, e)

(* The entry that is told is of the first of them.                         *)
LEMMA FirstUploader ==
  ASSUME programData \in Programs, Program!verifiedData # NoData
  PROVE  /\ registry.status = "answered"
         /\ \E i \in 1 .. Len(Trusted(programData)) :
              /\ Program!verifiedData \in registry.data
              /\ Program!verifiedData.signer = Trusted(programData)[i]
              /\ Program!trusts(programData, Program!verifiedData)
              /\ \A j \in 1 .. Len(Trusted(programData)) :
                   Uploaded(Trusted(programData)[j]) => i <= j
<1> DEFINE entries == IF registry.status = "answered" THEN registry.data ELSE {}
           verifies(s) == \E e \in entries : e.signer = s /\ Program!trusts(programData, e)
           h == Trusted(programData)
           I == {i \in 1 .. Len(h) : verifies(h[i])}
           first == Program!SelectInSeq(h, verifies)
<1>1. first = IF I # {} THEN Program!Min(I) ELSE 0
  BY DEF Program!SelectInSeq
<1>2. Program!verifiedData =
        IF first = 0 THEN NoData
        ELSE CHOOSE e \in entries : e.signer = h[first] /\ Program!trusts(programData, e)
  BY DEF Program!verifiedData, Trusted
<1> HIDE DEF first
<1>3. first # 0 /\ I # {} /\ first = Program!Min(I)
  BY <1>1, <1>2
<1>4. first \in I /\ \A j \in I : first <= j
  <2>1. PICK i \in I : TRUE
    BY <1>3
  <2>2. I \in SUBSET Nat
    BY TrustedAre
  <2> HIDE DEF I
  <2>3. \E m \in I : \A x \in I : m <= x
    BY <1>3, <2>2, LeastOf
  <2>. QED
    BY <1>3, <2>3, Zenon DEF Program!Min
<1>5. verifies(h[first])
  BY <1>4
<1>6. registry.status = "answered" /\ entries = registry.data
  BY <1>5
<1> DEFINE told(e) == e.signer = h[first] /\ Program!trusts(programData, e)
<1>7. \E e \in entries : told(e)
  BY <1>5
<1>8. Program!verifiedData = CHOOSE e \in entries : told(e)
  BY <1>2, <1>3
<1>9. Program!verifiedData \in entries /\ told(Program!verifiedData)
  <2> HIDE DEF told, entries
  <2>. QED
    BY <1>7, <1>8, Zenon
<1>10. \A j \in 1 .. Len(h) : Uploaded(h[j]) => j \in I
  BY <1>6 DEF Uploaded
<1>11. first \in 1 .. Len(h)
  BY <1>4
<1> HIDE DEF I, h
<1>12. \A j \in 1 .. Len(h) : Uploaded(h[j]) => first <= j
  BY <1>4, <1>10
<1>. QED
  BY <1>6, <1>9, <1>11, <1>12 DEF h

LEMMA UploaderIsSigner ==
  ASSUME ProgramInv, Program!hasSection, Program!verifiedData # NoData
  PROVE  Program!verifiedData.signer \in Program!Signer
<1>1. programData \in Programs
  BY DEF ProgramInv, ServicesAre, Program!hasSection
<1>. QED
  BY <1>1, FirstUploader, TrustedAre

-------------------------------------------------------------------------------
LEMMA AskPdaStep ==
  ASSUME ProgramInv, Program!AskPda
  PROVE  ProgramInv'
<1> DEFINE s == Program!verifiedData.signer
<1>1. /\ Program!hasSection /\ Program!verifiedData # NoData
      /\ pdas' = [pdas EXCEPT ![s] = Program!Asked(programUrl)]
      /\ UNCHANGED <<programUrl, onChain, programData, osec, registry, squads, compared>>
  BY DEF Program!AskPda
<1>2. s \in Program!Signer
  BY <1>1, UploaderIsSigner
<1> HIDE DEF s
<1>3. /\ Program!Asked(programUrl).status = "asked" /\ Program!Asked(programUrl).data = programUrl
      /\ programUrl \in Url
  BY DEF Program!Asked, Program!State, ProgramInv, ServicesAre
<1>. QED
  BY <1>1, <1>2, <1>3, BuildStep

LEMMA AnswerPdaStep ==
  ASSUME ProgramInv, NEW s \in Program!Signer, Program!AnswerPda(s)
  PROVE  ProgramInv'
<1>1. PICK answer \in {Program!Failed, Program!Answered(<<s, pdas[s].data>>)} :
        pdas' = [pdas EXCEPT ![s] = answer]
  BY DEF Program!AnswerPda
<1>2. pdas[s].data \in Url
  BY DEF Program!AnswerPda, ProgramInv, BuildsAre
<1>3. answer.status # "asked" /\ (answer.status = "answered" => answer.data = <<s, pdas[s].data>>)
  BY <1>1 DEF Program!Failed, Program!Answered, Program!State
<1>4. UNCHANGED <<programUrl, onChain, programData, osec, registry, squads, compared>>
  BY DEF Program!AnswerPda
<1>. QED
  BY <1>1, <1>2, <1>3, <1>4, BuildStep

LEMMA AskSquadStep ==
  ASSUME ProgramInv, Program!AskSquad
  PROVE  ProgramInv'
<1>1. /\ squads' = [squads EXCEPT ![Program!squadMapInfo.multisig] = Program!Asked(programUrl)]
      /\ UNCHANGED <<programUrl, onChain, programData, osec, registry, pdas, compared>>
  BY DEF Program!AskSquad
<1>2. Program!Asked(programUrl).status # "answered"
  BY DEF Program!Asked, Program!State
<1>. QED
  BY <1>1, <1>2, SquadStep

LEMMA AnswerSquadStep ==
  ASSUME ProgramInv, NEW m, Program!AnswerSquad(m)
  PROVE  ProgramInv'
<1>1. PICK answer \in {Program!Failed, Program!Answered(<<"members of", m>>)} :
        squads' = [squads EXCEPT ![m] = answer]
  BY DEF Program!AnswerSquad
<1>2. answer.status = "answered" => answer.data = <<"members of", m>>
  <2>1. CASE answer = Program!Failed
    BY <2>1 DEF Program!Failed, Program!State
  <2>2. CASE answer = Program!Answered(<<"members of", m>>)
    BY <2>2, Zenon DEF Program!Answered, Program!State
  <2>. QED
    BY <1>1, <2>1, <2>2
<1>3. UNCHANGED <<programUrl, onChain, programData, osec, registry, pdas, compared>>
  BY DEF Program!AnswerSquad
<1>. QED
  BY <1>1, <1>2, <1>3, SquadStep

LEMMA ProgramInvInit == Program!Init => ProgramInv
<1> SUFFICES ASSUME Program!Init PROVE ProgramInv
  OBVIOUS
<1>1. ServicesAre
  BY DEF Program!Init, ServicesAre
<1>2. KeptOf(registry, programData, compared)
  BY DEF Program!Init, KeptOf, Program!Unasked, Program!State
<1>3. BuildsAre
  BY DEF Program!Init, BuildsAre, Program!Unasked, Program!State
<1>4. SquadsAre
  BY DEF Program!Init, SquadsAre, Multisigs, Program!Unasked, Program!State
<1>. QED
  BY <1>1, <1>2, <1>3, <1>4 DEF ProgramInv

LEMMA ProgramInvNext == ProgramInv /\ Program!Next => ProgramInv'
<1> SUFFICES ASSUME ProgramInv, Program!Next PROVE ProgramInv'
  OBVIOUS
<1>1. ASSUME NEW u \in Url, Program!Switch(u) PROVE ProgramInv'
  BY <1>1, SwitchStep
<1>2. ASSUME NEW tab, Program!Open(tab) PROVE ProgramInv'
  BY <1>2, QuietStep DEF Program!Open
<1>3. ASSUME NEW p \in Programs, Program!Upgrade(p) PROVE ProgramInv'
  BY <1>3, UpgradeStep
<1>4. CASE Program!Fetch
  BY <1>4, ProgramFetchStep
<1>5. CASE Program!Asking
  <2>1. CASE Program!AskRegistry
    BY <2>1, UnansweredStep
  <2>2. CASE Program!AskVerifier
    BY <2>2, QuietStep DEF Program!AskVerifier
  <2>3. CASE Program!AskPda
    BY <2>3, AskPdaStep
  <2>4. CASE Program!AskSquad
    BY <2>4, AskSquadStep
  <2>. QED
    BY <1>5, <2>1, <2>2, <2>3, <2>4 DEF Program!Asking
<1>6. CASE Program!Answering
  <2>1. CASE Program!AnswerRegistry
    BY <2>1, AnswerRegistryStep
  <2>2. CASE Program!FailRegistry
    BY <2>2, UnansweredStep
  <2>3. ASSUME NEW u \in Url, Program!AnswerVerifier(u) PROVE ProgramInv'
    BY <2>3, QuietStep DEF Program!AnswerVerifier
  <2>4. ASSUME NEW t \in Program!Signer, Program!AnswerPda(t) PROVE ProgramInv'
    BY <2>4, AnswerPdaStep
  <2>5. ASSUME NEW m, Program!AnswerSquad(m) PROVE ProgramInv'
    BY <2>5, AnswerSquadStep
  <2>. QED
    BY <1>6, <2>1, <2>2, <2>3, <2>4, <2>5 DEF Program!Answering
<1>. QED
  BY <1>1, <1>2, <1>3, <1>4, <1>5, <1>6 DEF Program!Next

LEMMA CardsInvInit == CardsInit => CardsInv
BY ProgramInvInit DEF CardsInit, CardsInv

LEMMA CardsInvNext == CardsInv /\ [CardsNext]_<<part, vars, stakeState, programState>> => CardsInv'
<1> SUFFICES ASSUME CardsInv, [CardsNext]_<<part, vars, stakeState, programState>>, part' = "program"
             PROVE  ProgramInv'
  BY DEF CardsInv
<1>1. part' = part
  BY DEF CardsNext
<1>2. ProgramInv
  BY <1>1 DEF CardsInv
<1>3. CASE Program!Next
  BY <1>2, <1>3, ProgramInvNext
<1>4. CASE UNCHANGED programState
  <2>1. UNCHANGED <<programUrl, onChain, programData, osec, registry, pdas, squads, compared>>
    BY <1>4 DEF programState
  <2>. QED
    BY <1>2, <2>1, QuietStep
<1>. QED
  BY <1>1, <1>3, <1>4 DEF CardsNext

-------------------------------------------------------------------------------
(* What is told of a build.                                                *)
Told == Program!BadgeShows = "Program Source Verified" \/ Program!CardShows = "Verified Build"
Counts == (Program!ToSet(TRUSTED_SIGNERS) \cup {programData.authority}) \ {NoData}
Rank(s) == IF s = programData.authority THEN 0
           ELSE Program!SelectInSeq(TRUSTED_SIGNERS, LAMBDA t : t = s)

LEMMA RankIs ==
  ASSUME NEW s \in Program!ToSet(TRUSTED_SIGNERS), s # programData.authority, programData \in Programs
  PROVE  /\ Rank(s) \in 1 .. Len(TRUSTED_SIGNERS) /\ TRUSTED_SIGNERS[Rank(s)] = s
         /\ \A i \in 1 .. Len(TRUSTED_SIGNERS) : TRUSTED_SIGNERS[i] = s => Rank(s) <= i
<1> DEFINE I == {i \in 1 .. Len(TRUSTED_SIGNERS) : TRUSTED_SIGNERS[i] = s}
<1>1. Rank(s) = IF I # {} THEN Program!Min(I) ELSE 0
  BY DEF Rank, Program!SelectInSeq
<1>2. I # {}
  BY TrustedAre
<1>3. \A i : i \in I <=> i \in 1 .. Len(TRUSTED_SIGNERS) /\ TRUSTED_SIGNERS[i] = s
  OBVIOUS
<1>4. I \in SUBSET Nat
  BY TrustedAre
<1> HIDE DEF I
<1>5. \E m \in I : \A x \in I : m <= x
  BY <1>2, <1>4, LeastOf
<1>6. Program!Min(I) \in I /\ \A i \in I : Program!Min(I) <= i
  BY <1>5, Zenon DEF Program!Min
<1>. QED
  BY <1>1, <1>2, <1>3, <1>6

LEMMA RanksAgree ==
  ASSUME programData \in Programs, NEW i \in 1 .. Len(Trusted(programData)),
         NEW s \in Counts, \A j \in 1 .. Len(Trusted(programData)) : Trusted(programData)[j] = s => i <= j
  PROVE  Rank(s) \in Nat /\ Rank(Trusted(programData)[i]) \in Nat
         /\ Rank(Trusted(programData)[i]) <= Rank(s)
<1> DEFINE h == Trusted(programData)
           authority == programData.authority
           TS == Program!ToSet(TRUSTED_SIGNERS)
           n == Len(TRUSTED_SIGNERS)
<1>1. /\ Len(h) \in Nat /\ n \in Nat
      /\ authority = NoData => Len(h) = n /\ \A k \in 1 .. n : h[k] = TRUSTED_SIGNERS[k]
      /\ authority # NoData => /\ Len(h) = n + 1 /\ h[1] = authority
                               /\ \A k \in 1 .. n : h[k + 1] = TRUSTED_SIGNERS[k]
      /\ TS = {TRUSTED_SIGNERS[k] : k \in 1 .. n}
  BY TrustedAre
<1>2. NoData \notin TS
  BY ProgramsAssumption DEF Program!ToSet, ToSet
<1>3. s # authority => s \in TS
  BY DEF Counts
<1>4. Rank(authority) = 0
  BY DEF Rank
<1>5. \A t \in TS : t # authority =>
        /\ Rank(t) \in 1 .. n /\ TRUSTED_SIGNERS[Rank(t)] = t
        /\ \A k \in 1 .. n : TRUSTED_SIGNERS[k] = t => Rank(t) <= k
  BY RankIs
<1> HIDE DEF h, authority, TS, n
<1>6. i \in 1 .. Len(h) /\ \A j \in 1 .. Len(h) : h[j] = s => i <= j
  BY DEF h
<1>7. CASE authority = NoData
  <2>1. s # authority
    BY <1>7 DEF Counts
  <2>2. Rank(s) \in 1 .. n /\ h[Rank(s)] = s /\ i \in 1 .. n
    BY <1>1, <1>3, <1>5, <1>6, <1>7, <2>1
  <2>3. i <= Rank(s)
    BY <1>1, <1>6, <1>7, <2>2
  <2>4. h[i] = TRUSTED_SIGNERS[i] /\ h[i] \in TS
    BY <1>1, <1>7, <2>2
  <2>5. Rank(h[i]) \in 1 .. n /\ Rank(h[i]) <= i
    BY <1>2, <1>5, <1>7, <2>2, <2>4
  <2>. QED
    BY <1>1, <2>2, <2>3, <2>5 DEF h
<1>8. CASE authority # NoData
  <2>1. CASE s = authority
    <3>1. i = 1
      BY <1>1, <1>6, <1>8, <2>1
    <3>. QED
      BY <1>1, <1>4, <1>8, <2>1, <3>1 DEF h
  <2>2. CASE s # authority
    <3>1. Rank(s) \in 1 .. n /\ TRUSTED_SIGNERS[Rank(s)] = s
      BY <1>3, <1>5, <2>2
    <3>2. i <= Rank(s) + 1
      BY <1>1, <1>6, <1>8, <3>1
    <3>3. CASE h[i] = authority
      BY <1>1, <1>4, <3>1, <3>3 DEF h
    <3>4. CASE h[i] # authority
      <4>1. i - 1 \in 1 .. n /\ (i - 1) + 1 = i
        BY <1>1, <1>6, <1>8, <3>4
      <4>2. h[i] = TRUSTED_SIGNERS[i - 1]
        BY <1>1, <1>8, <4>1
      <4>3. h[i] \in TS
        BY <1>1, <4>1, <4>2
      <4>4. Rank(h[i]) \in 1 .. n /\ Rank(h[i]) <= i - 1
        BY <1>5, <3>4, <4>1, <4>2, <4>3
      <4>. QED
        BY <1>1, <1>6, <3>1, <3>2, <4>4 DEF h
    <3>. QED
      BY <3>3, <3>4
  <2>. QED
    BY <2>1, <2>2
<1>. QED
  BY <1>7, <1>8

LEMMA ToldIs ==
  ASSUME Told
  PROVE  Program!osecInfo # NoData
<1>1. ASSUME Program!BadgeShows = "Program Source Verified" PROVE Program!osecInfo # NoData
  BY <1>1 DEF Program!BadgeShows
<1>2. ASSUME Program!CardShows = "Verified Build" PROVE Program!osecInfo # NoData
  BY <1>2 DEF Program!CardShows
<1>. QED
  BY <1>1, <1>2 DEF Told

LEMMA InfoIs ==
  ASSUME Program!osecInfo # NoData
  PROVE  /\ Program!verifiedData # NoData /\ Program!pda.status = "answered"
         /\ Program!osecInfo.signer = Program!verifiedData.signer
         /\ Program!osecInfo.repo = pdas[Program!verifiedData.signer].data
         /\ pdas[Program!verifiedData.signer].status = "answered"
<1>1. Program!pda.status = "answered"
  BY DEF Program!osecInfo
<1>2. Program!verifiedData # NoData /\ Program!pda = pdas[Program!verifiedData.signer]
  BY <1>1 DEF Program!pda, Program!Unasked, Program!State
<1>3. /\ Program!osecInfo.signer = Program!verifiedData.signer
      /\ Program!osecInfo.repo = Program!pda.data
  BY <1>1 DEF Program!osecInfo
<1>. QED
  BY <1>1, <1>2, <1>3

(* An entry that counts and verifies the bytes on display, as long as they *)
(* alone were compared, is still there.                                    *)
LEMMA VerifierUploaded ==
  ASSUME ProgramInv, programData \in Programs, registry.status = "answered",
         compared = {programData.hash}, NEW s \in Counts, Program!verifiedBy(s)
  PROVE  Uploaded(s)
<1>1. PICK o \in osec.data : o.signer = s /\ o.is_verified /\ o.on_chain_hash = programData.hash
  BY DEF Program!verifiedBy
<1>2. programData.hash \in Hashes
  BY DEF Hashes
<1>3. o \in registry.data
  BY <1>1, <1>2 DEF ProgramInv, KeptOf
<1>4. Program!trusts(programData, o)
  BY <1>1 DEF Program!trusts, Counts
<1>. QED
  BY <1>1, <1>3, <1>4 DEF Uploaded

LEMMA BuildTold == ProgramInv => Program!BuildIsTold
<1> SUFFICES ASSUME ProgramInv, Program!hasSection, ~Program!throws PROVE Program!BuildIsTold
  BY DEF Program!BuildIsTold
<1> DEFINE v == Program!verifiedData
           h == Trusted(programData)
           answered == registry.status = "answered" /\ Program!hasVerifier /\ Program!pda.status = "answered"
<1>1. programData \in Programs
  BY DEF ProgramInv, ServicesAre, Program!hasSection
<1>2. ASSUME Told
      PROVE  /\ Program!osecInfo.signer = v.signer /\ registry.status = "answered"
             /\ v \in registry.data /\ Program!trusts(programData, v) /\ v.signer \in Program!Signer
             /\ Program!osecInfo.repo[1] = v.signer
             /\ \E i \in 1 .. Len(h) : v.signer = h[i] /\ \A j \in 1 .. Len(h) : Uploaded(h[j]) => i <= j
  <2>1. v # NoData /\ Program!osecInfo.signer = v.signer
        /\ Program!osecInfo.repo = pdas[v.signer].data /\ pdas[v.signer].status = "answered"
    BY <1>2, ToldIs, InfoIs
  <2>2. v.signer \in Program!Signer
    BY <2>1, UploaderIsSigner
  <2>3. pdas[v.signer].data[1] = v.signer
    BY <2>1, <2>2 DEF ProgramInv, BuildsAre
  <2>. QED
    BY <1>1, <2>1, <2>2, <2>3, FirstUploader
<1>3. ASSUME Told
      PROVE  v.signer \in Counts /\ Program!verifiedBy(v.signer)
  <2>1. NoData \notin Program!Signer
    BY ProgramsAssumption DEF Program!Signer, Program!ToSet, ToSet
  <2>2. v.signer \in Counts
    BY <1>2, <1>3, <2>1, Zenon DEF Program!trusts, Counts
  <2>3. osec.status = "answered" /\ v.on_chain_hash = programData.hash
    BY <1>2, <1>3 DEF ProgramInv, KeptOf, Program!hasSection
  <2>4. PICK o \in osec.data : Verifies(v, o)
    BY <1>2, <1>3 DEF ProgramInv, KeptOf
  <2>5. o.signer = v.signer /\ o.is_verified /\ o.on_chain_hash = programData.hash
    BY <1>2, <1>3, <2>3, <2>4, Zenon DEF Verifies, Program!trusts
  <2>6. osec # Program!NoArray
    <3>1. Program!NoArray.status # "answered"
      BY DEF Program!NoArray, Program!State
    <3>. QED
      BY <2>3, <3>1
  <2>. QED
    BY <2>2, <2>5, <2>6, Zenon DEF Program!verifiedBy
<1>4. ASSUME Told, compared = {programData.hash}, NEW s \in Counts, Rank(s) < Rank(v.signer),
             Program!verifiedBy(s)
      PROVE  FALSE
  <2>1. Uploaded(s)
    BY <1>1, <1>2, <1>4, VerifierUploaded
  <2>2. PICK i \in 1 .. Len(h) : v.signer = h[i] /\ \A j \in 1 .. Len(h) : Uploaded(h[j]) => i <= j
    BY <1>2, <1>4
  <2>3. Rank(s) \in Nat /\ Rank(h[i]) \in Nat /\ Rank(h[i]) <= Rank(s)
    BY <1>1, <2>1, <2>2, RanksAgree
  <2> HIDE DEF h, v
  <2>. QED
    BY <1>4, <2>2, <2>3
<1>5. ASSUME answered, programUrl \in Mainnet
      PROVE  Told
  <2>1. Program!verifiedData # NoData /\ Program!pda = pdas[v.signer] /\ pdas[v.signer].status = "answered"
    BY <1>5 DEF Program!pda, Program!Unasked, Program!State
  <2>2. v.signer \in Program!Signer
    BY <2>1, UploaderIsSigner
  <2>3. PICK u \in Url : pdas[v.signer].data = <<v.signer, u>>
    BY <2>1, <2>2 DEF ProgramInv, BuildsAre
  <2> DEFINE message == IF v.signer \in Program!ToSet(TRUSTED_SIGNERS) THEN "trusted" ELSE "authority"
  <2>4. Program!osecInfo = [signer |-> v.signer, repo |-> <<v.signer, u>>, message |-> message]
    BY <1>5, <2>1, <2>3 DEF Program!osecInfo
  <2>5. Program!osecInfo \in [signer : Program!Signer, repo : Program!Signer \X Url,
                              message : {"trusted", "authority"}]
    <3>1. message \in {"trusted", "authority"}
      OBVIOUS
    <3>2. <<v.signer, u>> \in Program!Signer \X Url
      BY <2>2
    <3> HIDE DEF message, v
    <3>. QED
      BY <2>2, <2>4, <3>1, <3>2
  <2>6. Program!osecInfo # NoData
    BY <2>5, ProgramsAssumption
  <2>7. ~Program!suspended
    BY <1>5 DEF Program!suspended, Program!hasVerifier, Program!Answered, Program!State
  <2>8. Program!BadgeShows = "Program Source Verified"
    BY <1>5, <2>6, <2>7 DEF Program!BadgeShows
  <2>. QED
    BY <2>8 DEF Told
<1>6. /\ Told => /\ Program!osecInfo.signer \in Counts /\ Program!verifiedBy(Program!osecInfo.signer)
                 /\ Program!osecInfo.repo[1] = Program!osecInfo.signer
      /\ compared = {programData.hash} =>
           /\ Told => \A s \in Counts :
                Rank(s) < Rank(Program!osecInfo.signer) => ~Program!verifiedBy(s)
           /\ answered /\ programUrl \in Mainnet /\ (\E s \in Counts : Program!verifiedBy(s)) => Told
  <2> HIDE DEF v, h, answered
  <2>. QED
    BY <1>2, <1>3, <1>4, <1>5
<1>. QED
  BY <1>6, Zenon DEF Program!BuildIsTold, Told, Counts, Rank

LEMMA MultisigTold == ProgramInv => Program!MultisigIsTold
<1> SUFFICES ASSUME ProgramInv PROVE Program!MultisigIsTold
  OBVIOUS
<1> DEFINE info == Program!squadMapInfo
           a == programData.authority
<1>1. info # NoData => Program!hasSection /\ a \in DOMAIN squadOf /\ info = squadOf[a]
  BY DEF Program!squadMapInfo
<1>2. /\ Program!SectionShows.multisigBadge = (info # NoData)
      /\ Program!MultisigShows.multisig = IF info = NoData THEN NoData ELSE info.multisig
      /\ Program!MultisigShows.members =
           IF Program!squad = NoData \/ Program!squad.status # "answered" THEN NoData
           ELSE Program!squad.data
  BY DEF Program!SectionShows, Program!MultisigShows
<1>3. info # NoData => info.multisig # NoData
  BY <1>1, ProgramsAssumption
<1>4. ASSUME Program!MultisigShows.members # NoData
      PROVE  /\ a \in DOMAIN squadOf /\ Program!MultisigShows.multisig = squadOf[a].multisig
             /\ Program!MultisigShows.members = <<"members of", Program!MultisigShows.multisig>>
  <2>1. /\ Program!squad # NoData /\ Program!squad.status = "answered"
        /\ Program!MultisigShows.members = Program!squad.data
    BY <1>2, <1>4
  <2>2. info # NoData /\ Program!squad = squads[info.multisig]
    BY <2>1 DEF Program!squad
  <2>3. info.multisig \in Multisigs
    BY <1>1, <2>2 DEF Multisigs
  <2>4. squads[info.multisig].data = <<"members of", info.multisig>>
    BY <2>1, <2>2, <2>3 DEF ProgramInv, SquadsAre
  <2>5. Program!MultisigShows.multisig = info.multisig
    BY <1>2, <2>2
  <2>. QED
    BY <1>1, <2>1, <2>2, <2>4, <2>5, Zenon
<1>. QED
  BY <1>2, <1>3, <1>4 DEF Program!MultisigIsTold

(* What the badge and the card say of a verified build, and what the page  *)
(* says of a multisig, is so of the program on display, whatever program,  *)
(* cluster and answers came before.                                        *)
BuildAndMultisigAreTold == part = "program" => Program!BuildIsTold /\ Program!MultisigIsTold

THEOREM BuildAndMultisigAreAlwaysTold == CardsSpec => []BuildAndMultisigAreTold
<1>1. CardsInit => CardsInv
  BY CardsInvInit
<1>2. CardsInv /\ [CardsNext]_<<part, vars, stakeState, programState>> => CardsInv'
  BY CardsInvNext
<1>3. CardsInv => BuildAndMultisigAreTold
  BY BuildTold, MultisigTold DEF CardsInv, BuildAndMultisigAreTold
<1>. QED
  BY <1>1, <1>2, <1>3, PTL DEF CardsSpec
=================================================================================
