-------------------------------- MODULE Rewards --------------------------------
(***************************************************************************)
(* The staking rewards of an address: RewardsProvider (app/providers/      *)
(* accounts/rewards.tsx) and RewardsCard.  They are fetched in pages of    *)
(* epochs, downwards from the last complete epoch, or from the epoch the   *)
(* stake was deactivated in.                                               *)
(*                                                                         *)
(* In JavaScript an epoch of 0 is as false as an epoch that is undefined;  *)
(* Truthy says where the code makes no difference.                         *)
(***************************************************************************)
EXTENDS Integers, Sequences, SequencesExt, FiniteSets

CONSTANTS
  Address,         \* the address of the page, a key of the cache
  Url,             \* see Connection
  NoData,
  PageSize,        \* PAGE_SIZE, 15
  LowestAvailable, \* REWARDS_AVAILABLE_EPOCH of the cluster of a url, or 0
  Request,         \* slots for fetchRewards calls in flight (a bound)
  MaxEpoch,        \* bound on the current epoch
  MaxNewEpochs,    \* bound on the epochs that begin
  MaxSwitches,     \* bound on changes of the url
  MaxRequests      \* bound on calls started

ASSUME PageSizeAssumption == PageSize \in Nat \ {0}
ASSUME EpochsAssumption == MaxEpoch \in Nat /\ LowestAvailable \in [Url -> Nat]

VARIABLES
  url,             \* the url of the connection
  cache,           \* the reducer state of RewardsProvider
  open,            \* whether RewardsCard is mounted
  calls,           \* fetchRewards calls, by slot
  epoch,           \* the current epoch
  deactivated,     \* highestEpoch: where the stake ended, or NoData
  nulls,           \* epochs the cache got null for
  old, late,       \* calls of this url from before the last Clear, and
                   \* whether one of them ended since
  newEpochs, switches, requests

bounds == <<newEpochs, switches, requests>>
world == <<epoch, deactivated>>
recorded == <<nulls, old, late>>   \* for the properties only
vars == <<url, cache, open, calls, world, recorded, bounds>>

INSTANCE FetchCache WITH Key <- {Address}

-------------------------------------------------------------------------------
Epoch == 0 .. MaxEpoch

Truthy(e) == e \notin {NoData, 0}

(* Rewards: of each page in turn the epochs that have a reward, which the  *)
(* card lists downwards.  highest is -1 if not even epoch 0 was complete.  *)
Rewards(u) == [from : {u}, rows : Seq(SUBSET Epoch), highest : Epoch \cup {-1},
               lowest : Epoch, foundOldest : BOOLEAN]

(* `undefined` is no url, no epoch and no rewards.                         *)
ASSUME NoDataAssumption ==
  NoData \notin Url \cup Int /\ \A u \in Url : NoData \notin Rewards(u)

(* Mutant: a page replaces the rows of the pages before it.                *)
reconcileLatest(rewards, update) ==
  IF update = NoData THEN rewards
  ELSE IF rewards = NoData THEN update
  ELSE [update EXCEPT !.highest = IF Truthy(rewards.highest) THEN rewards.highest ELSE @]

(* reconcile: a page is put after the rows there are; the range goes from  *)
(* where the first page began to where this one ends.                      *)
reconcile(rewards, update) ==
  IF update = NoData THEN rewards
  ELSE IF rewards = NoData THEN update
  ELSE [update EXCEPT !.rows = rewards.rows \o @,
                      !.highest = IF Truthy(rewards.highest) THEN rewards.highest ELSE @]

(* A call: it waits for the epoch info, or for the rewards from fromEpoch. *)
Idle == [url |-> NoData, fromEpoch |-> NoData, waits |-> "none"]

Running(r) == calls[r].url # NoData

entry == cache.entries[Address]

-------------------------------------------------------------------------------
Init ==
  /\ url \in Url
  /\ cache = Clear(url)
  /\ open = FALSE
  /\ calls = [r \in Request |-> Idle]
  /\ epoch \in Epoch
  /\ deactivated \in Epoch \cup {NoData}
  /\ nulls = {} /\ old = {} /\ late = FALSE
  /\ newEpochs = 0 /\ switches = 0 /\ requests = 0

EffectsDone == cache.url = url

NewEpoch ==
  /\ epoch < MaxEpoch /\ newEpochs < MaxNewEpochs
  /\ epoch' = epoch + 1
  /\ newEpochs' = newEpochs + 1
  /\ UNCHANGED <<url, cache, open, calls, deactivated, recorded, switches, requests>>

(* The account of another cluster is loaded first, which unmounts the card. *)
Switch(u) ==
  /\ EffectsDone
  /\ u # url /\ switches < MaxSwitches
  /\ url' = u
  /\ open' = FALSE
  /\ switches' = switches + 1
  /\ UNCHANGED <<cache, calls, world, recorded, newEpochs, requests>>

(* The effect of RewardsProvider. *)
ClearEffect ==
  /\ ~EffectsDone
  /\ cache' = Clear(url)
  /\ nulls' = {} /\ late' = FALSE
  /\ old' = {r \in Request : calls[r].url = url}
  /\ UNCHANGED <<url, open, calls, world, bounds>>

Dispatch(u, status, update) ==
  cache' = UpdateAll(cache, u, {Address}, status,
                     [k \in {Address} |-> reconcile(cache.entries[k].data, update)])

(* useFetchRewards: on from the lowest epoch there is. *)
nextEpoch ==
  IF entry.data # NoData /\ Truthy(entry.data.lowest) THEN entry.data.lowest - 1 ELSE NoData

(* fetchRewards, up to its first await: without a fromEpoch, or with an    *)
(* epoch of 0, it asks for the epoch first.                                *)
fetchRewards ==
  /\ requests < MaxRequests
  /\ requests' = requests + 1
  /\ \E r \in Request :
       /\ ~Running(r)
       /\ calls' = [calls EXCEPT ![r] =
            [url |-> url, fromEpoch |-> nextEpoch,
             waits |-> IF Truthy(nextEpoch) THEN "rewards" ELSE "epoch"]]
  /\ Dispatch(url, "Fetching", NoData)

(* RewardsCard mounts or unmounts (another tab is chosen).                 *)
OpenCard ==
  /\ EffectsDone /\ ~open
  /\ open' = TRUE
  /\ IF entry = Absent THEN fetchRewards ELSE UNCHANGED <<cache, calls, requests>>
  /\ UNCHANGED <<url, world, recorded, newEpochs, switches>>

CloseCard ==
  /\ EffectsDone /\ open
  /\ open' = FALSE
  /\ UNCHANGED <<url, cache, calls, world, recorded, bounds>>

(* The retry button of the error card, or Load More.                       *)
LoadMore ==
  /\ EffectsDone /\ open
  /\ entry # Absent /\ entry.status # "Fetching"
  /\ entry.data # NoData => ~entry.data.foundOldest
  /\ fetchRewards
  /\ UNCHANGED <<url, open, world, recorded, newEpochs, switches>>

(* The epoch to begin with: the last complete one, or where the stake      *)
(* ended.                                                                  *)
newest ==
  LET last == epoch - 1
  IN  IF Truthy(deactivated) /\ deactivated < last THEN deactivated ELSE last

EpochAnswered(r) ==
  /\ calls[r].waits = "epoch"
  /\ calls' = [calls EXCEPT ![r] = [url |-> @.url, fromEpoch |-> newest, waits |-> "rewards"]]
  /\ UNCHANGED <<url, cache, open, world, recorded, bounds>>

(* The call is over.  The cache cannot tell an answer that was asked for   *)
(* before the cluster was switched away and back from one of its own.      *)
Settles(r) ==
  /\ calls' = [calls EXCEPT ![r] = Idle]
  /\ old' = old \ {r}
  /\ late' = (late \/ r \in old)

(* Mutant: an error of the epoch info is only logged.                      *)
EpochFailsSilently(r) ==
  /\ calls[r].waits = "epoch"
  /\ Settles(r)
  /\ UNCHANGED <<url, cache, open, world, nulls, bounds>>

EpochFails(r) ==
  /\ calls[r].waits = "epoch"
  /\ Settles(r)
  /\ Dispatch(calls[r].url, "FetchFailed", NoData)
  /\ UNCHANGED <<url, open, world, nulls, bounds>>

(* The epochs a call requests, each with a request of its own.             *)
Requested(from) == {e \in Epoch : from - PageSize < e /\ e <= from}

(* All requests are done.  Null is the answer for an epoch without a       *)
(* reward, and what a request that fails gives; it is filtered out.        *)
RewardsAnswered(r) ==
  /\ calls[r].waits = "rewards"
  /\ LET from == calls[r].fromEpoch
         lowest == from - Cardinality(Requested(from)) + 1
     IN  \E null \in SUBSET Requested(from) :
           /\ nulls' = IF calls[r].url = cache.url THEN nulls \cup null ELSE nulls
           /\ Dispatch(calls[r].url, "Fetched",
                [from |-> calls[r].url,
                 rows |-> <<Requested(from) \ null>>,
                 highest |-> from,
                 lowest |-> lowest,
                 foundOldest |-> lowest <= LowestAvailable[calls[r].url]])
  /\ Settles(r)
  /\ UNCHANGED <<url, open, world, bounds>>

Next ==
  \/ NewEpoch
  \/ \E u \in Url : Switch(u)
  \/ ClearEffect
  \/ OpenCard
  \/ CloseCard
  \/ LoadMore
  \/ \E r \in Request : EpochAnswered(r) \/ EpochFails(r) \/ RewardsAnswered(r)

Spec == Init /\ [][Next]_vars

(* Requests settle and effects run; the user and the epochs are free.      *)
Fairness ==
  /\ WF_vars(ClearEffect)
  /\ \A r \in Request : WF_vars(EpochAnswered(r) \/ EpochFails(r) \/ RewardsAnswered(r))

FairSpec == Spec /\ Fairness

-------------------------------------------------------------------------------
(* "No rewards issued between epochs {lowest} and {highest}"              *)
(* (RewardsCard.tsx:107): within the range the card speaks of every epoch  *)
(* was asked for, and its reward is listed unless the answer was null,     *)
(* although epochs begin, the stake ends, and pages are put together       *)
(* without a look at the epochs they are of.  It is not so once the answer *)
(* to a call of before a switch away and back has come: its page is put    *)
(* after the new ones, and what is between them is missing.                *)
RangeIsComplete ==
  entry.data # NoData /\ ~late =>
    entry.data.lowest .. entry.data.highest \subseteq (UNION ToSet(entry.data.rows)) \cup nulls

(* The provider keeps what UrlCache promises.                              *)
Promise == INSTANCE UrlCache WITH Key <- {Address}, AnswerOf <- Rewards

ImplementsUrlCache == Promise!Spec

(* An open card ends up with rewards or with an error, also when it was    *)
(* opened just before or just after the cluster was switched.              *)
RewardsSettle ==
  <>[](entry.status # "Fetching" /\ (open => entry # Absent))

(* The card keys its rows by their epoch, `<tr key={reward.epoch}>`        *)
(* (RewardsCard.tsx:60): what Load More loads are epochs that are not      *)
(* there yet.  When the page below would begin with epoch 0, the code      *)
(* takes that for undefined and loads the newest page once more.           *)
EpochsAreListedOnce ==
  entry.data # NoData =>
    \A i, j \in DOMAIN entry.data.rows : i # j => entry.data.rows[i] \cap entry.data.rows[j] = {}
===============================================================================
