---------------------------- MODULE AccountHistory ----------------------------
(***************************************************************************)
(* The transaction history of an address (app/providers/accounts/          *)
(* history.tsx) and the cards that ask for it (components/account/         *)
(* history).  The history is fetched page by page, newest first, while the *)
(* ledger grows and requests overlap: a card that is opened refreshes it   *)
(* although another request may still be running.                          *)
(*                                                                         *)
(* The ledger of an address is 1 .. tip, a signature being its position.   *)
(* The ledgers of all urls grow alike; whose signatures a history holds is *)
(* its field from.                                                         *)
(***************************************************************************)
EXTENDS HistoryRows

CONSTANTS
  Address,         \* the address of the page, a key of the cache
  Url,             \* see Connection
  NoData,
  Limit,           \* the page size, 25 in useFetchAccountHistory
  Request,         \* slots for fetchAccountHistory calls in flight (a bound)
  MaxTip,          \* bound on the length of the ledger
  MaxSwitches,     \* bound on changes of the url
  MaxRequests      \* bound on calls started

ASSUME LimitAssumption == Limit \in Nat \ {0} /\ MaxTip \in Nat

VARIABLES
  url,             \* the url of the connection
  cache,           \* the reducer state of HistoryProvider
  card,            \* the mounted card: "none", "history" or "details"
  calls,           \* fetchAccountHistory calls, by slot
  tip,             \* how many transactions the address has
  switches, requests

vars == <<url, cache, card, calls, tip, switches, requests>>

INSTANCE FetchCache WITH Key <- {Address}

-------------------------------------------------------------------------------
Signature == 1 .. MaxTip

(* What the cache keeps: the rows, whether the last page was reached, and  *)
(* whether the transactionMap has any transaction.                         *)
History(u) == [from : {u}, fetched : Seq(Signature), foundOldest : BOOLEAN,
               detailed : BOOLEAN]

(* What a call dispatches: the page it was for, and its rows if any.       *)
Update(u) == [before : 0 .. MaxTip, history : History(u) \cup {NoData}]

ASSUME NoDataAssumption == \A u \in Url : NoData \notin History(u) \cup Update(u)

(* getSignaturesForAddress(before, limit), from the ledger as it is.       *)
Page(before) ==
  LET top == IF before = Newest THEN tip ELSE before - 1
  IN  [i \in 1 .. (IF top < Limit THEN top ELSE Limit) |-> top + 1 - i]

(* Mutant: the rows of a failed update are taken as well.                  *)
reconcileReplacing(history, update) ==
  IF update = NoData THEN history ELSE update.history

(* reconcile: an update [history, before] without a history changes        *)
(* nothing; what was found or detailed once stays so.                      *)
reconcile(history, update) ==
  IF update = NoData \/ update.history = NoData THEN history
  ELSE IF history = NoData THEN update.history
  ELSE [update.history EXCEPT
          !.fetched = combineFetched(@, history.fetched, update.before),
          !.foundOldest = @ \/ history.foundOldest,
          !.detailed = @ \/ history.detailed]

(* A call: it waits for its page, or has the page and fetches the details  *)
(* of its transactions.                                                    *)
Idle == [url |-> NoData, before |-> Newest, details |-> FALSE, page |-> NoData]

Running(r) == calls[r].url # NoData

entry == cache.entries[Address]

-------------------------------------------------------------------------------
Init ==
  /\ url \in Url
  /\ cache = Clear(url)
  /\ card = "none"
  /\ calls = [r \in Request |-> Idle]
  /\ tip \in 0 .. MaxTip
  /\ switches = 0
  /\ requests = 0

(* Another transaction of the address lands. *)
Grow == tip < MaxTip /\ tip' = tip + 1 /\ UNCHANGED <<url, cache, card, calls, switches, requests>>

EffectsDone == cache.url = url

(* The account of another cluster is loaded first, which unmounts the card. *)
Switch(u) ==
  /\ EffectsDone
  /\ u # url /\ switches < MaxSwitches
  /\ url' = u
  /\ card' = "none"
  /\ switches' = switches + 1
  /\ UNCHANGED <<cache, calls, tip, requests>>

(* The effect of HistoryProvider. *)
ClearEffect ==
  /\ ~EffectsDone
  /\ cache' = Clear(url)
  /\ UNCHANGED <<url, card, calls, tip, switches, requests>>

Dispatch(u, status, update) ==
  cache' = UpdateAll(cache, u, {Address}, status,
                     [k \in {Address} |-> reconcile(cache.entries[k].data, update)])

(* fetchAccountHistory, up to its first await. *)
fetchAccountHistory(before, details) ==
  /\ requests < MaxRequests
  /\ requests' = requests + 1
  /\ \E r \in Request :
       /\ ~Running(r)
       /\ calls' = [calls EXCEPT ![r] = [url |-> url, before |-> before,
                                         details |-> details, page |-> NoData]]
  /\ Dispatch(url, "Fetching", NoData)

(* A card mounts: TransactionHistoryCard refreshes a history that is not   *)
(* there, TokenTransfersCard and TokenInstructionsCard also one without    *)
(* details, whether or not it is being fetched.                            *)
OpenCard(c) ==
  /\ EffectsDone /\ card # c
  /\ card' = c
  /\ IF \/ entry = Absent
        \/ c = "details" /\ (entry.data = NoData \/ ~entry.data.detailed)
       THEN fetchAccountHistory(Newest, c = "details")
       ELSE UNCHANGED <<cache, calls, requests>>
  /\ UNCHANGED <<url, tip, switches>>

(* The Refresh button, or the retry button of the error card: not while    *)
(* the entry is loading.                                                   *)
Refresh ==
  /\ EffectsDone /\ card # "none"
  /\ entry # Absent /\ entry.status # "Fetching"
  /\ fetchAccountHistory(Newest, card = "details")
  /\ UNCHANGED <<url, card, tip, switches>>

(* The Load More button.  Without rows there is nothing to go on from, and *)
(* the newest page is asked for.                                           *)
LoadMore ==
  /\ EffectsDone /\ card # "none"
  /\ entry.data # NoData /\ entry.status # "Fetching" /\ ~entry.data.foundOldest
  /\ fetchAccountHistory(IF entry.data.fetched = <<>> THEN Newest ELSE Last(entry.data.fetched),
                         card = "details")
  /\ UNCHANGED <<url, card, tip, switches>>

(* The server reads its ledger; the page is on its way.                    *)
Serve(r) ==
  /\ Running(r) /\ calls[r].page = NoData
  /\ calls' = [calls EXCEPT ![r].page = Page(calls[r].before)]
  /\ UNCHANGED <<url, cache, card, tip, switches, requests>>

Finish(r, status, history) ==
  /\ calls' = [calls EXCEPT ![r] = Idle]
  /\ Dispatch(calls[r].url, status, [before |-> calls[r].before, history |-> history])
  /\ UNCHANGED <<url, card, tip, switches, requests>>

historyOf(c, detailed) ==
  [from |-> c.url, fetched |-> c.page, foundOldest |-> Len(c.page) < Limit,
   detailed |-> detailed]

(* Mutant: an error before the first page is not dispatched.               *)
FailSilently(r) ==
  /\ Running(r) /\ calls[r].page = NoData
  /\ calls' = [calls EXCEPT ![r] = Idle]
  /\ UNCHANGED <<url, cache, card, tip, switches, requests>>

(* The signatures could not be fetched. *)
Fail(r) ==
  /\ Running(r) /\ calls[r].page = NoData
  /\ Finish(r, "FetchFailed", NoData)

(* The page is dispatched, with the transactions the server knew.          *)
Succeed(r) ==
  /\ Running(r) /\ calls[r].page # NoData
  /\ \E detailed \in {FALSE, calls[r].details /\ calls[r].page # <<>>} :
       Finish(r, "Fetched", historyOf(calls[r], detailed))

(* The transactions could not be fetched: the entry failed, its rows are   *)
(* there.                                                                  *)
FailDetails(r) ==
  /\ Running(r) /\ calls[r].page # NoData /\ calls[r].details /\ calls[r].page # <<>>
  /\ Finish(r, "FetchFailed", historyOf(calls[r], FALSE))

Next ==
  \/ Grow
  \/ \E u \in Url : Switch(u)
  \/ ClearEffect
  \/ \E c \in {"history", "details"} : OpenCard(c)
  \/ Refresh
  \/ LoadMore
  \/ \E r \in Request : Serve(r) \/ Fail(r) \/ Succeed(r) \/ FailDetails(r)

Spec == Init /\ [][Next]_vars

(* Requests settle and effects run; the user and the ledger are free.      *)
Fairness ==
  /\ WF_vars(ClearEffect)
  /\ WF_vars(\E r \in Request : Serve(r) \/ Fail(r) \/ Succeed(r) \/ FailDetails(r))

FairSpec == Spec /\ Fairness

-------------------------------------------------------------------------------
CallType == [url : Url \cup {NoData}, before : 0 .. MaxTip, details : BOOLEAN,
             page : Seq(Signature) \cup {NoData}]

TypeOK ==
  /\ url \in Url /\ tip \in 0 .. MaxTip
  /\ card \in {"none", "history", "details"}
  /\ cache.url \in Url
  /\ cache.entries \in [{Address} -> Entry(History(cache.url))]
  /\ calls \in [Request -> CallType]

(* Whatever requests overlapped and whatever landed meanwhile, the rows    *)
(* shown are one stretch of the ledger, newest first: none is missing in   *)
(* the middle and none is there twice (combineFetched).                    *)
RowsAreContiguous ==
  entry.data # NoData =>
    LET rows == entry.data.fetched
    IN  \A i \in 1 .. Len(rows) - 1 : rows[i + 1] = rows[i] - 1

(* An open card ends up with rows or with an error, never loading for ever. *)
HistorySettles ==
  <>[](entry.status # "Fetching" /\ (card # "none" => entry # Absent))

Promise == INSTANCE UrlCache WITH Key <- {Address}, AnswerOf <- History

(* The history provider keeps what UrlCache promises, although an update   *)
(* of it may fail and bring rows at once.                                  *)
ImplementsUrlCache == Promise!Spec

(* "Fetched full history" (HistoryCardComponents.tsx:56): when the footer  *)
(* says so, no transaction older than the last row exists.  The code keeps *)
(* foundOldest when a refresh does not reach the rows and replaces them.   *)
FullHistoryIsFull ==
  entry.data # NoData /\ entry.data.foundOldest /\ entry.data.fetched # <<>> =>
    Last(entry.data.fetched) = 1
===============================================================================
