---------------------------- MODULE TransactionPage ----------------------------
(***************************************************************************)
(* The page of a transaction (app/tx/[signature]/page-client.tsx) over the *)
(* status and details caches (app/providers/transactions/index.tsx and     *)
(* parsed.tsx).                                                            *)
(*                                                                         *)
(* While a transaction is not final the page asks for its status every two *)
(* seconds, whether or not the last question has been answered, and gives  *)
(* up after some answers of no confirmation at all.  The details are asked *)
(* for once, after the first status.                                       *)
(*                                                                         *)
(* Timers, answers and clicks are taken to find the effects of the last    *)
(* commit done (EffectsDone).                                              *)
(***************************************************************************)
EXTENDS Naturals

CONSTANTS
  Signature,       \* the transaction of the page, a key of the caches
  Url,             \* see Connection
  Home,            \* the url of the cluster the transaction is sent to
  NoData,
  Bailout,         \* ZERO_CONFIRMATION_BAILOUT
  StatusCall,      \* slots for fetchTransactionStatus calls in flight (a bound)
  DetailsCall,     \* slots for fetchDetails calls in flight (a bound)
  MaxReconnects    \* bound on Connecting dispatches

ASSUME BailoutAssumption == Bailout \in Nat \ {0}

ASSUME CallAssumption == StatusCall # {} /\ DetailsCall # {}

VARIABLES
  url, status,        \* the connection
  visible,            \* the browser tab is
  stage,              \* what has become of the transaction on its cluster
  statuses,           \* the reducer state of TransactionsProvider
  details,            \* the reducer state of DetailsProvider
  retries,            \* zeroConfirmationRetries
  interval,           \* the url the interval asks, NoData when there is none
  ran,                \* [url, status, autoRefresh] the effects last ran with
  newEntry,           \* the entry of statuses is a new object since they ran
  statusCalls, detailsCalls,
  reconnects

page == <<statuses, details, retries, interval, newEntry, statusCalls, detailsCalls>>
vars == <<url, status, visible, stage, ran, reconnects, page>>

Conn == INSTANCE Connection

INSTANCE FetchCache WITH Key <- {Signature}

-------------------------------------------------------------------------------
(* A transaction is unknown, processed without confirmations, confirmed by *)
(* some, and finally by the maximum.                                       *)
Stages == <<"unknown", "zero", "some", "max">>
Stage == {Stages[i] : i \in 1 .. 4}

StageAt(u) == IF u = Home THEN stage ELSE "unknown"

(* TransactionStatus: info is null for an unknown one. *)
StatusData(u) == [from : {u}, confirmations : Stage]

(* Details: without transactionWithMeta when the request failed, or when   *)
(* the transaction is not confirmed yet ("commitment: 'confirmed'").       *)
DetailsData(u) == [from : {u}, found : BOOLEAN]

(* `undefined` is no url and no answer. *)
ASSUME NoDataAssumption ==
  NoData \notin Url \cup UNION {StatusData(u) \cup DetailsData(u) : u \in Url}

entry == statuses.entries[Signature]
detailsEntry == details.entries[Signature]

info == IF entry.data = NoData THEN "unknown" ELSE entry.data.confirmations

(* The autoRefresh of a render. *)
autoRefresh ==
  IF ~visible THEN "Inactive"
  ELSE IF retries >= Bailout THEN "BailedOut"
  ELSE IF info \in {"zero", "some"} THEN "Active" ELSE "Inactive"

now == [url |-> url, status |-> status, autoRefresh |-> autoRefresh]

(* A call in flight: the url it asks, and the stage it asked at. *)
FreeCall == [url |-> NoData, asked |-> NoData]

Since(call) ==
  {Stages[i] : i \in {i \in 1 .. 4 : \E j \in 1 .. i, k \in i .. 4 :
                        Stages[j] = call.asked /\ Stages[k] = StageAt(call.url)}}

-------------------------------------------------------------------------------
Init ==
  /\ url \in Url /\ status \in Conn!ClusterStatus
  /\ visible \in BOOLEAN
  /\ stage \in Stage
  /\ statuses = Clear(url)
  /\ details = Clear(url)
  /\ retries = 0
  /\ interval = NoData
  /\ ran = [url |-> NoData, status |-> NoData, autoRefresh |-> NoData]
  /\ newEntry = TRUE
  /\ statusCalls = [c \in StatusCall |-> FreeCall]
  /\ detailsCalls = [c \in DetailsCall |-> FreeCall]
  /\ reconnects = 0

EffectsDone == ran = now /\ ~newEntry

Update(cache, u, st, data) ==
  defaultReducer(cache, u, {Signature}, st, [k \in {Signature} |-> data])

(* A call takes a free slot, no matter which. *)
Free(calls) == {c \in DOMAIN calls : calls[c] = FreeCall}

Calls(calls, u) ==
  [calls EXCEPT ![CHOOSE c \in Free(calls) : TRUE] = [url |-> u, asked |-> StageAt(u)]]

-------------------------------------------------------------------------------
(* The environment.  A slot is left for the details of the new url (a      *)
(* bound).                                                                 *)
Reconnect(u) ==
  /\ EffectsDone
  /\ reconnects < MaxReconnects
  /\ Free(detailsCalls) # {}
  /\ Conn!Reconnect(u)
  /\ reconnects' = reconnects + 1
  /\ UNCHANGED <<visible, stage, ran, page>>

(* A slot is left for the fetch on load (a bound). *)
Settle(s) ==
  /\ EffectsDone
  /\ Free(statusCalls) # {}
  /\ Conn!Settle(s)
  /\ UNCHANGED <<visible, stage, ran, reconnects, page>>

SwitchTab ==
  /\ EffectsDone
  /\ visible' = ~visible
  /\ UNCHANGED <<url, status, stage, ran, reconnects, page>>

Progress ==
  /\ \E i \in 1 .. 3 : stage = Stages[i] /\ stage' = Stages[i + 1]
  /\ UNCHANGED <<url, status, visible, ran, reconnects, page>>

-------------------------------------------------------------------------------
(* The effects of the page, children first.                                *)

(* StatusCard: fetch on load. *)
loads == ran.status # status /\ status = "Connected" /\ entry = Absent

(* Mutant: autoRefresh is missing in the dependencies of the effect.       *)
intervalAfterUrlOnly ==
  IF ran.url # url
  THEN IF autoRefresh = "Active" THEN url ELSE NoData
  ELSE interval

(* StatusCard: set and clear the interval. *)
intervalAfter ==
  IF ran.autoRefresh # autoRefresh \/ ran.url # url
  THEN IF autoRefresh = "Active" THEN url ELSE NoData
  ELSE interval

(* DetailsSection: fetch on load. *)
loadsDetails ==
  /\ ran.status # status \/ newEntry
  /\ status = "Connected" /\ entry.status = "Fetched" /\ detailsEntry = Absent

(* The page: count the answers of no confirmations, start over when the    *)
(* user asks again.                                                        *)
retriesAfter ==
  IF newEntry /\ entry.status = "Fetched" /\ info = "zero" THEN retries + 1
  ELSE IF (newEntry \/ ran.autoRefresh # autoRefresh)
          /\ entry.status = "Fetching" /\ autoRefresh = "BailedOut"
  THEN 0 ELSE retries

(* The providers empty their caches on a new url and on mount, which drops *)
(* the Fetching of what the page has just asked for.                       *)
Effects ==
  /\ ~EffectsDone
  /\ ran' = now
  /\ interval' = intervalAfter
  /\ retries' = retriesAfter
  /\ IF loads THEN statusCalls' = Calls(statusCalls, url) ELSE UNCHANGED statusCalls
  /\ IF loadsDetails THEN detailsCalls' = Calls(detailsCalls, url) ELSE UNCHANGED detailsCalls
  /\ IF ran.url # url
       THEN /\ statuses' = Clear(url) /\ details' = Clear(url)
            /\ newEntry' = (entry # Absent)
       ELSE /\ statuses' = IF loads THEN Update(statuses, url, "Fetching", NoData) ELSE statuses
            /\ details' = IF loadsDetails THEN Update(details, url, "Fetching", NoData)
                                          ELSE details
            /\ newEntry' = loads
  /\ UNCHANGED <<url, status, visible, stage, reconnects>>

-------------------------------------------------------------------------------
(* fetchTransactionStatus, up to its first await. *)
fetchStatus(u) ==
  /\ Free(statusCalls) # {} /\ statusCalls' = Calls(statusCalls, u)
  /\ statuses' = Update(statuses, u, "Fetching", NoData)
  /\ newEntry' = (u = statuses.url)

(* The interval fires: a tick while every slot is taken is lost. *)
Tick ==
  /\ EffectsDone
  /\ interval # NoData
  /\ fetchStatus(interval)
  /\ UNCHANGED <<url, status, visible, stage, ran, reconnects>>
  /\ UNCHANGED <<details, retries, interval, detailsCalls>>

(* The Retry and Refresh buttons of StatusCard.  They are there when the   *)
(* entry is neither absent nor being polled.                               *)
ClickRefresh ==
  /\ EffectsDone
  /\ entry # Absent
  /\ \/ entry.status = "FetchFailed"
     \/ entry.status = "Fetched" /\ info = "unknown"
     \/ autoRefresh # "Active" /\ ~(entry.status = "Fetching" /\ autoRefresh = "Inactive")
  /\ visible
  /\ fetchStatus(url)
  /\ UNCHANGED <<url, status, visible, stage, ran, reconnects>>
  /\ UNCHANGED <<details, retries, interval, detailsCalls>>

FinishStatus(c, st, data) ==
  /\ EffectsDone
  /\ statusCalls' = [statusCalls EXCEPT ![c] = FreeCall]
  /\ statuses' = Update(statuses, statusCalls[c].url, st, data)
  /\ newEntry' = (statusCalls[c].url = statuses.url)
  /\ UNCHANGED <<url, status, visible, stage, ran, reconnects>>
  /\ UNCHANGED <<details, retries, interval, detailsCalls>>

(* The cluster answers from what it knew at some moment since it was asked. *)
SucceedStatus(c) ==
  /\ statusCalls[c] # FreeCall
  /\ \E confirmations \in Since(statusCalls[c]) :
       FinishStatus(c, "Fetched", [from |-> statusCalls[c].url,
                                   confirmations |-> confirmations])

(* Mutant: a failing status request is not reported.                       *)
FailStatusSilently(c) ==
  /\ statusCalls[c] # FreeCall
  /\ EffectsDone
  /\ statusCalls' = [statusCalls EXCEPT ![c] = FreeCall]
  /\ UNCHANGED <<url, status, visible, stage, ran, reconnects>>
  /\ UNCHANGED <<statuses, details, retries, interval, newEntry, detailsCalls>>

FailStatus(c) ==
  /\ statusCalls[c] # FreeCall
  /\ FinishStatus(c, "FetchFailed", NoData)

(* fetchDetails, from the retry button of DetailsSection. *)
ClickDetails ==
  /\ EffectsDone
  /\ info # "unknown" /\ detailsEntry.status = "FetchFailed"
  /\ Free(detailsCalls) # {} /\ detailsCalls' = Calls(detailsCalls, url)
  /\ details' = Update(details, url, "Fetching", NoData)
  /\ UNCHANGED <<url, status, visible, stage, ran, reconnects>>
  /\ UNCHANGED <<statuses, retries, interval, newEntry, statusCalls>>

FinishDetails(c, st, found) ==
  /\ EffectsDone
  /\ detailsCalls' = [detailsCalls EXCEPT ![c] = FreeCall]
  /\ details' = Update(details, detailsCalls[c].url, st,
                       [from |-> detailsCalls[c].url, found |-> found])
  /\ UNCHANGED <<url, status, visible, stage, ran, reconnects>>
  /\ UNCHANGED <<statuses, retries, interval, newEntry, statusCalls>>

SucceedDetails(c) ==
  /\ detailsCalls[c] # FreeCall
  /\ \E confirmations \in Since(detailsCalls[c]) :
       FinishDetails(c, "Fetched", confirmations \in {"some", "max"})

FailDetails(c) ==
  /\ detailsCalls[c] # FreeCall
  /\ FinishDetails(c, "FetchFailed", FALSE)

-------------------------------------------------------------------------------
AnswerDetails(c) == SucceedDetails(c) \/ FailDetails(c)

Next ==
  \/ \E u \in Url : Reconnect(u)
  \/ \E s \in Conn!ClusterStatus : Settle(s)
  \/ SwitchTab
  \/ Progress
  \/ Effects
  \/ Tick
  \/ ClickRefresh
  \/ ClickDetails
  \/ \E c \in StatusCall : SucceedStatus(c) \/ FailStatus(c)
  \/ \E c \in DetailsCall : AnswerDetails(c)

Spec == Init /\ [][Next]_vars

(* React flushes effects, the interval ticks, requests settle, and one     *)
(* that is made again and again is not refused every time.                 *)
Fairness ==
  /\ WF_vars(Effects)
  /\ SF_vars(Tick)
  /\ \A c \in StatusCall : SF_vars(SucceedStatus(c))
  /\ \A c \in DetailsCall : WF_vars(AnswerDetails(c))

FairSpec == Spec /\ Fairness

-------------------------------------------------------------------------------
(* The spinners are never shown for nothing: as long as an entry is        *)
(* Fetching a request to the very url of its cache is running, although    *)
(* polls overlap, their answers come in any order and a Clear drops both.  *)
LoadingIsInFlight ==
  /\ entry.status = "Fetching" =>
       \E c \in StatusCall : statusCalls[c].url = statuses.url
  /\ detailsEntry.status = "Fetching" =>
       \E c \in DetailsCall : detailsCalls[c].url = details.url

(* Once the effects have run, there is an interval if and only if the page *)
(* says it refreshes, and it asks the cluster the page is connected to.    *)
IntervalMatchesPage ==
  EffectsDone => interval = IF autoRefresh = "Active" THEN url ELSE NoData

(* The page does not poll for ever: not for a transaction that stays       *)
(* without confirmations, nor, however old the answers still on their way, *)
(* for one that has become final.                                          *)
PollingStops ==
  <>[](visible /\ stage \in {"zero", "max"}) => []<>(autoRefresh # "Active")

(* "Details are not available" (page-client.tsx:374) is said of details    *)
(* the cluster does not have.  They are asked for once, perhaps before the *)
(* transaction is confirmed, and the message has no retry button: it stays *)
(* when the status above it has become final.                              *)
AvailableDetailsAreShown ==
  <>[](status = "Connected" /\ url = Home /\ info = "max") =>
    []<>(detailsEntry.status # "Fetched" \/ detailsEntry.data.found)

===============================================================================
