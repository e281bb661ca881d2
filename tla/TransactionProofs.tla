-------------------------- MODULE TransactionProofs ---------------------------
(***************************************************************************)
(* Proofs about the two pages of a transaction: about module               *)
(* TransactionPage, for any number of overlapping requests, reconnections  *)
(* and answers without confirmations; and, at the end, about the modules   *)
(* Inspector and RawTransaction, for any texts, links and number of acts   *)
(* of the user.                                                            *)
(***************************************************************************)
EXTENDS TransactionPages, TLAPS

(* The interval is that of the dependencies the effect last ran with: the  *)
(* inductive invariant.  Between two flushes of the effects it may be      *)
(* stale, and then nothing says what autoRefresh is.                       *)
IntervalOf(deps) == IF deps.autoRefresh = "Active" THEN deps.url ELSE NoData

IntervalIsOfRan == interval = IntervalOf(ran)

-------------------------------------------------------------------------------
(* No step but the effects sets the interval or the dependencies. *)
LEMMA OnlyEffectsSetInterval ==
  ASSUME [Next]_vars, ~Effects
  PROVE  interval' = interval /\ ran' = ran
<1>1. CASE \E u \in Url : Reconnect(u)
  BY <1>1 DEF Reconnect, page
<1>2. CASE \E s \in Conn!ClusterStatus : Settle(s)
  BY <1>2 DEF Settle, page
<1>3. CASE SwitchTab
  BY <1>3 DEF SwitchTab, page
<1>4. CASE Progress
  BY <1>4 DEF Progress, page
<1>5. CASE Tick \/ ClickRefresh \/ ClickDetails
  BY <1>5 DEF Tick, ClickRefresh, ClickDetails
<1>6. CASE \E c \in StatusCall : SucceedStatus(c) \/ FailStatus(c)
  BY <1>6 DEF SucceedStatus, FailStatus, FinishStatus
<1>7. CASE \E c \in DetailsCall : AnswerDetails(c)
  BY <1>7 DEF AnswerDetails, SucceedDetails, FailDetails, FinishDetails
<1>8. CASE UNCHANGED vars
  BY <1>8 DEF vars, page
<1>. QED
  BY <1>1, <1>2, <1>3, <1>4, <1>5, <1>6, <1>7, <1>8 DEF Next

(* The effect leaves out what has not changed and still does all: the      *)
(* dependencies it compares are the ones the interval depends on.          *)
LEMMA EffectsSetInterval ==
  ASSUME IntervalIsOfRan, Effects
  PROVE  IntervalIsOfRan'
<1>1. ran' = now /\ interval' = intervalAfter
  BY DEF Effects
<1>2. now.url = url /\ now.autoRefresh = autoRefresh
  BY DEF now
<1>3. CASE ran.autoRefresh # autoRefresh \/ ran.url # url
  BY <1>1, <1>2, <1>3 DEF intervalAfter, IntervalIsOfRan, IntervalOf
<1>4. CASE ran.autoRefresh = autoRefresh /\ ran.url = url
  BY <1>1, <1>2, <1>4 DEF intervalAfter, IntervalIsOfRan, IntervalOf
<1>. QED
  BY <1>3, <1>4

(* The page polls exactly when it says so, and the cluster it is connected *)
(* to (StatusCard's interval effect, page-client.tsx).                     *)
THEOREM IntervalMatches == Spec => []IntervalMatchesPage
<1>1. Init => IntervalIsOfRan
  BY DEF Init, IntervalIsOfRan, IntervalOf
<1>2. IntervalIsOfRan /\ [Next]_vars => IntervalIsOfRan'
  BY OnlyEffectsSetInterval, EffectsSetInterval DEF IntervalIsOfRan, IntervalOf
<1>3. IntervalIsOfRan => IntervalMatchesPage
  BY DEF IntervalIsOfRan, IntervalOf, IntervalMatchesPage, EffectsDone, now
<1>. QED
  BY <1>1, <1>2, <1>3, PTL DEF Spec
-------------------------------------------------------------------------------
(* What the state is made of. *)

Call == [url : Url, asked : Stage]

CallsType ==
  /\ statusCalls \in [StatusCall -> Call \cup {FreeCall}]
  /\ detailsCalls \in [DetailsCall -> Call \cup {FreeCall}]

CacheType(cache, Data) ==
  /\ cache = [url |-> cache.url, entries |-> cache.entries]
  /\ cache.entries \in [{Signature} -> Entry(Data)]

TypeOK ==
  /\ url \in Url /\ stage \in Stage /\ interval \in Url \cup {NoData}
  /\ CallsType
  /\ statuses.url \in Url /\ CacheType(statuses, StatusData(statuses.url))
  /\ details.url \in Url /\ CacheType(details, DetailsData(details.url))

(* The caches are for the url the effects last ran with: the effects that  *)
(* empty them are the ones that notice a new url.                          *)
CachesAreOfRan == ran.url = url => statuses.url = url /\ details.url = url

(* A cache that was emptied has a slot left to load it.                    *)
SlotsAreLeft ==
  /\ ran.status # status /\ status = "Connected" => Free(statusCalls) # {}
  /\ ran.url # url \/ detailsEntry = Absent => Free(detailsCalls) # {}

(* The effects do not ask for details when they empty the cache of them.   *)
NothingToAsk == ran.url # url => status = "Connecting" \/ entry = Absent

(* The inductive invariant of LoadingIsInFlight.                           *)
IInv ==
  /\ TypeOK
  /\ CachesAreOfRan
  /\ SlotsAreLeft
  /\ NothingToAsk
  /\ LoadingIsInFlight

-------------------------------------------------------------------------------
(* The caches. *)

LEMMA DataReconciles ==
  /\ \A u \in Url : \A d, e \in StatusData(u) : defaultReconciler(d, e) = e
  /\ \A u \in Url : \A d, e \in DetailsData(u) : defaultReconciler(d, e) = e
<1>1. ASSUME NEW u \in Url, NEW d \in StatusData(u), NEW e \in StatusData(u)
      PROVE  defaultReconciler(d, e) = e
  <2>1. d # NoData /\ e # NoData
    BY NoDataAssumption
  <2>2. DOMAIN d = DOMAIN e /\ e = [f \in DOMAIN e |-> e[f]]
    BY DEF StatusData
  <2>. QED
    BY <2>1, <2>2 DEF defaultReconciler
<1>2. ASSUME NEW u \in Url, NEW d \in DetailsData(u), NEW e \in DetailsData(u)
      PROVE  defaultReconciler(d, e) = e
  <2>1. d # NoData /\ e # NoData
    BY NoDataAssumption
  <2>2. DOMAIN d = DOMAIN e /\ e = [f \in DOMAIN e |-> e[f]]
    BY DEF DetailsData
  <2>. QED
    BY <2>1, <2>2 DEF defaultReconciler
<1>. QED
  BY <1>1, <1>2

(* What a dispatch does: nothing to the cache of another url, and else the *)
(* status is the one told, the data too when there is any.                 *)
LEMMA UpdateEffect ==
  ASSUME NEW Data, \A d, e \in Data : defaultReconciler(d, e) = e,
         NEW cache, CacheType(cache, Data), NEW u, NEW st \in FetchStatus,
         NEW data, u = cache.url => data \in Data \cup {NoData}, NoData \notin Data,
         NEW new, new = Update(cache, u, st, data)
  PROVE  /\ CacheType(new, Data) /\ new.url = cache.url
         /\ u # cache.url => new = cache
         /\ u = cache.url => /\ new.entries[Signature].status = st
                             /\ new.entries[Signature].data =
                                  IF data = NoData THEN cache.entries[Signature].data ELSE data
<1> DEFINE old == cache.entries[Signature]
           d == defaultReconciler(old.data, data)
           updated == [k \in {Signature} |-> [status |-> st, data |-> d]]
<1>1. CASE u # cache.url
  BY <1>1 DEF Update, defaultReducer, UpdateAll
<1>2. CASE u = cache.url
  <2>1. old \in Entry(Data) /\ old.data \in Data \cup {NoData}
    BY DEF CacheType, Entry, Absent
  <2>2. d = IF data = NoData THEN old.data ELSE data
    <3>1. CASE data = NoData \/ old.data = NoData
      BY <1>2, <3>1 DEF defaultReconciler
    <3>2. CASE data \in Data /\ old.data \in Data
      BY <3>2
    <3>. QED
      BY <1>2, <2>1, <3>1, <3>2
  <2>3. new = [cache EXCEPT !.entries = updated]
    BY <1>2 DEF Update, defaultReducer, UpdateAll
  <2>4. new = [url |-> cache.url, entries |-> updated]
    BY <2>3 DEF CacheType
  <2>5. updated \in [{Signature} -> Entry(Data)]
    BY <1>2, <2>1, <2>2 DEF Entry
  <2>6. updated[Signature].status = st /\ updated[Signature].data = d
    OBVIOUS
  <2>. HIDE DEF updated, d
  <2>. QED
    BY <1>2, <2>2, <2>4, <2>5, <2>6 DEF CacheType
<1>. QED
  BY <1>1, <1>2

LEMMA ClearedType ==
  ASSUME NEW u \in Url, NEW Data
  PROVE  /\ CacheType(Clear(u), Data) /\ Clear(u).url = u
         /\ Clear(u).entries[Signature] = Absent
BY DEF Clear, CacheType, Entry

-------------------------------------------------------------------------------
(* The calls. *)

LEMMA StageAtIsStage == stage \in Stage => \A u : StageAt(u) \in Stage
<1>1. Stages[1] = "unknown" /\ 1 \in 1 .. 4
  BY DEF Stages
<1>. QED
  BY <1>1 DEF StageAt, Stage

(* A call takes a slot that is free, and is in flight to its url.          *)
LEMMA CallTaken ==
  ASSUME NEW Place, NEW calls \in [Place -> Call \cup {FreeCall}], Free(calls) # {},
         NEW u \in Url, stage \in Stage
  PROVE  /\ Calls(calls, u) \in [Place -> Call \cup {FreeCall}]
         /\ \E c \in Place : Calls(calls, u)[c].url = u
         /\ \A c \in Place : calls[c] # FreeCall => Calls(calls, u)[c] = calls[c]
<1> DEFINE s == CHOOSE c \in Free(calls) : TRUE
           call == [url |-> u, asked |-> StageAt(u)]
<1>1. s \in Place /\ calls[s] = FreeCall
  BY DEF Free
<1>2. call \in Call
  BY StageAtIsStage DEF Call
<1>3. Calls(calls, u) = [calls EXCEPT ![s] = call]
  BY DEF Calls
<1>. HIDE DEF s, call
<1>4. Calls(calls, u)[s] = call
  BY <1>1, <1>3
<1>5. call.url = u
  BY DEF call
<1>. QED
  BY <1>1, <1>2, <1>3, <1>4, <1>5

(* Only what is not free is a call to a url.                               *)
LEMMA InFlightIsNotFree ==
  ASSUME NEW call \in Call \cup {FreeCall}
  PROVE  call # FreeCall <=> call.url \in Url
BY NoDataAssumption DEF Call, FreeCall
-------------------------------------------------------------------------------
(* The invariant. *)

LEMMA InitIInv == Init => IInv
<1> SUFFICES ASSUME Init PROVE IInv
  OBVIOUS
<1>1. url \in Url /\ stage \in Stage /\ interval = NoData
  BY DEF Init
<1>2. CallsType
  BY DEF Init, CallsType
<1>3. /\ CacheType(statuses, StatusData(statuses.url)) /\ statuses.url = url /\ entry = Absent
      /\ CacheType(details, DetailsData(details.url)) /\ details.url = url /\ detailsEntry = Absent
  BY <1>1, ClearedType DEF Init, entry, detailsEntry
<1>4. SlotsAreLeft
  BY CallAssumption DEF Init, SlotsAreLeft, Free
<1>5. LoadingIsInFlight
  BY <1>3 DEF LoadingIsInFlight, Absent
<1>. QED
  BY <1>1, <1>2, <1>3, <1>4, <1>5 DEF IInv, TypeOK, CachesAreOfRan, NothingToAsk

(* A request for the status: the slot it takes was free. *)
LEMMA FetchStatusPreserves ==
  ASSUME IInv, EffectsDone, NEW u \in Url, fetchStatus(u),
         UNCHANGED <<url, status, stage, ran, details, interval, detailsCalls>>
  PROVE  IInv'
<1>1. /\ statusCalls' = Calls(statusCalls, u) /\ Free(statusCalls) # {}
      /\ statuses' = Update(statuses, u, "Fetching", NoData)
  BY DEF fetchStatus
<1>2. ran.url = url /\ ran.status = status
  BY DEF EffectsDone, now
<1>3. /\ statusCalls' \in [StatusCall -> Call \cup {FreeCall}]
      /\ \E c \in StatusCall : statusCalls'[c].url = u
      /\ \A c \in StatusCall : statusCalls[c] # FreeCall => statusCalls'[c] = statusCalls[c]
  <2>1. statusCalls \in [StatusCall -> Call \cup {FreeCall}] /\ stage \in Stage
    BY DEF IInv, TypeOK, CallsType
  <2>. QED
    BY <1>1, <2>1, CallTaken
<1>4. /\ CacheType(statuses', StatusData(statuses.url)) /\ statuses'.url = statuses.url
      /\ u # statuses.url => statuses' = statuses
      /\ u = statuses.url => statuses'.entries[Signature].status = "Fetching"
  <2>1. CacheType(statuses, StatusData(statuses.url)) /\ statuses.url \in Url
    BY DEF IInv, TypeOK
  <2>2. NoData \notin StatusData(statuses.url) /\ "Fetching" \in FetchStatus
    BY <2>1, NoDataAssumption DEF FetchStatus
  <2>. HIDE DEF CacheType
  <2>. QED
    BY <1>1, <2>1, <2>2, UpdateEffect, DataReconciles
<1>5. LoadingIsInFlight'
  <2>1. CASE u = statuses.url
    BY <1>3, <1>4, <2>1 DEF IInv, LoadingIsInFlight, detailsEntry, entry
  <2>2. CASE u # statuses.url
    <3>1. ASSUME entry.status = "Fetching"
          PROVE  \E c \in StatusCall : statusCalls'[c].url = statuses.url
      <4>1. PICK c \in StatusCall : statusCalls[c].url = statuses.url
        BY <3>1 DEF IInv, LoadingIsInFlight
      <4>2. statusCalls[c] # FreeCall
        BY <4>1, InFlightIsNotFree DEF IInv, TypeOK, CallsType
      <4>. QED
        BY <1>3, <4>1, <4>2
    <3>. QED
      BY <1>4, <2>2, <3>1 DEF IInv, LoadingIsInFlight, detailsEntry, entry
  <2>. QED
    BY <2>1, <2>2
<1>6. TypeOK'
  BY <1>3, <1>4 DEF IInv, TypeOK, CallsType, CacheType
<1>7. CachesAreOfRan' /\ SlotsAreLeft' /\ NothingToAsk'
  BY <1>2, <1>4 DEF IInv, CachesAreOfRan, SlotsAreLeft, NothingToAsk, detailsEntry, Free
<1>. QED
  BY <1>5, <1>6, <1>7 DEF IInv
(* An answer about the status: what it is for is not loading any more, and *)
(* what it is not for has a request of its own.                            *)
LEMMA FinishStatusPreserves ==
  ASSUME IInv, NEW c \in StatusCall, SucceedStatus(c) \/ FailStatus(c)
  PROVE  IInv'
<1> DEFINE u == statusCalls[c].url
<1>1. /\ statusCalls \in [StatusCall -> Call \cup {FreeCall}] /\ stage \in Stage
      /\ CacheType(statuses, StatusData(statuses.url)) /\ statuses.url \in Url
  BY DEF IInv, TypeOK, CallsType
<1>2. statusCalls[c] \in Call /\ u \in Url
  BY <1>1, InFlightIsNotFree DEF SucceedStatus, FailStatus
<1>3. PICK st \in {"Fetched", "FetchFailed"}, data \in StatusData(u) \cup {NoData} :
        FinishStatus(c, st, data)
  <2>1. \A s \in Since(statusCalls[c]) : [from |-> u, confirmations |-> s] \in StatusData(u)
    BY DEF Since, Stage, StatusData
  <2>. QED
    BY <2>1 DEF SucceedStatus, FailStatus
<1>4. /\ statusCalls' = [statusCalls EXCEPT ![c] = FreeCall]
      /\ statuses' = Update(statuses, u, st, data)
      /\ EffectsDone
      /\ UNCHANGED <<url, status, stage, ran, details, interval, detailsCalls>>
  BY <1>3 DEF FinishStatus
<1>5. /\ CacheType(statuses', StatusData(statuses.url)) /\ statuses'.url = statuses.url
      /\ u # statuses.url => statuses' = statuses
      /\ u = statuses.url => statuses'.entries[Signature].status = st
  <2>1. NoData \notin StatusData(statuses.url) /\ st \in FetchStatus
    BY <1>1, <1>3, NoDataAssumption DEF FetchStatus
  <2>. HIDE DEF CacheType
  <2>. QED
    BY <1>1, <1>3, <1>4, <2>1, UpdateEffect, DataReconciles
<1>6. LoadingIsInFlight'
  <2>1. CASE u = statuses.url
    BY <1>3, <1>4, <1>5, <2>1 DEF IInv, LoadingIsInFlight, detailsEntry, entry
  <2>2. CASE u # statuses.url
    <3>1. ASSUME entry.status = "Fetching"
          PROVE  \E d \in StatusCall : statusCalls'[d].url = statuses.url
      <4>1. PICK d \in StatusCall : statusCalls[d].url = statuses.url
        BY <3>1 DEF IInv, LoadingIsInFlight
      <4>. QED
        BY <1>1, <1>4, <2>2, <4>1
    <3>. QED
      BY <1>4, <1>5, <2>2, <3>1 DEF IInv, LoadingIsInFlight, detailsEntry, entry
  <2>. QED
    BY <2>1, <2>2
<1>7. TypeOK'
  BY <1>1, <1>4, <1>5 DEF IInv, TypeOK, CallsType, CacheType
<1>8. ran.url = url /\ ran.status = status
  BY <1>4 DEF EffectsDone, now
<1>9. CachesAreOfRan' /\ SlotsAreLeft' /\ NothingToAsk'
  BY <1>4, <1>5, <1>8 DEF IInv, CachesAreOfRan, SlotsAreLeft, NothingToAsk, detailsEntry, Free
<1>. QED
  BY <1>6, <1>7, <1>9 DEF IInv

(* An answer about the details, in the same way; it leaves a slot.         *)
LEMMA FinishDetailsPreserves ==
  ASSUME IInv, NEW c \in DetailsCall, AnswerDetails(c)
  PROVE  IInv'
<1> DEFINE u == detailsCalls[c].url
<1>1. /\ detailsCalls \in [DetailsCall -> Call \cup {FreeCall}] /\ stage \in Stage
      /\ CacheType(details, DetailsData(details.url)) /\ details.url \in Url
  BY DEF IInv, TypeOK, CallsType
<1>2. detailsCalls[c] \in Call /\ u \in Url
  BY <1>1, InFlightIsNotFree DEF AnswerDetails, SucceedDetails, FailDetails
<1>3. PICK st \in {"Fetched", "FetchFailed"}, found \in BOOLEAN : FinishDetails(c, st, found)
  <2>1. CASE FailDetails(c)
    BY <2>1 DEF FailDetails
  <2>2. CASE SucceedDetails(c)
    <3>1. PICK s \in Since(detailsCalls[c]) : FinishDetails(c, "Fetched", s \in {"some", "max"})
      BY <2>2 DEF SucceedDetails
    <3>2. (s \in {"some", "max"}) \in BOOLEAN
      OBVIOUS
    <3>. QED
      BY <3>1, <3>2, Zenon
  <2>. QED
    BY <2>1, <2>2 DEF AnswerDetails
<1> DEFINE data == [from |-> u, found |-> found]
<1>4. /\ detailsCalls' = [detailsCalls EXCEPT ![c] = FreeCall]
      /\ details' = Update(details, u, st, data)
      /\ EffectsDone
      /\ UNCHANGED <<url, status, stage, ran, statuses, interval, statusCalls>>
  BY <1>3 DEF FinishDetails
<1>5. data \in DetailsData(u)
  BY DEF DetailsData
<1>6. /\ CacheType(details', DetailsData(details.url)) /\ details'.url = details.url
      /\ u # details.url => details' = details
      /\ u = details.url => details'.entries[Signature].status = st
  <2>1. NoData \notin DetailsData(details.url) /\ st \in FetchStatus
    BY <1>1, <1>3, NoDataAssumption DEF FetchStatus
  <2>. HIDE DEF CacheType, data
  <2>. QED
    BY <1>1, <1>4, <1>5, <2>1, UpdateEffect, DataReconciles
<1>. HIDE DEF data
<1>7. LoadingIsInFlight'
  <2>1. CASE u = details.url
    BY <1>3, <1>4, <1>6, <2>1 DEF IInv, LoadingIsInFlight, detailsEntry, entry
  <2>2. CASE u # details.url
    <3>1. ASSUME detailsEntry.status = "Fetching"
          PROVE  \E d \in DetailsCall : detailsCalls'[d].url = details.url
      <4>1. PICK d \in DetailsCall : detailsCalls[d].url = details.url
        BY <3>1 DEF IInv, LoadingIsInFlight
      <4>. QED
        BY <1>1, <1>4, <2>2, <4>1
    <3>. QED
      BY <1>4, <1>6, <2>2, <3>1 DEF IInv, LoadingIsInFlight, detailsEntry, entry
  <2>. QED
    BY <2>1, <2>2
<1>8. TypeOK'
  BY <1>1, <1>4, <1>6 DEF IInv, TypeOK, CallsType, CacheType
<1>9. Free(detailsCalls') # {}
  BY <1>1, <1>4 DEF Free
<1>10. ran.url = url /\ ran.status = status
  BY <1>4 DEF EffectsDone, now
<1>11. CachesAreOfRan' /\ SlotsAreLeft' /\ NothingToAsk'
  BY <1>4, <1>6, <1>9, <1>10 DEF IInv, CachesAreOfRan, SlotsAreLeft, NothingToAsk, entry, Free
<1>. QED
  BY <1>7, <1>8, <1>11 DEF IInv
(* The retry button of the details. *)
LEMMA ClickDetailsPreserves ==
  ASSUME IInv, ClickDetails
  PROVE  IInv'
<1>1. /\ detailsCalls' = Calls(detailsCalls, url) /\ Free(detailsCalls) # {}
      /\ details' = Update(details, url, "Fetching", NoData)
      /\ EffectsDone
      /\ UNCHANGED <<url, status, stage, ran, statuses, interval, statusCalls>>
  BY DEF ClickDetails
<1>2. ran.url = url /\ ran.status = status /\ details.url = url
  BY <1>1 DEF EffectsDone, now, IInv, CachesAreOfRan
<1>3. /\ detailsCalls' \in [DetailsCall -> Call \cup {FreeCall}]
      /\ \E c \in DetailsCall : detailsCalls'[c].url = url
  <2>1. detailsCalls \in [DetailsCall -> Call \cup {FreeCall}] /\ stage \in Stage /\ url \in Url
    BY DEF IInv, TypeOK, CallsType
  <2>. QED
    BY <1>1, <2>1, CallTaken
<1>4. /\ CacheType(details', DetailsData(details.url)) /\ details'.url = details.url
      /\ details'.entries[Signature].status = "Fetching"
  <2>1. CacheType(details, DetailsData(details.url)) /\ details.url \in Url
    BY DEF IInv, TypeOK
  <2>2. NoData \notin DetailsData(details.url) /\ "Fetching" \in FetchStatus
    BY <2>1, NoDataAssumption DEF FetchStatus
  <2>. HIDE DEF CacheType
  <2>. QED
    BY <1>1, <1>2, <2>1, <2>2, UpdateEffect, DataReconciles
<1>5. LoadingIsInFlight'
  BY <1>1, <1>2, <1>3, <1>4 DEF IInv, LoadingIsInFlight, detailsEntry, entry
<1>6. TypeOK'
  BY <1>1, <1>3, <1>4 DEF IInv, TypeOK, CallsType, CacheType
<1>7. detailsEntry' # Absent
  BY <1>4 DEF detailsEntry, Absent
<1>8. CachesAreOfRan' /\ SlotsAreLeft' /\ NothingToAsk'
  BY <1>1, <1>2, <1>4, <1>7 DEF IInv, CachesAreOfRan, SlotsAreLeft, NothingToAsk, entry, Free
<1>. QED
  BY <1>5, <1>6, <1>8 DEF IInv

(* The effects that notice a new url empty both caches; a status they ask  *)
(* for before that is not waited for.                                      *)
LEMMA EffectsOfUrlPreserve ==
  ASSUME IInv, Effects, ran.url # url
  PROVE  IInv'
<1>1. /\ ran'.url = url /\ ran'.status = status
      /\ statuses' = Clear(url) /\ details' = Clear(url)
      /\ UNCHANGED <<url, status, stage>>
  BY DEF Effects, now
<1>2. url \in Url /\ stage \in Stage
  BY DEF IInv, TypeOK
<1>3. ~loadsDetails
  BY DEF IInv, NothingToAsk, loadsDetails, Absent
<1>4. detailsCalls' = detailsCalls /\ Free(detailsCalls) # {}
  BY <1>3 DEF Effects, IInv, SlotsAreLeft
<1>5. statusCalls' \in [StatusCall -> Call \cup {FreeCall}]
  <2>1. CASE loads
    <3>1. Free(statusCalls) # {} /\ statusCalls' = Calls(statusCalls, url)
      BY <2>1 DEF loads, Effects, IInv, SlotsAreLeft
    <3>. QED
      BY <1>2, <3>1, CallTaken DEF IInv, TypeOK, CallsType
  <2>2. CASE ~loads
    BY <2>2 DEF Effects, IInv, TypeOK, CallsType
  <2>. QED
    BY <2>1, <2>2
<1>6. interval' \in Url \cup {NoData}
  BY <1>2 DEF Effects, intervalAfter
<1>7. /\ statuses'.url = url /\ CacheType(statuses', StatusData(url)) /\ entry' = Absent
      /\ details'.url = url /\ CacheType(details', DetailsData(url)) /\ detailsEntry' = Absent
  BY <1>1, <1>2, ClearedType DEF entry, detailsEntry
<1>8. TypeOK'
  BY <1>1, <1>2, <1>4, <1>5, <1>6, <1>7 DEF IInv, TypeOK, CallsType
<1>9. LoadingIsInFlight'
  BY <1>7 DEF LoadingIsInFlight, Absent
<1>10. CachesAreOfRan' /\ SlotsAreLeft' /\ NothingToAsk'
  BY <1>1, <1>4, <1>7 DEF CachesAreOfRan, SlotsAreLeft, NothingToAsk, Free
<1>. QED
  BY <1>8, <1>9, <1>10 DEF IInv

(* The other effects: what they ask for is waited for, and in flight.      *)
LEMMA EffectsOfPagePreserve ==
  ASSUME IInv, Effects, ran.url = url
  PROVE  IInv'
<1>1. /\ ran'.url = url /\ ran'.status = status
      /\ statuses' = IF loads THEN Update(statuses, url, "Fetching", NoData) ELSE statuses
      /\ details' = IF loadsDetails THEN Update(details, url, "Fetching", NoData) ELSE details
      /\ statusCalls' = IF loads THEN Calls(statusCalls, url) ELSE statusCalls
      /\ detailsCalls' = IF loadsDetails THEN Calls(detailsCalls, url) ELSE detailsCalls
      /\ UNCHANGED <<url, status, stage>>
  BY DEF Effects, now
<1>2. /\ url \in Url /\ stage \in Stage
      /\ statuses.url = url /\ CacheType(statuses, StatusData(url))
      /\ details.url = url /\ CacheType(details, DetailsData(url))
      /\ statusCalls \in [StatusCall -> Call \cup {FreeCall}]
      /\ detailsCalls \in [DetailsCall -> Call \cup {FreeCall}]
  BY DEF IInv, TypeOK, CallsType, CachesAreOfRan
<1>3. /\ statusCalls' \in [StatusCall -> Call \cup {FreeCall}]
      /\ statuses'.url = url /\ CacheType(statuses', StatusData(url))
      /\ entry'.status = "Fetching" => \E c \in StatusCall : statusCalls'[c].url = url
  <2>1. CASE loads
    <3>1. Free(statusCalls) # {}
      BY <2>1 DEF loads, IInv, SlotsAreLeft
    <3>2. NoData \notin StatusData(url) /\ "Fetching" \in FetchStatus
      BY <1>2, NoDataAssumption DEF FetchStatus
    <3>. HIDE DEF CacheType
    <3>3. CacheType(statuses', StatusData(url)) /\ statuses'.url = url
      BY <1>1, <1>2, <2>1, <3>2, UpdateEffect, DataReconciles
    <3>. QED
      BY <1>1, <1>2, <2>1, <3>1, <3>3, CallTaken
  <2>2. CASE ~loads
    BY <1>1, <1>2, <2>2 DEF IInv, LoadingIsInFlight, entry
  <2>. QED
    BY <2>1, <2>2
<1>4. /\ detailsCalls' \in [DetailsCall -> Call \cup {FreeCall}]
      /\ details'.url = url /\ CacheType(details', DetailsData(url))
      /\ detailsEntry'.status = "Fetching" => \E c \in DetailsCall : detailsCalls'[c].url = url
      /\ detailsEntry' = Absent => Free(detailsCalls') # {}
  <2>1. CASE loadsDetails
    <3>1. Free(detailsCalls) # {}
      BY <2>1 DEF loadsDetails, IInv, SlotsAreLeft
    <3>2. NoData \notin DetailsData(url) /\ "Fetching" \in FetchStatus
      BY <1>2, NoDataAssumption DEF FetchStatus
    <3>. HIDE DEF CacheType
    <3>3. /\ CacheType(details', DetailsData(url)) /\ details'.url = url
          /\ details'.entries[Signature].status = "Fetching"
      BY <1>1, <1>2, <2>1, <3>2, UpdateEffect, DataReconciles
    <3>4. detailsEntry' # Absent
      BY <3>3 DEF detailsEntry, Absent
    <3>. QED
      BY <1>1, <1>2, <2>1, <3>1, <3>3, <3>4, CallTaken
  <2>2. CASE ~loadsDetails
    BY <1>1, <1>2, <2>2 DEF IInv, LoadingIsInFlight, SlotsAreLeft, detailsEntry, Free
  <2>. QED
    BY <2>1, <2>2
<1>5. interval' \in Url \cup {NoData}
  BY <1>2 DEF Effects, intervalAfter, IInv, TypeOK
<1>6. TypeOK' /\ LoadingIsInFlight'
  BY <1>1, <1>2, <1>3, <1>4, <1>5 DEF TypeOK, CallsType, LoadingIsInFlight
<1>7. CachesAreOfRan' /\ SlotsAreLeft' /\ NothingToAsk'
  BY <1>1, <1>3, <1>4 DEF CachesAreOfRan, SlotsAreLeft, NothingToAsk
<1>. QED
  BY <1>6, <1>7 DEF IInv

(* The environment. *)
LEMMA EnvironmentPreserves ==
  ASSUME IInv,
         \/ \E u \in Url : Reconnect(u)
         \/ \E s \in Conn!ClusterStatus : Settle(s)
         \/ SwitchTab \/ Progress \/ UNCHANGED vars
  PROVE  IInv'
<1>1. /\ UNCHANGED <<statuses, details, interval, statusCalls, detailsCalls, ran>>
      /\ url' \in Url /\ stage' \in Stage
  <2>1. CASE Progress
    <3>1. \A i \in 1 .. 3 : Stages[i + 1] \in Stage
      BY DEF Stage
    <3>. QED
      BY <2>1, <3>1 DEF IInv, TypeOK, Progress, page
  <2>. QED
    BY <2>1 DEF IInv, TypeOK, Reconnect, Settle, SwitchTab, vars, page, Conn!Reconnect, Conn!Settle
<1>2. TypeOK' /\ LoadingIsInFlight'
  BY <1>1 DEF IInv, TypeOK, CallsType, CacheType, LoadingIsInFlight, entry, detailsEntry
<1>3. ASSUME NEW u \in Url, Reconnect(u)
      PROVE  CachesAreOfRan' /\ SlotsAreLeft' /\ NothingToAsk'
  <2>1. /\ ran.url = url /\ status' = "Connecting" /\ url' = u /\ Free(detailsCalls) # {}
    BY <1>3 DEF Reconnect, EffectsDone, now, Conn!Reconnect
  <2>. QED
    BY <1>1, <2>1 DEF IInv, CachesAreOfRan, SlotsAreLeft, NothingToAsk, Free
<1>4. ASSUME NEW s, Settle(s)
      PROVE  CachesAreOfRan' /\ SlotsAreLeft' /\ NothingToAsk'
  <2>1. ran.url = url /\ url' = url /\ Free(statusCalls) # {}
    BY <1>4 DEF Settle, EffectsDone, now, Conn!Settle
  <2>. QED
    BY <1>1, <2>1 DEF IInv, CachesAreOfRan, SlotsAreLeft, NothingToAsk, Free, detailsEntry
<1>5. ASSUME SwitchTab \/ Progress \/ UNCHANGED vars
      PROVE  CachesAreOfRan' /\ SlotsAreLeft' /\ NothingToAsk'
  <2>1. UNCHANGED <<url, status>>
    BY <1>5 DEF SwitchTab, Progress, vars
  <2>. QED
    BY <1>1, <2>1 DEF IInv, CachesAreOfRan, SlotsAreLeft, NothingToAsk, Free, detailsEntry, entry
<1>. QED
  BY <1>2, <1>3, <1>4, <1>5 DEF IInv

LEMMA NextIInv == IInv /\ [Next]_vars => IInv'
<1> SUFFICES ASSUME IInv, [Next]_vars PROVE IInv'
  OBVIOUS
<1>1. CASE Effects
  BY <1>1, EffectsOfUrlPreserve, EffectsOfPagePreserve
<1>2. CASE Tick
  <2>1. interval \in Url
    BY <1>2 DEF Tick, IInv, TypeOK
  <2>. QED
    BY <1>2, <2>1, FetchStatusPreserves DEF Tick
<1>3. CASE ClickRefresh
  BY <1>3, FetchStatusPreserves DEF ClickRefresh, IInv, TypeOK
<1>4. CASE ClickDetails
  BY <1>4, ClickDetailsPreserves
<1>5. CASE \E c \in StatusCall : SucceedStatus(c) \/ FailStatus(c)
  BY <1>5, FinishStatusPreserves
<1>6. CASE \E c \in DetailsCall : AnswerDetails(c)
  BY <1>6, FinishDetailsPreserves
<1>. QED
  BY <1>1, <1>2, <1>3, <1>4, <1>5, <1>6, EnvironmentPreserves DEF Next

(* The state stays of its types, whatever overlaps: in particular the data *)
(* of a cache are always of the url the cache is for.                      *)
THEOREM TypeCorrect == Spec => []TypeOK
<1>1. IInv => TypeOK
  BY DEF IInv
<1>. QED
  BY <1>1, InitIInv, NextIInv, PTL DEF Spec

(* Neither the status nor the details of a transaction are shown to load   *)
(* with no request to their url in flight, although polls overlap, answers *)
(* come in any order and a new url empties what was just asked for         *)
(* (page-client.tsx, app/providers/transactions).                          *)
THEOREM NoIdleSpinner == Spec => []LoadingIsInFlight
<1>1. IInv => LoadingIsInFlight
  BY DEF IInv
<1>. QED
  BY <1>1, InitIInv, NextIInv, PTL DEF Spec
-------------------------------------------------------------------------------
(* The refinement: both caches keep the promise of UrlCache.               *)

Statuses == INSTANCE UrlCache WITH Key <- {Signature}, AnswerOf <- StatusData,
                                   cache <- statuses
Details == INSTANCE UrlCache WITH Key <- {Signature}, AnswerOf <- DetailsData,
                                  cache <- details

(* An update that says Fetched comes with data. *)
Sound(st, data) == st \in FetchStatus /\ (st = "Fetched" => data # NoData)

(* What an update may change an entry into. *)
LEMMA UpdateChanges ==
  ASSUME NEW Data, \A d, e \in Data : defaultReconciler(d, e) = e, NoData \notin Data,
         NEW cache, CacheType(cache, Data), NEW u, NEW st, NEW data, Sound(st, data),
         u = cache.url => data \in Data \cup {NoData},
         NEW new, new = Update(cache, u, st, data), new # cache
  PROVE  /\ new = [cache EXCEPT !.entries = new.entries]
         /\ new.entries \in [{Signature} -> Entry(Data)]
         /\ \A k \in {Signature} :
              /\ new.entries[k].status \in FetchStatus
              /\ cache.entries[k].data # NoData => new.entries[k].data # NoData
              /\ new.entries[k].status = "Fetched" => new.entries[k].data # NoData
<1>1. st \in FetchStatus
  BY DEF Sound
<1>2. u = cache.url /\ CacheType(new, Data) /\ new.url = cache.url
  <2>. HIDE DEF CacheType
  <2>. QED
    BY <1>1, UpdateEffect
<1>3. /\ new.entries[Signature].status = st
      /\ new.entries[Signature].data =
           IF data = NoData THEN cache.entries[Signature].data ELSE data
  <2>. HIDE DEF CacheType
  <2>. QED
    BY <1>1, <1>2, UpdateEffect
<1>4. new = [cache EXCEPT !.entries = new.entries] /\ new.entries \in [{Signature} -> Entry(Data)]
  BY <1>2 DEF CacheType
<1>. QED
  BY <1>1, <1>3, <1>4 DEF Sound

LEMMA SameTerms ==
  /\ \A u \in Url : Statuses!Clear(u) = Clear(u) /\ Details!Clear(u) = Clear(u)
  /\ \A Data : Statuses!Entry(Data) = Entry(Data) /\ Details!Entry(Data) = Entry(Data)
  /\ Statuses!FetchStatus = FetchStatus /\ Details!FetchStatus = FetchStatus
BY DEF Statuses!Clear, Details!Clear, Clear, Statuses!Absent, Details!Absent, Absent,
       Statuses!Entry, Details!Entry, Entry,
       Statuses!FetchStatus, Details!FetchStatus, FetchStatus

LEMMA StatusStep ==
  ASSUME IInv, [Next]_vars
  PROVE  \/ statuses' = statuses
         \/ statuses' = Clear(url)
         \/ \E u \in Url : \E st, data :
              /\ Sound(st, data) /\ data \in StatusData(u) \cup {NoData}
              /\ statuses' = Update(statuses, u, st, data)
<1>1. ASSUME NEW u \in Url, fetchStatus(u)
      PROVE  /\ Sound("Fetching", NoData)
             /\ statuses' = Update(statuses, u, "Fetching", NoData)
  BY <1>1 DEF fetchStatus, Sound, FetchStatus
<1>2. CASE Effects
  <2>1. Sound("Fetching", NoData) /\ url \in Url
    BY DEF Sound, FetchStatus, IInv, TypeOK
  <2>2. statuses' = Clear(url) \/ statuses' = statuses
        \/ statuses' = Update(statuses, url, "Fetching", NoData)
    BY <1>2 DEF Effects
  <2>. QED
    BY <2>1, <2>2
<1>3. CASE Tick
  <2>1. interval \in Url
    BY <1>3 DEF Tick, IInv, TypeOK
  <2>. QED
    BY <1>1, <1>3, <2>1 DEF Tick
<1>4. CASE ClickRefresh
  BY <1>1, <1>4 DEF ClickRefresh, IInv, TypeOK
<1>5. ASSUME NEW c \in StatusCall, SucceedStatus(c) \/ FailStatus(c)
      PROVE  \E u \in Url : \E st, data :
               /\ Sound(st, data) /\ data \in StatusData(u) \cup {NoData}
               /\ statuses' = Update(statuses, u, st, data)
  <2> DEFINE u == statusCalls[c].url
  <2>1. u \in Url
    BY <1>5, InFlightIsNotFree DEF SucceedStatus, FailStatus, IInv, TypeOK, CallsType
  <2>2. CASE FailStatus(c)
    BY <2>1, <2>2 DEF FailStatus, FinishStatus, Sound, FetchStatus
  <2>3. CASE SucceedStatus(c)
    <3>1. PICK s \in Since(statusCalls[c]) :
            FinishStatus(c, "Fetched", [from |-> u, confirmations |-> s])
      BY <2>3 DEF SucceedStatus
    <3> DEFINE data == [from |-> u, confirmations |-> s]
    <3>2. data \in StatusData(u)
      BY DEF Since, Stage, StatusData
    <3>3. data # NoData
      BY <2>1, <3>2, NoDataAssumption
    <3>4. statuses' = Update(statuses, u, "Fetched", data)
      BY <3>1 DEF FinishStatus
    <3>. HIDE DEF data, u
    <3>. QED
      BY <2>1, <3>2, <3>3, <3>4 DEF Sound, FetchStatus
  <2>. QED
    BY <1>5, <2>2, <2>3
<1>6. CASE (\E u \in Url : Reconnect(u)) \/ (\E s \in Conn!ClusterStatus : Settle(s))
  BY <1>6 DEF Reconnect, Settle, page
<1>7. CASE SwitchTab \/ Progress \/ ClickDetails \/ UNCHANGED vars
  BY <1>7 DEF SwitchTab, Progress, ClickDetails, vars, page
<1>8. CASE \E c \in DetailsCall : AnswerDetails(c)
  BY <1>8 DEF AnswerDetails, SucceedDetails, FailDetails, FinishDetails
<1>. QED
  BY <1>2, <1>3, <1>4, <1>5, <1>6, <1>7, <1>8 DEF Next

LEMMA DetailsStep ==
  ASSUME IInv, [Next]_vars
  PROVE  \/ details' = details
         \/ details' = Clear(url)
         \/ \E u \in Url : \E st, data :
              /\ Sound(st, data) /\ data \in DetailsData(u) \cup {NoData}
              /\ details' = Update(details, u, st, data)
<1>1. Sound("Fetching", NoData) /\ url \in Url
  BY DEF Sound, FetchStatus, IInv, TypeOK
<1>2. CASE Effects
  <2>1. details' = Clear(url) \/ details' = details
        \/ details' = Update(details, url, "Fetching", NoData)
    BY <1>2 DEF Effects
  <2>. QED
    BY <1>1, <2>1
<1>3. CASE ClickDetails
  BY <1>1, <1>3 DEF ClickDetails
<1>4. ASSUME NEW c \in DetailsCall, AnswerDetails(c)
      PROVE  \E u \in Url : \E st, data :
               /\ Sound(st, data) /\ data \in DetailsData(u) \cup {NoData}
               /\ details' = Update(details, u, st, data)
  <2> DEFINE u == detailsCalls[c].url
  <2>1. u \in Url
    BY <1>4, InFlightIsNotFree DEF AnswerDetails, SucceedDetails, FailDetails, IInv, TypeOK, CallsType
  <2>2. ASSUME NEW st \in {"Fetched", "FetchFailed"}, NEW found \in BOOLEAN,
               FinishDetails(c, st, found)
        PROVE  /\ Sound(st, [from |-> u, found |-> found])
               /\ [from |-> u, found |-> found] \in DetailsData(u)
               /\ details' = Update(details, u, st, [from |-> u, found |-> found])
    <3> DEFINE data == [from |-> u, found |-> found]
    <3>1. data \in DetailsData(u)
      BY DEF DetailsData
    <3>2. data # NoData
      BY <2>1, <3>1, NoDataAssumption
    <3>3. details' = Update(details, u, st, data)
      BY <2>2 DEF FinishDetails
    <3>. HIDE DEF data, u
    <3>. QED
      BY <2>2, <3>1, <3>2, <3>3 DEF Sound, FetchStatus, data
  <2>3. CASE FailDetails(c)
    BY <2>1, <2>2, <2>3 DEF FailDetails
  <2>4. CASE SucceedDetails(c)
    <3>1. PICK s \in Since(detailsCalls[c]) : FinishDetails(c, "Fetched", s \in {"some", "max"})
      BY <2>4 DEF SucceedDetails
    <3> DEFINE found == s \in {"some", "max"}
    <3>2. found \in BOOLEAN /\ FinishDetails(c, "Fetched", found)
      BY <3>1
    <3>. HIDE DEF found
    <3>. QED
      BY <2>1, <2>2, <3>2
  <2>. QED
    BY <1>4, <2>3, <2>4 DEF AnswerDetails
<1>5. CASE (\E u \in Url : Reconnect(u)) \/ (\E s \in Conn!ClusterStatus : Settle(s))
  BY <1>5 DEF Reconnect, Settle, page
<1>6. CASE SwitchTab \/ Progress \/ Tick \/ ClickRefresh \/ UNCHANGED vars
  BY <1>6 DEF SwitchTab, Progress, Tick, ClickRefresh, vars, page
<1>7. CASE \E c \in StatusCall : SucceedStatus(c) \/ FailStatus(c)
  BY <1>7 DEF SucceedStatus, FailStatus, FinishStatus
<1>. QED
  BY <1>2, <1>3, <1>4, <1>5, <1>6, <1>7 DEF Next

(* The status and the details are answers of the url of their cache, are   *)
(* taken away by a Clear alone, and are there when the cache says Fetched. *)
THEOREM KeepsPromise == Spec => Statuses!Spec /\ Details!Spec
<1>1. Init => Statuses!Init /\ Details!Init
  BY SameTerms DEF Init, Statuses!Init, Details!Init
<1>2. IInv /\ [Next]_vars => [Statuses!Next]_statuses
  <2> SUFFICES ASSUME IInv, [Next]_vars, statuses' # statuses PROVE Statuses!Next
    OBVIOUS
  <2>1. CASE statuses' = Clear(url)
    BY <2>1, SameTerms DEF IInv, TypeOK, Statuses!Next, Statuses!Empty
  <2>2. ASSUME NEW u \in Url, NEW st, NEW data, Sound(st, data),
               data \in StatusData(u) \cup {NoData}, statuses' = Update(statuses, u, st, data)
        PROVE  Statuses!Next
    <3>1. statuses.url \in Url /\ CacheType(statuses, StatusData(statuses.url))
      BY DEF IInv, TypeOK
    <3>2. NoData \notin StatusData(statuses.url)
      BY <3>1, NoDataAssumption
    <3>3. \A d, e \in StatusData(statuses.url) : defaultReconciler(d, e) = e
      BY <3>1, DataReconciles
    <3>4. u = statuses.url => data \in StatusData(statuses.url) \cup {NoData}
      BY <2>2
    <3>5. /\ statuses' = [statuses EXCEPT !.entries = statuses'.entries]
          /\ statuses'.entries \in [{Signature} -> Entry(StatusData(statuses.url))]
          /\ \A k \in {Signature} :
               /\ statuses'.entries[k].status \in FetchStatus
               /\ statuses.entries[k].data # NoData => statuses'.entries[k].data # NoData
               /\ statuses'.entries[k].status = "Fetched" => statuses'.entries[k].data # NoData
      BY <2>2, <3>1, <3>2, <3>3, <3>4, UpdateChanges
    <3>. QED
      BY <3>5, SameTerms DEF Statuses!Next, Statuses!UpdateEntries, Statuses!Changes
  <2>. QED
    BY <2>1, <2>2, StatusStep
<1>3. IInv /\ [Next]_vars => [Details!Next]_details
  <2> SUFFICES ASSUME IInv, [Next]_vars, details' # details PROVE Details!Next
    OBVIOUS
  <2>1. CASE details' = Clear(url)
    BY <2>1, SameTerms DEF IInv, TypeOK, Details!Next, Details!Empty
  <2>2. ASSUME NEW u \in Url, NEW st, NEW data, Sound(st, data),
               data \in DetailsData(u) \cup {NoData}, details' = Update(details, u, st, data)
        PROVE  Details!Next
    <3>1. details.url \in Url /\ CacheType(details, DetailsData(details.url))
      BY DEF IInv, TypeOK
    <3>2. NoData \notin DetailsData(details.url)
      BY <3>1, NoDataAssumption
    <3>3. \A d, e \in DetailsData(details.url) : defaultReconciler(d, e) = e
      BY <3>1, DataReconciles
    <3>4. u = details.url => data \in DetailsData(details.url) \cup {NoData}
      BY <2>2
    <3>5. /\ details' = [details EXCEPT !.entries = details'.entries]
          /\ details'.entries \in [{Signature} -> Entry(DetailsData(details.url))]
          /\ \A k \in {Signature} :
               /\ details'.entries[k].status \in FetchStatus
               /\ details.entries[k].data # NoData => details'.entries[k].data # NoData
               /\ details'.entries[k].status = "Fetched" => details'.entries[k].data # NoData
      BY <2>2, <3>1, <3>2, <3>3, <3>4, UpdateChanges
    <3>. QED
      BY <3>5, SameTerms DEF Details!Next, Details!UpdateEntries, Details!Changes
  <2>. QED
    BY <2>1, <2>2, DetailsStep
<1>. QED
  BY <1>1, <1>2, <1>3, InitIInv, NextIInv, PTL DEF Spec, Statuses!Spec, Details!Spec

-------------------------------------------------------------------------------
(* The inspector. *)

(* What the parameters say is what is shown, and none of them is to be     *)
(* deleted.                                                                *)
Settled == Inspector!dataOf(params) = inspectorData /\ Inspector!rejected(params) = {}

(* What is shown is about to be put into the url.                          *)
WillNavigate ==
  inspectorData.account # NoData \/ Inspector!synced(params, inspectorData) # params

(* A navigation starts only when the parameters have been decoded.         *)
DecodedFirst == decoded # params => pending = NoData

PrefillIsOfUrl == decoded = params => paramString = Inspector!stringOf(params)

FreshIsShown == fresh => inspectorData # NoData

(* Nothing is wrong that no navigation and no effect is going to put       *)
(* right.  The navigation of a proposal may be one to the very parameters  *)
(* that are there, after which nothing is decoded again.                   *)
NothingLeftBehind ==
  decoded = params /\ ~raced /\ pending \in {NoData, params} =>
    Settled \/ (fresh /\ WillNavigate)

(* The inductive invariant. *)
InspectorInv == Inspector!TypeOK /\ DecodedFirst /\ PrefillIsOfUrl /\ FreshIsShown /\ NothingLeftBehind

-------------------------------------------------------------------------------
(* The parameters. *)

Names == {"message", "signatures", "squadsTx"}

LEMMA ParamsFields ==
  ASSUME NEW p \in Inspector!Params
  PROVE  /\ DOMAIN p = {"cluster", "message", "signatures", "squadsTx"}
         /\ p.cluster \in Cluster
         /\ p.message \in {NoData, Malformed} \cup Inspector!MessageParam
         /\ p.signatures \in {NoData, Malformed, Invalid} \cup Inspector!SignaturesParam
         /\ p.squadsTx \in {NoData, Malformed, Invalid} \cup Account
BY DEF Inspector!Params

LEMMA WithoutType ==
  ASSUME NEW p \in Inspector!Params, NEW names \in SUBSET Names
  PROVE  /\ Inspector!without(p, names) \in Inspector!Params
         /\ \A n \in names : Inspector!without(p, names)[n] = NoData
<1> DEFINE q == Inspector!without(p, names)
<1>1. q = [n \in DOMAIN p |-> IF n \in names THEN NoData ELSE p[n]]
  BY DEF Inspector!without
<1>2. /\ q.cluster = p.cluster
      /\ q.message = IF "message" \in names THEN NoData ELSE p.message
      /\ q.signatures = IF "signatures" \in names THEN NoData ELSE p.signatures
      /\ q.squadsTx = IF "squadsTx" \in names THEN NoData ELSE p.squadsTx
  BY <1>1, ParamsFields DEF Names
<1>3. q = [cluster |-> q.cluster, message |-> q.message, signatures |-> q.signatures,
           squadsTx |-> q.squadsTx]
  BY <1>1, ParamsFields
<1>4. \A n \in names : q[n] = NoData
  BY <1>1, ParamsFields DEF Names
<1>. HIDE DEF q
<1>5. q \in Inspector!Params
  BY <1>2, <1>3, ParamsFields DEF Inspector!Params
<1>. QED
  BY <1>4, <1>5 DEF q

(* Deleting what is there changes the parameters. *)
LEMMA WithoutDiffers ==
  ASSUME NEW p \in Inspector!Params, NEW names \in SUBSET Names,
         NEW n \in names, p[n] # NoData
  PROVE  Inspector!without(p, names) # p
BY WithoutType

LEMMA DecodedType ==
  ASSUME Inspector!ConstantsAssumption, NEW p \in Inspector!Params
  PROVE  /\ Inspector!dataOf(p) \in Inspector!Data \cup {NoData}
         /\ Inspector!stringOf(p) \in Text \cup {NoData}
         /\ Inspector!stringOf(p) # NoData => p.message # NoData
<1>1. Inspector!decodes(p.squadsTx) => p.squadsTx \in Account
  BY ParamsFields DEF Inspector!decodes
<1>2. Inspector!decodes(p.message) => p.message.value \in Text /\ p.message # NoData
  BY ParamsFields DEF Inspector!decodes, Inspector!MessageParam
<1>3. Inspector!signaturesOf(p) \in Signatures \cup {NoData}
  BY ParamsFields DEF Inspector!decodes, Inspector!signaturesOf, Inspector!SignaturesParam
<1>4. \A t \in Text : messageOf[t] # NoData => messageOf[t] \in Inspector!Message
  BY DEF Inspector!Message
<1>5. Inspector!decodes(p.squadsTx) => Inspector!Proposal(p.squadsTx) \in Inspector!Data
  BY <1>1 DEF Inspector!Data, Inspector!Proposal
<1>6. Inspector!decodes(p.message) /\ messageOf[p.message.value] # NoData
        => Inspector!Transaction(messageOf[p.message.value], Inspector!signaturesOf(p)) \in Inspector!Data
  BY <1>2, <1>3, <1>4 DEF Inspector!Data, Inspector!Transaction
<1>. QED
  BY <1>2, <1>5, <1>6 DEF Inspector!dataOf, Inspector!stringOf

LEMMA RejectedDiffers ==
  ASSUME Inspector!ConstantsAssumption, NEW p \in Inspector!Params
  PROVE  /\ Inspector!rejected(p) \in SUBSET Names
         /\ Inspector!rejected(p) # {} => Inspector!without(p, Inspector!rejected(p)) # p
<1>1. Inspector!rejected(p) \in SUBSET Names
  BY DEF Inspector!rejected, Names
<1>2. Inspector!rejected(p) # {} => \E n \in Inspector!rejected(p) : p[n] # NoData
  <2>1. NoData # Malformed /\ NoData # Invalid
    BY DEF Inspector!ConstantsAssumption
  <2>2. CASE p.signatures = Malformed
    BY <2>1, <2>2 DEF Inspector!rejected
  <2>3. CASE p.squadsTx = Invalid
    BY <2>1, <2>3 DEF Inspector!rejected
  <2>4. CASE p.message = NoData \/ Inspector!decodes(p.squadsTx)
    BY <2>2, <2>3, <2>4 DEF Inspector!rejected
  <2>5. CASE ~Inspector!decodes(p.squadsTx) /\ p.message = Malformed
    BY <2>1, <2>5 DEF Inspector!rejected
  <2>6. CASE ~Inspector!decodes(p.squadsTx) /\ p.message # NoData /\ p.message # Malformed
    BY <2>1, <2>2, <2>3, <2>6 DEF Inspector!rejected
  <2>. QED
    BY <2>4, <2>5, <2>6
<1>. QED
  BY <1>1, <1>2, WithoutDiffers

(* What is put into the url. *)
LEMMA SyncedType ==
  ASSUME Inspector!ConstantsAssumption, NEW p \in Inspector!Params, NEW data \in Inspector!Data
  PROVE  Inspector!synced(p, data) \in Inspector!Params
<1>1. CASE data.account # NoData
  <2>1. data.account \in Account
    BY <1>1 DEF Inspector!Data
  <2>2. Inspector!synced(p, data) = [p EXCEPT !.squadsTx = data.account, !.message = NoData,
                                    !.signatures = NoData]
    BY <1>1 DEF Inspector!synced
  <2>. QED
    BY <2>1, <2>2 DEF Inspector!Params
<1>2. CASE data.account = NoData
  <2>1. data.message \in Inspector!Message /\ data.signatures \in Signatures \cup {NoData}
    BY <1>2 DEF Inspector!Data, Inspector!ConstantsAssumption
  <2>2. Inspector!Param(base64[data.message], TRUE) \in Inspector!MessageParam
    BY <2>1 DEF Inspector!Param, Inspector!MessageParam, Inspector!ConstantsAssumption
  <2>3. data.signatures # NoData => Inspector!Param(data.signatures, TRUE) \in Inspector!SignaturesParam
    BY <2>1 DEF Inspector!Param, Inspector!SignaturesParam
  <2>4. Inspector!synced(p, data) = [p EXCEPT !.message = Inspector!Param(base64[data.message], TRUE),
                             !.signatures = IF data.signatures = NoData THEN @
                                            ELSE Inspector!Param(data.signatures, TRUE)]
    BY <1>2 DEF Inspector!synced
  <2>5. (IF data.signatures = NoData THEN p.signatures ELSE Inspector!Param(data.signatures, TRUE))
          \in {NoData, Malformed, Invalid} \cup Inspector!SignaturesParam
    BY <2>3, ParamsFields
  <2>. QED
    BY <2>2, <2>4, <2>5 DEF Inspector!Params
<1>. QED
  BY <1>1, <1>2

(* The parameters a proposal leaves alone are its own. *)
LEMMA ProposalSettles ==
  ASSUME Inspector!ConstantsAssumption, NEW p \in Inspector!Params, NEW data \in Inspector!Data,
         data.account # NoData, Inspector!synced(p, data) = p
  PROVE  Inspector!dataOf(p) = data /\ Inspector!rejected(p) = {}
<1>1. /\ data \in [message : {NoData}, signatures : {NoData}, account : Account]
      /\ data.account \in Account
  BY DEF Inspector!Data
<1>2. data = Inspector!Proposal(data.account)
  BY <1>1 DEF Inspector!Proposal
<1>3. p = [p EXCEPT !.squadsTx = data.account, !.message = NoData, !.signatures = NoData]
  BY DEF Inspector!synced
<1>4. p.squadsTx = data.account /\ p.message = NoData /\ p.signatures = NoData
  BY <1>3, ParamsFields
<1>5. Inspector!decodes(p.squadsTx) /\ p.squadsTx # Invalid /\ NoData # Malformed
  BY <1>1, <1>4 DEF Inspector!decodes, Inspector!ConstantsAssumption
<1>. QED
  BY <1>2, <1>4, <1>5 DEF Inspector!dataOf, Inspector!rejected

(* A transaction is not yet in parameters without a message. *)
LEMMA TransactionNavigates ==
  ASSUME Inspector!ConstantsAssumption, NEW p \in Inspector!Params, NEW data \in Inspector!Data,
         data.account = NoData, p.message = NoData
  PROVE  Inspector!synced(p, data) # p
<1>1. data.message \in Inspector!Message
  BY DEF Inspector!Data, Inspector!ConstantsAssumption
<1>2. Inspector!Param(base64[data.message], TRUE) \in Inspector!MessageParam
  BY <1>1 DEF Inspector!Param, Inspector!MessageParam, Inspector!ConstantsAssumption
<1>3. Inspector!synced(p, data).message = Inspector!Param(base64[data.message], TRUE)
  BY ParamsFields DEF Inspector!synced
<1>4. NoData \notin Inspector!MessageParam
  BY DEF Inspector!ConstantsAssumption
<1>. QED
  BY <1>2, <1>3, <1>4

-------------------------------------------------------------------------------
(* The steps. *)

(* While effects have run and no navigation was ever overtaken, the user   *)
(* acts on a page whose url is that of what it shows.                      *)
LEMMA ActsOnSettled ==
  ASSUME InspectorInv, Inspector!Act
  PROVE  /\ decoded = params /\ ~fresh /\ raced' \in BOOLEAN
         /\ ~raced' => ~raced /\ pending = NoData /\ Settled
<1>1. decoded = params /\ ~fresh
  BY DEF Inspector!Act, Inspector!EffectsDone
<1>2. raced' = (raced \/ pending # NoData)
  BY DEF Inspector!Act
<1>3. raced' \in BOOLEAN
  BY <1>2, Zenon
<1>4. ASSUME ~raced' PROVE ~raced /\ pending = NoData
  BY <1>2, <1>4
<1>. QED
  BY <1>1, <1>3, <1>4 DEF InspectorInv, NothingLeftBehind

(* A text that is read: shown, or left in the card.                        *)
LEMMA InputEffect ==
  ASSUME Inspector!ConstantsAssumption, Inspector!TypeOK, NEW text \in Text \cup {Inspector!NoText},
         NEW filledWith \in Text \cup {NoData}, Inspector!onInput(text, filledWith)
  PROVE  /\ pending' \in Inspector!Params \cup {NoData}
         /\ IF text # Inspector!NoText /\ params.message # NoData
            THEN pending' \notin {NoData, params} ELSE pending' = pending
         /\ input' \in Text \cup {Inspector!NoText} /\ filled' \in Text \cup {NoData}
         /\ \/ fresh' = TRUE /\ inspectorData' \in Inspector!Data /\ text # Inspector!NoText
            \/ fresh' = fresh /\ inspectorData' = inspectorData
<1>1. Inspector!without(params, {"message"}) \in Inspector!Params
  BY WithoutType DEF Inspector!TypeOK, Names
<1>2. params.message # NoData => Inspector!without(params, {"message"}) # params
  BY WithoutDiffers DEF Inspector!TypeOK, Names
<1>3. IF text # Inspector!NoText /\ params.message # NoData
      THEN pending' = Inspector!without(params, {"message"}) ELSE pending' = pending
  BY DEF Inspector!onInput, Inspector!Navigate, Inspector!Stay
<1>4. NoData \notin Inspector!Params
  BY DEF Inspector!ConstantsAssumption
<1>5. CASE text # Inspector!NoText /\ inputOf[text] # NoData
  <2>1. Inspector!Show(inputOf[text])
    BY <1>5 DEF Inspector!onInput
  <2>2. inputOf[text] \in Inspector!Data
    BY <1>5 DEF Inspector!ConstantsAssumption
  <2>. QED
    BY <1>1, <1>2, <1>3, <1>4, <1>5, <2>1, <2>2 DEF Inspector!Show, Inspector!TypeOK
<1>6. CASE ~(text # Inspector!NoText /\ inputOf[text] # NoData)
  <2>1. input' = text /\ filled' = filledWith /\ UNCHANGED <<inspectorData, fresh>>
    BY <1>6 DEF Inspector!onInput
  <2>. QED
    BY <1>1, <1>2, <1>3, <1>4, <2>1 DEF Inspector!TypeOK
<1>. QED
  BY <1>5, <1>6

LEMMA CommitStep ==
  ASSUME Inspector!ConstantsAssumption, InspectorInv, Inspector!Commit
  PROVE  InspectorInv'
<1>1. /\ decoded = params /\ pending \in Inspector!Params /\ params' = pending /\ pending' = NoData
      /\ UNCHANGED <<decoded, inspectorData, fresh, paramString, Inspector!card, Inspector!user>>
  BY DEF Inspector!Commit, Inspector!EffectsDone, InspectorInv, Inspector!TypeOK
<1>2. Inspector!TypeOK' /\ DecodedFirst' /\ FreshIsShown'
  BY <1>1 DEF InspectorInv, Inspector!TypeOK, DecodedFirst, FreshIsShown, Inspector!card, Inspector!user
<1>3. CASE pending = params
  <2>1. params' = params
    BY <1>1, <1>3
  <2>2. PrefillIsOfUrl'
    BY <1>1, <2>1 DEF InspectorInv, PrefillIsOfUrl
  <2>3. Settled' <=> Settled
    BY <1>1, <2>1 DEF Settled
  <2>4. WillNavigate' <=> WillNavigate
    BY <1>1, <2>1 DEF WillNavigate
  <2>5. NothingLeftBehind'
    BY <1>1, <1>3, <2>1, <2>3, <2>4 DEF InspectorInv, NothingLeftBehind, Inspector!user
  <2>. QED
    BY <1>2, <2>2, <2>5 DEF InspectorInv
<1>4. CASE pending # params
  BY <1>1, <1>2, <1>4 DEF InspectorInv, PrefillIsOfUrl, NothingLeftBehind
<1>. QED
  BY <1>3, <1>4

LEMMA DecodeStep ==
  ASSUME Inspector!ConstantsAssumption, InspectorInv, Inspector!DecodeEffect
  PROVE  InspectorInv'
<1> DEFINE refilled == Inspector!mounted /\ decoded # NoData /\ paramString # NoData
<1>1. /\ pending = NoData /\ params \in Inspector!Params /\ decoded' = params
      /\ UNCHANGED <<params, Inspector!user>> /\ paramString' = Inspector!stringOf(params)
  BY DEF Inspector!DecodeEffect, InspectorInv, DecodedFirst, Inspector!TypeOK
<1>2. /\ Inspector!dataOf(params) \in Inspector!Data \cup {NoData}
      /\ Inspector!stringOf(params) \in Text \cup {NoData}
      /\ NoData \notin Inspector!Params
  BY <1>1, DecodedType DEF Inspector!ConstantsAssumption
<1>3. /\ inspectorData' = Inspector!dataOf(params)
      /\ fresh' = (Inspector!dataOf(params) # NoData)
      /\ input' \in Text \cup {Inspector!NoText} /\ filled' \in Text \cup {NoData}
  <2>1. CASE Inspector!dataOf(params) # NoData
    BY <2>1 DEF Inspector!DecodeEffect, Inspector!Show
  <2>2. CASE Inspector!dataOf(params) = NoData
    <3>1. /\ inspectorData' = NoData /\ fresh' = FALSE
          /\ input' = IF refilled THEN paramString ELSE input
          /\ filled' = IF Inspector!mounted THEN paramString ELSE NoData
      BY <2>2 DEF Inspector!DecodeEffect
    <3>. QED
      BY <2>2, <3>1 DEF InspectorInv, Inspector!TypeOK
  <2>. QED
    BY <2>1, <2>2
<1>4. /\ pending' \in Inspector!Params \cup {NoData}
      /\ pending' \in {NoData, params} => Inspector!rejected(params) = {}
  <2>1. CASE Inspector!rejected(params) # {}
    <3>1. pending' = Inspector!without(params, Inspector!rejected(params))
      BY <2>1 DEF Inspector!DecodeEffect, Inspector!Navigate
    <3>. QED
      BY <1>1, <1>2, <2>1, <3>1, RejectedDiffers, WithoutType
  <2>2. CASE Inspector!rejected(params) = {}
    <3>1. pending' \in {pending, Inspector!without(params, {"message"})}
      BY <2>2 DEF Inspector!DecodeEffect, Inspector!Navigate, Inspector!Stay
    <3>2. Inspector!without(params, {"message"}) \in Inspector!Params
      BY <1>1, WithoutType DEF Names
    <3>. QED
      BY <1>1, <2>2, <3>1, <3>2
  <2>. QED
    BY <2>1, <2>2
<1>5. Inspector!TypeOK'
  <2>1. fresh' \in BOOLEAN
    BY <1>3
  <2>. QED
    BY <1>1, <1>2, <1>3, <1>4, <2>1 DEF InspectorInv, Inspector!TypeOK, Inspector!user
<1>6. DecodedFirst' /\ PrefillIsOfUrl' /\ FreshIsShown'
  BY <1>1, <1>3 DEF DecodedFirst, PrefillIsOfUrl, FreshIsShown
<1>7. NothingLeftBehind'
  BY <1>1, <1>3, <1>4 DEF NothingLeftBehind, Settled
<1>. QED
  BY <1>5, <1>6, <1>7 DEF InspectorInv

(* A navigation that FillEffect starts is one away from the parameters.    *)
LEMMA FillStep ==
  ASSUME Inspector!ConstantsAssumption, InspectorInv, Inspector!FillEffect
  PROVE  InspectorInv'
<1>1. decoded = params /\ UNCHANGED <<params, decoded, paramString, Inspector!user>>
  BY DEF Inspector!FillEffect
<1>2. PrefillIsOfUrl' /\ DecodedFirst'
  BY <1>1 DEF InspectorInv, PrefillIsOfUrl, DecodedFirst
<1>3. CASE paramString # NoData
  <2>1. Inspector!onInput(paramString, paramString) /\ paramString \in Text
    BY <1>3 DEF Inspector!FillEffect, InspectorInv, Inspector!TypeOK
  <2>2. params.message # NoData
    BY <1>1, <1>3, DecodedType DEF InspectorInv, Inspector!TypeOK, PrefillIsOfUrl
  <2>3. /\ pending' \in Inspector!Params \cup {NoData}
        /\ paramString # Inspector!NoText => pending' \notin {NoData, params}
        /\ paramString = Inspector!NoText => pending' = pending
        /\ input' \in Text \cup {Inspector!NoText} /\ filled' \in Text \cup {NoData}
        /\ \/ fresh' = TRUE /\ inspectorData' \in Inspector!Data /\ paramString # Inspector!NoText
           \/ fresh' = fresh /\ inspectorData' = inspectorData
    <3>1. Inspector!TypeOK /\ paramString \in Text \cup {Inspector!NoText} /\ paramString \in Text \cup {NoData}
      BY <2>1 DEF InspectorInv
    <3>2. /\ pending' \in Inspector!Params \cup {NoData}
          /\ IF paramString # Inspector!NoText /\ params.message # NoData
             THEN pending' \notin {NoData, params} ELSE pending' = pending
          /\ input' \in Text \cup {Inspector!NoText} /\ filled' \in Text \cup {NoData}
          /\ \/ fresh' = TRUE /\ inspectorData' \in Inspector!Data /\ paramString # Inspector!NoText
             \/ fresh' = fresh /\ inspectorData' = inspectorData
      BY <2>1, <3>1, InputEffect
    <3>. QED
      BY <2>2, <3>2
  <2>4. Inspector!TypeOK'
    BY <1>1, <2>3 DEF InspectorInv, Inspector!TypeOK, Inspector!user
  <2>5. FreshIsShown'
    BY <2>3 DEF InspectorInv, FreshIsShown, Inspector!ConstantsAssumption
  <2>6. NothingLeftBehind'
    <3>1. CASE paramString # Inspector!NoText
      BY <1>1, <2>3, <3>1 DEF NothingLeftBehind
    <3>2. CASE paramString = Inspector!NoText
      <4>1. pending' = pending /\ fresh' = fresh /\ inspectorData' = inspectorData
        BY <2>3, <3>2
      <4>2. (Settled' <=> Settled) /\ (WillNavigate' <=> WillNavigate)
        BY <1>1, <4>1 DEF Settled, WillNavigate
      <4>. QED
        BY <1>1, <4>1, <4>2 DEF InspectorInv, NothingLeftBehind, Inspector!user
    <3>. QED
      BY <3>1, <3>2
  <2>. QED
    BY <1>2, <2>4, <2>5, <2>6 DEF InspectorInv
<1>4. CASE paramString = NoData
  <2>1. filled' = paramString /\ UNCHANGED <<pending, inspectorData, fresh, input>>
    BY <1>4 DEF Inspector!FillEffect
  <2>2. (Settled' <=> Settled) /\ (WillNavigate' <=> WillNavigate)
    BY <1>1, <2>1 DEF Settled, WillNavigate
  <2>. QED
    BY <1>1, <1>2, <2>1, <2>2 DEF InspectorInv, Inspector!TypeOK, FreshIsShown, NothingLeftBehind, Inspector!user
<1>. QED
  BY <1>3, <1>4

(* What is shown goes into the url, or is there.                           *)
LEMMA UrlStep ==
  ASSUME Inspector!ConstantsAssumption, InspectorInv, Inspector!UrlEffect
  PROVE  InspectorInv'
<1> DEFINE q == Inspector!synced(params, inspectorData)
<1>1. /\ decoded = params /\ fresh /\ fresh' = FALSE
      /\ UNCHANGED <<params, decoded, inspectorData, paramString, Inspector!card, Inspector!user>>
  BY DEF Inspector!UrlEffect
<1>2. inspectorData \in Inspector!Data /\ params \in Inspector!Params /\ NoData \notin Inspector!Params
  BY <1>1 DEF InspectorInv, Inspector!TypeOK, FreshIsShown, Inspector!ConstantsAssumption
<1>3. q \in Inspector!Params
  BY <1>2, SyncedType
<1>4. IF WillNavigate THEN pending' = q ELSE pending' = pending
  BY DEF Inspector!UrlEffect, WillNavigate, Inspector!Navigate, Inspector!Stay
<1>5. Settled' <=> Settled
  BY <1>1 DEF Settled
<1>. HIDE DEF q
<1>6. PrefillIsOfUrl' /\ DecodedFirst' /\ FreshIsShown'
  BY <1>1 DEF InspectorInv, PrefillIsOfUrl, DecodedFirst, FreshIsShown
<1>7. Inspector!TypeOK'
  BY <1>1, <1>3, <1>4 DEF InspectorInv, Inspector!TypeOK, Inspector!card, Inspector!user
<1>8. CASE WillNavigate
  <2>1. pending' = q /\ q # NoData
    BY <1>2, <1>3, <1>4, <1>8
  <2>2. q = params => Settled
    BY <1>2, <1>8, ProposalSettles DEF WillNavigate, Settled, q
  <2>. QED
    BY <1>1, <1>5, <1>6, <1>7, <2>1, <2>2 DEF InspectorInv, NothingLeftBehind
<1>9. CASE ~WillNavigate
  <2>1. pending' = pending
    BY <1>4, <1>9
  <2>. QED
    BY <1>1, <1>5, <1>6, <1>7, <1>9, <2>1 DEF InspectorInv, NothingLeftBehind, Inspector!user
<1>. QED
  BY <1>8, <1>9

LEMMA EnterStep ==
  ASSUME Inspector!ConstantsAssumption, InspectorInv, NEW text \in Text, Inspector!Enter(text)
  PROVE  InspectorInv'
<1>1. /\ Inspector!Act /\ Inspector!mounted /\ Inspector!onInput(text, filled) /\ entered' = text
      /\ UNCHANGED <<params, decoded, paramString>>
  BY DEF Inspector!Enter
<1>2. /\ decoded = params /\ ~fresh /\ raced' \in BOOLEAN
      /\ ~raced' => ~raced /\ pending = NoData /\ Settled
  BY <1>1, ActsOnSettled
<1>3. /\ pending' \in Inspector!Params \cup {NoData}
      /\ IF text # Inspector!NoText /\ params.message # NoData
         THEN pending' \notin {NoData, params} ELSE pending' = pending
      /\ input' \in Text \cup {Inspector!NoText} /\ filled' \in Text \cup {NoData}
      /\ \/ fresh' = TRUE /\ inspectorData' \in Inspector!Data /\ text # Inspector!NoText
         \/ fresh' = fresh /\ inspectorData' = inspectorData
  BY <1>1, InputEffect DEF InspectorInv, Inspector!TypeOK
<1>4. Inspector!TypeOK' /\ PrefillIsOfUrl' /\ DecodedFirst'
  BY <1>1, <1>2, <1>3 DEF InspectorInv, Inspector!TypeOK, PrefillIsOfUrl, DecodedFirst
<1>5. FreshIsShown'
  BY <1>3 DEF InspectorInv, FreshIsShown, Inspector!ConstantsAssumption
<1>6. NothingLeftBehind'
  <2> SUFFICES ASSUME ~raced', pending' \in {NoData, params}
               PROVE  Settled' \/ (fresh' /\ WillNavigate')
    BY <1>1 DEF NothingLeftBehind
  <2>1. CASE fresh' = TRUE /\ inspectorData' \in Inspector!Data /\ text # Inspector!NoText
    <3>1. params.message = NoData
      BY <1>3, <2>1
    <3>2. inspectorData'.account = NoData => Inspector!synced(params, inspectorData') # params
      BY <2>1, <3>1, TransactionNavigates DEF InspectorInv, Inspector!TypeOK
    <3>. QED
      BY <1>1, <2>1, <3>2 DEF WillNavigate
  <2>2. CASE fresh' = fresh /\ inspectorData' = inspectorData
    BY <1>1, <1>2, <2>2 DEF Settled
  <2>. QED
    BY <1>3, <2>1, <2>2
<1>. QED
  BY <1>4, <1>5, <1>6 DEF InspectorInv

(* The other acts navigate, or change the card only.                       *)
LEMMA OtherActStep ==
  ASSUME Inspector!ConstantsAssumption, InspectorInv, Inspector!Act,
         UNCHANGED <<params, decoded, inspectorData, fresh, paramString, filled>>,
         input' \in Text \cup {Inspector!NoText}, entered' \in Text \cup {Inspector!NoText},
         pending' \in Inspector!Params \cup {NoData}
  PROVE  InspectorInv'
<1>1. /\ decoded = params /\ ~fresh /\ raced' \in BOOLEAN
      /\ ~raced' => ~raced /\ pending = NoData /\ Settled
  BY ActsOnSettled
<1>2. Settled' <=> Settled
  BY DEF Settled
<1>3. Inspector!TypeOK' /\ PrefillIsOfUrl' /\ DecodedFirst' /\ FreshIsShown'
  BY <1>1 DEF InspectorInv, Inspector!TypeOK, PrefillIsOfUrl, DecodedFirst, FreshIsShown
<1>4. NothingLeftBehind'
  BY <1>1, <1>2 DEF NothingLeftBehind
<1>. QED
  BY <1>3, <1>4 DEF InspectorInv

LEMMA NextStep ==
  ASSUME Inspector!ConstantsAssumption, InspectorInv, [Inspector!Next]_(Inspector!vars)
  PROVE  InspectorInv'
<1>1. params \in Inspector!Params
  BY DEF InspectorInv, Inspector!TypeOK
<1>2. CASE Inspector!clearInput
  <2>1. Inspector!without(params, {"message"}) \in Inspector!Params
    BY <1>1, WithoutType DEF Names
  <2>2. pending' \in Inspector!Params \cup {NoData}
    BY <1>2, <2>1 DEF Inspector!clearInput, Inspector!Navigate, Inspector!Stay, InspectorInv, Inspector!TypeOK
  <2>. QED
    BY <1>2, <2>2, OtherActStep DEF Inspector!clearInput
<1>3. CASE Inspector!reset
  <2>1. Inspector!without(params, Names) \in Inspector!Params
    BY <1>1, WithoutType
  <2>2. pending' \in Inspector!Params \cup {NoData}
    BY <1>3, <2>1 DEF Inspector!reset, Inspector!Navigate, Names
  <2>3. input' \in Text \cup {Inspector!NoText} /\ filled' = filled
    BY <1>3 DEF Inspector!reset, Inspector!card, InspectorInv, Inspector!TypeOK
  <2>. QED
    BY <1>3, <2>2, <2>3, OtherActStep DEF Inspector!reset
<1>4. CASE \E c \in Cluster : Inspector!Switch(c)
  <2>1. PICK c \in Cluster : Inspector!Switch(c)
    BY <1>4
  <2>2. [params EXCEPT !.cluster = c] \in Inspector!Params
    BY <1>1 DEF Inspector!Params
  <2>3. pending' \in Inspector!Params \cup {NoData}
    BY <2>1, <2>2 DEF Inspector!Switch, Inspector!Navigate
  <2>4. input' \in Text \cup {Inspector!NoText} /\ entered' \in Text \cup {Inspector!NoText} /\ filled' = filled
    BY <2>1 DEF Inspector!Switch, Inspector!card, InspectorInv, Inspector!TypeOK
  <2>. QED
    BY <2>1, <2>3, <2>4, OtherActStep DEF Inspector!Switch
<1>5. CASE UNCHANGED Inspector!vars
  <2>1. /\ UNCHANGED <<params, pending, decoded, inspectorData, fresh, paramString>>
        /\ UNCHANGED <<input, filled, entered, raced>>
    BY <1>5 DEF Inspector!vars
  <2>2. (Settled' <=> Settled) /\ (WillNavigate' <=> WillNavigate)
    BY <2>1 DEF Settled, WillNavigate
  <2>. QED
    BY <2>1, <2>2 DEF InspectorInv, Inspector!TypeOK, DecodedFirst, PrefillIsOfUrl, FreshIsShown,
           NothingLeftBehind
<1>. QED
  BY <1>2, <1>3, <1>4, <1>5, CommitStep, DecodeStep, FillStep, UrlStep, EnterStep DEF Inspector!Next

LEMMA InitStep ==
  ASSUME Inspector!ConstantsAssumption, Inspector!Init
  PROVE  InspectorInv
<1>1. params \in Inspector!Params /\ NoData \notin Inspector!Params
  BY DEF Inspector!Init, Inspector!ConstantsAssumption
<1>. QED
  BY <1>1 DEF Inspector!Init, InspectorInv, Inspector!TypeOK, DecodedFirst, PrefillIsOfUrl,
         FreshIsShown, NothingLeftBehind

LEMMA Invariance ==
  ASSUME Inspector!ConstantsAssumption
  PROVE  Inspector!Spec => []InspectorInv
<1>1. Inspector!Init => InspectorInv
  BY InitStep
<1>2. InspectorInv /\ [Inspector!Next]_(Inspector!vars) => InspectorInv'
  BY NextStep
<1>. QED
  BY <1>1, <1>2, PTL DEF Inspector!Spec

(* The parameters, of the url and of the navigation under way, and what is *)
(* shown stay of their types.                                              *)
THEOREM InspectorTypeCorrect ==
  ASSUME Inspector!ConstantsAssumption
  PROVE  Inspector!Spec => []Inspector!TypeOK
<1>1. InspectorInv => Inspector!TypeOK
  BY DEF InspectorInv
<1>. QED
  BY <1>1, Invariance, PTL

LEMMA InvKeepsUrl == InspectorInv => Inspector!UrlIsOfShown
  BY DEF InspectorInv, NothingLeftBehind, Inspector!UrlIsOfShown, Inspector!Quiet, Inspector!EffectsDone, Settled

(* At rest the url is that of what is shown, unless the user overtook a    *)
(* navigation: whatever link the page was opened with, whatever was pasted *)
(* and however the effects of InspectorPage and RawInput took turns.       *)
THEOREM UrlOfShown ==
  ASSUME Inspector!ConstantsAssumption
  PROVE  Inspector!Spec => []Inspector!UrlIsOfShown
  BY InvKeepsUrl, Invariance, PTL

-------------------------------------------------------------------------------
(* What was entered.  As long as no navigation was overtaken, a text that  *)
(* is of nothing stays in the card, over parameters that say nothing; and  *)
(* what any other text is of is shown, or said by the parameters that are  *)
(* about to be decoded, or navigated to.                                   *)

Bare(p) == p.message = NoData /\ ~Inspector!decodes(p.squadsTx)

IsShownBy(text, data) ==
  /\ data # NoData
  /\ data.message = inputOf[text].message /\ data.account = inputOf[text].account
  /\ inputOf[text].signatures \in {NoData, data.signatures}

UnreadIsInCard ==
  /\ inspectorData = NoData /\ input = entered /\ paramString = NoData
  /\ Bare(params) /\ (pending # NoData => Bare(pending))

ReadIsShown ==
  /\ IsShownBy(entered, inspectorData)
  /\ decoded # params => IsShownBy(entered, Inspector!dataOf(params))
  /\ pending # NoData => IsShownBy(entered, Inspector!dataOf(pending))
  /\ fresh /\ inspectorData.account = NoData => ~Inspector!decodes(params.squadsTx)

EnteredStays ==
  ~raced /\ entered # Inspector!NoText =>
    IF inputOf[entered] = NoData THEN UnreadIsInCard ELSE ReadIsShown

(* Parameters that say nothing still do so when some are deleted.          *)
LEMMA BareSaysNothing ==
  ASSUME Inspector!ConstantsAssumption, NEW p \in Inspector!Params, Bare(p)
  PROVE  /\ Inspector!dataOf(p) = NoData /\ Inspector!stringOf(p) = NoData
         /\ \A names \in SUBSET Names : Bare(Inspector!without(p, names))
<1>1. Inspector!dataOf(p) = NoData /\ Inspector!stringOf(p) = NoData
  BY DEF Bare, Inspector!dataOf, Inspector!stringOf, Inspector!decodes
<1>2. ASSUME NEW names \in SUBSET Names
      PROVE  Bare(Inspector!without(p, names))
  <2>1. /\ Inspector!without(p, names).message \in {NoData, p.message}
        /\ Inspector!without(p, names).squadsTx \in {NoData, p.squadsTx}
    BY ParamsFields DEF Inspector!without
  <2>. QED
    BY <2>1 DEF Bare, Inspector!decodes
<1>. QED
  BY <1>1, <1>2

(* An input card over settled parameters: they say nothing.                *)
LEMMA SettledCardIsBare ==
  ASSUME Inspector!ConstantsAssumption, params \in Inspector!Params, Settled, inspectorData = NoData
  PROVE  Bare(params)
<1>1. Inspector!dataOf(params) = NoData /\ Inspector!rejected(params) = {}
  BY DEF Settled
<1>2. ~Inspector!decodes(params.squadsTx)
  <2>1. Inspector!decodes(params.squadsTx) => Inspector!Proposal(params.squadsTx) \in Inspector!Data
    BY ParamsFields DEF Inspector!decodes, Inspector!Data, Inspector!Proposal
  <2>. QED
    BY <1>1, <2>1 DEF Inspector!dataOf, Inspector!ConstantsAssumption
<1>3. params.message # NoData => params.message # Malformed
  BY <1>1, <1>2 DEF Inspector!rejected
<1>4. params.message # NoData => Inspector!decodes(params.message)
  BY <1>3, ParamsFields DEF Inspector!decodes, Inspector!ConstantsAssumption
<1>5. params.message # NoData => messageOf[params.message.value] # NoData
  BY <1>1, <1>2, <1>3 DEF Inspector!rejected
<1>6. params.message # NoData =>
        Inspector!Transaction(messageOf[params.message.value], Inspector!signaturesOf(params)) = NoData
  BY <1>1, <1>2, <1>4, <1>5 DEF Inspector!dataOf
<1>7. params.message # NoData =>
        Inspector!Transaction(messageOf[params.message.value], Inspector!signaturesOf(params)) \in Inspector!Data
  <2>1. params.message # NoData => params.message.value \in Text
    BY <1>4, ParamsFields DEF Inspector!decodes, Inspector!MessageParam
  <2>2. params.message # NoData => messageOf[params.message.value] \in Inspector!Message
    BY <1>5, <2>1 DEF Inspector!Message
  <2>3. Inspector!signaturesOf(params) \in Signatures \cup {NoData}
    BY ParamsFields DEF Inspector!decodes, Inspector!signaturesOf, Inspector!SignaturesParam
  <2>. QED
    BY <2>2, <2>3 DEF Inspector!Data, Inspector!Transaction
<1>. QED
  BY <1>2, <1>6, <1>7 DEF Bare, Inspector!ConstantsAssumption

(* The parameters that are deleted were of no use.                         *)
LEMMA RejectedAreUnused ==
  ASSUME Inspector!ConstantsAssumption, NEW p \in Inspector!Params, Inspector!dataOf(p) # NoData
  PROVE  Inspector!dataOf(Inspector!without(p, Inspector!rejected(p))) = Inspector!dataOf(p)
<1> DEFINE R == Inspector!rejected(p)
           q == Inspector!without(p, R)
<1>1. /\ q.message = IF "message" \in R THEN NoData ELSE p.message
      /\ q.signatures = IF "signatures" \in R THEN NoData ELSE p.signatures
      /\ q.squadsTx = IF "squadsTx" \in R THEN NoData ELSE p.squadsTx
  BY ParamsFields DEF Inspector!without
<1>2. "squadsTx" \in R => p.squadsTx = Invalid
  BY DEF Inspector!rejected
<1>3. CASE Inspector!decodes(p.squadsTx)
  <2>1. q.squadsTx = p.squadsTx
    BY <1>1, <1>2, <1>3 DEF Inspector!decodes
  <2>. QED
    BY <1>3, <2>1 DEF Inspector!dataOf
<1>4. CASE ~Inspector!decodes(p.squadsTx)
  <2>1. Inspector!decodes(p.message) /\ messageOf[p.message.value] # NoData
    BY <1>4 DEF Inspector!dataOf
  <2>2. "message" \notin R
    BY <1>4, <2>1 DEF Inspector!rejected, Inspector!decodes
  <2>3. "signatures" \in R => p.signatures \in {Malformed, Invalid}
    BY <1>4, <2>1 DEF Inspector!rejected, Inspector!decodes
  <2>4. q.message = p.message /\ ~Inspector!decodes(q.squadsTx)
    BY <1>1, <1>4, <2>2 DEF Inspector!decodes
  <2>5. Inspector!signaturesOf(q) = Inspector!signaturesOf(p)
    BY <1>1, <2>3 DEF Inspector!signaturesOf, Inspector!decodes
  <2>. QED
    BY <1>4, <2>1, <2>4, <2>5 DEF Inspector!dataOf
<1>. QED
  BY <1>3, <1>4

(* The url of what is shown says what is shown, up to signatures it had.   *)
LEMMA SyncedSays ==
  ASSUME Inspector!ConstantsAssumption, NEW p \in Inspector!Params, NEW data \in Inspector!Data,
         data.account = NoData => ~Inspector!decodes(p.squadsTx),
         NEW text, IsShownBy(text, data)
  PROVE  IsShownBy(text, Inspector!dataOf(Inspector!synced(p, data)))
<1> DEFINE q == Inspector!synced(p, data)
<1>1. CASE data.account # NoData
  <2>1. /\ data \in [message : {NoData}, signatures : {NoData}, account : Account]
        /\ data.account \in Account
    BY <1>1 DEF Inspector!Data
  <2>2. data = Inspector!Proposal(data.account)
    BY <2>1 DEF Inspector!Proposal
  <2>3. q.squadsTx = data.account
    BY <1>1, ParamsFields DEF Inspector!synced
  <2>4. Inspector!decodes(q.squadsTx)
    BY <2>1, <2>3 DEF Inspector!decodes, Inspector!ConstantsAssumption
  <2>. QED
    BY <2>2, <2>3, <2>4 DEF Inspector!dataOf
<1>2. CASE data.account = NoData
  <2>1. data.message \in Inspector!Message /\ data.signatures \in Signatures \cup {NoData}
    BY <1>2 DEF Inspector!Data, Inspector!ConstantsAssumption
  <2>2. /\ q.message = Inspector!Param(base64[data.message], TRUE)
        /\ q.squadsTx = p.squadsTx
        /\ data.signatures # NoData => q.signatures = Inspector!Param(data.signatures, TRUE)
    BY <1>2, ParamsFields DEF Inspector!synced
  <2>3. /\ q.message.value = base64[data.message] /\ q.message \in Inspector!MessageParam
        /\ data.signatures # NoData =>
             q.signatures.value = data.signatures /\ q.signatures \in Inspector!SignaturesParam
    <3>1. base64[data.message] \in Text
      BY <2>1 DEF Inspector!ConstantsAssumption
    <3>2. \A t \in Text : Inspector!Param(t, TRUE).value = t /\ Inspector!Param(t, TRUE) \in Inspector!MessageParam
      BY DEF Inspector!Param, Inspector!MessageParam
    <3>3. \A t \in Signatures :
            Inspector!Param(t, TRUE).value = t /\ Inspector!Param(t, TRUE) \in Inspector!SignaturesParam
      BY DEF Inspector!Param, Inspector!SignaturesParam
    <3>4. data.signatures # NoData => data.signatures \in Signatures
      BY <2>1
    <3>. HIDE DEF q
    <3>. QED
      BY <2>2, <3>1, <3>2, <3>3, <3>4
  <2>4. /\ Inspector!decodes(q.message)
        /\ data.signatures # NoData => Inspector!decodes(q.signatures)
    BY <2>3 DEF Inspector!decodes, Inspector!ConstantsAssumption
  <2>5. messageOf[q.message.value] = data.message /\ data.message # NoData
    BY <2>1, <2>3 DEF Inspector!ConstantsAssumption, Inspector!Message
  <2>6. Inspector!dataOf(q) = Inspector!Transaction(data.message, Inspector!signaturesOf(q))
    BY <1>2, <2>2, <2>4, <2>5 DEF Inspector!dataOf
  <2>7. data.signatures # NoData => Inspector!signaturesOf(q) = data.signatures
    BY <2>3, <2>4 DEF Inspector!signaturesOf
  <2>8. Inspector!dataOf(q) # NoData
    <3>1. Inspector!signaturesOf(q) \in Signatures \cup {NoData}
      BY SyncedType, ParamsFields DEF Inspector!decodes, Inspector!signaturesOf, Inspector!SignaturesParam
    <3>2. Inspector!dataOf(q) \in Inspector!Data
      BY <2>1, <2>6, <3>1 DEF Inspector!Data, Inspector!Transaction
    <3>. QED
      BY <3>2 DEF Inspector!ConstantsAssumption
  <2>. QED
    BY <1>2, <2>6, <2>7, <2>8 DEF IsShownBy, Inspector!Transaction
<1>. QED
  BY <1>1, <1>2
(* An act while no navigation is overtaken starts from settled parameters, *)
(* with no navigation under way.                                           *)
LEMMA ActKeepsEntered ==
  ASSUME Inspector!ConstantsAssumption, InspectorInv, EnteredStays, Inspector!Act,
         UNCHANGED <<params, decoded, inspectorData, fresh, paramString, input, entered>>,
         \A text : IsShownBy(text, Inspector!dataOf(params)) /\ pending' # NoData
                     => IsShownBy(text, Inspector!dataOf(pending')),
         Bare(params) /\ pending' # NoData => Bare(pending')
  PROVE  EnteredStays'
<1>1. ~raced' => ~raced /\ Settled
  BY ActsOnSettled
<1>. SUFFICES ASSUME ~raced', entered # Inspector!NoText
              PROVE  (IF inputOf[entered] = NoData THEN UnreadIsInCard ELSE ReadIsShown)'
  BY DEF EnteredStays
<1>2. ~raced /\ inspectorData = Inspector!dataOf(params)
  BY <1>1 DEF Settled
<1>3. CASE inputOf[entered] = NoData
  BY <1>2, <1>3 DEF EnteredStays, UnreadIsInCard
<1>4. CASE inputOf[entered] # NoData
  BY <1>2, <1>4 DEF EnteredStays, ReadIsShown
<1>. QED
  BY <1>3, <1>4

LEMMA SwitchKeepsEntered ==
  ASSUME Inspector!ConstantsAssumption, InspectorInv, EnteredStays,
         NEW c \in Cluster, Inspector!Switch(c)
  PROVE  EnteredStays'
<1>1. /\ Inspector!Act /\ pending' = [params EXCEPT !.cluster = c] /\ params \in Inspector!Params
      /\ UNCHANGED <<params, decoded, inspectorData, fresh, paramString, input, entered>>
  BY DEF Inspector!Switch, Inspector!Navigate, Inspector!card, InspectorInv, Inspector!TypeOK
<1>2. /\ pending'.message = params.message /\ pending'.signatures = params.signatures
      /\ pending'.squadsTx = params.squadsTx
  BY <1>1, ParamsFields
<1>3. Inspector!dataOf(pending') = Inspector!dataOf(params)
  BY <1>2 DEF Inspector!dataOf, Inspector!signaturesOf
<1>4. Bare(pending') <=> Bare(params)
  BY <1>2 DEF Bare
<1>. QED
  BY <1>1, <1>3, <1>4, ActKeepsEntered

LEMMA EnterKeepsEntered ==
  ASSUME Inspector!ConstantsAssumption, InspectorInv, NEW text \in Text, Inspector!Enter(text)
  PROVE  EnteredStays'
<1>1. /\ Inspector!Act /\ inspectorData = NoData /\ Inspector!onInput(text, filled) /\ entered' = text
      /\ UNCHANGED <<params, decoded, paramString>> /\ params \in Inspector!Params
  BY DEF Inspector!Enter, Inspector!mounted, InspectorInv, Inspector!TypeOK
<1>2. /\ decoded = params /\ ~fresh
      /\ ~raced' => pending = NoData /\ Settled
  BY <1>1, ActsOnSettled
<1>. SUFFICES ASSUME ~raced', text # Inspector!NoText
              PROVE  (IF inputOf[entered] = NoData THEN UnreadIsInCard ELSE ReadIsShown)'
  BY <1>1 DEF EnteredStays
<1>3. Bare(params)
  BY <1>1, <1>2, SettledCardIsBare
<1>4. pending' = NoData
  BY <1>1, <1>2, <1>3 DEF Inspector!onInput, Inspector!Stay, Bare
<1>5. CASE inputOf[text] = NoData
  <2>1. input' = text /\ inspectorData' = NoData
    BY <1>1, <1>5 DEF Inspector!onInput
  <2>2. paramString = NoData
    BY <1>1, <1>2, <1>3, BareSaysNothing DEF InspectorInv, PrefillIsOfUrl
  <2>. QED
    BY <1>1, <1>3, <1>4, <1>5, <2>1, <2>2 DEF UnreadIsInCard
<1>6. CASE inputOf[text] # NoData
  <2>1. inspectorData' = inputOf[text]
    BY <1>1, <1>6 DEF Inspector!onInput, Inspector!Show
  <2>. QED
    BY <1>1, <1>2, <1>3, <1>4, <1>6, <2>1 DEF ReadIsShown, IsShownBy, Bare
<1>. QED
  BY <1>1, <1>5, <1>6

LEMMA DecodeKeepsEntered ==
  ASSUME Inspector!ConstantsAssumption, InspectorInv, EnteredStays, Inspector!DecodeEffect
  PROVE  EnteredStays'
<1> DEFINE refilled == Inspector!mounted /\ decoded # NoData /\ paramString # NoData
           R == Inspector!rejected(params)
<1>1. /\ pending = NoData /\ params \in Inspector!Params /\ decoded # params /\ decoded' = params
      /\ UNCHANGED <<params, entered, raced>> /\ paramString' = Inspector!stringOf(params)
  BY DEF Inspector!DecodeEffect, InspectorInv, DecodedFirst, Inspector!TypeOK, Inspector!user
<1>2. R \in SUBSET Names
  BY <1>1, RejectedDiffers
<1>. SUFFICES ASSUME ~raced, entered # Inspector!NoText
              PROVE  (IF inputOf[entered] = NoData THEN UnreadIsInCard ELSE ReadIsShown)'
  BY <1>1 DEF EnteredStays
<1>3. CASE inputOf[entered] = NoData
  <2>1. UnreadIsInCard
    BY <1>3 DEF EnteredStays
  <2>2. /\ Inspector!dataOf(params) = NoData /\ Inspector!stringOf(params) = NoData
        /\ \A names \in SUBSET Names : Bare(Inspector!without(params, names))
    BY <1>1, <2>1, BareSaysNothing DEF UnreadIsInCard
  <2>3. inspectorData' = NoData /\ input' = input
    BY <2>1, <2>2 DEF Inspector!DecodeEffect, UnreadIsInCard
  <2>4. pending' # NoData => Bare(pending')
    BY <1>1, <1>2, <2>1, <2>2 DEF Inspector!DecodeEffect, Inspector!Navigate, Inspector!Stay, UnreadIsInCard
  <2>. QED
    BY <1>1, <1>3, <2>1, <2>2, <2>3, <2>4 DEF UnreadIsInCard
<1>4. CASE inputOf[entered] # NoData
  <2>1. ReadIsShown
    BY <1>4 DEF EnteredStays
  <2>2. IsShownBy(entered, Inspector!dataOf(params)) /\ inspectorData # NoData
    BY <1>1, <2>1 DEF ReadIsShown, IsShownBy
  <2>3. inspectorData' = Inspector!dataOf(params)
    BY <2>2 DEF IsShownBy, Inspector!DecodeEffect, Inspector!Show
  <2>4. pending' # NoData => IsShownBy(entered, Inspector!dataOf(pending'))
    <3>1. CASE R # {}
      BY <1>1, <2>2, <3>1, RejectedAreUnused DEF Inspector!DecodeEffect, Inspector!Navigate, IsShownBy
    <3>2. CASE R = {}
      BY <1>1, <2>2, <3>2 DEF Inspector!DecodeEffect, Inspector!Stay, Inspector!mounted
    <3>. QED
      BY <3>1, <3>2
  <2>5. Inspector!dataOf(params).account = NoData => ~Inspector!decodes(params.squadsTx)
    BY <1>1, ParamsFields DEF Inspector!dataOf, Inspector!Proposal, Inspector!decodes, Inspector!ConstantsAssumption
  <2>. QED
    BY <1>1, <1>4, <2>2, <2>3, <2>4, <2>5 DEF ReadIsShown
<1>. QED
  BY <1>3, <1>4

LEMMA NextKeepsEntered ==
  ASSUME Inspector!ConstantsAssumption, InspectorInv, EnteredStays, [Inspector!Next]_(Inspector!vars)
  PROVE  EnteredStays'
<1>1. CASE Inspector!Commit
  <2>1. /\ params' = pending /\ pending # NoData /\ pending' = NoData /\ ~fresh
        /\ UNCHANGED <<decoded, inspectorData, fresh, paramString, input, entered, raced>>
    BY <1>1 DEF Inspector!Commit, Inspector!EffectsDone, Inspector!card, Inspector!user
  <2>. QED
    BY <2>1 DEF EnteredStays, UnreadIsInCard, ReadIsShown
<1>2. CASE Inspector!FillEffect
  <2>1. /\ decoded = params /\ inspectorData = NoData
        /\ UNCHANGED <<params, decoded, paramString, entered, raced>>
    BY <1>2 DEF Inspector!FillEffect, Inspector!mounted, Inspector!user
  <2>2. CASE paramString = NoData
    <3>1. UNCHANGED <<pending, inspectorData, fresh, input>>
      BY <1>2, <2>2 DEF Inspector!FillEffect
    <3>. QED
      BY <2>1, <3>1 DEF EnteredStays, UnreadIsInCard, ReadIsShown
  <2>3. CASE paramString # NoData
    BY <2>1, <2>3 DEF EnteredStays, UnreadIsInCard, ReadIsShown, IsShownBy
  <2>. QED
    BY <2>2, <2>3
<1>3. CASE Inspector!UrlEffect
  <2>1. /\ decoded = params /\ fresh /\ fresh' = FALSE
        /\ UNCHANGED <<params, decoded, inspectorData, paramString, input, entered, raced>>
    BY <1>3 DEF Inspector!UrlEffect, Inspector!card, Inspector!user
  <2>2. inspectorData \in Inspector!Data /\ inspectorData # NoData /\ params \in Inspector!Params
    BY <2>1 DEF InspectorInv, Inspector!TypeOK, FreshIsShown
  <2>3. pending' \in {pending, Inspector!synced(params, inspectorData)}
    BY <1>3 DEF Inspector!UrlEffect, Inspector!Navigate, Inspector!Stay
  <2>4. SUFFICES ASSUME ~raced, entered # Inspector!NoText
                 PROVE  (IF inputOf[entered] = NoData THEN UnreadIsInCard ELSE ReadIsShown)'
    BY <2>1 DEF EnteredStays
  <2>5. inputOf[entered] # NoData /\ ReadIsShown
    BY <2>2, <2>4 DEF EnteredStays, UnreadIsInCard
  <2>6. IsShownBy(entered, Inspector!dataOf(Inspector!synced(params, inspectorData)))
    BY <2>1, <2>2, <2>5, SyncedSays DEF ReadIsShown
  <2>. QED
    BY <2>1, <2>3, <2>5, <2>6 DEF ReadIsShown
<1>4. CASE Inspector!clearInput \/ Inspector!reset
  BY <1>4 DEF Inspector!clearInput, Inspector!reset, EnteredStays
<1>5. CASE UNCHANGED Inspector!vars
  <2>1. /\ UNCHANGED <<params, pending, decoded, inspectorData, fresh, paramString>>
        /\ UNCHANGED <<input, entered, raced>>
    BY <1>5 DEF Inspector!vars
  <2>. QED
    BY <2>1 DEF EnteredStays, UnreadIsInCard, ReadIsShown
<1>. QED
  BY <1>1, <1>2, <1>3, <1>4, <1>5, DecodeKeepsEntered, EnterKeepsEntered, SwitchKeepsEntered
     DEF Inspector!Next

LEMMA EnteredStaysShown == EnteredStays => Inspector!EnteredIsShown
  BY DEF EnteredStays, UnreadIsInCard, ReadIsShown, IsShownBy, Inspector!EnteredIsShown, Inspector!mounted

(* What was entered last is what is shown at rest, with its signatures if  *)
(* it had any, and a text that is of nothing is still in the card: however *)
(* the page was opened, whatever effects ran and whatever cluster was      *)
(* chosen, unless a navigation was overtaken (InspectorPage, RawInput).    *)
THEOREM EnteredIsKept ==
  ASSUME Inspector!ConstantsAssumption
  PROVE  Inspector!Spec => []Inspector!EnteredIsShown
<1>1. Inspector!Init => EnteredStays
  BY DEF Inspector!Init, EnteredStays
<1>2. InspectorInv /\ EnteredStays /\ [Inspector!Next]_(Inspector!vars) => EnteredStays'
  BY NextKeepsEntered
<1>. QED
  BY <1>1, <1>2, EnteredStaysShown, Invariance, PTL DEF Inspector!Spec

-------------------------------------------------------------------------------
(* The raw transaction of the inspector: module RawTransaction.            *)

RawDetails == INSTANCE UrlCache WITH Key <- {Signature}, AnswerOf <- Permalink!Details,
                                     cache <- rawCache

RawTypeOK ==
  /\ rawUrl \in Url /\ rawCache.url \in Url
  /\ CacheType(rawCache, Permalink!Details(rawCache.url))
  /\ fetches \in [Url -> Nat]

(* The effect of the view never remembers another url than that of the     *)
(* cache, and what it asked for is under way until it is there or failed.  *)
AskedIsOfCache ==
  /\ rawRan \in {NoData, rawCache.url}
  /\ Permalink!details = Absent /\ rawRan # NoData => fetches[rawRan] > 0 \/ rawRan \in failed

(* The inductive invariant. *)
RawInv == RawTypeOK /\ AskedIsOfCache

(* The modules' terms for the same things. *)
LEMMA SameRawTerms ==
  /\ \A u \in Url : Permalink!Clear(u) = Clear(u) /\ RawDetails!Clear(u) = Clear(u)
  /\ Permalink!Absent = Absent
  /\ \A Data : RawDetails!Entry(Data) = Entry(Data)
  /\ RawDetails!FetchStatus = FetchStatus
<1>1. Permalink!Absent = Absent /\ RawDetails!Absent = Absent /\ RawDetails!FetchStatus = FetchStatus
  BY DEF Permalink!Absent, RawDetails!Absent, Absent, RawDetails!FetchStatus, FetchStatus
<1>. QED
  BY <1>1 DEF Permalink!Clear, RawDetails!Clear, Clear, RawDetails!Entry, Entry

LEMMA RawReconciles ==
  ASSUME Permalink!NoDataAssumption, NEW u \in Url
  PROVE  NoData \notin Permalink!Details(u) /\ \A d, e \in Permalink!Details(u) : defaultReconciler(d, e) = e
<1>1. NoData \notin Permalink!Details(u)
  BY DEF Permalink!NoDataAssumption
<1>2. ASSUME NEW d \in Permalink!Details(u), NEW e \in Permalink!Details(u)
      PROVE  defaultReconciler(d, e) = e
  <2>1. d # NoData /\ e # NoData
    BY <1>1
  <2>2. DOMAIN d = DOMAIN e /\ e = [f \in DOMAIN e |-> e[f]]
    BY DEF Permalink!Details
  <2>. QED
    BY <2>1, <2>2 DEF defaultReconciler
<1>. QED
  BY <1>1, <1>2

(* An answer is an update of the cache. *)
LEMMA RawAnswer ==
  ASSUME NEW u \in Url, Permalink!Succeed(u)
  PROVE  \E data \in Permalink!Details(u) : rawCache' = Update(rawCache, u, "Fetched", data)
<1>1. PICK data \in Permalink!Details(u) :
        rawCache' = Permalink!defaultReducer(rawCache, u, {Signature}, "Fetched",
                                       [k \in {Signature} |-> data])
  BY DEF Permalink!Succeed
<1>2. Permalink!defaultReconciler(rawCache.entries[Signature].data, data)
        = defaultReconciler(rawCache.entries[Signature].data, data)
  BY DEF Permalink!defaultReconciler, defaultReconciler
<1>3. rawCache' = Update(rawCache, u, "Fetched", data)
  BY <1>1, <1>2 DEF Permalink!defaultReducer, Permalink!UpdateAll, Update, defaultReducer, UpdateAll
<1>. QED
  BY <1>3

LEMMA RawStep ==
  ASSUME Permalink!NoDataAssumption, RawInv, [Permalink!Next]_(Permalink!rawVars)
  PROVE  /\ RawInv'
         /\ \/ rawCache' = rawCache
            \/ rawCache' = Clear(rawUrl)
            \/ \E u \in Url : \E data \in Permalink!Details(u) :
                 rawCache' = Update(rawCache, u, "Fetched", data)
<1>1. /\ rawUrl \in Url /\ rawCache.url \in Url /\ fetches \in [Url -> Nat]
      /\ CacheType(rawCache, Permalink!Details(rawCache.url))
      /\ \A u \in Url : u # NoData
  BY DEF RawInv, RawTypeOK, Permalink!NoDataAssumption
<1>2. ASSUME NEW u \in Url, Permalink!fetchRawTransaction(u)
      PROVE  fetches' \in [Url -> Nat] /\ fetches'[u] > 0 /\ rawRan' = u
  BY <1>1, <1>2 DEF Permalink!fetchRawTransaction
<1>3. ASSUME NEW u \in Url, Permalink!Switch(u)
      PROVE  RawInv' /\ rawCache' = rawCache
  BY <1>1, <1>3 DEF Permalink!Switch, RawInv, RawTypeOK, AskedIsOfCache, Permalink!details
<1>4. CASE Permalink!UrlEffects
  <2>1. rawCache' = Clear(rawUrl) /\ UNCHANGED <<rawUrl, failed>>
    BY <1>1, <1>4, SameRawTerms DEF Permalink!UrlEffects
  <2>2. CacheType(rawCache', Permalink!Details(rawUrl)) /\ rawCache'.url = rawUrl
    BY <1>1, <2>1, ClearedType
  <2>3. \/ Permalink!fetchRawTransaction(rawUrl)
        \/ rawRan' = NoData /\ fetches' = fetches
    BY <1>4 DEF Permalink!UrlEffects
  <2>. QED
    BY <1>1, <1>2, <2>1, <2>2, <2>3 DEF RawInv, RawTypeOK, AskedIsOfCache
<1>5. CASE Permalink!FetchEffect
  <2>1. Permalink!fetchRawTransaction(rawUrl) /\ rawCache.url = rawUrl /\ UNCHANGED <<rawUrl, rawCache, failed>>
    BY <1>5 DEF Permalink!FetchEffect
  <2>. QED
    BY <1>1, <1>2, <2>1 DEF RawInv, RawTypeOK, AskedIsOfCache
<1>6. ASSUME NEW u \in Url, Permalink!Answered(u)
      PROVE  /\ fetches' \in [Url -> Nat]
             /\ \A v \in Url : v # u => fetches'[v] = fetches[v]
  BY <1>1, <1>6 DEF Permalink!Answered
<1>7. ASSUME NEW u \in Url, Permalink!Fail(u)
      PROVE  RawInv' /\ rawCache' = rawCache
  <2>1. Permalink!Answered(u) /\ failed' = failed \cup {u} /\ UNCHANGED <<rawUrl, rawCache, rawRan>>
    BY <1>7 DEF Permalink!Fail
  <2>2. Permalink!details' = Permalink!details
    BY <2>1 DEF Permalink!details
  <2>3. rawRan # NoData => rawRan \in Url
    BY <1>1 DEF RawInv, AskedIsOfCache
  <2>4. AskedIsOfCache'
    BY <1>6, <2>1, <2>2, <2>3 DEF RawInv, AskedIsOfCache
  <2>. QED
    BY <1>1, <1>6, <2>1, <2>4 DEF RawInv, RawTypeOK
<1>8. ASSUME NEW u \in Url, Permalink!Succeed(u)
      PROVE  RawInv' /\ \E data \in Permalink!Details(u) : rawCache' = Update(rawCache, u, "Fetched", data)
  <2>1. Permalink!Answered(u) /\ UNCHANGED <<rawUrl, rawRan, failed>> /\ rawCache.url = rawUrl
    BY <1>8 DEF Permalink!Succeed, Permalink!Answered
  <2>2. PICK data \in Permalink!Details(u) : rawCache' = Update(rawCache, u, "Fetched", data)
    BY <1>8, RawAnswer
  <2>3. /\ NoData \notin Permalink!Details(rawCache.url)
        /\ \A d, e \in Permalink!Details(rawCache.url) : defaultReconciler(d, e) = e
    BY <1>1, RawReconciles
  <2>4. "Fetched" \in FetchStatus
    BY DEF FetchStatus
  <2>5. /\ CacheType(rawCache', Permalink!Details(rawCache.url)) /\ rawCache'.url = rawCache.url
        /\ u # rawCache.url => rawCache' = rawCache
        /\ u = rawCache.url => rawCache'.entries[Signature].status = "Fetched"
    <3>. HIDE DEF CacheType
    <3>1. u = rawCache.url => data \in Permalink!Details(rawCache.url) \cup {NoData}
      OBVIOUS
    <3>. QED
      BY <1>1, <2>2, <2>3, <2>4, <3>1, UpdateEffect
  <2>6. RawTypeOK'
    BY <1>1, <1>6, <2>1, <2>5 DEF RawTypeOK
  <2>7. CASE u = rawCache.url
    <3>1. Permalink!details' # Absent
      BY <2>5, <2>7 DEF Permalink!details, Absent
    <3>. QED
      BY <2>1, <2>2, <2>5, <2>6, <3>1 DEF RawInv, AskedIsOfCache
  <2>8. CASE u # rawCache.url
    <3>1. Permalink!details' = Permalink!details /\ rawCache' = rawCache
      BY <2>5, <2>8 DEF Permalink!details
    <3>2. rawRan # NoData => rawRan \in Url /\ rawRan # u
      BY <1>1, <2>8 DEF RawInv, AskedIsOfCache
    <3>3. AskedIsOfCache'
      BY <1>6, <2>1, <3>1, <3>2 DEF RawInv, AskedIsOfCache
    <3>. QED
      BY <2>2, <2>6, <3>3 DEF RawInv
  <2>. QED
    BY <2>7, <2>8
<1>9. CASE UNCHANGED Permalink!rawVars
  BY <1>9 DEF Permalink!rawVars, RawInv, RawTypeOK, AskedIsOfCache, Permalink!details
<1>. QED
  BY <1>3, <1>4, <1>5, <1>7, <1>8, <1>9, SameRawTerms, <1>1 DEF Permalink!Next, Permalink!UrlEffects, Permalink!FetchEffect

LEMMA RawInitially == Permalink!Init => RawInv
<1> SUFFICES ASSUME Permalink!Init PROVE RawInv
  OBVIOUS
<1>1. rawUrl \in Url /\ rawCache = Clear(rawUrl) /\ rawRan = NoData /\ fetches = [u \in Url |-> 0]
  BY SameRawTerms DEF Permalink!Init
<1>. QED
  BY <1>1, ClearedType DEF RawInv, RawTypeOK, AskedIsOfCache

LEMMA RawInvariance ==
  ASSUME Permalink!NoDataAssumption
  PROVE  Permalink!Spec => []RawInv
<1>1. RawInv /\ [Permalink!Next]_(Permalink!rawVars) => RawInv'
  BY RawStep
<1>. QED
  BY <1>1, RawInitially, PTL DEF Permalink!Spec

LEMMA InvAsked ==
  ASSUME Permalink!NoDataAssumption
  PROVE  RawInv => Permalink!WaitingIsInFlight
  BY SameRawTerms DEF RawInv, RawTypeOK, AskedIsOfCache, Permalink!WaitingIsInFlight, Permalink!EffectsDone,
                      Permalink!NoDataAssumption

(* The inspector of a signature never waits for what nobody asked: when    *)
(* the effects have run and nothing is there, a request to the url of the  *)
(* cluster is under way, or one failed (RawDetailsProvider, PermalinkView).*)
THEOREM RawIsAskedFor ==
  ASSUME Permalink!NoDataAssumption
  PROVE  Permalink!Spec => []Permalink!WaitingIsInFlight
  BY InvAsked, RawInvariance, PTL


(* The raw transactions are kept as every provider promises: an answer of  *)
(* a cluster that was left does not count.                                 *)
THEOREM RawKeepsPromise ==
  ASSUME Permalink!NoDataAssumption
  PROVE  Permalink!Spec => RawDetails!Spec
<1>1. Permalink!Init => RawDetails!Init
  BY SameRawTerms DEF Permalink!Init, RawDetails!Init
<1>2. RawInv /\ [Permalink!Next]_(Permalink!rawVars) => [RawDetails!Next]_rawCache
  <2> SUFFICES ASSUME RawInv, [Permalink!Next]_(Permalink!rawVars), rawCache' # rawCache PROVE RawDetails!Next
    OBVIOUS
  <2>1. CASE rawCache' = Clear(rawUrl)
    BY <2>1, SameRawTerms DEF RawInv, RawTypeOK, RawDetails!Next, RawDetails!Empty
  <2>2. ASSUME NEW u \in Url, NEW data \in Permalink!Details(u), rawCache' = Update(rawCache, u, "Fetched", data)
        PROVE  RawDetails!Next
    <3>1. rawCache.url \in Url /\ CacheType(rawCache, Permalink!Details(rawCache.url))
      BY DEF RawInv, RawTypeOK
    <3>2. /\ NoData \notin Permalink!Details(rawCache.url)
          /\ \A d, e \in Permalink!Details(rawCache.url) : defaultReconciler(d, e) = e
      BY <3>1, RawReconciles
    <3>3. Sound("Fetched", data)
      BY RawReconciles DEF Sound, FetchStatus
    <3>4. u = rawCache.url => data \in Permalink!Details(rawCache.url) \cup {NoData}
      OBVIOUS
    <3>. DEFINE Known == Permalink!Details(rawCache.url)
                new == rawCache'
    <3>6. /\ NoData \notin Known /\ (\A d, e \in Known : defaultReconciler(d, e) = e)
          /\ CacheType(rawCache, Known) /\ (u = rawCache.url => data \in Known \cup {NoData})
          /\ new = Update(rawCache, u, "Fetched", data) /\ new # rawCache
      BY <2>2, <3>1, <3>2, <3>4, Zenon
    <3>. HIDE DEF CacheType, Sound, Known, new
    <3>7. /\ new = [rawCache EXCEPT !.entries = new.entries]
          /\ new.entries \in [{Signature} -> Entry(Known)]
          /\ \A k \in {Signature} :
               /\ new.entries[k].status \in FetchStatus
               /\ rawCache.entries[k].data # NoData => new.entries[k].data # NoData
               /\ new.entries[k].status = "Fetched" => new.entries[k].data # NoData
      BY <3>3, <3>6, UpdateChanges
    <3>5. /\ rawCache' = [rawCache EXCEPT !.entries = rawCache'.entries]
          /\ rawCache'.entries \in [{Signature} -> Entry(Permalink!Details(rawCache.url))]
          /\ \A k \in {Signature} :
               /\ rawCache'.entries[k].status \in FetchStatus
               /\ rawCache.entries[k].data # NoData => rawCache'.entries[k].data # NoData
               /\ rawCache'.entries[k].status = "Fetched" => rawCache'.entries[k].data # NoData
      BY <3>7, Zenon DEF Known, new
    <3>. QED
      BY <3>5, SameRawTerms DEF RawDetails!Next, RawDetails!UpdateEntries, RawDetails!Changes
  <2>. QED
    BY <2>1, <2>2, RawStep
<1>. QED
  BY <1>1, <1>2, RawInvariance, PTL DEF Permalink!Spec, RawDetails!Spec
-------------------------------------------------------------------------------
(* The simulation card: where it spins, the simulation that was started    *)
(* last is under way, at the url of the effect.                            *)
Sim == [url : Url, message : Messages]

SimulatorInv ==
  /\ simUrl \in Url /\ message \in Messages
  /\ sims \in [Slot -> Sim \cup {NoData}]
  /\ simulating => \E s \in Slot : sims[s] # NoData /\ sims[s].url = simRan

LEMMA SimulatorStep ==
  ASSUME SimulatorInv, [Simulator!Next]_(Simulator!simVars)
  PROVE  SimulatorInv'
<1>1. \A m \in Sim : m # NoData
  BY SimulatorAssumption DEF Simulator!NoDataAssumption, Sim
<1>2. CASE Simulator!Switch
  BY <1>2 DEF Simulator!Switch, SimulatorInv
<1>3. CASE Simulator!UrlEffect
  BY <1>3 DEF Simulator!UrlEffect, SimulatorInv
<1>4. CASE Simulator!onClick
  <2>. DEFINE s == CHOOSE s \in Simulator!Free : TRUE
              new == [url |-> simUrl, message |-> message]
  <2>1. Simulator!Free # {} /\ sims' = [sims EXCEPT ![s] = new]
    BY <1>4 DEF Simulator!onClick
  <2>2. s \in Slot
    BY <2>1 DEF Simulator!Free
  <2>3. new \in Sim
    BY DEF SimulatorInv, Sim
  <2>4. UNCHANGED <<simUrl, message, simRan>> /\ simRan = simUrl
    BY <1>4 DEF Simulator!onClick, Simulator!EffectsDone
  <2>. HIDE DEF s
  <2>5. sims'[s] = new /\ sims' \in [Slot -> Sim \cup {NoData}]
    BY <2>1, <2>2, <2>3 DEF SimulatorInv
  <2>. QED
    BY <1>1, <2>2, <2>3, <2>4, <2>5 DEF SimulatorInv
<1>5. ASSUME NEW s \in Slot, Simulator!End(s)
      PROVE  SimulatorInv'
  BY <1>5 DEF Simulator!End, SimulatorInv
<1>6. CASE \E s \in Slot : Simulator!Throw(s) \/ Simulator!Answer(s)
  BY <1>5, <1>6 DEF Simulator!Throw, Simulator!Answer
<1>7. CASE UNCHANGED Simulator!simVars
  BY <1>7 DEF Simulator!simVars, SimulatorInv
<1>. QED
  BY <1>2, <1>3, <1>4, <1>6, <1>7 DEF Simulator!Next

-------------------------------------------------------------------------------
(* The pages together: what a behaviour is not of stays at rest.           *)
PagesInv ==
  /\ IF part = "inspector" THEN InspectorInv /\ EnteredStays ELSE NoInspector
  /\ part = "permalink" => RawInv
  /\ IF part = "simulator" THEN SimulatorInv ELSE ~simulating

LEMMA StepOfEach ==
  ASSUME [PagesNext]_<<part, vars, inspector, permalink, simulator, messageCards>>
  PROVE  /\ UNCHANGED part
         /\ IF part = "inspector" THEN [Inspector!Next]_(Inspector!vars)
                                  ELSE UNCHANGED Inspector!vars
         /\ part = "permalink" => [Permalink!Next]_(Permalink!rawVars)
         /\ IF part = "simulator" THEN [Simulator!Next]_(Simulator!simVars)
                                  ELSE UNCHANGED Simulator!simVars
BY DEF PagesNext, inspector, permalink, simulator, Inspector!vars, Permalink!rawVars,
       Simulator!simVars

LEMMA PagesInitially == PagesInit => PagesInv
<1>1. Inspector!Init => InspectorInv /\ EnteredStays
  BY InitStep, InspectorAssumption DEF Inspector!Init, EnteredStays
<1>2. Permalink!Init => RawInv
  BY RawInitially
<1>3. Simulator!Init => SimulatorInv
  BY DEF Simulator!Init, SimulatorInv
<1>4. NoSimulator => ~simulating
  BY DEF NoSimulator
<1>. QED
  BY <1>1, <1>2, <1>3, <1>4, Zenon DEF PagesInit, PagesInv

LEMMA PagesStep ==
  PagesInv /\ [PagesNext]_<<part, vars, inspector, permalink, simulator, messageCards>> => PagesInv'
<1>. SUFFICES ASSUME PagesInv,
                     [PagesNext]_<<part, vars, inspector, permalink, simulator, messageCards>>
              PROVE  PagesInv'
  OBVIOUS
<1>1. (IF part = "inspector" THEN InspectorInv /\ EnteredStays ELSE NoInspector)'
  <2>1. CASE part = "inspector"
    <3>1. InspectorInv /\ EnteredStays /\ [Inspector!Next]_(Inspector!vars)
      BY <2>1, StepOfEach DEF PagesInv
    <3>2. InspectorInv' /\ EnteredStays'
      BY <3>1, NextStep, NextKeepsEntered, InspectorAssumption
    <3>. QED
      BY <2>1, <3>2, StepOfEach
  <2>2. CASE part # "inspector"
    <3>1. NoInspector /\ UNCHANGED Inspector!vars
      BY <2>2, StepOfEach DEF PagesInv
    <3>2. NoInspector'
      BY <3>1 DEF NoInspector, NoParams, Inspector!vars, Inspector!NoText
    <3>. QED
      BY <2>2, <3>2, StepOfEach
  <2>. QED
    BY <2>1, <2>2
<1>2. (part = "permalink" => RawInv)'
  <2>1. CASE part = "permalink"
    BY <2>1, StepOfEach, RawStep, PermalinkAssumption DEF PagesInv
  <2>. QED
    BY <2>1, StepOfEach
<1>3. (IF part = "simulator" THEN SimulatorInv ELSE ~simulating)'
  <2>1. CASE part = "simulator"
    BY <2>1, StepOfEach, SimulatorStep DEF PagesInv
  <2>2. CASE part # "simulator"
    BY <2>2, StepOfEach DEF PagesInv, Simulator!simVars
  <2>. QED
    BY <2>1, <2>2, StepOfEach
<1>. QED
  BY <1>1, <1>2, <1>3 DEF PagesInv

LEMMA PagesInvariance == PagesSpec => []PagesInv
  BY PagesInitially, PagesStep, PTL DEF PagesSpec

LEMMA NothingInspected == NoInspector => Inspector!UrlIsOfShown /\ Inspector!EnteredIsShown
<1>. SUFFICES ASSUME NoInspector PROVE Inspector!UrlIsOfShown /\ Inspector!EnteredIsShown
  OBVIOUS
<1>1. params = NoParams /\ inspectorData = NoData /\ entered = Inspector!NoText
  BY DEF NoInspector
<1>2. params.message = NoData /\ params.signatures = NoData /\ params.squadsTx = NoData
  BY <1>1 DEF NoParams
<1>3. NoData \notin {Malformed, Invalid}
  BY InspectorAssumption DEF Inspector!ConstantsAssumption
<1>. QED
  BY <1>1, <1>2, <1>3 DEF Inspector!UrlIsOfShown, Inspector!EnteredIsShown, Inspector!dataOf,
                          Inspector!rejected, Inspector!decodes

(* What the inspector tells of is what the url says, whatever it was       *)
(* opened with: at rest the parameters are those of what is shown; a view  *)
(* of a signature never waits for what nobody asked its cluster for; and   *)
(* where a simulation spins one is under way, at the url of the card       *)
(* (InspectorPage, RawDetailsProvider, SimulatorCard).                     *)
THEOREM InspectedIsAlwaysOfUrl == PagesSpec => []InspectedIsOfUrl
<1>1. PagesInv => InspectedIsOfUrl
  <2> SUFFICES ASSUME PagesInv PROVE InspectedIsOfUrl
    OBVIOUS
  <2>1. Inspector!UrlIsOfShown
    BY NothingInspected, InvKeepsUrl DEF PagesInv
  <2>2. part = "permalink" => Permalink!WaitingIsInFlight
    BY PermalinkAssumption, InvAsked DEF PagesInv
  <2>3. Simulator!SpinnerIsOfUrl
    BY DEF PagesInv, SimulatorInv, Simulator!SpinnerIsOfUrl, Simulator!EffectsDone
  <2>. QED
    BY <2>1, <2>2, <2>3 DEF InspectedIsOfUrl
<1>. QED
  BY <1>1, PagesInvariance, PTL

(* What was entered last is what the inspector shows at rest, also in the  *)
(* composition with the other pages.                                       *)
THEOREM EnteredIsAlwaysShown == PagesSpec => []EnteredIsShown
<1>1. PagesInv => EnteredIsShown
  BY NothingInspected, EnteredStaysShown DEF PagesInv, EnteredIsShown
<1>. QED
  BY <1>1, PagesInvariance, PTL
================================================================================
