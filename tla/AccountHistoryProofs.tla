------------------------- MODULE AccountHistoryProofs -------------------------
(***************************************************************************)
(* Proofs about the histories of accounts, for ledgers and pages of any    *)
(* length, any number of overlapping requests and any switches: about      *)
(* module AccountHistory, and, at the end, about the merged table of an    *)
(* owner's tokens, module TokenHistory.                                    *)
(***************************************************************************)
EXTENDS Histories, SequenceTheorems, WellFoundedInduction, TLAPS

(* Rows that are one stretch of the ledger, newest first. *)
Descends(rows) == \A i \in 1 .. Len(rows) - 1 : rows[i + 1] = rows[i] - 1

Stretch == {rows \in Seq(Signature) : Descends(rows)}

(* The rows the server sent for `before`: they go on just below it. *)
Answers(rows, before) ==
  rows \in Stretch /\ (before # Newest /\ rows # <<>> => rows[1] = before - 1)

Kept(u) == {h \in History(u) : h.fetched \in Stretch}

CacheType ==
  /\ cache = [url |-> cache.url, entries |-> cache.entries]
  /\ cache.url \in Url
  /\ cache.entries \in [{Address} -> Entry(Kept(cache.url))]

CallsAnswered ==
  /\ calls \in [Request -> CallType]
  /\ \A r \in Request : calls[r].page # NoData => Answers(calls[r].page, calls[r].before)

(* The inductive invariant: the pages on their way are stretches too, each *)
(* just below the row it was asked for, however the ledger has grown since.*)
IInv ==
  /\ url \in Url /\ tip \in 0 .. MaxTip
  /\ card \in {"none", "history", "details"}
  /\ CacheType
  /\ CallsAnswered

-------------------------------------------------------------------------------
(* Sequences. *)

LEMMA ServerAnswers ==
  ASSUME tip \in 0 .. MaxTip, NEW before \in 0 .. MaxTip
  PROVE  Answers(Page(before), before)
<1> DEFINE top == IF before = Newest THEN tip ELSE before - 1
           n == IF top < Limit THEN top ELSE Limit
           rows == [i \in 1 .. n |-> top + 1 - i]
<1>1. top \in 0 .. MaxTip /\ n \in Nat /\ n <= top
  BY LimitAssumption DEF Newest
<1>2. \A i \in 1 .. n : top + 1 - i \in Signature
  BY <1>1, LimitAssumption DEF Signature
<1>3. rows \in Seq(Signature) /\ Len(rows) = n
  BY <1>1, <1>2
<1>4. \A i \in 1 .. n : rows[i] = top + 1 - i
  OBVIOUS
<1>5. Descends(rows)
  <2> SUFFICES ASSUME NEW i \in 1 .. Len(rows) - 1 PROVE rows[i + 1] = rows[i] - 1
    BY DEF Descends
  <2>. HIDE DEF rows, top, n
  <2>1. i \in 1 .. n /\ i + 1 \in 1 .. n
    BY <1>1, <1>3
  <2>2. rows[i] = top + 1 - i /\ rows[i + 1] = top + 1 - (i + 1)
    BY <1>4, <2>1
  <2>3. top \in Int /\ i \in Int
    BY <1>1
  <2>. QED
    BY <2>2, <2>3
<1>6. before # Newest /\ rows # <<>> => rows[1] = before - 1
  <2> SUFFICES ASSUME before # Newest, rows # <<>> PROVE rows[1] = before - 1
    OBVIOUS
  <2>1. 1 \in 1 .. n
    BY <1>1, <1>3
  <2>. QED
    BY <1>1, <1>4, <2>1
<1>7. Page(before) = rows
  BY DEF Page
<1>. QED
  BY <1>3, <1>5, <1>6, <1>7 DEF Answers, Stretch

(* Rows join where the second go on just below the first. *)
LEMMA StretchesJoin ==
  ASSUME NEW s \in Stretch, NEW t \in Stretch,
         s # <<>> /\ t # <<>> => t[1] = s[Len(s)] - 1
  PROVE  s \o t \in Stretch
<1>1. s \in Seq(Signature) /\ t \in Seq(Signature) /\ Descends(s) /\ Descends(t)
  BY DEF Stretch
<1>2. /\ s \o t \in Seq(Signature)
      /\ Len(s \o t) = Len(s) + Len(t)
      /\ \A i \in 1 .. Len(s) + Len(t) :
           (s \o t)[i] = IF i <= Len(s) THEN s[i] ELSE t[i - Len(s)]
  BY <1>1, ConcatProperties
<1>3. ASSUME NEW i \in 1 .. Len(s \o t) - 1
      PROVE  (s \o t)[i + 1] = (s \o t)[i] - 1
  <2>1. /\ Len(s) \in Nat /\ Len(t) \in Nat /\ i \in Nat /\ i >= 1 /\ i + 1 <= Len(s) + Len(t)
        /\ i \in 1 .. Len(s) + Len(t) /\ i + 1 \in 1 .. Len(s) + Len(t)
    BY <1>1, <1>2
  <2>2. CASE i < Len(s)
    BY <1>1, <1>2, <2>1, <2>2 DEF Descends
  <2>3. CASE i = Len(s)
    <3>1. s # <<>> /\ t # <<>>
      BY <1>1, <2>1, <2>3
    <3>2. (s \o t)[i] = s[Len(s)] /\ (s \o t)[i + 1] = t[1]
      BY <1>2, <2>1, <2>3
    <3>. QED
      BY <3>1, <3>2
  <2>4. CASE i > Len(s)
    <3>1. (s \o t)[i] = t[i - Len(s)] /\ (s \o t)[i + 1] = t[i + 1 - Len(s)]
      BY <1>2, <2>1, <2>4
    <3>2. i - Len(s) \in 1 .. Len(t) - 1 /\ i + 1 - Len(s) = (i - Len(s)) + 1
      BY <2>1, <2>4
    <3>. QED
      BY <1>1, <3>1, <3>2 DEF Descends
  <2>. QED
    BY <2>1, <2>2, <2>3, <2>4
<1>. QED
  BY <1>2, <1>3 DEF Stretch, Descends

(* The rows above one of them. *)
LEMMA StretchAbove ==
  ASSUME NEW s \in Stretch, NEW i \in DOMAIN s
  PROVE  /\ SubSeq(s, 1, i - 1) \in Stretch
         /\ SubSeq(s, 1, i - 1) # <<>> =>
              SubSeq(s, 1, i - 1)[Len(SubSeq(s, 1, i - 1))] - 1 = s[i]
<1> DEFINE a == SubSeq(s, 1, i - 1)
<1>1. s \in Seq(Signature) /\ Descends(s) /\ i \in 1 .. Len(s) /\ Len(s) \in Nat
  BY DEF Stretch
<1>2. \A j \in 1 .. i - 1 : s[j] \in Signature
  BY <1>1
<1>3. /\ a \in Seq(Signature)
      /\ Len(a) = IF 1 <= i - 1 THEN (i - 1) - 1 + 1 ELSE 0
      /\ \A j \in 1 .. (i - 1) - 1 + 1 : a[j] = s[1 + j - 1]
  <2>1. i - 1 \in Int /\ 1 \in Int
    BY <1>1
  <2>. QED
    BY <1>2, <2>1, SubSeqProperties
<1>4. Len(a) = i - 1 /\ \A j \in 1 .. i - 1 : a[j] = s[j]
  BY <1>1, <1>3
<1>5. Descends(a)
  BY <1>1, <1>4 DEF Descends
<1>6. ASSUME a # <<>> PROVE a[Len(a)] - 1 = s[i]
  <2>1. i - 1 \in 1 .. Len(s) - 1
    BY <1>1, <1>3, <1>4, <1>6
  <2>2. a[Len(a)] = s[i - 1]
    BY <1>4, <2>1
  <2>. QED
    BY <1>1, <2>1, <2>2 DEF Descends
<1>. QED
  BY <1>3, <1>5, <1>6 DEF Stretch

(* combineFetched: what it makes of a page and of the rows that are there  *)
(* is a stretch, whichever way they meet or fail to.                       *)
LEMMA CombinedIsStretch ==
  ASSUME NEW before \in 0 .. MaxTip, NEW fetched, Answers(fetched, before),
         NEW current \in Stretch
  PROVE  combineFetched(fetched, current, before) \in Stretch
<1>1. fetched \in Stretch
  BY DEF Answers
<1>2. CASE current # <<>> /\ before = Newest
  <2> DEFINE ends == {i \in DOMAIN fetched : fetched[i] = Head(current)}
  <2>1. CASE ends = {}
    BY <1>1, <1>2, <2>1 DEF combineFetched
  <2>2. CASE ends # {}
    <3> DEFINE i == CHOOSE i \in ends : TRUE
    <3>1. i \in DOMAIN fetched /\ fetched[i] = current[1]
      BY <2>2
    <3>2. SubSeq(fetched, 1, i - 1) \o current \in Stretch
      BY <1>1, <3>1, StretchAbove, StretchesJoin
    <3>3. combineFetched(fetched, current, before) = SubSeq(fetched, 1, i - 1) \o current
      BY <1>2, <2>2 DEF combineFetched
    <3>. QED
      BY <3>2, <3>3
  <2>. QED
    BY <2>1, <2>2
<1>3. CASE current # <<>> /\ before # Newest /\ Last(current) = before
  <2>1. fetched # <<>> => fetched[1] = current[Len(current)] - 1
    BY <1>3 DEF Answers, Last
  <2>2. current \o fetched \in Stretch
    BY <1>1, <2>1, StretchesJoin
  <2>. QED
    BY <1>3, <2>2 DEF combineFetched
<1>4. CASE current # <<>> /\ before # Newest /\ Last(current) # before
  BY <1>1, <1>4 DEF combineFetched
<1>5. CASE current = <<>>
  BY <1>1, <1>5 DEF combineFetched
<1>. QED
  BY <1>2, <1>3, <1>4, <1>5, Zenon

-------------------------------------------------------------------------------
(* The reducer. *)

(* What calls dispatch for a url. *)
Dispatched(u) ==
  {update \in Update(u) : update.history # NoData =>
                            Answers(update.history.fetched, update.before)}

LEMMA KeptIsData == \A u \in Url : NoData \notin Kept(u)
BY NoDataAssumption DEF Kept

LEMMA ReconciledIsKept ==
  ASSUME NEW u \in Url, NEW history \in Kept(u) \cup {NoData},
         NEW update \in Dispatched(u) \cup {NoData}
  PROVE  /\ reconcile(history, update) \in Kept(u) \cup {NoData}
         /\ history # NoData => reconcile(history, update) # NoData
         /\ update # NoData /\ update.history # NoData => reconcile(history, update) # NoData
<1>1. CASE update = NoData \/ update.history = NoData
  BY <1>1 DEF reconcile
<1>2. CASE update # NoData /\ update.history # NoData
  <2>1. /\ update.before \in 0 .. MaxTip /\ update.history \in History(u)
        /\ Answers(update.history.fetched, update.before)
    BY <1>2 DEF Dispatched, Update
  <2>2. update.history \in Kept(u)
    BY <2>1 DEF Kept, Answers
  <2>3. CASE history = NoData
    BY <1>2, <2>2, <2>3, KeptIsData DEF reconcile
  <2>4. CASE history # NoData
    <3> DEFINE rows == combineFetched(update.history.fetched, history.fetched, update.before)
               r == reconcile(history, update)
    <3>1. history \in History(u) /\ history.fetched \in Stretch
      BY <2>4 DEF Kept
    <3>2. rows \in Stretch
      BY <2>1, <3>1, CombinedIsStretch
    <3>3. r = [update.history EXCEPT
                 !.fetched = combineFetched(@, history.fetched, update.before),
                 !.foundOldest = @ \/ history.foundOldest,
                 !.detailed = @ \/ history.detailed]
      BY <1>2, <2>4 DEF reconcile
    <3>4. rows \in Seq(Signature)
      BY <3>2 DEF Stretch
    <3>5. r \in History(u) /\ r.fetched = rows
      BY <2>1, <3>1, <3>3, <3>4 DEF History
    <3>. QED
      BY <3>2, <3>5, KeptIsData DEF Kept
  <2>. QED
    BY <2>3, <2>4
<1>. QED
  BY <1>1, <1>2

(* A dispatch of what is for the url of the cache replaces the entry, any  *)
(* other changes nothing.                                                  *)
LEMMA DispatchEffect ==
  ASSUME CacheType, NEW u, NEW status \in FetchStatus,
         NEW update, u = cache.url => update \in Dispatched(u) \cup {NoData},
         Dispatch(u, status, update)
  PROVE  /\ CacheType'
         /\ cache'.url = cache.url
         /\ u # cache.url => cache' = cache
         /\ u = cache.url => /\ cache'.entries[Address].status = status
                             /\ cache'.entries[Address].data = reconcile(entry.data, update)
<1> DEFINE d == reconcile(entry.data, update)
           new == [k \in {Address} |-> [status |-> status, data |-> d]]
<1>1. CASE u # cache.url
  BY <1>1 DEF Dispatch, UpdateAll, CacheType
<1>2. CASE u = cache.url
  <2>1. entry \in Entry(Kept(cache.url)) /\ cache.url \in Url
    BY DEF CacheType, entry
  <2>2. entry.data \in Kept(cache.url) \cup {NoData}
    BY <2>1 DEF Entry, Absent
  <2>3. d \in Kept(cache.url) \cup {NoData}
    BY <1>2, <2>1, <2>2, ReconciledIsKept
  <2>4. cache' = [cache EXCEPT !.entries =
                    [k \in {Address} |-> IF k \in {Address}
                       THEN [status |-> status,
                             data |-> [j \in {Address} |-> reconcile(cache.entries[j].data, update)][k]]
                       ELSE @[k]]]
    BY <1>2 DEF Dispatch, UpdateAll
  <2>5. [k \in {Address} |-> IF k \in {Address}
           THEN [status |-> status,
                 data |-> [j \in {Address} |-> reconcile(cache.entries[j].data, update)][k]]
           ELSE cache.entries[k]] = new
    BY DEF entry
  <2>6. cache' = [url |-> cache.url, entries |-> new]
    <3>1. cache = [url |-> cache.url, entries |-> cache.entries]
      BY DEF CacheType
    <3>. QED
      BY <2>4, <2>5, <3>1
  <2>7. new \in [{Address} -> Entry(Kept(cache.url))]
    BY <2>3 DEF Entry
  <2>8. new[Address].status = status /\ new[Address].data = d
    OBVIOUS
  <2>. HIDE DEF new, d
  <2>9. cache'.url = cache.url /\ cache'.entries = new
    BY <2>6
  <2>. QED
    BY <1>2, <2>1, <2>6, <2>7, <2>8, <2>9 DEF CacheType, d
<1>. QED
  BY <1>1, <1>2

(* What a call that has its page dispatches. *)
LEMMA CallsDispatch ==
  ASSUME IInv, NEW r \in Request, calls[r].page # NoData, calls[r].url \in Url,
         NEW detailed \in BOOLEAN
  PROVE  [before |-> calls[r].before, history |-> historyOf(calls[r], detailed)]
           \in Dispatched(calls[r].url)
<1>1. calls[r] \in CallType /\ Answers(calls[r].page, calls[r].before)
  BY DEF IInv, CallsAnswered
<1>2. calls[r].page \in Seq(Signature) /\ calls[r].before \in 0 .. MaxTip
  BY <1>1 DEF Answers, Stretch, CallType
<1>3. (Len(calls[r].page) < Limit) \in BOOLEAN
  OBVIOUS
<1>4. historyOf(calls[r], detailed) \in History(calls[r].url)
  BY <1>2 DEF historyOf, History
<1>5. historyOf(calls[r], detailed).fetched = calls[r].page
  BY DEF historyOf
<1>. HIDE DEF historyOf
<1>. QED
  BY <1>1, <1>2, <1>4, <1>5 DEF Dispatched, Update

(* What a step may dispatch: an update for the url it names, with rows     *)
(* whenever it says Fetched.                                               *)
SoundDispatch(u, status, update) ==
  /\ u \in Url /\ status \in FetchStatus /\ update \in Dispatched(u) \cup {NoData}
  /\ status = "Fetched" => update # NoData /\ update.history # NoData
  /\ Dispatch(u, status, update)

(* A call that ends. *)
LEMMA EndsSoundly ==
  ASSUME IInv, NEW r \in Request, Fail(r) \/ Succeed(r) \/ FailDetails(r)
  PROVE  \E u, status, update : SoundDispatch(u, status, update)
<1> DEFINE u == calls[r].url
           sent(h) == [before |-> calls[r].before, history |-> h]
<1>1. calls[r] \in CallType /\ u \in Url
  BY DEF IInv, CallsAnswered, Fail, Succeed, FailDetails, Running, CallType
<1>2. \A h : sent(h) \in Dispatched(u) => sent(h) # NoData
  BY <1>1, NoDataAssumption DEF Dispatched
<1>3. CASE Fail(r)
  <2>1. sent(NoData) \in Dispatched(u)
    BY <1>1 DEF Dispatched, Update, CallType
  <2>. QED
    BY <1>1, <1>3, <2>1 DEF Fail, Finish, SoundDispatch, FetchStatus
<1>4. ASSUME NEW detailed \in BOOLEAN, NEW status \in FetchStatus,
             calls[r].page # NoData, Finish(r, status, historyOf(calls[r], detailed))
      PROVE  SoundDispatch(u, status, sent(historyOf(calls[r], detailed)))
  <2> DEFINE h == historyOf(calls[r], detailed)
  <2>1. sent(h) \in Dispatched(u) /\ sent(h).history = h
    BY <1>1, <1>4, CallsDispatch
  <2>2. h \in History(u) /\ h # NoData
    <3>1. calls[r].page \in Seq(Signature)
      BY <1>1, <1>4 DEF CallType
    <3>2. (Len(calls[r].page) < Limit) \in BOOLEAN
      OBVIOUS
    <3>3. h \in History(u)
      BY <3>1, <3>2 DEF historyOf, History
    <3>. QED
      BY <1>1, <3>3, NoDataAssumption
  <2>3. Dispatch(u, status, sent(h))
    BY <1>4 DEF Finish
  <2>. HIDE DEF sent, u
  <2>. QED
    BY <1>1, <1>2, <1>4, <2>1, <2>2, <2>3 DEF SoundDispatch
<1>5. CASE Succeed(r)
  <2>1. PICK detailed \in {FALSE, calls[r].details /\ calls[r].page # <<>>} :
          Finish(r, "Fetched", historyOf(calls[r], detailed))
    BY <1>5 DEF Succeed
  <2>2. detailed \in BOOLEAN /\ calls[r].page # NoData
    BY <1>1, <1>5 DEF Succeed, CallType
  <2>. QED
    BY <1>4, <2>1, <2>2 DEF FetchStatus
<1>6. CASE FailDetails(r)
  BY <1>4, <1>6 DEF FailDetails, FetchStatus
<1>. QED
  BY <1>3, <1>5, <1>6

(* Nothing but a clear of the whole cache and a dispatch of a call for the *)
(* very url the call was made for changes the cache.                       *)
LEMMA StepDispatches ==
  ASSUME IInv, [Next]_vars
  PROVE  \/ cache' = cache
         \/ cache' = Clear(url)
         \/ \E u, status, update : SoundDispatch(u, status, update)
<1>1. ASSUME NEW before, NEW details, fetchAccountHistory(before, details)
      PROVE  SoundDispatch(url, "Fetching", NoData)
  BY <1>1 DEF fetchAccountHistory, IInv, SoundDispatch, FetchStatus
<1>2. CASE Grow
  BY <1>2 DEF Grow
<1>3. CASE \E u \in Url : Switch(u)
  BY <1>3 DEF Switch
<1>4. CASE ClearEffect
  BY <1>4 DEF ClearEffect
<1>5. ASSUME NEW c \in {"history", "details"}, OpenCard(c)
      PROVE  cache' = cache \/ SoundDispatch(url, "Fetching", NoData)
  BY <1>1, <1>5 DEF OpenCard
<1>6. CASE Refresh
  BY <1>1, <1>6 DEF Refresh
<1>7. CASE LoadMore
  BY <1>1, <1>7 DEF LoadMore
<1>8. ASSUME NEW r \in Request, Serve(r) PROVE cache' = cache
  BY <1>8 DEF Serve
<1>9. ASSUME NEW r \in Request, Fail(r) \/ Succeed(r) \/ FailDetails(r)
      PROVE  \E u, status, update : SoundDispatch(u, status, update)
  BY <1>9, EndsSoundly
<1>10. CASE UNCHANGED vars
  BY <1>10 DEF vars
<1>. QED
  BY <1>2, <1>3, <1>4, <1>5, <1>6, <1>7, <1>8, <1>9, <1>10 DEF Next

-------------------------------------------------------------------------------
(* The invariant. *)

(* The calls and the ledger. *)
LEMMA CallsPreserved ==
  ASSUME IInv, [Next]_vars
  PROVE  url' \in Url /\ tip' \in 0 .. MaxTip /\ CallsAnswered'
<1>1. url \in Url /\ tip \in 0 .. MaxTip /\ calls \in [Request -> CallType]
  BY DEF IInv, CallsAnswered
<1>2. ASSUME NEW r \in Request, NEW call \in CallType, calls' = [calls EXCEPT ![r] = call],
             call.page # NoData => Answers(call.page, call.before)
      PROVE  CallsAnswered'
  BY <1>1, <1>2 DEF IInv, CallsAnswered
<1>3. Idle \in CallType /\ Idle.page = NoData
  BY LimitAssumption DEF Idle, CallType, Newest
<1>4. ASSUME NEW before \in 0 .. MaxTip, NEW details \in BOOLEAN,
             fetchAccountHistory(before, details)
      PROVE  CallsAnswered'
  <2> DEFINE call == [url |-> url, before |-> before, details |-> details, page |-> NoData]
  <2>1. PICK r \in Request : calls' = [calls EXCEPT ![r] = call]
    BY <1>4 DEF fetchAccountHistory
  <2>2. call \in CallType /\ call.page = NoData
    BY <1>1 DEF CallType
  <2>. HIDE DEF call
  <2>. QED
    BY <1>2, <2>1, <2>2
<1>5. ASSUME NEW r \in Request, calls' = [calls EXCEPT ![r] = Idle]
      PROVE  CallsAnswered'
  BY <1>2, <1>3, <1>5
<1>6. CASE Grow
  BY <1>1, <1>6, LimitAssumption DEF Grow, IInv, CallsAnswered
<1>7. CASE \E u \in Url : Switch(u)
  BY <1>1, <1>7 DEF Switch, IInv, CallsAnswered
<1>8. CASE ClearEffect
  BY <1>1, <1>8 DEF ClearEffect, IInv, CallsAnswered
<1>9. ASSUME NEW c \in {"history", "details"}, OpenCard(c)
      PROVE  CallsAnswered'
  <2>1. Newest \in 0 .. MaxTip /\ (c = "details") \in BOOLEAN
    BY LimitAssumption DEF Newest
  <2>2. CASE fetchAccountHistory(Newest, c = "details")
    BY <1>4, <2>1, <2>2
  <2>3. CASE UNCHANGED calls
    BY <1>1, <2>3 DEF IInv, CallsAnswered
  <2>. QED
    BY <1>9, <2>2, <2>3 DEF OpenCard
<1>10. ASSUME Refresh PROVE CallsAnswered'
  <2>1. Newest \in 0 .. MaxTip /\ (card = "details") \in BOOLEAN
    BY LimitAssumption DEF Newest
  <2>2. fetchAccountHistory(Newest, card = "details")
    BY <1>10 DEF Refresh
  <2>. QED
    BY <1>4, <2>1, <2>2
<1>11. ASSUME LoadMore PROVE CallsAnswered'
  <2>1. entry.data \in Kept(cache.url)
    BY <1>11 DEF LoadMore, IInv, CacheType, entry, Entry, Absent
  <2>2. entry.data.fetched \in Seq(Signature)
    BY <2>1 DEF Kept, Stretch
  <2>3. entry.data.fetched # <<>> => Last(entry.data.fetched) \in 0 .. MaxTip
    <3> SUFFICES ASSUME entry.data.fetched # <<>> PROVE Last(entry.data.fetched) \in 0 .. MaxTip
      OBVIOUS
    <3>1. Len(entry.data.fetched) \in 1 .. Len(entry.data.fetched)
      BY <2>2
    <3>2. Last(entry.data.fetched) \in Signature
      BY <2>2, <3>1 DEF Last
    <3>. QED
      BY <3>2, LimitAssumption DEF Signature
  <2> DEFINE before == IF entry.data.fetched = <<>> THEN Newest ELSE Last(entry.data.fetched)
  <2>4. before \in 0 .. MaxTip /\ (card = "details") \in BOOLEAN
    BY <2>3, LimitAssumption DEF Newest
  <2>5. fetchAccountHistory(before, card = "details")
    BY <1>11 DEF LoadMore
  <2>. HIDE DEF before
  <2>. QED
    BY <1>4, <2>4, <2>5
<1>12. ASSUME NEW r \in Request, Serve(r)
       PROVE  CallsAnswered'
  <2> DEFINE call == [calls[r] EXCEPT !.page = Page(calls[r].before)]
  <2>1. calls[r] \in CallType /\ calls[r].before \in 0 .. MaxTip
    BY <1>1 DEF CallType
  <2>2. Answers(Page(calls[r].before), calls[r].before)
    BY <1>1, <2>1, ServerAnswers
  <2>3. Page(calls[r].before) \in Seq(Signature)
    BY <2>2 DEF Answers, Stretch
  <2>4. call \in CallType /\ call.page = Page(calls[r].before) /\ call.before = calls[r].before
    BY <2>1, <2>3 DEF CallType
  <2>5. calls' = [calls EXCEPT ![r] = call]
    BY <1>12 DEF Serve
  <2>. HIDE DEF call
  <2>. QED
    BY <1>2, <2>2, <2>4, <2>5
<1>13. ASSUME NEW r \in Request, Fail(r) \/ Succeed(r) \/ FailDetails(r)
       PROVE  /\ calls' = [calls EXCEPT ![r] = Idle]
              /\ url' = url /\ tip' = tip
  BY <1>13 DEF Fail, Succeed, FailDetails, Finish
<1>14. CASE UNCHANGED vars
  BY <1>1, <1>14 DEF vars, IInv, CallsAnswered
<1>15. CASE ~(Grow \/ \E u \in Url : Switch(u)) /\ ~UNCHANGED vars
  <2>1. url' = url /\ tip' = tip
    BY <1>13, <1>15 DEF Next, ClearEffect, OpenCard, Refresh, LoadMore, Serve
  <2>. QED
    BY <1>1, <1>5, <1>8, <1>9, <1>10, <1>11, <1>12, <1>13, <1>15, <2>1 DEF Next
<1>. QED
  BY <1>6, <1>7, <1>14, <1>15

LEMMA InitIInv == Init => IInv
<1> SUFFICES ASSUME Init PROVE IInv
  OBVIOUS
<1>1. Clear(url) = [url |-> url, entries |-> [k \in {Address} |-> Absent]]
  BY DEF Clear
<1>2. CacheType
  BY <1>1 DEF Init, CacheType, Entry
<1>3. Idle \in CallType /\ Idle.page = NoData
  BY LimitAssumption DEF Idle, CallType, Newest
<1>. QED
  BY <1>2, <1>3 DEF Init, IInv, CallsAnswered

LEMMA CardPreserved ==
  ASSUME IInv, [Next]_vars
  PROVE  card' \in {"none", "history", "details"}
<1>1. CASE \E c \in {"history", "details"} : OpenCard(c)
  BY <1>1 DEF OpenCard
<1>2. CASE \E u \in Url : Switch(u)
  BY <1>2 DEF Switch
<1>3. CASE Grow \/ ClearEffect \/ Refresh \/ LoadMore \/ UNCHANGED vars
  BY <1>3 DEF IInv, Grow, ClearEffect, Refresh, LoadMore, vars
<1>4. CASE \E r \in Request : Serve(r) \/ Fail(r) \/ Succeed(r) \/ FailDetails(r)
  BY <1>4 DEF IInv, Serve, Fail, Succeed, FailDetails, Finish
<1>. QED
  BY <1>1, <1>2, <1>3, <1>4 DEF Next

LEMMA NextIInv == IInv /\ [Next]_vars => IInv'
<1> SUFFICES ASSUME IInv, [Next]_vars PROVE CacheType'
  BY CallsPreserved, CardPreserved DEF IInv
<1>1. CASE cache' = cache
  BY <1>1 DEF IInv, CacheType
<1>2. CASE cache' = Clear(url)
  BY <1>2 DEF IInv, CacheType, Clear, Entry
<1>3. ASSUME NEW u, NEW status, NEW update, SoundDispatch(u, status, update)
      PROVE  CacheType'
  BY <1>3, DispatchEffect DEF SoundDispatch, IInv
<1>. QED
  BY <1>1, <1>2, <1>3, StepDispatches

THEOREM Invariance == Spec => []IInv
<1>. QED
  BY InitIInv, NextIInv, PTL DEF Spec

(* The state stays of its types: what a call brings or a card asks for is  *)
(* always a page of the ledger, and the entry is of the cache's url.       *)
THEOREM TypeCorrect == Spec => []TypeOK
<1>1. IInv => TypeOK
  BY DEF IInv, CacheType, CallsAnswered, TypeOK, Entry, Kept
<1>. QED
  BY <1>1, Invariance, PTL

(* Whatever requests overlap and however the ledger grows, the rows shown  *)
(* are one stretch of it, none missing in the middle and none there twice  *)
(* (combineFetched, app/providers/accounts/history.tsx).                   *)
THEOREM Contiguous == Spec => []RowsAreContiguous
<1>1. IInv => RowsAreContiguous
  <2> SUFFICES ASSUME IInv, entry.data # NoData PROVE entry.data.fetched \in Stretch
    BY DEF RowsAreContiguous, Stretch, Descends
  <2>. QED
    BY DEF IInv, CacheType, entry, Entry, Absent, Kept
<1>. QED
  BY <1>1, Invariance, PTL

-------------------------------------------------------------------------------
(* The refinement. *)

LEMMA SameTerms ==
  /\ \A u \in Url : Promise!Clear(u) = Clear(u)
  /\ \A u : Promise!Entry(History(u)) = Entry(History(u))
  /\ Promise!FetchStatus = FetchStatus
BY DEF Promise!Clear, Clear, Promise!Absent, Absent, Promise!Entry, Entry,
       Promise!FetchStatus, FetchStatus

LEMMA DispatchPromised ==
  ASSUME IInv, NEW u, NEW status, NEW update, SoundDispatch(u, status, update)
  PROVE  cache' = cache \/ Promise!UpdateEntries
<1>1. CASE u # cache.url
  BY <1>1, DispatchEffect DEF SoundDispatch, IInv
<1>2. CASE u = cache.url
  <2>1. /\ CacheType /\ CacheType' /\ cache'.url = cache.url
        /\ cache'.entries[Address].status = status
        /\ cache'.entries[Address].data = reconcile(entry.data, update)
    BY <1>2, DispatchEffect DEF SoundDispatch, IInv
  <2>2. cache' = [cache EXCEPT !.entries = cache'.entries]
    BY <2>1 DEF CacheType
  <2>3. \A h \in Entry(Kept(cache.url)) : h \in Entry(History(cache.url))
    BY DEF Entry, Kept
  <2>4. cache'.entries \in [{Address} -> Promise!Entry(History(cache.url))]
    BY <2>1, <2>3, SameTerms DEF CacheType
  <2>5. entry.data \in Kept(u) \cup {NoData}
    BY <1>2 DEF IInv, CacheType, entry, Entry, Absent
  <2>6. /\ entry.data # NoData => reconcile(entry.data, update) # NoData
        /\ status = "Fetched" => reconcile(entry.data, update) # NoData
    BY <2>5, ReconciledIsKept DEF SoundDispatch
  <2>7. Promise!Changes(cache.entries[Address], cache'.entries[Address])
    BY <2>1, <2>6, SameTerms DEF Promise!Changes, SoundDispatch, entry
  <2>. QED
    BY <2>2, <2>4, <2>7 DEF Promise!UpdateEntries
<1>. QED
  BY <1>1, <1>2

(* The history provider implements the promise of UrlCache: its rows are   *)
(* answers of the cache's url, only a Clear takes rows away, and Fetched   *)
(* comes with rows, although an update may fail and bring rows at once.    *)
THEOREM KeepsPromise == Spec => ImplementsUrlCache
<1>1. Init => Promise!Init
  BY SameTerms DEF Init, Promise!Init
<1>2. IInv /\ [Next]_vars => [Promise!Next]_cache
  <2> SUFFICES ASSUME IInv, [Next]_vars, cache' # cache PROVE Promise!Next
    OBVIOUS
  <2>1. CASE cache' = Clear(url)
    BY <2>1, SameTerms DEF IInv, Promise!Next, Promise!Empty
  <2>2. ASSUME NEW u, NEW status, NEW update, SoundDispatch(u, status, update)
        PROVE  Promise!Next
    BY <2>2, DispatchPromised DEF Promise!Next
  <2>. QED
    BY <2>1, <2>2, StepDispatches
<1>. QED
  BY <1>1, <1>2, Invariance, PTL DEF Spec, ImplementsUrlCache, Promise!Spec
-------------------------------------------------------------------------------
(* The merged table of an owner's tokens, module TokenHistory: for any     *)
(* ledger, page size, number of calls and of failures.                     *)

(* Induction over the naturals, on a set in place of a predicate.          *)
LEMMA Induction ==
  ASSUME NEW S, 0 \in S, \A n \in Nat : n \in S => n + 1 \in S
  PROVE  Nat \subseteq S
<1>1. SUFFICES ASSUME Nat \ S # {} PROVE FALSE
  OBVIOUS
<1>2. PICK x \in Nat \ S : \A y \in Nat \ S : ~ (<<y, x>> \in OpToRel(<, Nat))
  BY <1>1, WFMin, NatLessThanWellFounded, Zenon
<1>3. \A y \in Nat \ S : ~ (y < x)
  BY <1>2 DEF OpToRel
<1>4. x - 1 \in Nat
  OBVIOUS
<1>5. x - 1 \in S
  BY <1>3, <1>4
<1>6. (x - 1) + 1 \in S
  BY <1>4, <1>5
<1>. QED
  BY <1>6

(* Of naturals there is a least.                                           *)
LEMMA LeastOf ==
  ASSUME NEW S \in SUBSET Nat, S # {}
  PROVE  \E m \in S : \A x \in S : m <= x
<1>1. PICK m \in S : \A y \in S : ~ (<<y, m>> \in OpToRel(<, Nat))
  BY WFMin, NatLessThanWellFounded, Zenon
<1>2. \A y \in S : ~ (y < m)
  BY <1>1 DEF OpToRel
<1>. QED
  BY <1>2

(* And a greatest, when they are bounded.                                  *)
LEMMA GreatestOf ==
  ASSUME NEW S \in SUBSET Nat, S # {}, NEW bound \in Nat, \A x \in S : x <= bound
  PROVE  /\ Tokens!Max(S) \in S
         /\ \A x \in S : x <= Tokens!Max(S)
<1>. DEFINE U == {u \in Nat : \A x \in S : x <= u}
<1>1. PICK m \in U : \A u \in U : m <= u
  <2>1. U # {}
    OBVIOUS
  <2>. QED
    BY <2>1, LeastOf
<1>2. m \in S
  <2>1. SUFFICES ASSUME m \notin S PROVE FALSE
    OBVIOUS
  <2>2. \A x \in S : x < m
    BY <1>1, <2>1
  <2>3. PICK x \in S : TRUE
    OBVIOUS
  <2>4. m - 1 \in Nat
    BY <1>1, <2>2, <2>3
  <2>5. m - 1 \in U
    BY <2>2, <2>4
  <2>. QED
    BY <1>1, <2>5
<1>3. \A x \in S : m >= x
  BY <1>1
<1>4. Tokens!Max(S) = CHOOSE n \in S : \A x \in S : n >= x
  BY DEF Tokens!Max
<1>5. Tokens!Max(S) \in S /\ \A x \in S : Tokens!Max(S) >= x
  BY <1>2, <1>3, <1>4, Zenon
<1>. QED
  BY <1>5

-------------------------------------------------------------------------------
(* The members of a sequence that are in a set. *)

LEMMA AmongIsDefined ==
  ASSUME NEW s, Len(s) \in Nat, NEW S
  PROVE  Tokens!amongFirst(s, S) =
           [n \in 0 .. Len(s) |->
              IF n = 0 THEN <<>>
              ELSE IF s[n] \in S THEN Append(Tokens!amongFirst(s, S)[n-1], s[n])
                                 ELSE Tokens!amongFirst(s, S)[n-1]]
<1>. DEFINE Turn(n, r) == IF s[n] \in S THEN Append(r, s[n]) ELSE r
            Is(f, N) == f = [n \in 0 .. N |-> IF n = 0 THEN <<>> ELSE Turn(n, f[n-1])]
            D == {N \in Nat : \E f : Is(f, N)}
<1>. HIDE DEF Turn
<1>1. 0 \in D
  <2>1. Is([n \in 0 .. 0 |-> <<>>], 0)
    OBVIOUS
  <2>. QED
    BY <2>1
<1>2. ASSUME NEW N \in Nat, N \in D PROVE N + 1 \in D
  <2>1. PICK f : Is(f, N)
    BY <1>2
  <2>. DEFINE g == [n \in 0 .. N + 1 |-> IF n = N + 1 THEN Turn(N + 1, f[N]) ELSE f[n]]
  <2>2. ASSUME NEW n \in 0 .. N + 1
        PROVE  g[n] = IF n = 0 THEN <<>> ELSE Turn(n, g[n-1])
    <3>1. CASE n = N + 1
      <4>1. g[n - 1] = f[N]
        BY <3>1
      <4>. QED
        BY <3>1, <4>1
    <3>2. CASE n \in 1 .. N
      <4>1. g[n] = f[n] /\ g[n - 1] = f[n - 1]
        BY <3>2
      <4>. QED
        BY <3>2, <4>1, <2>1
    <3>3. CASE n = 0
      BY <3>3, <2>1
    <3>. QED
      BY <3>1, <3>2, <3>3
  <2>3. Is(g, N + 1)
    BY <2>2
  <2>. HIDE DEF g, Is
  <2>4. \E h : Is(h, N + 1)
    BY <2>3
  <2>. QED
    BY <2>4
<1>. HIDE DEF D
<1>3. Len(s) \in D
  BY <1>1, <1>2, Induction
<1>4. PICK f : Is(f, Len(s))
  BY <1>3 DEF D
<1>. QED
  BY <1>4, Zenon DEF Tokens!amongFirst, Turn

(* They are a sequence of the members that are in the set.                 *)
LEMMA AmongIs ==
  ASSUME NEW Data, NEW s \in Seq(Data), NEW S
  PROVE  Tokens!Among(s, S) \in Seq(Data)
<1>. DEFINE f == Tokens!amongFirst(s, S)
            D == {n \in Nat : n <= Len(s) => f[n] \in Seq(Data)}
<1>1. Len(s) \in Nat
  OBVIOUS
<1>2. f = [n \in 0 .. Len(s) |-> IF n = 0 THEN <<>>
                                ELSE IF s[n] \in S THEN Append(f[n-1], s[n]) ELSE f[n-1]]
  BY <1>1, AmongIsDefined
<1>. HIDE DEF f
<1>3. 0 \in D
  BY <1>1, <1>2
<1>4. ASSUME NEW n \in Nat, n \in D PROVE n + 1 \in D
  <2>1. CASE n + 1 <= Len(s)
    <3>1. n + 1 \in 0 .. Len(s) /\ n + 1 # 0 /\ (n + 1) - 1 = n
      BY <1>1, <2>1
    <3>2. f[n + 1] = IF s[n + 1] \in S THEN Append(f[n], s[n + 1]) ELSE f[n]
      BY <1>2, <3>1
    <3>3. f[n] \in Seq(Data) /\ s[n + 1] \in Data
      BY <1>1, <1>4, <2>1
    <3>4. f[n + 1] \in Seq(Data)
      BY <3>2, <3>3
    <3>. QED
      BY <3>4
  <2>2. CASE ~(n + 1 <= Len(s))
    BY <2>2
  <2>. QED
    BY <2>1, <2>2
<1>. HIDE DEF D
<1>5. Len(s) \in D
  BY <1>1, <1>3, <1>4, Induction
<1>. QED
  BY <1>1, <1>5 DEF D, f, Tokens!Among

-------------------------------------------------------------------------------
(* The rows of a token account. *)

LEMMA RowsAreDefined ==
  ASSUME Len(ledger) \in Nat, NEW t
  PROVE  Tokens!rowsUpTo(t) =
           [n \in 0 .. Len(ledger) |->
              IF n = 0 THEN <<>>
              ELSE IF t \in ledger[n].accounts THEN <<n>> \o Tokens!rowsUpTo(t)[n-1]
                                               ELSE Tokens!rowsUpTo(t)[n-1]]
<1>. DEFINE Turn(n, r) == IF t \in ledger[n].accounts THEN <<n>> \o r ELSE r
            Is(f, N) == f = [n \in 0 .. N |-> IF n = 0 THEN <<>> ELSE Turn(n, f[n-1])]
            D == {N \in Nat : \E f : Is(f, N)}
<1>. HIDE DEF Turn
<1>1. 0 \in D
  <2>1. Is([n \in 0 .. 0 |-> <<>>], 0)
    OBVIOUS
  <2>. QED
    BY <2>1
<1>2. ASSUME NEW N \in Nat, N \in D PROVE N + 1 \in D
  <2>1. PICK f : Is(f, N)
    BY <1>2
  <2>. DEFINE g == [n \in 0 .. N + 1 |-> IF n = N + 1 THEN Turn(N + 1, f[N]) ELSE f[n]]
  <2>2. ASSUME NEW n \in 0 .. N + 1
        PROVE  g[n] = IF n = 0 THEN <<>> ELSE Turn(n, g[n-1])
    <3>1. CASE n = N + 1
      <4>1. g[n - 1] = f[N]
        BY <3>1
      <4>. QED
        BY <3>1, <4>1
    <3>2. CASE n \in 1 .. N
      <4>1. g[n] = f[n] /\ g[n - 1] = f[n - 1]
        BY <3>2
      <4>. QED
        BY <3>2, <4>1, <2>1
    <3>3. CASE n = 0
      BY <3>3, <2>1
    <3>. QED
      BY <3>1, <3>2, <3>3
  <2>3. Is(g, N + 1)
    BY <2>2
  <2>. HIDE DEF g, Is
  <2>4. \E h : Is(h, N + 1)
    BY <2>3
  <2>. QED
    BY <2>4
<1>. HIDE DEF D
<1>3. Len(ledger) \in D
  BY <1>1, <1>2, Induction
<1>4. PICK f : Is(f, Len(ledger))
  BY <1>3 DEF D
<1>. QED
  BY <1>4, Zenon DEF Tokens!rowsUpTo, Turn

(* Rows that are one stretch of the transactions of an account: newest     *)
(* first, and between the last and the first none is missing.              *)
RowsOf(l, t, s) ==
  /\ s \in Seq(1 .. Len(l))
  /\ \A i, j \in 1 .. Len(s) : i < j => s[j] < s[i]
  /\ \A i \in 1 .. Len(s) : t \in l[s[i]].accounts

NoneMissing(l, t, s) ==
  s # <<>> => \A n \in s[Len(s)] .. s[1] :
                t \in l[n].accounts => \E i \in 1 .. Len(s) : s[i] = n

IsStretch(l, t, s) == RowsOf(l, t, s) /\ NoneMissing(l, t, s)

(* All the transactions of an account, up to one. *)
AllUpTo(l, t, s, top) ==
  /\ \A i \in 1 .. Len(s) : s[i] <= top
  /\ \A n \in 1 .. top : t \in l[n].accounts => \E i \in 1 .. Len(s) : s[i] = n

(* Rows that go on just below one. *)
GoesOn(l, t, s, before) ==
  /\ \A i \in 1 .. Len(s) : s[i] < before
  /\ \A n \in 1 .. before - 1 : t \in l[n].accounts => s # <<>> /\ n <= s[1]

LEMMA AllIsStretch ==
  ASSUME NEW l, NEW t, NEW s, NEW top \in 0 .. Len(l), RowsOf(l, t, s), AllUpTo(l, t, s, top)
  PROVE  IsStretch(l, t, s)
<1>1. SUFFICES ASSUME s # <<>>, NEW n \in s[Len(s)] .. s[1], t \in l[n].accounts
               PROVE  \E i \in 1 .. Len(s) : s[i] = n
  BY DEF IsStretch, NoneMissing
<1>2. s \in Seq(1 .. Len(l)) /\ Len(s) \in Nat \ {0}
  BY <1>1, EmptySeq DEF RowsOf
<1>3. s[1] \in 1 .. Len(l) /\ s[Len(s)] \in 1 .. Len(l) /\ s[1] <= top
  BY <1>2 DEF AllUpTo
<1>4. n \in 1 .. top
  BY <1>3
<1>. QED
  BY <1>1, <1>4 DEF AllUpTo

(* A row is put before the rows of older ones. *)
LEMMA RowPrepended ==
  ASSUME NEW l, Len(l) \in Nat, NEW t, NEW s, NEW n \in 1 .. Len(l),
         RowsOf(l, t, s), AllUpTo(l, t, s, n - 1), t \in l[n].accounts
  PROVE  RowsOf(l, t, <<n>> \o s) /\ AllUpTo(l, t, <<n>> \o s, n)
<1>. DEFINE r == <<n>> \o s
<1>1. s \in Seq(1 .. Len(l)) /\ Len(s) \in Nat
  BY DEF RowsOf
<1>2. /\ r \in Seq(1 .. Len(l)) /\ Len(r) = Len(s) + 1 /\ r[1] = n
      /\ \A i \in 2 .. Len(s) + 1 : r[i] = s[i - 1]
  BY <1>1, ConcatProperties
<1>. HIDE DEF r
<1>3. ASSUME NEW i \in 1 .. Len(s) PROVE s[i] \in 1 .. Len(l) /\ s[i] <= n - 1 /\ t \in l[s[i]].accounts
  BY <1>1 DEF RowsOf, AllUpTo
<1>4. ASSUME NEW i \in 1 .. Len(r) PROVE r[i] \in 1 .. n /\ t \in l[r[i]].accounts
  <2>1. CASE i = 1
    BY <1>2, <2>1
  <2>2. CASE i # 1
    <3>1. i - 1 \in 1 .. Len(s) /\ r[i] = s[i - 1]
      BY <1>1, <1>2, <2>2
    <3>. QED
      BY <1>3, <3>1
  <2>. QED
    BY <2>1, <2>2
<1>5. ASSUME NEW i \in 1 .. Len(r), NEW j \in 1 .. Len(r), i < j PROVE r[j] < r[i]
  <2>1. j \in 2 .. Len(s) + 1 /\ j - 1 \in 1 .. Len(s) /\ r[j] = s[j - 1]
    <3>1. j \in 2 .. Len(s) + 1 /\ j - 1 \in 1 .. Len(s)
      <4>1. i \in 1 .. Len(s) + 1 /\ j \in 1 .. Len(s) + 1 /\ i < j /\ Len(s) \in Nat
        BY <1>1, <1>2, <1>5, Zenon
      <4>. QED
        BY <4>1
    <3>. QED
      BY <1>2, <3>1
  <2>2. CASE i = 1
    BY <1>2, <1>3, <2>1, <2>2
  <2>3. CASE i # 1
    <3>1. i \in 2 .. Len(s) + 1 /\ i - 1 \in 1 .. Len(s) /\ i - 1 < j - 1
      BY <1>1, <1>2, <1>5, <2>3
    <3>2. s[j - 1] < s[i - 1]
      BY <2>1, <3>1 DEF RowsOf
    <3>3. r[i] = s[i - 1]
      BY <1>2, <3>1
    <3>. QED
      BY <2>1, <3>2, <3>3
  <2>. QED
    BY <2>2, <2>3
<1>6. ASSUME NEW m \in 1 .. n, t \in l[m].accounts PROVE \E i \in 1 .. Len(r) : r[i] = m
  <2>1. CASE m = n
    BY <1>1, <1>2, <2>1
  <2>2. CASE m # n
    <3>1. PICK i \in 1 .. Len(s) : s[i] = m
      BY <1>6, <2>2 DEF AllUpTo
    <3>2. i \in 1 .. Len(s) /\ Len(s) \in Nat
      BY <1>1, <3>1, Zenon
    <3>3. i + 1 \in 2 .. Len(s) + 1 /\ i + 1 \in 1 .. Len(s) + 1 /\ (i + 1) - 1 = i
      BY <3>2
    <3>4. i + 1 \in 1 .. Len(r) /\ r[i + 1] = s[i]
      BY <1>2, <3>3
    <3>. QED
      BY <3>1, <3>4
  <2>. QED
    BY <2>1, <2>2
<1>7. \A i \in 1 .. Len(r) : r[i] <= n
  BY <1>4
<1>8. AllUpTo(l, t, r, n)
  BY <1>6, <1>7 DEF AllUpTo
<1>9. RowsOf(l, t, r)
  BY <1>2, <1>4, <1>5 DEF RowsOf
<1>. QED
  BY <1>8, <1>9 DEF r

(* The transactions of an account up to one are all its rows up to it.     *)
LEMMA RowsUpToAreAll ==
  ASSUME Len(ledger) \in Nat, NEW t, NEW top \in 0 .. Len(ledger)
  PROVE  /\ RowsOf(ledger, t, Tokens!rowsOf(t, top))
         /\ AllUpTo(ledger, t, Tokens!rowsOf(t, top), top)
<1>. DEFINE f == Tokens!rowsUpTo(t)
            Is(s, n) == RowsOf(ledger, t, s) /\ AllUpTo(ledger, t, s, n)
            D == {n \in Nat : n <= Len(ledger) => Is(f[n], n)}
<1>1. f = [n \in 0 .. Len(ledger) |->
             IF n = 0 THEN <<>>
             ELSE IF t \in ledger[n].accounts THEN <<n>> \o f[n-1] ELSE f[n-1]]
  BY RowsAreDefined
<1>. HIDE DEF f
<1>2. 0 \in D
  <2>1. f[0] = <<>>
    BY <1>1
  <2>2. Is(<<>>, 0)
    BY DEF RowsOf, AllUpTo
  <2>. QED
    BY <2>1, <2>2
<1>3. ASSUME NEW n \in Nat, n \in D PROVE n + 1 \in D
  <2>1. SUFFICES ASSUME n + 1 <= Len(ledger) PROVE Is(f[n + 1], n + 1)
    OBVIOUS
  <2>2. n + 1 \in 0 .. Len(ledger) /\ n + 1 # 0 /\ n + 1 \in 1 .. Len(ledger) /\ (n + 1) - 1 = n
    BY <2>1
  <2>3. f[n + 1] = IF t \in ledger[n + 1].accounts THEN <<n + 1>> \o f[n] ELSE f[n]
    BY <1>1, <2>2
  <2>4. Is(f[n], n)
    BY <1>3, <2>1
  <2>5. CASE t \in ledger[n + 1].accounts
    <3>1. Is(<<n + 1>> \o f[n], n + 1)
      BY <2>2, <2>4, <2>5, RowPrepended
    <3>. QED
      BY <2>3, <2>5, <3>1
  <2>6. CASE t \notin ledger[n + 1].accounts
    <3>1. f[n + 1] = f[n]
      BY <2>3, <2>6
    <3>2. \A i \in 1 .. Len(f[n]) : f[n][i] \in 1 .. Len(ledger)
      BY <2>4 DEF RowsOf
    <3>3. \A i \in 1 .. Len(f[n]) : f[n][i] <= n + 1
      BY <2>4, <3>2 DEF AllUpTo
    <3>4. \A m \in 1 .. n + 1 : t \in ledger[m].accounts => m \in 1 .. n
      BY <2>6
    <3>5. AllUpTo(ledger, t, f[n], n + 1)
      BY <2>4, <3>3, <3>4 DEF AllUpTo
    <3>. QED
      BY <2>4, <3>1, <3>5
  <2>. QED
    BY <2>5, <2>6
<1>. HIDE DEF D
<1>4. top \in D
  BY <1>2, <1>3, Induction
<1>5. Tokens!rowsOf(t, top) = f[top]
  BY DEF Tokens!rowsOf, f
<1>. QED
  BY <1>4, <1>5 DEF D

-------------------------------------------------------------------------------
(* Pages, and how they join the rows that are there. *)

(* The first row is the newest and the last the oldest.                    *)
LEMMA RowsAreOrdered ==
  ASSUME NEW l, Len(l) \in Nat, NEW t, NEW s, RowsOf(l, t, s), s # <<>>
  PROVE  /\ 1 \in 1 .. Len(s) /\ Len(s) \in 1 .. Len(s)
         /\ \A i \in 1 .. Len(s) :
              s[i] \in 1 .. Len(l) /\ s[Len(s)] <= s[i] /\ s[i] <= s[1]
         /\ \A i, j \in 1 .. Len(s) : s[j] < s[i] => i < j
<1>1. s \in Seq(1 .. Len(l)) /\ Len(s) \in Nat \ {0}
  BY EmptySeq DEF RowsOf
<1>2. 1 \in 1 .. Len(s) /\ Len(s) \in 1 .. Len(s)
  BY <1>1
<1>3. ASSUME NEW i \in 1 .. Len(s) PROVE s[i] \in 1 .. Len(l)
  BY <1>1
<1>4. ASSUME NEW i \in 1 .. Len(s) PROVE s[Len(s)] <= s[i] /\ s[i] <= s[1]
  <2>1. s[i] \in Int /\ s[1] \in Int /\ s[Len(s)] \in Int
    BY <1>2, <1>3
  <2>2. i < Len(s) => s[Len(s)] < s[i]
    BY <1>2 DEF RowsOf
  <2>3. 1 < i => s[i] < s[1]
    BY <1>2 DEF RowsOf
  <2>4. i \in 1 .. Len(s) /\ Len(s) \in Nat
    BY <1>1
  <2>5. s[Len(s)] <= s[i]
    BY <2>1, <2>2, <2>4
  <2>6. s[i] <= s[1]
    BY <2>1, <2>3, <2>4
  <2>. QED
    BY <2>5, <2>6
<1>5. ASSUME NEW i \in 1 .. Len(s), NEW j \in 1 .. Len(s), s[j] < s[i] PROVE i < j
  <2>1. s[i] \in Int /\ s[j] \in Int
    BY <1>3
  <2>2. j < i => s[i] < s[j]
    BY DEF RowsOf
  <2>. QED
    BY <1>5, <2>1, <2>2
<1>. QED
  BY <1>2, <1>3, <1>4, <1>5, Zenon

(* The newest of some rows. *)
LEMMA PrefixIsStretch ==
  ASSUME NEW l, Len(l) \in Nat, NEW t, NEW s, IsStretch(l, t, s), NEW m \in 0 .. Len(s)
  PROVE  IsStretch(l, t, SubSeq(s, 1, m))
<1>. DEFINE p == SubSeq(s, 1, m)
<1>1. s \in Seq(1 .. Len(l)) /\ Len(s) \in Nat
  BY DEF IsStretch, RowsOf
<1>2. p \in Seq(1 .. Len(l)) /\ Len(p) = m /\ \A i \in 1 .. m : p[i] = s[i]
  <2>1. \A i \in 1 .. m : s[i] \in 1 .. Len(l)
    BY <1>1
  <2>. QED
    BY <1>1, <2>1, SubSeqProperties
<1>. HIDE DEF p
<1>3. RowsOf(l, t, p)
  <2>1. ASSUME NEW i \in 1 .. Len(p) PROVE i \in 1 .. Len(s) /\ p[i] = s[i]
    BY <1>1, <1>2
  <2>2. ASSUME NEW i \in 1 .. Len(p), NEW j \in 1 .. Len(p), i < j PROVE p[j] < p[i]
    BY <2>1, <2>2 DEF IsStretch, RowsOf
  <2>3. ASSUME NEW i \in 1 .. Len(p) PROVE t \in l[p[i]].accounts
    BY <2>1 DEF IsStretch, RowsOf
  <2>. QED
    BY <1>2, <2>2, <2>3 DEF RowsOf
<1>4. ASSUME p # <<>>, NEW n \in p[Len(p)] .. p[1], t \in l[n].accounts
      PROVE  \E i \in 1 .. Len(p) : p[i] = n
  <2>1. m \in 1 .. Len(s) /\ s # <<>> /\ p[1] = s[1] /\ p[Len(p)] = s[m]
    BY <1>1, <1>2, <1>4, EmptySeq
  <2>2. /\ s[m] \in 1 .. Len(l) /\ s[Len(s)] \in 1 .. Len(l) /\ s[1] \in 1 .. Len(l)
        /\ s[Len(s)] <= s[m]
    BY <2>1, RowsAreOrdered DEF IsStretch
  <2>4. PICK i \in 1 .. Len(s) : s[i] = n
    BY <1>4, <2>1, <2>2 DEF IsStretch, NoneMissing
  <2>5. ~(m < i)
    BY <1>4, <2>1, <2>2, <2>4 DEF IsStretch, RowsOf
  <2>. QED
    BY <1>2, <2>1, <2>4, <2>5
<1>5. NoneMissing(l, t, p)
  BY <1>4 DEF NoneMissing
<1>. QED
  BY <1>3, <1>5 DEF IsStretch, p

(* Rows, and the older ones put after them. *)
LEMMA RowsJoin ==
  ASSUME NEW l, Len(l) \in Nat, NEW t, NEW s, NEW r, RowsOf(l, t, s), RowsOf(l, t, r),
         \A i \in 1 .. Len(s), j \in 1 .. Len(r) : r[j] < s[i]
  PROVE  /\ RowsOf(l, t, s \o r)
         /\ Len(s \o r) = Len(s) + Len(r)
         /\ \A i \in 1 .. Len(s) : (s \o r)[i] = s[i]
         /\ \A j \in 1 .. Len(r) : (s \o r)[Len(s) + j] = r[j]
<1>. DEFINE q == s \o r
<1>1. /\ s \in Seq(1 .. Len(l)) /\ Len(s) \in Nat
      /\ r \in Seq(1 .. Len(l)) /\ Len(r) \in Nat
  BY DEF RowsOf
<1>2. /\ q \in Seq(1 .. Len(l)) /\ Len(q) = Len(s) + Len(r)
      /\ \A i \in 1 .. Len(s) + Len(r) : q[i] = IF i <= Len(s) THEN s[i] ELSE r[i - Len(s)]
  BY <1>1, ConcatProperties
<1>. HIDE DEF q
<1>3. ASSUME NEW i \in 1 .. Len(s) PROVE q[i] = s[i]
  BY <1>1, <1>2
<1>4. ASSUME NEW j \in 1 .. Len(r) PROVE q[Len(s) + j] = r[j]
  <2>1. /\ Len(s) + j \in 1 .. Len(s) + Len(r) /\ ~(Len(s) + j <= Len(s))
        /\ (Len(s) + j) - Len(s) = j
    BY <1>1
  <2>. QED
    BY <1>2, <2>1
<1>5. ASSUME NEW i \in 1 .. Len(q)
      PROVE  \/ i \in 1 .. Len(s) /\ q[i] = s[i]
             \/ i - Len(s) \in 1 .. Len(r) /\ q[i] = r[i - Len(s)]
  BY <1>1, <1>2
<1>6. ASSUME NEW i \in 1 .. Len(q) PROVE t \in l[q[i]].accounts
  BY <1>5 DEF RowsOf
<1>7. ASSUME NEW i \in 1 .. Len(q), NEW j \in 1 .. Len(q), i < j PROVE q[j] < q[i]
  <2>0. i \in Nat /\ j \in Nat
    BY <1>1, <1>2
  <2>1. CASE j \in 1 .. Len(s)
    <3>1. i \in 1 .. Len(s)
      BY <1>1, <1>7, <2>1
    <3>2. q[i] = s[i] /\ q[j] = s[j] /\ s[j] < s[i]
      BY <1>3, <1>7, <2>1, <3>1 DEF RowsOf
    <3>. QED
      BY <3>2
  <2>2. CASE j \notin 1 .. Len(s)
    <3>1. j - Len(s) \in 1 .. Len(r) /\ q[j] = r[j - Len(s)]
      BY <1>5, <2>2
    <3>2. CASE i \in 1 .. Len(s)
      BY <1>3, <3>1, <3>2
    <3>3. CASE i \notin 1 .. Len(s)
      <4>1. i - Len(s) \in 1 .. Len(r) /\ q[i] = r[i - Len(s)]
        BY <1>5, <3>3
      <4>2. i - Len(s) < j - Len(s)
        BY <1>1, <1>7, <2>0
      <4>3. r[j - Len(s)] < r[i - Len(s)]
        BY <3>1, <4>1, <4>2 DEF RowsOf
      <4>. QED
        BY <3>1, <4>1, <4>3
    <3>. QED
      BY <3>2, <3>3
  <2>. QED
    BY <2>1, <2>2
<1>8. RowsOf(l, t, q)
  BY <1>2, <1>6, <1>7 DEF RowsOf
<1>. QED
  BY <1>2, <1>3, <1>4, <1>8 DEF q

(* A stretch and one that goes on just below it. *)
LEMMA StretchGoesOn ==
  ASSUME NEW l, Len(l) \in Nat, NEW t, NEW s, NEW r, IsStretch(l, t, s), IsStretch(l, t, r),
         s # <<>>, GoesOn(l, t, r, s[Len(s)])
  PROVE  IsStretch(l, t, s \o r)
<1>. DEFINE q == s \o r
<1>1. /\ s \in Seq(1 .. Len(l)) /\ Len(s) \in Nat \ {0}
      /\ r \in Seq(1 .. Len(l)) /\ Len(r) \in Nat
  BY EmptySeq DEF IsStretch, RowsOf
<1>2. ASSUME NEW i \in 1 .. Len(s), NEW j \in 1 .. Len(r) PROVE r[j] < s[i]
  <2>1. r[j] \in 1 .. Len(l) /\ s[i] \in 1 .. Len(l) /\ s[Len(s)] \in 1 .. Len(l)
    BY <1>1
  <2>2. r[j] < s[Len(s)]
    BY DEF GoesOn
  <2>3. s[Len(s)] <= s[i]
    BY RowsAreOrdered DEF IsStretch
  <2>. QED
    BY <2>1, <2>2, <2>3
<1>3. /\ RowsOf(l, t, q) /\ Len(q) = Len(s) + Len(r)
      /\ \A i \in 1 .. Len(s) : q[i] = s[i]
      /\ \A j \in 1 .. Len(r) : q[Len(s) + j] = r[j]
  BY <1>2, RowsJoin DEF IsStretch
<1>. HIDE DEF q
<1>4. ASSUME NEW n \in q[Len(q)] .. q[1], t \in l[n].accounts
      PROVE  \E i \in 1 .. Len(q) : q[i] = n
  <2>1. q[1] = s[1] /\ s[1] \in 1 .. Len(l) /\ s[Len(s)] \in 1 .. Len(l)
    BY <1>1, <1>3
  <2>2. Len(q) \in 1 .. Len(q) /\ q[Len(q)] \in 1 .. Len(l)
    BY <1>1, <1>3 DEF RowsOf
  <2>3. n \in 1 .. Len(l)
    BY <2>1, <2>2
  <2>4. CASE n >= s[Len(s)]
    <3>1. PICK i \in 1 .. Len(s) : s[i] = n
      BY <1>4, <2>1, <2>3, <2>4 DEF IsStretch, NoneMissing
    <3>. QED
      BY <1>1, <1>3, <3>1
  <2>5. CASE ~(n >= s[Len(s)])
    <3>1. n \in 1 .. s[Len(s)] - 1
      BY <2>1, <2>3, <2>5
    <3>2. r # <<>> /\ n <= r[1]
      BY <1>4, <3>1 DEF GoesOn
    <3>3. Len(r) \in 1 .. Len(r) /\ Len(q) = Len(s) + Len(r)
      BY <1>1, <1>3, <3>2, EmptySeq
    <3>4. q[Len(q)] = r[Len(r)] /\ r[1] \in 1 .. Len(l)
      BY <1>1, <1>3, <3>3
    <3>5. n \in r[Len(r)] .. r[1]
      BY <2>2, <2>3, <3>2, <3>4
    <3>6. PICK j \in 1 .. Len(r) : r[j] = n
      BY <1>4, <3>2, <3>5 DEF IsStretch, NoneMissing
    <3>7. Len(s) + j \in 1 .. Len(q) /\ q[Len(s) + j] = n
      BY <1>1, <1>3, <3>6
    <3>. QED
      BY <3>7
  <2>. QED
    BY <2>4, <2>5
<1>5. NoneMissing(l, t, q)
  BY <1>4 DEF NoneMissing
<1>. QED
  BY <1>3, <1>5 DEF IsStretch, q

(* A refresh that reaches the newest row that is there: above that one     *)
(* it is put before the rows.                                              *)
LEMMA RefreshReaches ==
  ASSUME NEW l, Len(l) \in Nat, NEW t, NEW s, NEW r, IsStretch(l, t, s), IsStretch(l, t, r),
         r # <<>>, NEW k \in 1 .. Len(s), s[k] = r[1]
  PROVE  IsStretch(l, t, SubSeq(s, 1, k - 1) \o r)
<1>. DEFINE p == SubSeq(s, 1, k - 1)
            q == p \o r
<1>1. /\ s \in Seq(1 .. Len(l)) /\ Len(s) \in Nat \ {0}
      /\ r \in Seq(1 .. Len(l)) /\ Len(r) \in Nat \ {0}
      /\ k \in 1 .. Len(s) /\ k - 1 \in 0 .. Len(s)
  BY EmptySeq DEF IsStretch, RowsOf
<1>2. Len(p) = k - 1 /\ \A i \in 1 .. k - 1 : p[i] = s[i]
  <2>1. \A i \in 1 .. k - 1 : s[i] \in 1 .. Len(l)
    BY <1>1
  <2>. QED
    BY <1>1, <2>1, SubSeqProperties
<1>3. IsStretch(l, t, p)
  BY <1>1, PrefixIsStretch
<1>. HIDE DEF p
<1>4. ASSUME NEW i \in 1 .. Len(p), NEW j \in 1 .. Len(r) PROVE r[j] < p[i]
  <2>1. i \in 1 .. Len(s) /\ i < k /\ p[i] = s[i]
    BY <1>1, <1>2
  <2>2. s[k] < s[i]
    BY <2>1 DEF IsStretch, RowsOf
  <2>3. r[j] <= r[1] /\ r[j] \in 1 .. Len(l) /\ r[1] \in 1 .. Len(l)
    BY RowsAreOrdered DEF IsStretch
  <2>4. s[i] \in 1 .. Len(l)
    BY <1>1, <2>1, ElementOfSeq, Zenon
  <2>. QED
    BY <2>1, <2>2, <2>3, <2>4
<1>5. /\ RowsOf(l, t, q) /\ Len(q) = (k - 1) + Len(r)
      /\ \A i \in 1 .. k - 1 : q[i] = s[i]
      /\ \A j \in 1 .. Len(r) : q[(k - 1) + j] = r[j]
  BY <1>2, <1>3, <1>4, RowsJoin DEF IsStretch
<1>. HIDE DEF q
<1>6. ASSUME NEW n \in q[Len(q)] .. q[1], t \in l[n].accounts
      PROVE  \E i \in 1 .. Len(q) : q[i] = n
  <2>0. s # <<>> /\ k \in Nat /\ Len(s) \in Nat /\ Len(r) \in Nat
    BY <1>1, EmptySeq
  <2>1. /\ s[1] \in 1 .. Len(l) /\ s[k] \in 1 .. Len(l)
        /\ s[Len(s)] \in 1 .. Len(l) /\ s[Len(s)] <= s[k]
    BY <2>0, RowsAreOrdered DEF IsStretch
  <2>2. /\ 1 \in 1 .. Len(r) /\ Len(r) \in 1 .. Len(r)
        /\ r[1] \in 1 .. Len(l) /\ r[Len(r)] \in 1 .. Len(l)
    BY RowsAreOrdered DEF IsStretch
  <2>3. q[Len(q)] = r[Len(r)]
    <3>1. q[(k - 1) + Len(r)] = r[Len(r)]
      BY <1>5, <2>2
    <3>. QED
      BY <1>5, <3>1
  <2>4. q[1] = s[1]
    <3>1. CASE k = 1
      <4>1. q[(1 - 1) + 1] = r[1]
        BY <1>5, <2>2, <3>1
      <4>. QED
        BY <3>1, <4>1
    <3>2. CASE k # 1
      BY <1>1, <1>5, <3>2
    <3>. QED
      BY <3>1, <3>2
  <2>5. n \in 1 .. Len(l)
    BY <2>1, <2>2, <2>3, <2>4
  <2>6. CASE n <= r[1]
    <3>1. n \in r[Len(r)] .. r[1]
      BY <2>2, <2>3, <2>5, <2>6
    <3>2. PICK j \in 1 .. Len(r) : r[j] = n
      BY <1>6, <3>1 DEF IsStretch, NoneMissing
    <3>3. q[(k - 1) + j] = n
      BY <1>5, <3>2
    <3>4. (k - 1) + j \in 1 .. Len(q)
      BY <1>1, <1>5, <2>0
    <3>. QED
      BY <3>3, <3>4
  <2>7. CASE ~(n <= r[1])
    <3>1. s[k] < n
      BY <2>1, <2>2, <2>5, <2>7
    <3>2. n \in s[Len(s)] .. s[1]
      BY <1>6, <2>1, <2>4, <2>5, <3>1
    <3>3. PICK i \in 1 .. Len(s) : s[i] = n
      BY <1>6, <2>0, <3>2 DEF IsStretch, NoneMissing
    <3>4. i < k
      BY <2>0, <3>1, <3>3, RowsAreOrdered DEF IsStretch
    <3>5. i \in 1 .. k - 1
      BY <2>0, <3>4
    <3>6. i \in 1 .. Len(q)
      BY <1>5, <2>0, <3>5
    <3>. QED
      BY <1>5, <3>3, <3>5, <3>6
  <2>. QED
    BY <2>6, <2>7
<1>7. NoneMissing(l, t, q)
  BY <1>6 DEF NoneMissing
<1>. QED
  BY <1>5, <1>7 DEF IsStretch, q, p

(* combineFetched keeps a stretch one: a page is joined to the rows only   *)
(* where it meets them.                                                    *)
LEMMA JoinedIsStretch ==
  ASSUME NEW l, Len(l) \in Nat, NEW t, NEW page, NEW current, NEW before,
         IsStretch(l, t, page), IsStretch(l, t, current),
         before # Tokens!Newest => GoesOn(l, t, page, before)
  PROVE  /\ IsStretch(l, t, Tokens!combineFetched(page, current, before))
         /\ page # <<>> => Tokens!combineFetched(page, current, before) # <<>>
<1>. DEFINE ends == {i \in DOMAIN page : page[i] = Head(current)}
            all == Tokens!combineFetched(page, current, before)
<1>1. /\ page \in Seq(1 .. Len(l)) /\ Len(page) \in Nat
      /\ current \in Seq(1 .. Len(l)) /\ Len(current) \in Nat
      /\ DOMAIN page = 1 .. Len(page)
  BY DEF IsStretch, RowsOf
<1>2. CASE all = page
  BY <1>2
<1>3. CASE current # <<>> /\ before = Tokens!Newest /\ ends # {}
  <2>1. all = SubSeq(page, 1, (CHOOSE i \in ends : TRUE) - 1) \o current
    BY <1>3 DEF Tokens!combineFetched
  <2>2. PICK k \in ends : k = CHOOSE i \in ends : TRUE
    BY <1>3, Zenon
  <2>3. Head(current) = current[1]
    BY <1>3
  <2>4. k \in 1 .. Len(page) /\ page[k] = current[1]
    BY <1>1, <2>2, <2>3
  <2>5. IsStretch(l, t, SubSeq(page, 1, k - 1) \o current)
    BY <1>3, <2>4, RefreshReaches
  <2>6. SubSeq(page, 1, k - 1) \in Seq(1 .. Len(l))
    <3>1. k - 1 \in 0 .. Len(page)
      BY <1>1, <2>4
    <3>. QED
      BY <3>1, PrefixIsStretch DEF IsStretch, RowsOf
  <2>7. SubSeq(page, 1, k - 1) \o current # <<>>
    BY <1>1, <1>3, <2>6, ConcatEqualIffEmpty, ConcatSimplifications
  <2>. QED
    BY <2>1, <2>2, <2>5, <2>7
<1>4. CASE current # <<>> /\ before # Tokens!Newest /\ Tokens!Last(current) = before
  <2>1. all = current \o page
    BY <1>4 DEF Tokens!combineFetched
  <2>2. Tokens!Last(current) = current[Len(current)]
    BY DEF Tokens!Last
  <2>3. IsStretch(l, t, current \o page)
    BY <1>4, <2>2, StretchGoesOn
  <2>4. current \o page # <<>>
    BY <1>1, <1>4, ConcatSimplifications
  <2>. QED
    BY <2>1, <2>3, <2>4
<1>5. \/ all = page
      \/ current # <<>> /\ before = Tokens!Newest /\ ends # {}
      \/ current # <<>> /\ before # Tokens!Newest /\ Tokens!Last(current) = before
  BY DEF Tokens!combineFetched
<1>. QED
  BY <1>2, <1>3, <1>4, <1>5

(* What the server answers is a stretch, and goes on below the row it was  *)
(* asked for; if it does not fill a page it has all there is.              *)
LEMMA PageIsStretch ==
  ASSUME TokenLimit \in Nat \ {0}, Len(ledger) \in Nat, NEW t,
         NEW before \in 0 .. Len(ledger), NEW upTo \in 0 .. Len(ledger),
         NEW page, page = Tokens!Page(t, before, upTo)
  PROVE  /\ IsStretch(ledger, t, page)
         /\ before # Tokens!Newest => GoesOn(ledger, t, page, before)
         /\ ~(Len(page) < TokenLimit) => page # <<>>
<1>. DEFINE top == IF before = Tokens!Newest THEN upTo ELSE before - 1
            rows == Tokens!rowsOf(t, top)
            m == IF Len(rows) < TokenLimit THEN Len(rows) ELSE TokenLimit
<1>1. top \in 0 .. Len(ledger)
  BY DEF Tokens!Newest
<1>2. RowsOf(ledger, t, rows) /\ AllUpTo(ledger, t, rows, top)
  BY <1>1, RowsUpToAreAll
<1>3. page = SubSeq(rows, 1, m)
  BY DEF Tokens!Page
<1>. HIDE DEF rows
<1>4. rows \in Seq(1 .. Len(ledger)) /\ Len(rows) \in Nat
  BY <1>2 DEF RowsOf
<1>5. m \in 0 .. Len(rows)
  BY <1>4
<1>6. IsStretch(ledger, t, rows)
  BY <1>1, <1>2, AllIsStretch
<1>7. IsStretch(ledger, t, page)
  BY <1>3, <1>5, <1>6, PrefixIsStretch
<1>8. Len(page) = m /\ \A i \in 1 .. m : page[i] = rows[i]
  <2>1. \A i \in 1 .. m : rows[i] \in 1 .. Len(ledger)
    BY <1>4
  <2>. HIDE DEF m
  <2>2. m \in Int
    BY <1>5
  <2>. QED
    BY <1>3, <1>5, <2>1, <2>2, SubSeqProperties
<1>9. ~(Len(page) < TokenLimit) => page # <<>>
  BY <1>4, <1>8
<1>10. ASSUME before # Tokens!Newest PROVE GoesOn(ledger, t, page, before)
  <2>1. top = before - 1 /\ before \in 1 .. Len(ledger)
    BY <1>10 DEF Tokens!Newest
  <2>2. ASSUME NEW i \in 1 .. Len(page) PROVE page[i] < before
    <3>1. i \in 1 .. Len(rows) /\ page[i] = rows[i]
      BY <1>4, <1>8
    <3>2. rows[i] <= top /\ rows[i] \in 1 .. Len(ledger)
      BY <1>2, <1>4, <3>1 DEF AllUpTo
    <3>. QED
      BY <2>1, <3>1, <3>2
  <2>3. ASSUME NEW n \in 1 .. before - 1, t \in ledger[n].accounts
        PROVE  page # <<>> /\ n <= page[1]
    <3>1. PICK i \in 1 .. Len(rows) : rows[i] = n
      BY <1>2, <2>1, <2>3 DEF AllUpTo
    <3>2. rows # <<>>
      BY <3>1
    <3>3. n <= rows[1]
      BY <1>2, <3>1, <3>2, RowsAreOrdered
    <3>4. 1 \in 1 .. m
      BY <1>4, <3>1
    <3>5. page[1] = rows[1] /\ Len(page) # 0
      BY <1>5, <1>8, <3>4
    <3>. QED
      BY <3>3, <3>5
  <2>. QED
    BY <2>2, <2>3 DEF GoesOn
<1>. QED
  BY <1>7, <1>9, <1>10

(* A transaction that lands is above all rows.                             *)
LEMMA StretchStays ==
  ASSUME NEW Txs, NEW l \in Seq(Txs), NEW tx \in Txs, NEW t, NEW s, IsStretch(l, t, s)
  PROVE  IsStretch(Append(l, tx), t, s)
<1>. DEFINE more == Append(l, tx)
<1>1. Len(l) \in Nat /\ Len(more) = Len(l) + 1 /\ \A n \in 1 .. Len(l) : more[n] = l[n]
  BY AppendProperties
<1>. HIDE DEF more
<1>2. s \in Seq(1 .. Len(l)) /\ Len(s) \in Nat
  BY DEF IsStretch, RowsOf
<1>3. s \in Seq(1 .. Len(more))
  <2>1. 1 .. Len(l) \subseteq 1 .. Len(more)
    BY <1>1
  <2>. QED
    BY <1>2, <2>1, SeqMonotonic
<1>4. ASSUME NEW i \in 1 .. Len(s) PROVE t \in more[s[i]].accounts
  <2>1. s[i] \in 1 .. Len(l)
    BY <1>2
  <2>. QED
    BY <1>1, <2>1 DEF IsStretch, RowsOf
<1>5. RowsOf(more, t, s)
  BY <1>3, <1>4 DEF IsStretch, RowsOf
<1>6. ASSUME s # <<>>, NEW n \in s[Len(s)] .. s[1], t \in more[n].accounts
      PROVE  \E i \in 1 .. Len(s) : s[i] = n
  <2>1. s[1] \in 1 .. Len(l) /\ s[Len(s)] \in 1 .. Len(l)
    BY <1>1, <1>6, RowsAreOrdered DEF IsStretch
  <2>2. n \in 1 .. Len(l)
    BY <2>1
  <2>3. t \in l[n].accounts
    BY <1>1, <1>6, <2>2
  <2>. QED
    BY <1>6, <2>3 DEF IsStretch, NoneMissing
<1>7. NoneMissing(more, t, s)
  BY <1>6 DEF NoneMissing
<1>. QED
  BY <1>5, <1>7 DEF IsStretch, more

-------------------------------------------------------------------------------
(* The inductive invariant of the table: whatever pages and refreshes      *)
(* overlapped, each history is a stretch of its account's transactions,    *)
(* and one whose end is still to be found has rows.                        *)
IsHistory(l, t, h) ==
  /\ h \in Tokens!History
  /\ IsStretch(l, t, h.fetched)
  /\ h.foundOldest \/ h.fetched # <<>>

IsEntry(l, t, e) ==
  /\ e = [status |-> e.status, data |-> e.data]
  /\ e.data = NoData \/ IsHistory(l, t, e.data)

HistoriesOf(l, c) ==
  /\ c = [url |-> tokenUrl, entries |-> c.entries]
  /\ c.entries = [t \in Token |-> c.entries[t]]
  /\ \A t \in Token : IsEntry(l, t, c.entries[t])

CallsOf(n) == [token : Token, before : 0 .. n, details : BOOLEAN, asked : 0 .. n]

LedgerType == ledger \in Seq(Tokens!Transaction) /\ Tokens!SlotsRise(ledger)

OwnedType == ownedTokens = [status |-> ownedTokens.status, data |-> ownedTokens.data]
               /\ ownedTokens.data \in Seq(Token) \cup {NoData}

TokensInv ==
  /\ LedgerType
  /\ OwnedType
  /\ HistoriesOf(ledger, tokenCache)
  /\ tokenCalls \in Seq(CallsOf(Len(ledger)))

(* What an update makes of the cache. *)
LEMMA TokenUpdate ==
  ASSUME NEW l, NEW c, HistoriesOf(l, c), NEW keys \in SUBSET Token, NEW status, NEW data,
         \A t \in keys : data[t] = NoData \/ IsHistory(l, t, data[t])
  PROVE  HistoriesOf(l, Tokens!UpdateAll(c, tokenUrl, keys, status, data))
<1>. DEFINE new == Tokens!UpdateAll(c, tokenUrl, keys, status, data)
            entryOf(t) == IF t \in keys THEN [status |-> status, data |-> data[t]]
                                        ELSE c.entries[t]
<1>1. /\ c = [url |-> tokenUrl, entries |-> c.entries]
      /\ \A t \in Token : IsEntry(l, t, c.entries[t])
  BY DEF HistoriesOf
<1>2. c.url = tokenUrl
  BY <1>1
<1>3. new = [c EXCEPT !.entries = [t \in Token |-> entryOf(t)]]
  BY <1>2 DEF Tokens!UpdateAll
<1>4. ASSUME NEW t \in Token PROVE IsEntry(l, t, entryOf(t))
  <2>1. CASE t \in keys
    <3>1. /\ entryOf(t) = [status |-> status, data |-> data[t]]
          /\ data[t] = NoData \/ IsHistory(l, t, data[t])
      BY <2>1
    <3>. HIDE DEF entryOf
    <3>2. entryOf(t).data = data[t] /\ entryOf(t).status = status
      BY <3>1
    <3>3. entryOf(t).data = NoData \/ IsHistory(l, t, entryOf(t).data)
      BY <3>1, <3>2, Zenon
    <3>4. entryOf(t) = [status |-> entryOf(t).status, data |-> entryOf(t).data]
      BY <3>1, <3>2
    <3>. QED
      BY <3>3, <3>4 DEF IsEntry
  <2>2. CASE t \notin keys
    BY <1>1, <2>2
  <2>. QED
    BY <2>1, <2>2
<1>. HIDE DEF new, entryOf
<1>5. new = [url |-> tokenUrl, entries |-> [t \in Token |-> entryOf(t)]]
  BY <1>1, <1>3
<1>6. new.entries = [t \in Token |-> entryOf(t)] /\ new = [url |-> tokenUrl, entries |-> new.entries]
  BY <1>5
<1>7. \A t \in Token : new.entries[t] = entryOf(t)
  BY <1>6
<1>8. new.entries = [t \in Token |-> new.entries[t]]
  BY <1>6
<1>9. \A t \in Token : IsEntry(l, t, new.entries[t])
  BY <1>4, <1>7, Zenon
<1>. QED
  BY <1>6, <1>8, <1>9 DEF HistoriesOf, new

(* The history of a token account. *)
LEMMA HistoryIs ==
  ASSUME HistoriesOf(ledger, tokenCache), NEW t \in Token
  PROVE  Tokens!history(t) = NoData \/ IsHistory(ledger, t, Tokens!history(t))
BY DEF HistoriesOf, IsEntry, Tokens!history

LEMMA LastIsARow ==
  ASSUME NEW l, NEW t, NEW h, IsHistory(l, t, h), h.fetched # <<>>, Len(l) \in Nat
  PROVE  Tokens!Last(h.fetched) \in 1 .. Len(l)
<1>1. /\ Len(h.fetched) \in 1 .. Len(h.fetched)
      /\ \A i \in 1 .. Len(h.fetched) : h.fetched[i] \in 1 .. Len(l)
  BY RowsAreOrdered DEF IsHistory, IsStretch
<1>. QED
  BY <1>1 DEF Tokens!Last

(* The calls an effect or a button asks for. *)
LEMMA WantedIs ==
  ASSUME Len(ledger) \in Nat, HistoriesOf(ledger, tokenCache),
         NEW list \in Seq(Token), NEW details \in BOOLEAN
  PROVE  Tokens!wanted(list, details) \in Seq(CallsOf(Len(ledger)))
<1>. DEFINE open == {t \in Token : \/ Tokens!history(t) = NoData
                                   \/ Tokens!history(t).fetched = <<>>
                                   \/ ~Tokens!history(t).foundOldest}
            more == Tokens!Among(list, open)
            beforeOf(t) == IF Tokens!history(t) = NoData \/ Tokens!history(t).fetched = <<>>
                           THEN Tokens!Newest ELSE Tokens!Last(Tokens!history(t).fetched)
<1>1. more \in Seq(Token)
  <2>. HIDE DEF open
  <2>. QED
    BY AmongIs
<1>. HIDE DEF more
<1>2. ASSUME NEW t \in Token PROVE beforeOf(t) \in 0 .. Len(ledger)
  <2>1. CASE Tokens!history(t) = NoData \/ Tokens!history(t).fetched = <<>>
    BY <2>1 DEF Tokens!Newest
  <2>2. CASE ~(Tokens!history(t) = NoData \/ Tokens!history(t).fetched = <<>>)
    <3>1. IsHistory(ledger, t, Tokens!history(t)) /\ Tokens!history(t).fetched # <<>>
      BY <2>2, HistoryIs
    <3>2. Tokens!Last(Tokens!history(t).fetched) \in 1 .. Len(ledger)
      BY <3>1, LastIsARow
    <3>. QED
      BY <2>2, <3>2
  <2>. QED
    BY <2>1, <2>2
<1>3. Tokens!wanted(list, details) =
        [k \in DOMAIN more |-> Tokens!Call(more[k], beforeOf(more[k]), details)]
  BY DEF Tokens!wanted, more
<1>. HIDE DEF beforeOf
<1>4. DOMAIN more = 1 .. Len(more) /\ Len(more) \in Nat
  BY <1>1
<1>5. ASSUME NEW k \in 1 .. Len(more)
      PROVE  Tokens!Call(more[k], beforeOf(more[k]), details) \in CallsOf(Len(ledger))
  <2>1. more[k] \in Token
    BY <1>1
  <2>2. beforeOf(more[k]) \in 0 .. Len(ledger)
    BY <1>2, <2>1
  <2>3. Len(ledger) \in 0 .. Len(ledger)
    OBVIOUS
  <2>. QED
    BY <2>1, <2>2, <2>3 DEF Tokens!Call, CallsOf
<1>. QED
  BY <1>3, <1>4, <1>5

LEMMA FilteredTokensAre ==
  ASSUME OwnedType
  PROVE  Tokens!tokens \in Seq(Token) /\ Tokens!filteredTokens \in Seq(Token)
<1>1. Tokens!tokens \in Seq(Token)
  BY DEF OwnedType, Tokens!tokens
<1>. QED
  BY <1>1, AmongIs DEF Tokens!filteredTokens

(* Calls that start leave the rows as they are.                            *)
LEMMA StartKeeps ==
  ASSUME TokensInv, NEW new \in Seq(CallsOf(Len(ledger))), Tokens!Start(new)
  PROVE  /\ HistoriesOf(ledger, tokenCache')
         /\ tokenCalls' \in Seq(CallsOf(Len(ledger)))
<1>. DEFINE keys == {new[k].token : k \in DOMAIN new}
            data == [t \in Token |-> Tokens!history(t)]
<1>1. tokenCache' = Tokens!UpdateAll(tokenCache, tokenUrl, keys, "Fetching", data)
  BY DEF Tokens!Start
<1>2. keys \in SUBSET Token
  <2>1. ASSUME NEW k \in DOMAIN new PROVE new[k].token \in Token
    <3>1. new[k] \in CallsOf(Len(ledger))
      OBVIOUS
    <3>. QED
      BY <3>1 DEF CallsOf
  <2>. QED
    BY <2>1
<1>3. ASSUME NEW t \in keys PROVE data[t] = NoData \/ IsHistory(ledger, t, data[t])
  <2>1. t \in Token /\ data[t] = Tokens!history(t)
    BY <1>2
  <2>2. Tokens!history(t) = NoData \/ IsHistory(ledger, t, Tokens!history(t))
    BY <2>1, HistoryIs DEF TokensInv
  <2>. QED
    BY <2>1, <2>2, Zenon
<1>. HIDE DEF keys, data
<1>4. HistoriesOf(ledger, tokenCache')
  BY <1>1, <1>2, <1>3, TokenUpdate DEF TokensInv
<1>5. tokenCalls' \in Seq(CallsOf(Len(ledger)))
  BY ConcatProperties DEF Tokens!Start, TokensInv
<1>. QED
  BY <1>4, <1>5

(* A call that ends brings a page, or none.                                *)
LEMMA ReconciledIsHistory ==
  ASSUME Tokens!ConstantsAssumption, Len(ledger) \in Nat, NEW t,
         NEW before \in 0 .. Len(ledger), NEW upTo \in 0 .. Len(ledger),
         NEW h, h = NoData \/ IsHistory(ledger, t, h)
  PROVE  IsHistory(ledger, t, Tokens!reconcile(h, Tokens!Page(t, before, upTo), before))
<1>. DEFINE page == Tokens!Page(t, before, upTo)
            new == Tokens!reconcile(h, page, before)
<1>1. /\ IsStretch(ledger, t, page)
      /\ before # Tokens!Newest => GoesOn(ledger, t, page, before)
      /\ ~(Len(page) < TokenLimit) => page # <<>>
  <2>1. TokenLimit \in Nat \ {0}
    BY DEF Tokens!ConstantsAssumption
  <2>. QED
    BY <2>1, PageIsStretch
<1>. HIDE DEF page, new
<1>2. ASSUME NEW s, IsStretch(ledger, t, s) PROVE s \in Seq(Nat)
  <2>1. s \in Seq(1 .. Len(ledger)) /\ 1 .. Len(ledger) \subseteq Nat
    BY <1>2 DEF IsStretch, RowsOf
  <2>. QED
    BY <2>1, SeqMonotonic, Zenon
<1>3. page \in Seq(Nat) /\ page # NoData
  BY <1>1, <1>2 DEF Tokens!ConstantsAssumption
<1>4. (Len(page) < TokenLimit) \in BOOLEAN
  OBVIOUS
<1>5. ASSUME NEW s, NEW b \in BOOLEAN, IsStretch(ledger, t, s), b \/ s # <<>>
      PROVE  IsHistory(ledger, t, [fetched |-> s, foundOldest |-> b])
  <2>1. s \in Seq(Nat)
    BY <1>2, <1>5
  <2>. QED
    BY <1>5, <2>1 DEF IsHistory, Tokens!History
<1>6. ASSUME h = NoData PROVE IsHistory(ledger, t, new)
  <2>1. new = [fetched |-> page, foundOldest |-> Len(page) < TokenLimit]
    BY <1>3, <1>6 DEF Tokens!reconcile, new
  <2>. QED
    BY <1>1, <1>4, <1>5, <2>1
<1>7. ASSUME h # NoData PROVE IsHistory(ledger, t, new)
  <2>. DEFINE all == Tokens!combineFetched(page, h.fetched, before)
              found == Len(page) < TokenLimit \/ h.foundOldest
  <2>1. new = [fetched |-> all, foundOldest |-> found]
    BY <1>3, <1>7 DEF Tokens!reconcile, new
  <2>2. IsStretch(ledger, t, h.fetched) /\ h.foundOldest \in BOOLEAN
    BY <1>7 DEF IsHistory, Tokens!History
  <2>3. IsStretch(ledger, t, all) /\ (page # <<>> => all # <<>>)
    <3>1. IsStretch(ledger, t, page) /\ (before # Tokens!Newest => GoesOn(ledger, t, page, before))
      BY <1>1
    <3>. QED
      BY <2>2, <3>1, JoinedIsStretch, Zenon
  <2>4. found \in BOOLEAN /\ (found \/ all # <<>>)
    BY <1>1, <1>4, <2>2, <2>3
  <2>. HIDE DEF all, found
  <2>. QED
    BY <1>5, <2>1, <2>3, <2>4
<1>. QED
  BY <1>6, <1>7 DEF page, new

LEMMA FinishKeeps ==
  ASSUME Tokens!ConstantsAssumption, TokensInv, NEW k \in DOMAIN tokenCalls, NEW status,
         NEW page \in {NoData} \cup Tokens!pages(k), Tokens!Finish(k, status, page)
  PROVE  /\ HistoriesOf(ledger, tokenCache')
         /\ tokenCalls' \in Seq(CallsOf(Len(ledger)))
<1>. DEFINE t == tokenCalls[k].token
            before == tokenCalls[k].before
            data == [u \in {t} |-> Tokens!reconcile(tokenCache.entries[u].data, page, before)]
<1>1. tokenCalls[k] \in CallsOf(Len(ledger)) /\ k \in 1 .. Len(tokenCalls) /\ Len(ledger) \in Nat
  BY DEF TokensInv, LedgerType
<1>2. t \in Token /\ before \in 0 .. Len(ledger) /\ tokenCalls[k].asked \in 0 .. Len(ledger)
  BY <1>1 DEF CallsOf
<1>3. tokenCache' = Tokens!UpdateAll(tokenCache, tokenUrl, {t}, status, data)
  BY DEF Tokens!Finish, Tokens!Dispatch
<1>4. tokenCalls' = Tokens!RemoveAt(tokenCalls, k)
  BY DEF Tokens!Finish
<1>5. Tokens!history(t) = NoData \/ IsHistory(ledger, t, Tokens!history(t))
  BY <1>2, HistoryIs DEF TokensInv
<1>6. data[t] = Tokens!reconcile(Tokens!history(t), page, before)
  BY DEF Tokens!history
<1>7. data[t] = NoData \/ IsHistory(ledger, t, data[t])
  <2>1. CASE page = NoData
    BY <1>5, <1>6, <2>1 DEF Tokens!reconcile
  <2>2. CASE page \in Tokens!pages(k)
    <3>1. PICK upTo \in tokenCalls[k].asked .. Len(ledger) : page = Tokens!Page(t, before, upTo)
      BY <2>2 DEF Tokens!pages
    <3>2. upTo \in 0 .. Len(ledger)
      BY <1>1, <1>2, <3>1
    <3>. HIDE DEF data, t, before
    <3>3. IsHistory(ledger, t, Tokens!reconcile(Tokens!history(t), page, before))
      BY <1>1, <1>2, <1>5, <3>1, <3>2, ReconciledIsHistory
    <3>. QED
      BY <1>6, <3>3
  <2>. QED
    BY <2>1, <2>2
<1>. HIDE DEF data, t, before
<1>8. HistoriesOf(ledger, tokenCache')
  <2>1. \A u \in {t} : data[u] = NoData \/ IsHistory(ledger, u, data[u])
    BY <1>7
  <2>2. {t} \in SUBSET Token
    BY <1>2
  <2>. QED
    BY <1>3, <2>1, <2>2, TokenUpdate DEF TokensInv
<1>9. tokenCalls' \in Seq(CallsOf(Len(ledger)))
  <2>. DEFINE C == CallsOf(Len(ledger))
  <2>1. tokenCalls \in Seq(C)
    BY DEF TokensInv
  <2>. HIDE DEF C
  <2>2. \A i \in 1 .. Len(tokenCalls) : tokenCalls[i] \in C
    BY <2>1
  <2>3. Len(tokenCalls) \in Nat /\ k \in Nat
    BY <1>1, <2>1
  <2>4. SubSeq(tokenCalls, 1, k - 1) \in Seq(C)
    <3>1. \A i \in 1 .. k - 1 : tokenCalls[i] \in C
      BY <1>1, <2>2, <2>3
    <3>. QED
      BY <2>3, <3>1, SubSeqProperties
  <2>5. SubSeq(tokenCalls, k + 1, Len(tokenCalls)) \in Seq(C)
    <3>1. \A i \in k + 1 .. Len(tokenCalls) : tokenCalls[i] \in C
      BY <1>1, <2>2, <2>3
    <3>. QED
      BY <2>3, <3>1, SubSeqProperties
  <2>. QED
    BY <1>4, <2>4, <2>5, ConcatProperties DEF Tokens!RemoveAt, C
<1>. QED
  BY <1>8, <1>9

(* A transaction lands: in no earlier slot, and above all rows.            *)
LEMMA LandKeeps ==
  ASSUME TokensInv, NEW accounts \in SUBSET Token, NEW slot \in Nat, Tokens!Land(accounts, slot)
  PROVE  /\ LedgerType'
         /\ HistoriesOf(ledger', tokenCache)
         /\ tokenCalls \in Seq(CallsOf(Len(ledger')))
<1>. DEFINE tx == [slot |-> slot, accounts |-> accounts]
            Txs == Tokens!Transaction
<1>1. tx \in Txs
  BY DEF Tokens!Transaction
<1>2. tx.slot = slot
  OBVIOUS
<1>. HIDE DEF tx, Txs
<1>3. ledger' = Append(ledger, tx)
  BY DEF Tokens!Land, tx
<1>4. ledger \in Seq(Txs) /\ Len(ledger) \in Nat
  BY DEF TokensInv, LedgerType, Txs
<1>5. /\ ledger' \in Seq(Txs) /\ Len(ledger') = Len(ledger) + 1
      /\ ledger'[Len(ledger) + 1] = tx
      /\ \A n \in 1 .. Len(ledger) : ledger'[n] = ledger[n]
  BY <1>1, <1>3, <1>4, AppendProperties
<1>6. ASSUME NEW n \in 1 .. Len(ledger) PROVE ledger[n].slot \in Nat
  <2>1. ledger[n] \in Txs
    BY <1>4, ElementOfSeq, Zenon
  <2>. QED
    BY <2>1 DEF Txs, Tokens!Transaction
<1>7. ASSUME NEW n \in 1 .. Len(ledger) PROVE ledger[n].slot <= slot
  <2>1. ledger # <<>> /\ Len(ledger) \in 1 .. Len(ledger)
    BY <1>4
  <2>2. slot \in {Tokens!Last(ledger).slot, Tokens!Last(ledger).slot + 1}
    BY <2>1 DEF Tokens!Land
  <2>3. Tokens!Last(ledger) = ledger[Len(ledger)]
    BY DEF Tokens!Last
  <2>4. n <= Len(ledger)
    BY <1>4
  <2>5. ledger[n].slot <= ledger[Len(ledger)].slot
    BY <2>1, <2>4 DEF TokensInv, LedgerType, Tokens!SlotsRise
  <2>6. ledger[n].slot \in Nat /\ ledger[Len(ledger)].slot \in Nat
    BY <1>6, <2>1
  <2>. QED
    BY <2>2, <2>3, <2>5, <2>6
<1>8. ASSUME NEW i \in 1 .. Len(ledger'), NEW j \in 1 .. Len(ledger'), i <= j
      PROVE  ledger'[i].slot <= ledger'[j].slot
  <2>1. CASE j \in 1 .. Len(ledger)
    <3>1. i \in 1 .. Len(ledger)
      BY <1>4, <1>5, <1>8, <2>1
    <3>2. ledger'[i] = ledger[i] /\ ledger'[j] = ledger[j]
      BY <1>5, <2>1, <3>1
    <3>. QED
      BY <1>8, <2>1, <3>1, <3>2 DEF TokensInv, LedgerType, Tokens!SlotsRise
  <2>2. CASE j = Len(ledger) + 1
    <3>1. ledger'[j].slot = slot
      BY <1>2, <1>5, <2>2
    <3>2. CASE i = Len(ledger) + 1
      BY <1>2, <1>5, <3>1, <3>2
    <3>3. CASE i # Len(ledger) + 1
      <4>1. i \in 1 .. Len(ledger)
        BY <1>4, <1>5, <3>3
      <4>2. ledger'[i].slot = ledger[i].slot
        BY <1>5, <4>1
      <4>. QED
        BY <1>7, <3>1, <4>1, <4>2
    <3>. QED
      BY <3>2, <3>3
  <2>3. j \in 1 .. Len(ledger) \/ j = Len(ledger) + 1
    BY <1>4, <1>5
  <2>. QED
    BY <2>1, <2>2, <2>3
<1>9. LedgerType'
  BY <1>5, <1>8 DEF LedgerType, Txs, Tokens!SlotsRise, Tokens!Transaction
<1>10. HistoriesOf(ledger', tokenCache)
  <2>1. ASSUME NEW t, NEW h, IsHistory(ledger, t, h) PROVE IsHistory(ledger', t, h)
    BY <1>1, <1>3, <1>4, <2>1, StretchStays DEF IsHistory
  <2>. QED
    BY <2>1 DEF TokensInv, HistoriesOf, IsEntry
<1>11. tokenCalls \in Seq(CallsOf(Len(ledger')))
  <2>1. 0 .. Len(ledger) \subseteq 0 .. Len(ledger')
    BY <1>4, <1>5
  <2>2. CallsOf(Len(ledger)) \subseteq CallsOf(Len(ledger'))
    BY <2>1 DEF CallsOf
  <2>. QED
    BY <2>2, SeqMonotonic DEF TokensInv
<1>. QED
  BY <1>9, <1>10, <1>11

LEMMA FetchKeeps ==
  ASSUME TokensInv, NEW refresh \in BOOLEAN, Tokens!fetchHistories(refresh)
  PROVE  /\ HistoriesOf(ledger, tokenCache')
         /\ tokenCalls' \in Seq(CallsOf(Len(ledger)))
<1>1. Tokens!filteredTokens \in Seq(Token)
  BY FilteredTokensAre DEF TokensInv
<1>2. Tokens!wanted(Tokens!filteredTokens, refresh) \in Seq(CallsOf(Len(ledger)))
  BY <1>1, WantedIs DEF TokensInv, LedgerType
<1>. QED
  BY <1>2, StartKeeps DEF Tokens!fetchHistories

LEMMA MountKeeps ==
  ASSUME TokensInv, Tokens!MountEffects
  PROVE  /\ HistoriesOf(ledger, tokenCache')
         /\ tokenCalls' \in Seq(CallsOf(Len(ledger)))
<1>. DEFINE absent == {t \in Token : tokenCache.entries[t] = Tokens!Absent}
            first == Tokens!wanted(Tokens!Among(Tokens!filteredTokens, absent), TRUE)
            second == IF Tokens!fetchesAgain THEN Tokens!wanted(Tokens!filteredTokens, FALSE)
                                             ELSE <<>>
<1>1. Tokens!Start(first \o second)
  BY DEF Tokens!MountEffects
<1>2. Tokens!filteredTokens \in Seq(Token) /\ Len(ledger) \in Nat
  BY FilteredTokensAre DEF TokensInv, LedgerType
<1>3. first \in Seq(CallsOf(Len(ledger)))
  <2>. HIDE DEF absent
  <2>1. Tokens!Among(Tokens!filteredTokens, absent) \in Seq(Token)
    BY <1>2, AmongIs
  <2>. QED
    BY <1>2, <2>1, WantedIs DEF TokensInv
<1>4. second \in Seq(CallsOf(Len(ledger)))
  <2>1. Tokens!wanted(Tokens!filteredTokens, FALSE) \in Seq(CallsOf(Len(ledger)))
    BY <1>2, WantedIs DEF TokensInv
  <2>2. <<>> \in Seq(CallsOf(Len(ledger)))
    BY EmptySeq
  <2>. QED
    BY <2>1, <2>2, Zenon
<1>. HIDE DEF first, second
<1>5. first \o second \in Seq(CallsOf(Len(ledger)))
  BY <1>3, <1>4, ConcatProperties
<1>. QED
  BY <1>1, <1>5, StartKeeps

LEMMA EmptyHistories == HistoriesOf(ledger, Tokens!Clear(tokenUrl))
<1>1. Tokens!Clear(tokenUrl) = [url |-> tokenUrl, entries |-> [t \in Token |-> Tokens!Absent]]
  BY DEF Tokens!Clear
<1>2. \A t \in Token : IsEntry(ledger, t, Tokens!Absent)
  BY DEF IsEntry, Tokens!Absent
<1>. QED
  BY <1>1, <1>2 DEF HistoriesOf

LEMMA TokensInitially ==
  ASSUME Tokens!ConstantsAssumption, Tokens!Init
  PROVE  TokensInv
<1>1. LedgerType
  BY DEF Tokens!Init, Tokens!ConstantsAssumption, LedgerType
<1>2. OwnedType
  BY DEF Tokens!Init, Tokens!Absent, OwnedType
<1>3. HistoriesOf(ledger, tokenCache)
  BY EmptyHistories DEF Tokens!Init
<1>4. tokenCalls \in Seq(CallsOf(Len(ledger)))
  BY DEF Tokens!Init
<1>. QED
  BY <1>1, <1>2, <1>3, <1>4 DEF TokensInv

LEMMA TokensStep ==
  ASSUME Tokens!ConstantsAssumption, TokensInv, [Tokens!Next]_Tokens!vars
  PROVE  TokensInv'
<1>1. ASSUME NEW accounts \in SUBSET Token, NEW slot \in 1 .. MaxLedger,
             Tokens!Land(accounts, slot)
      PROVE  TokensInv'
  <2>1. slot \in Nat
    BY DEF Tokens!ConstantsAssumption
  <2>2. UNCHANGED <<ownedTokens, tokenCache, tokenCalls>>
    BY <1>1 DEF Tokens!Land
  <2>3. LedgerType' /\ HistoriesOf(ledger', tokenCache) /\ tokenCalls \in Seq(CallsOf(Len(ledger')))
    BY <1>1, <2>1, LandKeeps
  <2>. QED
    BY <2>2, <2>3 DEF TokensInv, OwnedType
<1>2. ASSUME ledger' = ledger, ownedTokens' = ownedTokens,
             HistoriesOf(ledger, tokenCache'), tokenCalls' \in Seq(CallsOf(Len(ledger)))
      PROVE  TokensInv'
  BY <1>2 DEF TokensInv, LedgerType, OwnedType
<1>3. CASE Tokens!MountEffects
  BY <1>2, <1>3, MountKeeps DEF Tokens!MountEffects
<1>4. CASE Tokens!FetchEffect
  BY <1>2, <1>4, FetchKeeps DEF Tokens!FetchEffect
<1>5. CASE Tokens!Refresh
  BY <1>2, <1>5, FetchKeeps DEF Tokens!Refresh
<1>6. CASE Tokens!LoadMore
  BY <1>2, <1>6, FetchKeeps DEF Tokens!LoadMore
<1>7. ASSUME UNCHANGED <<ledger, tokenCache, tokenCalls>>, OwnedType' PROVE TokensInv'
  BY <1>7 DEF TokensInv, LedgerType
<1>8. CASE Tokens!OpenPage
  <2>1. OwnedType'
    BY <1>8 DEF Tokens!OpenPage, Tokens!Absent, TokensInv, OwnedType
  <2>. QED
    BY <1>7, <1>8, <2>1 DEF Tokens!OpenPage
<1>9. CASE Tokens!OwnedAnswer
  <2>1. OwnedType'
    BY <1>9 DEF Tokens!OwnedAnswer, Tokens!ConstantsAssumption, OwnedType
  <2>. QED
    BY <1>7, <1>9, <2>1 DEF Tokens!OwnedAnswer
<1>10. CASE Tokens!OwnedFail
  <2>1. OwnedType'
    BY <1>10 DEF Tokens!OwnedFail, TokensInv, OwnedType
  <2>. QED
    BY <1>7, <1>10, <2>1 DEF Tokens!OwnedFail
<1>11. CASE Tokens!RetryOwned
  <2>1. OwnedType'
    BY <1>11 DEF Tokens!RetryOwned, TokensInv, OwnedType
  <2>. QED
    BY <1>7, <1>11, <2>1 DEF Tokens!RetryOwned
<1>12. CASE Tokens!ClosePage \/ (\E mint \in Filters : Tokens!SetFilter(mint))
  BY <1>7, <1>12 DEF Tokens!ClosePage, Tokens!SetFilter, TokensInv, OwnedType
<1>13. ASSUME NEW k \in 1 .. MaxCalls, Tokens!Answer(k) PROVE TokensInv'
  <2>1. PICK status : \E page \in {NoData} \cup Tokens!pages(k) : Tokens!Finish(k, status, page)
    <3>1. CASE Tokens!Succeed(k)
      <4>1. PICK page \in Tokens!pages(k) : Tokens!Finish(k, "Fetched", page)
        BY <3>1 DEF Tokens!Succeed
      <4>. QED
        BY <4>1
    <3>2. CASE Tokens!Fail(k)
      <4>1. PICK page \in {NoData} \cup (IF tokenCalls[k].details THEN Tokens!pages(k) \ {<<>>}
                                                                   ELSE {}) :
              Tokens!Finish(k, "FetchFailed", page)
        BY <3>2 DEF Tokens!Fail
      <4>2. page \in {NoData} \cup Tokens!pages(k)
        BY <4>1
      <4>. QED
        BY <4>1, <4>2
    <3>. QED
      BY <1>13, <3>1, <3>2 DEF Tokens!Answer
  <2>2. PICK page \in {NoData} \cup Tokens!pages(k) : Tokens!Finish(k, status, page)
    BY <2>1
  <2>3. k \in DOMAIN tokenCalls
    BY <1>13 DEF Tokens!Answer
  <2>4. HistoriesOf(ledger, tokenCache') /\ tokenCalls' \in Seq(CallsOf(Len(ledger)))
    BY <2>2, <2>3, FinishKeeps
  <2>. QED
    BY <1>2, <2>2, <2>4 DEF Tokens!Finish
<1>14. CASE UNCHANGED Tokens!vars
  BY <1>14 DEF Tokens!vars, TokensInv, LedgerType, OwnedType
<1>. QED
  BY <1>1, <1>3, <1>4, <1>5, <1>6, <1>8, <1>9, <1>10, <1>11, <1>12, <1>13, <1>14 DEF Tokens!Next

-------------------------------------------------------------------------------
(* The rows that are shown. *)

LEMMA FetchedIs ==
  ASSUME TokensInv, NEW t \in Token, NEW i \in Tokens!fetchedOf(t)
  PROVE  /\ Tokens!history(t) # NoData
         /\ i \in 1 .. Len(ledger) /\ t \in ledger[i].accounts
<1>1. Tokens!history(t) # NoData /\ i \in Tokens!ToSet(Tokens!history(t).fetched)
  BY DEF Tokens!fetchedOf
<1>2. RowsOf(ledger, t, Tokens!history(t).fetched)
  BY <1>1, HistoryIs DEF TokensInv, IsHistory, IsStretch
<1>3. PICK n \in 1 .. Len(Tokens!history(t).fetched) : i = Tokens!history(t).fetched[n]
  <2>. DEFINE rows == Tokens!history(t).fetched
  <2>1. i \in {rows[n] : n \in DOMAIN rows}
    BY <1>1 DEF Tokens!ToSet
  <2>2. DOMAIN rows = 1 .. Len(rows)
    BY <1>2 DEF RowsOf
  <2>. QED
    BY <2>1, <2>2, Zenon
<1>. QED
  BY <1>1, <1>2, <1>3 DEF RowsOf

(* The first token of the filter that has a transaction. *)
FirstWith(k, i) ==
  /\ k \in DOMAIN Tokens!tokens /\ Tokens!tokens[k] \in Tokens!filtered
  /\ i \in Tokens!fetchedOf(Tokens!tokens[k])
  /\ \A j \in DOMAIN Tokens!tokens :
       Tokens!tokens[j] \in Tokens!filtered /\ j < k => i \notin Tokens!fetchedOf(Tokens!tokens[j])

LEMMA RowsShown ==
  /\ \A row \in Tokens!mintAndTxs :
       \E k \in DOMAIN Tokens!tokens :
         FirstWith(k, row.tx) /\ row = [mint |-> MintOf[Tokens!tokens[k]], tx |-> row.tx]
  /\ \A k \in DOMAIN Tokens!tokens : \A i :
       FirstWith(k, i) /\ Tokens!oldestSlot # NoData /\ ledger[i].slot >= Tokens!oldestSlot =>
         [mint |-> MintOf[Tokens!tokens[k]], tx |-> i] \in Tokens!mintAndTxs
<1>. DEFINE list == {k \in DOMAIN Tokens!tokens : Tokens!tokens[k] \in Tokens!filtered}
            shown(k) == Tokens!fetchedOf(Tokens!tokens[k]) \
                          UNION {Tokens!fetchedOf(Tokens!tokens[j]) : j \in {l \in list : l < k}}
            of(k) == {[mint |-> MintOf[Tokens!tokens[k]], tx |-> tx] :
                        tx \in {i \in shown(k) : ledger[i].slot >= Tokens!oldestSlot}}
<1>1. Tokens!mintAndTxs = IF Tokens!oldestSlot = NoData THEN {} ELSE UNION {of(k) : k \in list}
  BY DEF Tokens!mintAndTxs
<1>2. \A k \in DOMAIN Tokens!tokens : \A i : FirstWith(k, i) <=> k \in list /\ i \in shown(k)
  BY Zenon DEF FirstWith
<1>3. ASSUME NEW row \in Tokens!mintAndTxs
      PROVE  \E k \in DOMAIN Tokens!tokens :
               FirstWith(k, row.tx) /\ row = [mint |-> MintOf[Tokens!tokens[k]], tx |-> row.tx]
  <2>1. PICK k \in list : row \in of(k)
    BY <1>1, <1>3, Zenon
  <2>2. PICK i \in shown(k) : row = [mint |-> MintOf[Tokens!tokens[k]], tx |-> i]
    BY <2>1, Zenon
  <2>3. row.tx = i
    BY <2>2
  <2>. QED
    BY <1>2, <2>1, <2>2, <2>3, Zenon
<1>4. ASSUME NEW k \in DOMAIN Tokens!tokens, NEW i, FirstWith(k, i),
             Tokens!oldestSlot # NoData, ledger[i].slot >= Tokens!oldestSlot
      PROVE  [mint |-> MintOf[Tokens!tokens[k]], tx |-> i] \in Tokens!mintAndTxs
  <2>1. k \in list /\ i \in shown(k)
    BY <1>2, <1>4, Zenon
  <2>2. [mint |-> MintOf[Tokens!tokens[k]], tx |-> i] \in of(k)
    BY <1>4, <2>1, Zenon
  <2>3. Tokens!mintAndTxs = UNION {of(l) : l \in list}
    BY <1>1, <1>4, Zenon
  <2>. HIDE DEF of, list
  <2>. QED
    BY <2>1, <2>2, <2>3, Zenon
<1>. QED
  BY <1>3, <1>4, Zenon

LEMMA FilteredIs ==
  ASSUME TokensInv
  PROVE  /\ DOMAIN Tokens!tokens \in SUBSET Nat
         /\ \A k \in DOMAIN Tokens!tokens : Tokens!tokens[k] \in Token
         /\ \A t \in Tokens!filtered : t \in Token /\ \E k \in DOMAIN Tokens!tokens : Tokens!tokens[k] = t
<1>1. Tokens!tokens \in Seq(Token)
  BY FilteredTokensAre DEF TokensInv
<1>2. ASSUME NEW t \in Tokens!filtered PROVE \E k \in DOMAIN Tokens!tokens : Tokens!tokens[k] = t
  BY Zenon DEF Tokens!filtered, Tokens!ToSet
<1>. QED
  BY <1>1, <1>2

LEMMA RowsAreOfMint ==
  ASSUME TokensInv
  PROVE  Tokens!RowsAreOfTheirMint
<1>1. ASSUME NEW row \in Tokens!mintAndTxs, NEW other \in Tokens!mintAndTxs, other.tx = row.tx
      PROVE  other = row
  <2>1. PICK k \in DOMAIN Tokens!tokens :
          FirstWith(k, row.tx) /\ row = [mint |-> MintOf[Tokens!tokens[k]], tx |-> row.tx]
    BY RowsShown
  <2>2. PICK j \in DOMAIN Tokens!tokens :
          FirstWith(j, other.tx) /\ other = [mint |-> MintOf[Tokens!tokens[j]], tx |-> other.tx]
    BY RowsShown
  <2>3. k \in Nat /\ j \in Nat
    BY FilteredIs
  <2>4. ~(j < k) /\ ~(k < j)
    BY <1>1, <2>1, <2>2 DEF FirstWith
  <2>5. j = k
    BY <2>3, <2>4
  <2>. QED
    BY <1>1, <2>1, <2>2, <2>5
<1>2. ASSUME NEW row \in Tokens!mintAndTxs
      PROVE  \E t \in Tokens!filtered : MintOf[t] = row.mint /\ t \in ledger[row.tx].accounts
  <2>1. PICK k \in DOMAIN Tokens!tokens :
          FirstWith(k, row.tx) /\ row = [mint |-> MintOf[Tokens!tokens[k]], tx |-> row.tx]
    BY RowsShown
  <2>2. row.mint = MintOf[Tokens!tokens[k]]
    BY <2>1
  <2>3. Tokens!tokens[k] \in Token
    BY FilteredIs
  <2>4. Tokens!tokens[k] \in Tokens!filtered /\ row.tx \in Tokens!fetchedOf(Tokens!tokens[k])
    BY <2>1 DEF FirstWith
  <2>5. Tokens!tokens[k] \in ledger[row.tx].accounts
    BY <2>3, <2>4, FetchedIs
  <2>. QED
    BY <2>2, <2>4, <2>5
<1>. QED
  BY <1>1, <1>2 DEF Tokens!RowsAreOfTheirMint

(* The slots of a ledger: naturals, of which the last is the greatest.     *)
LEMMA SlotsAre ==
  ASSUME LedgerType
  PROVE  /\ Len(ledger) \in Nat
         /\ \A i \in 1 .. Len(ledger) :
              ledger[i].slot \in Nat /\ ledger[i].slot <= ledger[Len(ledger)].slot
         /\ \A i, j \in 1 .. Len(ledger) : i <= j => ledger[i].slot <= ledger[j].slot
<1>1. ledger \in Seq(Tokens!Transaction) /\ Len(ledger) \in Nat
  BY DEF LedgerType
<1>2. ASSUME NEW i \in 1 .. Len(ledger) PROVE ledger[i].slot \in Nat
  <2>1. ledger[i] \in Tokens!Transaction
    BY <1>1, ElementOfSeq, Zenon
  <2>. QED
    BY <2>1 DEF Tokens!Transaction
<1>3. ASSUME NEW i \in 1 .. Len(ledger), NEW j \in 1 .. Len(ledger), i <= j
      PROVE  ledger[i].slot <= ledger[j].slot
  BY <1>3 DEF LedgerType, Tokens!SlotsRise
<1>4. ASSUME NEW i \in 1 .. Len(ledger) PROVE ledger[i].slot <= ledger[Len(ledger)].slot
  <2>1. Len(ledger) \in 1 .. Len(ledger) /\ i <= Len(ledger)
    BY <1>1
  <2>. QED
    BY <1>3, <2>1
<1>. QED
  BY <1>1, <1>2, <1>3, <1>4

(* The oldest slot is no lower than where any history that goes on ends.   *)
LEMMA OldestSlotIs ==
  ASSUME TokensInv, Tokens!oldestSlot # NoData
  PROVE  /\ Tokens!oldestSlot \in Nat
         /\ \A t \in Tokens!filtered :
              /\ Tokens!history(t) # NoData
              /\ ~Tokens!history(t).foundOldest =>
                   ledger[Tokens!Last(Tokens!history(t).fetched)].slot <= Tokens!oldestSlot
<1>1. CASE Tokens!allFoundOldest
  <2>1. Tokens!oldestSlot = 0
    BY <1>1 DEF Tokens!oldestSlot
  <2>. QED
    BY <1>1, <2>1 DEF Tokens!allFoundOldest
<1>2. CASE ~Tokens!allFoundOldest
  <2>1. Tokens!allFetchedSome /\ Tokens!oldestSlot = Tokens!Max(Tokens!earliest)
    BY <1>2 DEF Tokens!oldestSlot
  <2>2. \A t \in Tokens!filtered : Tokens!history(t) # NoData
    BY <2>1 DEF Tokens!allFetchedSome
  <2>3. PICK u \in Tokens!filtered : ~Tokens!history(u).foundOldest
    BY <1>2, <2>2 DEF Tokens!allFoundOldest
  <2>4. ASSUME NEW t \in Tokens!filtered, ~Tokens!history(t).foundOldest
        PROVE  Tokens!Last(Tokens!history(t).fetched) \in 1 .. Len(ledger)
    <3>1. t \in Token
      BY FilteredIs
    <3>2. IsHistory(ledger, t, Tokens!history(t))
      BY <2>2, <3>1, HistoryIs DEF TokensInv
    <3>3. Tokens!history(t).fetched # <<>>
      BY <2>4, <3>2 DEF IsHistory
    <3>4. Len(ledger) \in Nat
      BY SlotsAre DEF TokensInv
    <3>. QED
      BY <3>2, <3>3, <3>4, LastIsARow
  <2>5. ASSUME NEW t \in Tokens!filtered, ~Tokens!history(t).foundOldest
        PROVE  ledger[Tokens!Last(Tokens!history(t).fetched)].slot \in Tokens!earliest
    BY <2>5, Zenon DEF Tokens!earliest
  <2>6. Len(ledger) \in 1 .. Len(ledger) /\ ledger[Len(ledger)].slot \in Nat
    <3>1. Len(ledger) \in Nat
      BY SlotsAre DEF TokensInv
    <3>2. Len(ledger) \in 1 .. Len(ledger)
      BY <2>3, <2>4, <3>1
    <3>. QED
      BY <3>2, SlotsAre DEF TokensInv
  <2>7. ASSUME NEW x \in Tokens!earliest
        PROVE  x \in Nat /\ x <= ledger[Len(ledger)].slot
    <3>1. PICK t \in Tokens!filtered : /\ ~Tokens!history(t).foundOldest
                                       /\ x = ledger[Tokens!Last(Tokens!history(t).fetched)].slot
      BY <2>7, Zenon DEF Tokens!earliest
    <3>. QED
      BY <2>4, <3>1, SlotsAre DEF TokensInv
  <2>8. Tokens!earliest # {} /\ Tokens!earliest \in SUBSET Nat
    BY <2>3, <2>5, <2>7
  <2>9. /\ Tokens!Max(Tokens!earliest) \in Tokens!earliest
        /\ \A x \in Tokens!earliest : x <= Tokens!Max(Tokens!earliest)
    BY <2>6, <2>7, <2>8, GreatestOf
  <2>. QED
    BY <2>1, <2>2, <2>5, <2>8, <2>9
<1>. QED
  BY <1>1, <1>2

(* Down to the oldest slot the histories are whole: what is above it, and  *)
(* no newer than the newest row, has a row.                                *)
LEMMA FetchedSinceOldestSlot ==
  ASSUME TokensInv, Tokens!oldestSlot # NoData, NEW t \in Tokens!filtered,
         Tokens!FoundOldest(t), Tokens!history(t).fetched # <<>>,
         NEW i \in 1 .. Head(Tokens!history(t).fetched),
         t \in ledger[i].accounts, ledger[i].slot > Tokens!oldestSlot
  PROVE  i \in Tokens!fetchedOf(t)
<1>. DEFINE rows == Tokens!history(t).fetched
            last == Tokens!Last(rows)
<1>1. t \in Token /\ Tokens!history(t) # NoData
  BY FilteredIs, OldestSlotIs
<1>2. IsHistory(ledger, t, Tokens!history(t)) /\ IsStretch(ledger, t, rows)
  BY <1>1, HistoryIs DEF TokensInv, IsHistory
<1>3. Len(ledger) \in Nat
  BY SlotsAre DEF TokensInv
<1>4. /\ rows[1] \in 1 .. Len(ledger) /\ rows[Len(rows)] \in 1 .. Len(ledger)
      /\ last = rows[Len(rows)] /\ DOMAIN rows = 1 .. Len(rows)
  <2>1. 1 \in 1 .. Len(rows) /\ Len(rows) \in 1 .. Len(rows)
    BY <1>2, <1>3, RowsAreOrdered DEF IsStretch
  <2>2. rows[1] \in 1 .. Len(ledger) /\ rows[Len(rows)] \in 1 .. Len(ledger)
    BY <1>2, <1>3, <2>1, RowsAreOrdered DEF IsStretch
  <2>3. DOMAIN rows = 1 .. Len(rows)
    BY <1>2 DEF IsStretch, RowsOf
  <2>. QED
    BY <2>2, <2>3 DEF Tokens!Last
<1>5. Head(rows) = rows[1]
  <2>1. rows \in Seq(1 .. Len(ledger))
    BY <1>2 DEF IsStretch, RowsOf
  <2>. QED
    BY <2>1
<1>6. i \in 1 .. Len(ledger) /\ i <= rows[1]
  BY <1>3, <1>4, <1>5
<1>7. i >= last
  <2>1. SUFFICES ASSUME i < last PROVE FALSE
    BY <1>4, <1>6
  <2>2. CASE Tokens!history(t).foundOldest
    <3>1. Tokens!rowsOf(t, last - 1) = <<>>
      BY <2>2 DEF Tokens!FoundOldest
    <3>2. last - 1 \in 0 .. Len(ledger)
      BY <1>3, <1>4
    <3>3. AllUpTo(ledger, t, <<>>, last - 1)
      BY <1>3, <3>1, <3>2, RowsUpToAreAll
    <3>4. i \in 1 .. last - 1
      BY <1>4, <1>6, <2>1
    <3>5. Len(<<>>) = 0
      OBVIOUS
    <3>. QED
      BY <3>3, <3>4, <3>5 DEF AllUpTo
  <2>3. CASE ~Tokens!history(t).foundOldest
    <3>1. ledger[last].slot <= Tokens!oldestSlot /\ Tokens!oldestSlot \in Nat
      BY <2>3, OldestSlotIs
    <3>2. ledger[i].slot <= ledger[last].slot
      BY <1>4, <1>6, <2>1, SlotsAre DEF TokensInv
    <3>3. ledger[i].slot \in Nat /\ ledger[last].slot \in Nat
      BY <1>4, <1>6, SlotsAre DEF TokensInv
    <3>. QED
      BY <3>1, <3>2, <3>3
  <2>. QED
    BY <2>2, <2>3
<1>8. PICK n \in 1 .. Len(rows) : rows[n] = i
  BY <1>2, <1>4, <1>6, <1>7 DEF IsStretch, NoneMissing
<1>. QED
  BY <1>1, <1>4, <1>8, Zenon DEF Tokens!fetchedOf, Tokens!ToSet

LEMMA ShownSince ==
  ASSUME TokensInv
  PROVE  Tokens!ShownSinceOldestSlot
<1>1. SUFFICES ASSUME Tokens!oldestSlot # NoData,
                      \A t \in Tokens!filtered : Tokens!FoundOldest(t),
                      NEW t \in Tokens!filtered, Tokens!history(t).fetched # <<>>,
                      NEW i \in 1 .. Head(Tokens!history(t).fetched),
                      t \in ledger[i].accounts, ledger[i].slot > Tokens!oldestSlot
               PROVE  \E row \in Tokens!mintAndTxs : row.tx = i
  BY Zenon DEF Tokens!ShownSinceOldestSlot
<1>2. i \in Tokens!fetchedOf(t)
  BY <1>1, FetchedSinceOldestSlot
<1>. DEFINE with == {k \in DOMAIN Tokens!tokens : /\ Tokens!tokens[k] \in Tokens!filtered
                                                  /\ i \in Tokens!fetchedOf(Tokens!tokens[k])}
<1>3. with # {} /\ with \in SUBSET Nat
  BY <1>2, FilteredIs
<1>4. PICK k \in with : \A j \in with : k <= j
  BY <1>3, LeastOf
<1>5. FirstWith(k, i) /\ k \in DOMAIN Tokens!tokens
  <2>1. ASSUME NEW j \in with, j < k PROVE FALSE
    BY <1>3, <1>4, <2>1
  <2>. QED
    BY <1>4, <2>1, Zenon DEF FirstWith
<1>6. ledger[i].slot >= Tokens!oldestSlot
  <2>1. t \in Token
    BY FilteredIs
  <2>2. i \in 1 .. Len(ledger)
    BY <1>2, <2>1, FetchedIs
  <2>3. ledger[i].slot \in Nat /\ Tokens!oldestSlot \in Nat
    BY <1>1, <2>2, SlotsAre, OldestSlotIs DEF TokensInv
  <2>. QED
    BY <1>1, <2>3
<1>7. [mint |-> MintOf[Tokens!tokens[k]], tx |-> i] \in Tokens!mintAndTxs
  BY <1>1, <1>5, <1>6, RowsShown
<1>. QED
  BY <1>7

-------------------------------------------------------------------------------
(* The table is at rest while the page of an address is open.              *)
LEMMA TokensInvariance == HistoriesSpec => []TokensInv
<1>1. HistoriesInit => TokensInv
  <2>1. CASE Tokens!Init
    BY <2>1, TokensInitially, TokensAssumption
  <2>2. CASE NoTokens
    <3>1. LedgerType
      BY <2>2 DEF NoTokens, LedgerType, Tokens!SlotsRise
    <3>2. OwnedType
      BY <2>2 DEF NoTokens, Tokens!Absent, OwnedType
    <3>3. HistoriesOf(ledger, tokenCache)
      BY <2>2, EmptyHistories DEF NoTokens
    <3>4. tokenCalls \in Seq(CallsOf(Len(ledger)))
      BY <2>2 DEF NoTokens
    <3>. QED
      BY <3>1, <3>2, <3>3, <3>4 DEF TokensInv
  <2>. QED
    BY <2>1, <2>2 DEF HistoriesInit
<1>2. TokensInv /\ [HistoriesNext]_<<part, vars, tokenState>> => TokensInv'
  <2>1. [HistoriesNext]_<<part, vars, tokenState>> => [Tokens!Next]_Tokens!vars
    BY DEF HistoriesNext, tokenState, Tokens!vars
  <2>. QED
    BY <2>1, TokensStep, TokensAssumption
<1>. QED
  BY <1>1, <1>2, PTL DEF HistoriesSpec

(* However refreshes, pages and failures of its calls overlap, and         *)
(* whatever lands meanwhile, no token's history lacks a transaction        *)
(* between two of its rows (combineFetched, history.tsx).                  *)
THEOREM TokenHistoriesHaveNoGaps ==
  HistoriesSpec =>
    [](\A t \in Token :
         Tokens!history(t) # NoData => IsStretch(ledger, t, Tokens!history(t).fetched))
<1>1. TokensInv =>
        \A t \in Token :
          Tokens!history(t) # NoData => IsStretch(ledger, t, Tokens!history(t).fetched)
  BY HistoryIs DEF TokensInv, IsHistory
<1>. QED
  BY <1>1, TokensInvariance, PTL

(* The history whose last row gives a slot to "the oldest slot" has a last *)
(* row (TokenHistoryCard.tsx:123).                                         *)
THEOREM EarliestIsAlwaysThere == HistoriesSpec => []EarliestIsThere
<1>1. TokensInv => EarliestIsThere
  BY HistoryIs DEF TokensInv, IsHistory, EarliestIsThere, Tokens!EarliestIsThere
<1>. QED
  BY <1>1, TokensInvariance, PTL

(* Above "the oldest slot which we know we have the full history for"      *)
(* (TokenHistoryCard.tsx:115) the merged table misses nothing, and it      *)
(* lists a transaction once, under the mint of an account it touched.      *)
THEOREM MergedTableIsAlwaysTrue == HistoriesSpec => []MergedTableIsTrue
<1>1. TokensInv => MergedTableIsTrue
  BY ShownSince, RowsAreOfMint DEF MergedTableIsTrue
<1>. QED
  BY <1>1, TokensInvariance, PTL
===============================================================================
