---------------------------- MODULE AccountsProofs ----------------------------
(***************************************************************************)
(* Proofs about module Accounts, for any set of addresses and urls, any    *)
(* batch size and any number of calls in flight.                           *)
(* And about the tabs of an address (Addresses), for accounts of any kind  *)
(* that LedgersAssumption allows.                                          *)
(***************************************************************************)
EXTENDS Addresses, TLAPS

-------------------------------------------------------------------------------
(* Spreading an account over another one gives the account: both have all  *)
(* the fields.                                                             *)
LEMMA Reconciled ==
  ASSUME NEW e \in AccountData \cup {NoData}, NEW a \in AccountData \cup {NoData}
  PROVE  defaultReconciler(e, a) = IF a = NoData THEN e ELSE a
<1>1. CASE a = NoData
  BY <1>1 DEF defaultReconciler
<1>2. CASE a # NoData /\ e = NoData
  BY <1>2 DEF defaultReconciler
<1>3. CASE a # NoData /\ e # NoData
  <2>1. PICK u \in Url : a \in Account(u)
    BY <1>3 DEF AccountData
  <2>2. PICK v \in Url : e \in Account(v)
    BY <1>3 DEF AccountData
  <2>3. defaultReconciler(e, a) = [f \in DOMAIN e \cup DOMAIN a |->
                                    IF f \in DOMAIN a THEN a[f] ELSE e[f]]
    BY <1>3 DEF defaultReconciler
  <2>4. DOMAIN e = DOMAIN a
    BY <2>1, <2>2 DEF Account
  <2>5. a = [f \in DOMAIN a |-> a[f]]
    BY <2>1 DEF Account
  <2>. QED
    BY <1>3, <2>3, <2>4, <2>5
<1>. QED
  BY <1>1, <1>2, <1>3

(* What an Update does to the account cache: nothing for another url, and  *)
(* otherwise the status is replaced, the data too when there is any.       *)
LEMMA ReducerEffect ==
  ASSUME NEW old \in CacheOf(Url, AccountData), NEW u \in Url,
         NEW keys \in SUBSET Pubkey, NEW st \in FetchStatus,
         NEW update \in [keys -> AccountData \cup {NoData}],
         NEW new, new = defaultReducer(old, u, keys, st, update)
  PROVE  /\ new \in CacheOf(Url, AccountData)
         /\ new.url = old.url
         /\ \A k \in Pubkey :
              /\ new.entries[k].status =
                   IF u = old.url /\ k \in keys THEN st ELSE old.entries[k].status
              /\ new.entries[k].data =
                   IF u = old.url /\ k \in keys /\ update[k] # NoData
                   THEN update[k] ELSE old.entries[k].data
<1>1. CASE u # old.url
  BY <1>1 DEF defaultReducer, UpdateAll
<1>2. CASE u = old.url
  <2> DEFINE entry(k) == IF k \in keys
                         THEN [status |-> st,
                               data |-> defaultReconciler(old.entries[k].data, update[k])]
                         ELSE old.entries[k]
  <2>1. new = [old EXCEPT !.entries = [k \in Pubkey |-> entry(k)]]
    BY <1>2 DEF defaultReducer, UpdateAll
  <2>2. old.entries \in [Pubkey -> Entry(AccountData)] /\ old.url \in Url
    BY DEF CacheOf
  <2>3. ASSUME NEW k \in Pubkey
        PROVE  /\ old.entries[k].data \in AccountData \cup {NoData}
               /\ old.entries[k] \in Entry(AccountData)
    BY <2>2, <2>3 DEF Entry, Absent
  <2>4. ASSUME NEW k \in keys
        PROVE  defaultReconciler(old.entries[k].data, update[k]) =
                 IF update[k] = NoData THEN old.entries[k].data ELSE update[k]
    BY <2>3, Reconciled
  <2>5. ASSUME NEW k \in Pubkey
        PROVE  entry(k) \in Entry(AccountData)
    <3>1. CASE k \in keys
      BY <2>3, <2>4, <3>1 DEF Entry
    <3>2. CASE k \notin keys
      BY <2>3, <3>2
    <3>. QED
      BY <3>1, <3>2
  <2>6. new = [url |-> old.url, entries |-> [k \in Pubkey |-> entry(k)]]
    <3> HIDE DEF entry
    <3>. QED
      BY <2>1, <2>2 DEF CacheOf
  <2>7. new \in CacheOf(Url, AccountData) /\ new.url = old.url
    <3> HIDE DEF entry
    <3>. QED
      BY <2>2, <2>5, <2>6 DEF CacheOf
  <2>8. ASSUME NEW k \in Pubkey
        PROVE  /\ new.entries[k].status =
                    IF u = old.url /\ k \in keys THEN st ELSE old.entries[k].status
               /\ new.entries[k].data =
                    IF u = old.url /\ k \in keys /\ update[k] # NoData
                    THEN update[k] ELSE old.entries[k].data
    <3>1. new.entries[k] = entry(k)
      <4> HIDE DEF entry
      <4>. QED
        BY <2>6
    <3>2. CASE k \in keys
      BY <1>2, <2>4, <3>1, <3>2
    <3>3. CASE k \notin keys
      BY <1>2, <3>1, <3>3
    <3>. QED
      BY <3>2, <3>3
  <2>. QED
    BY <2>7, <2>8
<1>. QED
  BY <1>1, <1>2

-------------------------------------------------------------------------------
(* The inductive invariant: a call keeps the addresses it has yet to       *)
(* dispatch inside its batch, so a failing batch settles all of them.      *)
IInv ==
  /\ TypeOK
  /\ LeftInBatch
  /\ EntriesAnsweredByCacheUrl
  /\ FetchingIsInFlight

LEMMA BatchesInKeys ==
  ASSUME NEW keys, NEW b \in Batches(keys)
  PROVE  b \subseteq keys
BY DEF Batches

LEMMA FetchType ==
  ASSUME NEW fs \in [Mode -> FetcherType], NEW m \in Mode, NEW k \in Pubkey
  PROVE  fetch(fs, m, k) \in [Mode -> FetcherType]
BY DEF fetch, FetcherType

LEMMA ResultsType ==
  ASSUME NEW u \in Url, NEW m \in Mode
  PROVE  /\ Results(u, m) \subseteq AccountData
         /\ \A r \in Results(u, m) : r # NoData /\ r.from = u
<1>1. Results(u, m) \subseteq Account(u)
  <2>1. CASE m = "parsed"
    BY <2>1 DEF Results, Account, account
  <2>2. CASE m = "raw"
    BY <2>2 DEF Results, Account, account
  <2>3. CASE m = "skip"
    BY <2>3 DEF Results, Account, account
  <2>. QED
    BY <2>1, <2>2, <2>3, AccountsAssumption
<1>2. Account(u) \subseteq AccountData
  BY DEF AccountData
<1>. QED
  BY <1>1, <1>2, NoDataAssumption DEF Account

(* A cleared cache. *)
LEMMA ClearType ==
  ASSUME NEW u \in Url
  PROVE  /\ Clear(u) \in CacheOf(Url, AccountData)
         /\ Clear(u).url = u
         /\ \A k \in Pubkey : Clear(u).entries[k] = Absent
BY DEF Clear, CacheOf, Entry

LEMMA InitIInv == Init => IInv
<1> SUFFICES ASSUME Init PROVE IInv
  OBVIOUS
<1>1. url \in Url /\ status \in Conn!ClusterStatus
  BY DEF Init
<1>2. cache = Clear(url)
  BY DEF Init
<1>3. TypeOK
  <2>1. /\ ran \in [url : Url \cup {NoData}, status : Conn!ClusterStatus \cup {NoData}]
        /\ unseen \in BOOLEAN /\ Conn!ConnTypeOK
    BY <1>1 DEF Init, Conn!ConnTypeOK
  <2>2. cache \in CacheOf(Url, AccountData)
    BY <1>1, <1>2, ClearType
  <2>3. fetchers \in [Mode -> FetcherType] /\ retired \subseteq FetcherType
    BY <1>1 DEF Init, newFetchers, FetcherType
  <2>4. Idle \in CallType
    BY DEF CallType
  <2>5. calls \in [Call -> CallType]
    BY <2>4 DEF Init
  <2>6. reconnects \in 0 .. MaxReconnects /\ requests \in 0 .. MaxRequests
    BY BoundsAssumption DEF Init
  <2>. QED
    BY <2>1, <2>2, <2>3, <2>5, <2>6 DEF TypeOK
<1>4. LeftInBatch
  BY DEF Init, LeftInBatch, Idle
<1>5. EntriesAnsweredByCacheUrl /\ FetchingIsInFlight
  BY <1>1, <1>2, ClearType DEF EntriesAnsweredByCacheUrl, FetchingIsInFlight, Absent
<1>. QED
  BY <1>3, <1>4, <1>5 DEF IInv

(* Steps that touch neither the cache nor the calls keep everything but    *)
(* the types of what they change.                                          *)
LEMMA CacheUntouched ==
  ASSUME IInv, TypeOK', UNCHANGED <<cache, calls>>
  PROVE  IInv'
BY DEF IInv, LeftInBatch, EntriesAnsweredByCacheUrl, FetchingIsInFlight, PendingAt

(* Whatever updates a call dispatches for its own url keep the entries     *)
(* answered by the url of the cache.                                       *)
LEMMA UpdateStep ==
  ASSUME TypeOK, EntriesAnsweredByCacheUrl, NEW u \in Url,
         NEW keys \in SUBSET Pubkey, NEW st \in FetchStatus,
         NEW update \in [keys -> AccountData \cup {NoData}],
         \A k \in keys : update[k] # NoData => update[k].from = u,
         cache' = defaultReducer(cache, u, keys, st, update)
  PROVE  /\ cache' \in CacheOf(Url, AccountData)
         /\ cache'.url = cache.url
         /\ EntriesAnsweredByCacheUrl'
         /\ \A k \in Pubkey : cache'.entries[k].status =
              IF u = cache.url /\ k \in keys THEN st ELSE cache.entries[k].status
<1>1. cache \in CacheOf(Url, AccountData)
  BY DEF TypeOK
<1>2. /\ cache' \in CacheOf(Url, AccountData)
      /\ cache'.url = cache.url
      /\ \A k \in Pubkey :
           /\ cache'.entries[k].status =
                IF u = cache.url /\ k \in keys THEN st ELSE cache.entries[k].status
           /\ cache'.entries[k].data =
                IF u = cache.url /\ k \in keys /\ update[k] # NoData
                THEN update[k] ELSE cache.entries[k].data
  BY <1>1, ReducerEffect
<1>3. EntriesAnsweredByCacheUrl'
  BY <1>2 DEF EntriesAnsweredByCacheUrl
<1>. QED
  BY <1>2, <1>3

(* A timer fires: the new call has every address it marks Fetching still   *)
(* to dispatch, and the slot it takes was working on none.                 *)
LEMMA StartCallStep ==
  ASSUME IInv, NEW f \in FetcherType, StartCall(f)
  PROVE  /\ cache' \in CacheOf(Url, AccountData)
         /\ calls' \in [Call -> CallType]
         /\ LeftInBatch'
         /\ EntriesAnsweredByCacheUrl'
         /\ FetchingIsInFlight'
<1>1. f.url \in Url /\ f.mode \in Mode /\ f.pubkeys \in SUBSET Pubkey
  BY DEF FetcherType
<1>2. PICK c \in Call, b \in Batches(f.pubkeys) :
        /\ calls[c] = Idle
        /\ calls' = [calls EXCEPT ![c] = newCall(f, b)]
        /\ cache' = defaultReducer(cache, f.url, f.pubkeys, "Fetching",
                              noData(f.pubkeys))
  BY DEF StartCall
<1>3. b \in SUBSET f.pubkeys
  BY BatchesInKeys
<1>4. calls \in [Call -> CallType]
  BY DEF IInv, TypeOK
<1>5. calls' \in [Call -> CallType]
  BY <1>1, <1>2, <1>3, <1>4 DEF CallType, newCall
<1>6. LeftInBatch'
  <2>1. newCall(f, b).left \subseteq newCall(f, b).batch
    BY DEF newCall
  <2>. QED
    BY <1>2, <1>4, <2>1 DEF IInv, LeftInBatch
<1>7. /\ cache' \in CacheOf(Url, AccountData)
      /\ cache'.url = cache.url
      /\ EntriesAnsweredByCacheUrl'
      /\ \A k \in Pubkey : cache'.entries[k].status =
           IF f.url = cache.url /\ k \in f.pubkeys THEN "Fetching"
                                                   ELSE cache.entries[k].status
  <2>1. /\ noData(f.pubkeys) \in [f.pubkeys -> AccountData \cup {NoData}]
        /\ \A k \in f.pubkeys : noData(f.pubkeys)[k] = NoData
    BY DEF noData
  <2>2. "Fetching" \in FetchStatus
    BY DEF FetchStatus
  <2>. QED
    BY <1>1, <1>2, <2>1, <2>2, UpdateStep DEF IInv
<1>8. ASSUME NEW k \in Pubkey, cache'.entries[k].status = "Fetching"
      PROVE  \E d \in Call : calls'[d].url = cache'.url /\ PendingAt(d, k)'
  <2>1. CASE f.url = cache.url /\ k \in f.pubkeys
    <3>1. calls'[c] = newCall(f, b)
      BY <1>2, <1>4
    <3>2. PendingAt(c, k)'
      BY <1>3, <2>1, <3>1 DEF PendingAt, newCall
    <3>3. calls'[c].url = cache'.url
      BY <1>7, <2>1, <3>1 DEF newCall
    <3>. QED
      BY <3>2, <3>3
  <2>2. CASE ~(f.url = cache.url /\ k \in f.pubkeys)
    <3>1. PICK d \in Call : calls[d].url = cache.url /\ PendingAt(d, k)
      BY <1>7, <1>8, <2>2 DEF IInv, FetchingIsInFlight
    <3>2. d # c
      BY <1>2, <3>1 DEF PendingAt, Idle
    <3>. QED
      BY <1>2, <1>4, <1>7, <3>1, <3>2 DEF PendingAt
  <2>. QED
    BY <2>1, <2>2
<1>. QED
  BY <1>5, <1>6, <1>7, <1>8 DEF FetchingIsInFlight

(* The loop of a call goes on: every other call is left alone, this one    *)
(* keeps its url and the addresses of its later batches.                   *)
LEMMA NextBatchStep ==
  ASSUME IInv, NEW c \in Call, NextBatch(c)
  PROVE  /\ calls' \in [Call -> CallType]
         /\ LeftInBatch'
         /\ \A d \in Call \ {c} : calls'[d] = calls[d]
         /\ \A k \in calls[c].todo : PendingAt(c, k)' /\ calls'[c].url = calls[c].url
<1>1. calls \in [Call -> CallType]
  BY DEF IInv, TypeOK
<1>2. CASE calls[c].todo = {}
  <2>1. calls' = [calls EXCEPT ![c] = Idle]
    BY <1>2 DEF NextBatch
  <2>2. Idle \in CallType
    BY DEF CallType
  <2>3. Idle.left \subseteq Idle.batch
    BY DEF Idle
  <2>. QED
    BY <1>1, <1>2, <2>1, <2>2, <2>3 DEF IInv, LeftInBatch
<1>3. CASE calls[c].todo # {}
  <2>1. PICK b \in Batches(calls[c].todo) :
          calls' = [calls EXCEPT ![c].batch = b, ![c].left = b, ![c].todo = @ \ b]
    BY <1>3 DEF NextBatch
  <2>2. b \subseteq calls[c].todo
    BY BatchesInKeys
  <2>3. calls[c] \in CallType \ {Idle}
    BY <1>1, <1>3 DEF Idle
  <2>4. /\ calls'[c] \in CallType
        /\ calls'[c].url = calls[c].url
        /\ calls'[c].batch = b
        /\ calls'[c].left = b
        /\ calls'[c].todo = calls[c].todo \ b
    BY <1>1, <2>1, <2>2, <2>3 DEF CallType
  <2>5. \A d \in Call \ {c} : calls'[d] = calls[d]
    BY <1>1, <2>1
  <2>6. calls' \in [Call -> CallType]
    BY <1>1, <2>1, <2>4, <2>5
  <2>7. LeftInBatch'
    BY <2>4, <2>5 DEF IInv, LeftInBatch
  <2>. QED
    BY <2>2, <2>4, <2>5, <2>6, <2>7 DEF PendingAt
<1>. QED
  BY <1>2, <1>3

(* Some results are dispatched: what leaves the call is no longer loading. *)
LEMMA DeliverStep ==
  ASSUME IInv, NEW c \in Call, NEW S \in SUBSET calls[c].left,
         NEW result \in [S -> Results(calls[c].url, calls[c].mode)],
         Deliver(c, S, result)
  PROVE  /\ cache' \in CacheOf(Url, AccountData)
         /\ calls' \in [Call -> CallType]
         /\ LeftInBatch'
         /\ EntriesAnsweredByCacheUrl'
         /\ FetchingIsInFlight'
<1>1. calls \in [Call -> CallType] /\ calls[c] \in CallType
  BY DEF IInv, TypeOK
<1>2. calls[c].url \in Url /\ calls[c].mode \in Mode /\ S \in SUBSET Pubkey
  BY <1>1 DEF CallType, Deliver, Idle
<1>3. /\ result \in [S -> AccountData \cup {NoData}]
      /\ \A k \in S : result[k] # NoData => result[k].from = calls[c].url
  BY <1>2, ResultsType
<1>4. "Fetched" \in FetchStatus
  BY DEF FetchStatus
<1>5. /\ cache' \in CacheOf(Url, AccountData)
      /\ cache'.url = cache.url
      /\ EntriesAnsweredByCacheUrl'
      /\ \A k \in Pubkey : cache'.entries[k].status =
           IF calls[c].url = cache.url /\ k \in S THEN "Fetched"
                                                  ELSE cache.entries[k].status
  <2>1. cache' = defaultReducer(cache, calls[c].url, S, "Fetched", result)
    BY DEF Deliver
  <2>. QED
    BY <1>2, <1>3, <1>4, <2>1, UpdateStep DEF IInv
<1>6. /\ calls' \in [Call -> CallType]
      /\ LeftInBatch'
      /\ \A d \in Call \ {c} : calls'[d] = calls[d]
      /\ \A k \in Pubkey \ S :
           PendingAt(c, k) => PendingAt(c, k)' /\ calls'[c].url = calls[c].url
  <2>1. CASE S = calls[c].left
    <3>1. NextBatch(c)
      BY <2>1 DEF Deliver
    <3>. QED
      BY <2>1, <3>1, NextBatchStep DEF PendingAt
  <2>2. CASE S # calls[c].left
    <3>1. calls' = [calls EXCEPT ![c].left = @ \ S]
      BY <2>2 DEF Deliver
    <3>2. /\ calls'[c] \in CallType
          /\ calls'[c].url = calls[c].url
          /\ calls'[c].batch = calls[c].batch
          /\ calls'[c].left = calls[c].left \ S
          /\ calls'[c].todo = calls[c].todo
      BY <1>1, <3>1 DEF CallType, Deliver, Idle
    <3>3. \A d \in Call \ {c} : calls'[d] = calls[d]
      BY <1>1, <3>1
    <3>4. calls' \in [Call -> CallType]
      BY <1>1, <3>1, <3>2, <3>3
    <3>. QED
      BY <3>2, <3>3, <3>4 DEF IInv, LeftInBatch, PendingAt
  <2>. QED
    BY <2>1, <2>2
<1>7. ASSUME NEW k \in Pubkey, cache'.entries[k].status = "Fetching"
      PROVE  \E d \in Call : calls'[d].url = cache'.url /\ PendingAt(d, k)'
  <2>1. cache.entries[k].status = "Fetching" /\ ~(calls[c].url = cache.url /\ k \in S)
    BY <1>5, <1>7
  <2>2. PICK d \in Call : calls[d].url = cache.url /\ PendingAt(d, k)
    BY <2>1 DEF IInv, FetchingIsInFlight
  <2>3. CASE d = c
    BY <1>5, <1>6, <2>1, <2>2, <2>3
  <2>4. CASE d # c
    BY <1>5, <1>6, <2>2, <2>4 DEF PendingAt
  <2>. QED
    BY <2>3, <2>4
<1>. QED
  BY <1>5, <1>6, <1>7 DEF FetchingIsInFlight

(* A batch fails: every address it still had to dispatch is settled.       *)
LEMMA FailBatchStep ==
  ASSUME IInv, NEW c \in Call, FailBatch(c)
  PROVE  /\ cache' \in CacheOf(Url, AccountData)
         /\ calls' \in [Call -> CallType]
         /\ LeftInBatch'
         /\ EntriesAnsweredByCacheUrl'
         /\ FetchingIsInFlight'
<1>1. calls \in [Call -> CallType] /\ calls[c] \in CallType
  BY DEF IInv, TypeOK
<1>2. calls[c].url \in Url /\ calls[c].batch \in SUBSET Pubkey
  BY <1>1 DEF CallType, FailBatch, Idle
<1>3. /\ noData(calls[c].batch) \in [calls[c].batch -> AccountData \cup {NoData}]
      /\ \A k \in calls[c].batch : noData(calls[c].batch)[k] = NoData
  BY DEF noData
<1>4. "FetchFailed" \in FetchStatus
  BY DEF FetchStatus
<1>5. cache' = defaultReducer(cache, calls[c].url, calls[c].batch, "FetchFailed",
                              noData(calls[c].batch))
  BY DEF FailBatch
<1>6. /\ cache' \in CacheOf(Url, AccountData)
      /\ cache'.url = cache.url
      /\ EntriesAnsweredByCacheUrl'
      /\ \A k \in Pubkey : cache'.entries[k].status =
           IF calls[c].url = cache.url /\ k \in calls[c].batch
           THEN "FetchFailed" ELSE cache.entries[k].status
  BY <1>2, <1>3, <1>4, <1>5, UpdateStep DEF IInv
<1>7. /\ calls' \in [Call -> CallType]
      /\ LeftInBatch'
      /\ \A d \in Call \ {c} : calls'[d] = calls[d]
      /\ \A k \in calls[c].todo : PendingAt(c, k)' /\ calls'[c].url = calls[c].url
  BY NextBatchStep DEF FailBatch
<1>8. ASSUME NEW k \in Pubkey, cache'.entries[k].status = "Fetching"
      PROVE  \E d \in Call : calls'[d].url = cache'.url /\ PendingAt(d, k)'
  <2>1. /\ cache.entries[k].status = "Fetching"
        /\ ~(calls[c].url = cache.url /\ k \in calls[c].batch)
    BY <1>6, <1>8
  <2>2. PICK d \in Call : calls[d].url = cache.url /\ PendingAt(d, k)
    BY <2>1 DEF IInv, FetchingIsInFlight
  <2>3. CASE d = c
    <3>1. k \in calls[c].todo
      BY <2>1, <2>2, <2>3 DEF PendingAt, IInv, LeftInBatch
    <3>. QED
      BY <1>6, <1>7, <2>2, <2>3, <3>1
  <2>4. CASE d # c
    BY <1>6, <1>7, <2>2, <2>4 DEF PendingAt
  <2>. QED
    BY <2>3, <2>4
<1>. QED
  BY <1>6, <1>7, <1>8 DEF FetchingIsInFlight

(* The effects of a commit: the page may put its address into a fetcher,   *)
(* a new url empties the cache.                                            *)
LEMMA EffectsStep ==
  ASSUME IInv, Effects
  PROVE  IInv'
<1>1. /\ url \in Url /\ status \in Conn!ClusterStatus
      /\ cache \in CacheOf(Url, AccountData)
      /\ fetchers \in [Mode -> FetcherType] /\ retired \subseteq FetcherType
      /\ Shown \in Pubkey /\ "parsed" \in Mode
  BY AccountsAssumption DEF IInv, TypeOK, Conn!ConnTypeOK
<1> DEFINE asked == IF pageFetches THEN fetch(fetchers, "parsed", Shown) ELSE fetchers
<1>2. asked \in [Mode -> FetcherType]
  BY <1>1, FetchType
<1>3. newFetchers(url) \in [Mode -> FetcherType]
  BY <1>1 DEF newFetchers, FetcherType
<1>4. ran' \in [url : Url \cup {NoData}, status : Conn!ClusterStatus \cup {NoData}]
  BY <1>1 DEF Effects
<1>5. UNCHANGED <<url, status, unseen, calls, reconnects, requests>>
  BY DEF Effects, connection
<1>6. CASE ran.url # url
  <2>1. /\ cache' = Clear(url) /\ fetchers' = newFetchers(url)
        /\ retired' = retired \cup {f \in {asked[m] : m \in Mode} : f.pubkeys # {}}
    BY <1>6 DEF Effects
  <2>2. TypeOK'
    BY <1>1, <1>2, <1>3, <1>4, <1>5, <2>1, ClearType
       DEF IInv, TypeOK, Conn!ConnTypeOK
  <2>3. LeftInBatch'
    BY <1>5 DEF IInv, LeftInBatch
  <2>4. EntriesAnsweredByCacheUrl' /\ FetchingIsInFlight'
    BY <1>1, <2>1, ClearType DEF EntriesAnsweredByCacheUrl, FetchingIsInFlight, Absent
  <2>. QED
    BY <2>2, <2>3, <2>4 DEF IInv
<1>7. CASE ran.url = url
  <2>1. fetchers' = asked /\ UNCHANGED <<cache, retired>>
    BY <1>7 DEF Effects
  <2>2. TypeOK'
    BY <1>1, <1>2, <1>4, <1>5, <2>1 DEF IInv, TypeOK, Conn!ConnTypeOK
  <2>. QED
    BY <1>5, <2>1, <2>2, CacheUntouched
<1>. QED
  BY <1>6, <1>7

LEMMA NextIInv == IInv /\ [Next]_vars => IInv'
<1> SUFFICES ASSUME IInv, [Next]_vars PROVE IInv'
  OBVIOUS
<1>1. ASSUME NEW u \in Url, Reconnect(u) PROVE IInv'
  <2>1. TypeOK'
    BY <1>1, BoundsAssumption
       DEF IInv, TypeOK, Reconnect, Renders, Conn!Reconnect, Conn!ConnTypeOK, Conn!ClusterStatus
  <2>. QED
    BY <1>1, <2>1, CacheUntouched DEF Reconnect
<1>2. ASSUME NEW s \in Conn!ClusterStatus, Settle(s) PROVE IInv'
  <2>1. TypeOK'
    BY <1>2 DEF IInv, TypeOK, Settle, Renders, Conn!Settle, Conn!ConnTypeOK, Conn!ClusterStatus
  <2>. QED
    BY <1>2, <2>1, CacheUntouched DEF Settle
<1>3. CASE Effects
  BY <1>3, EffectsStep
<1>4. ASSUME NEW mode \in Mode, NEW key \in Pubkey, Request(mode, key) PROVE IInv'
  <2>1. fetchers' \in [Mode -> FetcherType]
    BY <1>4, FetchType DEF IInv, TypeOK, Request
  <2>2. TypeOK'
    BY <1>4, <2>1, BoundsAssumption DEF IInv, TypeOK, Request, connection, Conn!ConnTypeOK
  <2>. QED
    BY <1>4, <2>2, CacheUntouched DEF Request
<1>5. ASSUME NEW mode \in Mode, TimerFires(mode) PROVE IInv'
  <2>1. fetchers[mode] \in FetcherType /\ StartCall(fetchers[mode])
    BY <1>5 DEF IInv, TypeOK, TimerFires
  <2>2. fetchers' \in [Mode -> FetcherType]
    BY <1>5, <2>1 DEF IInv, TypeOK, TimerFires, FetcherType
  <2>. QED
    BY <1>5, <2>1, <2>2, StartCallStep
       DEF IInv, TypeOK, TimerFires, connection, Conn!ConnTypeOK
<1>6. ASSUME NEW f \in retired, RetiredTimerFires(f) PROVE IInv'
  <2>1. f \in FetcherType /\ StartCall(f)
    BY <1>6 DEF IInv, TypeOK, RetiredTimerFires
  <2>. QED
    BY <1>6, <2>1, StartCallStep
       DEF IInv, TypeOK, RetiredTimerFires, connection, Conn!ConnTypeOK
<1>7. ASSUME NEW c \in Call, DeliverSome(c) PROVE IInv'
  <2>1. PICK S \in SUBSET calls[c].left :
          \E result \in [S -> Results(calls[c].url, calls[c].mode)] : Deliver(c, S, result)
    BY <1>7 DEF DeliverSome
  <2>2. PICK result \in [S -> Results(calls[c].url, calls[c].mode)] : Deliver(c, S, result)
    BY <2>1
  <2>. QED
    BY <2>2, DeliverStep DEF IInv, TypeOK, Deliver, connection, Conn!ConnTypeOK
<1>8. ASSUME NEW c \in Call, FailBatch(c) PROVE IInv'
  BY <1>8, FailBatchStep DEF IInv, TypeOK, FailBatch, connection, Conn!ConnTypeOK
<1>9. CASE UNCHANGED vars
  <2>1. TypeOK'
    BY <1>9 DEF IInv, TypeOK, vars, Conn!ConnTypeOK
  <2>. QED
    BY <1>9, <2>1, CacheUntouched DEF vars
<1>. QED
  BY <1>1, <1>2, <1>3, <1>4, <1>5, <1>6, <1>7, <1>8, <1>9 DEF Next

LEMMA Invariance == Spec => []IInv
BY InitIInv, NextIInv, PTL DEF Spec

(* The variables keep their types. *)
THEOREM TypeCorrect == Spec => []TypeOK
BY Invariance, PTL DEF IInv

(* Whatever the order of switches, timers and answers, the accounts shown  *)
(* were answered by the url the cache is for.                              *)
THEOREM NoForeignAnswers == Spec => []EntriesAnsweredByCacheUrl
BY Invariance, PTL DEF IInv

(* No entry is left loading without a call that will still settle it.      *)
THEOREM NoForgottenFetch == Spec => []FetchingIsInFlight
BY Invariance, PTL DEF IInv

-------------------------------------------------------------------------------
(* The refinement.  The states of the provider's cache are already those   *)
(* of the promise; what is to show is that every step keeps it.            *)

LEMMA SameClear == \A u \in Url : Promise!Clear(u) = Clear(u)
BY DEF Promise!Clear, Clear, Promise!Absent, Absent

(* The data of the entries are answers of the cache's url. *)
LEMMA EntriesPromised ==
  ASSUME TypeOK, EntriesAnsweredByCacheUrl
  PROVE  cache.entries \in [Pubkey -> Promise!Entry(Account(cache.url))]
<1>1. cache.entries \in [Pubkey -> Entry(AccountData)]
  BY DEF TypeOK, CacheOf
<1>2. ASSUME NEW k \in Pubkey
      PROVE  cache.entries[k] \in Promise!Entry(Account(cache.url))
  <2>1. cache.entries[k] \in Entry(AccountData)
    BY <1>1
  <2>2. CASE cache.entries[k].data = NoData
    BY <2>1, <2>2 DEF Entry, Promise!Entry, Absent, Promise!Absent,
                      FetchStatus, Promise!FetchStatus
  <2>3. CASE cache.entries[k].data # NoData
    <3>1. cache.entries[k].data \in AccountData
      BY <2>1, <2>3 DEF Entry, Absent
    <3>2. PICK u \in Url : cache.entries[k].data \in Account(u)
      BY <3>1 DEF AccountData
    <3>3. u = cache.url
      BY <2>3, <3>2 DEF EntriesAnsweredByCacheUrl, Account
    <3>. QED
      BY <2>1, <2>3, <3>2, <3>3 DEF Entry, Promise!Entry, Absent, Promise!Absent,
                                    FetchStatus, Promise!FetchStatus
  <2>. QED
    BY <2>2, <2>3
<1>. QED
  BY <1>1, <1>2

(* An Update of the provider is a promised one: it leaves data where there *)
(* is some, and a status Fetched comes with data.                          *)
LEMMA UpdatePromised ==
  ASSUME IInv, IInv', NEW u \in Url, NEW keys \in SUBSET Pubkey, NEW st \in FetchStatus,
         NEW update \in [keys -> AccountData \cup {NoData}],
         cache' = defaultReducer(cache, u, keys, st, update)
  PROVE  (st = "Fetched" => \A k \in keys : update[k] # NoData) => Promise!UpdateEntries
<1> DEFINE Backed == st = "Fetched" => \A k \in keys : update[k] # NoData
<1>1. cache \in CacheOf(Url, AccountData)
  BY DEF IInv, TypeOK
<1>2. /\ cache' \in CacheOf(Url, AccountData)
      /\ cache'.url = cache.url
      /\ \A k \in Pubkey :
           /\ cache'.entries[k].status =
                IF u = cache.url /\ k \in keys THEN st ELSE cache.entries[k].status
           /\ cache'.entries[k].data =
                IF u = cache.url /\ k \in keys /\ update[k] # NoData
                THEN update[k] ELSE cache.entries[k].data
  BY <1>1, ReducerEffect
<1>3. cache' = [cache EXCEPT !.entries = cache'.entries]
  BY <1>1, <1>2 DEF CacheOf
<1>4. cache'.entries \in [Pubkey -> Promise!Entry(Account(cache.url))]
  <2>1. (cache.entries \in [Pubkey -> Promise!Entry(Account(cache.url))])'
    BY EntriesPromised, PTL DEF IInv
  <2>. QED
    BY <1>2, <2>1
<1>5. ASSUME Backed, NEW k \in Pubkey
      PROVE  \/ cache'.entries[k] = cache.entries[k]
             \/ Promise!Changes(cache.entries[k], cache'.entries[k])
  <2>1. CASE u = cache.url /\ k \in keys
    <3>1. cache'.entries[k].status = st
      BY <1>2, <2>1
    <3>2. cache'.entries[k].data =
            IF update[k] # NoData THEN update[k] ELSE cache.entries[k].data
      BY <1>2, <2>1
    <3>. QED
      BY <1>5, <2>1, <3>1, <3>2 DEF Promise!Changes, Promise!FetchStatus, FetchStatus
  <2>2. CASE ~(u = cache.url /\ k \in keys)
    <3>1. /\ cache'.entries[k].status = cache.entries[k].status
          /\ cache'.entries[k].data = cache.entries[k].data
      BY <1>2, <2>2
    <3>2. cache.entries[k] \in Entry(AccountData) /\ cache'.entries[k] \in Entry(AccountData)
      BY <1>1, <1>2 DEF CacheOf
    <3>. QED
      BY <3>1, <3>2 DEF Entry, Absent
  <2>. QED
    BY <2>1, <2>2
<1>. QED
  BY <1>3, <1>4, <1>5 DEF Promise!UpdateEntries

LEMMA InitPromised == Init => Promise!Init
BY SameClear DEF Init, Promise!Init

LEMMA StepPromised == IInv /\ IInv' /\ [Next]_vars => [Promise!Next]_cache
<1> SUFFICES ASSUME IInv, IInv', [Next]_vars, cache' # cache
             PROVE  Promise!Next
  OBVIOUS
<1>1. ASSUME NEW f \in FetcherType, StartCall(f) PROVE Promise!UpdateEntries
  <2>1. cache' = defaultReducer(cache, f.url, f.pubkeys, "Fetching", noData(f.pubkeys))
    BY <1>1 DEF StartCall
  <2>2. /\ f.url \in Url /\ f.pubkeys \in SUBSET Pubkey
        /\ noData(f.pubkeys) \in [f.pubkeys -> AccountData \cup {NoData}]
        /\ "Fetching" \in FetchStatus
    BY DEF FetcherType, noData, FetchStatus
  <2>. QED
    BY <2>1, <2>2, UpdatePromised
<1>2. CASE Effects
  <2>1. cache' = Clear(url) /\ url \in Url
    BY <1>2 DEF Effects, IInv, TypeOK, Conn!ConnTypeOK
  <2>. QED
    BY <2>1, SameClear DEF Promise!Next, Promise!Empty
<1>3. ASSUME NEW mode \in Mode, TimerFires(mode) PROVE Promise!UpdateEntries
  <2>1. fetchers[mode] \in FetcherType /\ StartCall(fetchers[mode])
    BY <1>3 DEF IInv, TypeOK, TimerFires
  <2>. QED
    BY <1>1, <2>1
<1>4. ASSUME NEW f \in retired, RetiredTimerFires(f) PROVE Promise!UpdateEntries
  <2>1. f \in FetcherType /\ StartCall(f)
    BY <1>4 DEF IInv, TypeOK, RetiredTimerFires
  <2>. QED
    BY <1>1, <2>1
<1>5. ASSUME NEW c \in Call, DeliverSome(c) PROVE Promise!UpdateEntries
  <2>1. PICK S \in SUBSET calls[c].left :
          \E result \in [S -> Results(calls[c].url, calls[c].mode)] : Deliver(c, S, result)
    BY <1>5 DEF DeliverSome
  <2>2. PICK result \in [S -> Results(calls[c].url, calls[c].mode)] : Deliver(c, S, result)
    BY <2>1
  <2>3. cache' = defaultReducer(cache, calls[c].url, S, "Fetched", result)
    BY <2>2 DEF Deliver
  <2>4. calls[c].url \in Url /\ calls[c].mode \in Mode /\ S \in SUBSET Pubkey
    BY <2>2 DEF IInv, TypeOK, CallType, Deliver, Idle
  <2>5. /\ result \in [S -> AccountData \cup {NoData}]
        /\ \A k \in S : result[k] # NoData
        /\ "Fetched" \in FetchStatus
    BY <2>4, ResultsType DEF FetchStatus
  <2>. QED
    BY <2>3, <2>4, <2>5, UpdatePromised
<1>6. ASSUME NEW c \in Call, FailBatch(c) PROVE Promise!UpdateEntries
  <2>1. cache' = defaultReducer(cache, calls[c].url, calls[c].batch, "FetchFailed",
                                noData(calls[c].batch))
    BY <1>6 DEF FailBatch
  <2>2. calls[c].url \in Url /\ calls[c].batch \in SUBSET Pubkey
    BY <1>6 DEF IInv, TypeOK, CallType, FailBatch, Idle
  <2>3. /\ noData(calls[c].batch) \in [calls[c].batch -> AccountData \cup {NoData}]
        /\ "FetchFailed" \in FetchStatus
    BY DEF noData, FetchStatus
  <2>. QED
    BY <2>1, <2>2, <2>3, UpdatePromised
<1>8. ASSUME NEW u \in Url, Reconnect(u) PROVE FALSE
  BY <1>8 DEF Reconnect
<1>9. ASSUME NEW s \in Conn!ClusterStatus, Settle(s) PROVE FALSE
  BY <1>9 DEF Settle
<1>10. ASSUME NEW mode \in Mode, NEW key \in Pubkey, Request(mode, key) PROVE FALSE
  BY <1>10 DEF Request
<1>11. CASE UNCHANGED vars
  BY <1>11 DEF vars
<1>. QED
  BY <1>2, <1>3, <1>4, <1>5, <1>6, <1>8, <1>9, <1>10, <1>11 DEF Next, Promise!Next

(* The accounts provider implements the promise of UrlCache: entries are   *)
(* answers of the cache's url, only a Clear takes them or their data away, *)
(* and Fetched comes with data.                                            *)
THEOREM KeepsPromise == Spec => ImplementsUrlCache
<1>1. Init => Promise!Init
  BY InitPromised
<1>2. IInv /\ IInv' /\ [Next]_vars => [Promise!Next]_cache
  BY StepPromised
<1>. QED
  BY <1>1, <1>2, Invariance, PTL DEF Spec, ImplementsUrlCache, Promise!Spec

-------------------------------------------------------------------------------
(* The tabs of an account: what the tables list, and that the list, which  *)
(* is put together from pieces, has none of them twice.                    *)
LEMMA TabsOfProgram ==
  ASSUME NEW p
  PROVE  Tabs!Tabs(<<p>>) =
           IF p = "address-lookup-table" THEN <<"entries">>
           ELSE IF p = "bpf-upgradeable-loader" THEN <<"security", "verified-build">>
           ELSE IF p = "stake" THEN <<"rewards">>
           ELSE IF p = "vote" THEN <<"vote-history", "rewards">> ELSE <<>>
BY DEF Tabs!Tabs

LEMMA TabsOfType ==
  ASSUME NEW p, NEW t
  PROVE  Tabs!Tabs(<<p, t>>) =
           IF p = "sysvar" /\ t = "recentBlockhashes" THEN <<"blockhashes">>
           ELSE IF p = "sysvar" /\ t = "slotHashes" THEN <<"slot-hashes">>
           ELSE IF p = "sysvar" /\ t = "stakeHistory" THEN <<"stake-history">>
           ELSE IF p \in {"spl-token", "spl-token-2022"} /\ t = "mint"
             THEN <<"transfers", "instructions">> ELSE <<>>
BY DEF Tabs!Tabs

LEMMA TabsOfNFT ==
  ASSUME NEW p \in {"spl-token", "spl-token-2022"}
  PROVE  Tabs!Tabs(<<p, "mint", "metaplexNFT">>) = <<"metadata", "attributes">>
BY DEF Tabs!Tabs

(* The tabs of s are those of S, each of them once.                        *)
Lists(s, S) == s \in Seq(Tabs!Tab) /\ Tabs!IsInjective(s) /\ Tabs!ToSet(s) = S

LEMMA ListsBoth ==
  ASSUME NEW s, NEW t, NEW S, NEW T, Lists(s, S), Lists(t, T), S \cap T = {}
  PROVE  Lists(s \o t, S \cup T)
<1> DEFINE r == s \o t
<1>1. /\ s \in Seq(Tabs!Tab) /\ t \in Seq(Tabs!Tab) /\ r \in Seq(Tabs!Tab)
      /\ DOMAIN s = 1 .. Len(s) /\ DOMAIN t = 1 .. Len(t) /\ DOMAIN r = 1 .. Len(s) + Len(t)
      /\ Len(s) \in Nat /\ Len(t) \in Nat
  BY DEF Lists
<1>2. \A i \in 1 .. Len(s) + Len(t) : r[i] = IF i <= Len(s) THEN s[i] ELSE t[i - Len(s)]
  BY <1>1
<1>3. \A i \in 1 .. Len(s) : s[i] \in S
  BY <1>1 DEF Lists, Tabs!ToSet
<1>4. \A i \in 1 .. Len(t) : t[i] \in T
  BY <1>1 DEF Lists, Tabs!ToSet
<1>5. ASSUME NEW i \in DOMAIN r, NEW j \in DOMAIN r, r[i] = r[j] PROVE i = j
  <2>1. CASE i <= Len(s) /\ j <= Len(s)
    BY <1>1, <1>2, <1>5, <2>1 DEF Lists, Tabs!IsInjective
  <2>2. CASE i > Len(s) /\ j > Len(s)
    <3>1. i - Len(s) \in DOMAIN t /\ j - Len(s) \in DOMAIN t /\ t[i - Len(s)] = t[j - Len(s)]
      BY <1>1, <1>2, <1>5, <2>2
    <3>. QED
      BY <1>1, <3>1 DEF Lists, Tabs!IsInjective
  <2>3. CASE (i <= Len(s) /\ j > Len(s)) \/ (j <= Len(s) /\ i > Len(s))
    BY <1>1, <1>2, <1>3, <1>4, <1>5, <2>3
  <2>. QED
    BY <1>1, <2>1, <2>2, <2>3
<1>6. Tabs!ToSet(r) = S \cup T
  <2>1. ASSUME NEW x \in S PROVE x \in Tabs!ToSet(r)
    <3>1. PICK i \in DOMAIN s : x = s[i]
      BY DEF Lists, Tabs!ToSet
    <3>. QED
      BY <1>1, <1>2, <3>1 DEF Tabs!ToSet
  <2>2. ASSUME NEW x \in T PROVE x \in Tabs!ToSet(r)
    <3>1. PICK i \in DOMAIN t : x = t[i]
      BY DEF Lists, Tabs!ToSet
    <3>2. i + Len(s) \in DOMAIN r /\ r[i + Len(s)] = x
      BY <1>1, <1>2, <3>1
    <3>. QED
      BY <3>2 DEF Tabs!ToSet
  <2>3. ASSUME NEW i \in DOMAIN r PROVE r[i] \in S \cup T
    BY <1>1, <1>2, <1>3, <1>4
  <2>. QED
    BY <2>1, <2>2, <2>3 DEF Tabs!ToSet
<1>7. Tabs!IsInjective(r)
  BY <1>5 DEF Tabs!IsInjective
<1>. QED
  BY <1>1, <1>6, <1>7 DEF Lists

LEMMA ListsFew ==
  /\ Lists(<<>>, {})
  /\ \A x \in Tabs!Tab : Lists(<<x>>, {x})
  /\ \A x, y \in Tabs!Tab : x # y => Lists(<<x, y>>, {x, y})
  /\ \A x, y, z \in Tabs!Tab : x # y /\ y # z /\ x # z => Lists(<<x, y, z>>, {x, y, z})
<1> USE DEF Lists, Tabs!IsInjective, Tabs!ToSet
<1>1. Lists(<<>>, {})
  OBVIOUS
<1>2. ASSUME NEW x \in Tabs!Tab, NEW s, s = <<x>> PROVE Lists(s, {x})
  <2>1. s \in Seq(Tabs!Tab) /\ DOMAIN s = {1} /\ s[1] = x
    BY <1>2
  <2>. QED
    BY <2>1
<1>3. ASSUME NEW x \in Tabs!Tab, NEW y \in Tabs!Tab, x # y, NEW s, s = <<x, y>>
      PROVE  Lists(s, {x, y})
  <2>1. s \in Seq(Tabs!Tab) /\ DOMAIN s = {1, 2} /\ s[1] = x /\ s[2] = y
    BY <1>3
  <2>. QED
    BY <1>3, <2>1
<1>4. ASSUME NEW x \in Tabs!Tab, NEW y \in Tabs!Tab, NEW z \in Tabs!Tab, x # y, y # z, x # z,
             NEW s, s = <<x, y, z>>
      PROVE  Lists(s, {x, y, z})
  <2>1. s \in Seq(Tabs!Tab) /\ DOMAIN s = {1, 2, 3} /\ s[1] = x /\ s[2] = y /\ s[3] = z
    BY <1>4
  <2>. QED
    BY <1>4, <2>1
<1> HIDE DEF Lists
<1>. QED
  BY <1>1, <1>2, <1>3, <1>4, Zenon
-------------------------------------------------------------------------------
(* What is kept of an account is of this form.                             *)
Kept(a) ==
  /\ a.parsed # NoData =>
       /\ a.parsed = <<a.parsed[1], a.parsed[2]>> /\ a.raw = NoData /\ a.owner \notin NeverParsed
       /\ a.parsed[1] = "address-lookup-table" => a.parsed[2] \in {"lookupTable", "uninitialized"}
  /\ a.authority # NoData => a.parsed # NoData /\ a.parsed[1] = "bpf-upgradeable-loader"
  /\ a.owner \in NeverParsed => a.raw # NoData

(* The tabs of an account, as sets.                                        *)
OfProgram(p) ==
  IF p = "address-lookup-table" THEN {"entries"}
  ELSE IF p = "bpf-upgradeable-loader" THEN {"security", "verified-build"}
  ELSE IF p = "stake" THEN {"rewards"}
  ELSE IF p = "vote" THEN {"vote-history", "rewards"} ELSE {}

OfType(p, t) ==
  IF p = "sysvar" /\ t = "recentBlockhashes" THEN {"blockhashes"}
  ELSE IF p = "sysvar" /\ t = "slotHashes" THEN {"slot-hashes"}
  ELSE IF p = "sysvar" /\ t = "stakeHistory" THEN {"stake-history"}
  ELSE IF p \in {"spl-token", "spl-token-2022"} /\ t = "mint"
    THEN {"transfers", "instructions"} ELSE {}

OfParsed(a) ==
  IF a.parsed = NoData THEN {} ELSE OfProgram(a.parsed[1]) \cup OfType(a.parsed[1], a.parsed[2])

Only(condition, S) == {x \in S : condition}

HasMetadata(a) == Tabs!isMint(a) /\ a.nftData # "none"
WithTokens(a) ==
  /\ ~Tabs!isNFTokenAccount(a)
  /\ a.parsed # NoData => {<<Tabs!program(a)>>, a.parsed} \cap Tabs!TOKEN_TABS_HIDDEN = {}

Upper(a) ==
  {"history"} \cup OfParsed(a) \cup Only(Tabs!isAddressLookupTableAccount(a), {"entries"})
Middle(a) ==
  Only(HasMetadata(a), {"metadata", "attributes"})
  \cup Only(Tabs!mayBeCompressed(a), {"metadata", "attributes", "compression"})
Lower(a) ==
  Only(Tabs!isNFTokenAccount(a) /\ a.raw = "collection", {"nftoken-collection-nfts"})
  \cup Only(WithTokens(a), {"tokens", "domains"})
  \cup Only(a.owner = "spl-account-compression", {"concurrent-merkle-tree"})
Linked(a) ==
  {"program-multisig"} \cup Only(a.owner = "spl-token-2022", {"token-extensions"})
  \cup {"anchor-program", "anchor-account"} \cup Only(a.feature, {"feature-gate"})

LEMMA ListsIf ==
  ASSUME NEW c, NEW s, NEW S, Lists(s, S)
  PROVE  Lists(Tabs!TabsIf(c, s), Only(c, S))
<1>1. CASE c
  BY <1>1 DEF Tabs!TabsIf, Only
<1>2. CASE ~c
  <2>1. Tabs!TabsIf(c, s) = <<>> /\ Only(c, S) = {}
    BY <1>2 DEF Tabs!TabsIf, Only
  <2>. QED
    BY <2>1, ListsFew
<1>. QED
  BY <1>1, <1>2

LEMMA ParsedTabs ==
  ASSUME NEW p, NEW t
  PROVE  Lists(Tabs!Tabs(<<p>>) \o Tabs!Tabs(<<p, t>>), OfProgram(p) \cup OfType(p, t))
<1>1. {"entries", "security", "verified-build", "rewards", "vote-history", "blockhashes",
       "slot-hashes", "stake-history", "transfers", "instructions"} \subseteq Tabs!Tab
  BY DEF Tabs!Tab, Tabs!Checking
<1>2. Lists(Tabs!Tabs(<<p>>), OfProgram(p))
  BY <1>1, TabsOfProgram, ListsFew DEF OfProgram
<1>3. Lists(Tabs!Tabs(<<p, t>>), OfType(p, t))
  BY <1>1, TabsOfType, ListsFew DEF OfType
<1>4. OfProgram(p) \cap OfType(p, t) = {}
  BY DEF OfProgram, OfType
<1>. QED
  BY <1>2, <1>3, <1>4, ListsBoth
LEMMA MintIs ==
  ASSUME NEW a, Tabs!isMint(a)
  PROVE  /\ a.parsed # NoData /\ Tabs!program(a) = a.parsed[1] /\ a.parsed[2] = "mint"
         /\ Tabs!program(a) \in {"spl-token", "spl-token-2022"}
<1>1. Tabs!program(a) \in {"spl-token", "spl-token-2022"} /\ a.parsed[2] = "mint"
  BY DEF Tabs!isMint, Tabs!isTokenProgramData
<1>2. Tabs!program(a) # NoData
  BY <1>1, NoDataIsNoText
<1>. QED
  BY <1>1, <1>2 DEF Tabs!program

LEMMA PiecesListed ==
  ASSUME NEW a, Kept(a)
  PROVE  /\ Lists(Tabs!TabsIf(a.parsed # NoData, Tabs!Tabs(<<Tabs!program(a)>>) \o Tabs!Tabs(a.parsed)),
                  OfParsed(a))
         /\ Lists(Tabs!metaplexTabs(a), Only(HasMetadata(a), {"metadata", "attributes"}))
         /\ Lists(Tabs!compressedTabs(a),
                  Only(Tabs!mayBeCompressed(a), {"metadata", "attributes", "compression"}))
         /\ Lists(Tabs!tokenTabs(a), Only(WithTokens(a), {"tokens", "domains"}))
<1> USE DEF Tabs!Tab, Tabs!Checking
<1>1. Lists(Tabs!TabsIf(a.parsed # NoData, Tabs!Tabs(<<Tabs!program(a)>>) \o Tabs!Tabs(a.parsed)),
            OfParsed(a))
  <2>1. CASE a.parsed = NoData
    BY <2>1, ListsFew DEF Tabs!TabsIf, OfParsed
  <2>2. CASE a.parsed # NoData
    <3>1. Lists(Tabs!Tabs(<<a.parsed[1]>>) \o Tabs!Tabs(<<a.parsed[1], a.parsed[2]>>), OfParsed(a))
      BY <2>2, ParsedTabs DEF OfParsed
    <3>2. a.parsed = <<a.parsed[1], a.parsed[2]>> /\ Tabs!program(a) = a.parsed[1]
      BY <2>2 DEF Kept, Tabs!program
    <3>3. Lists(Tabs!Tabs(<<Tabs!program(a)>>) \o Tabs!Tabs(a.parsed), OfParsed(a))
      BY <3>1, <3>2, Zenon
    <3>. QED
      BY <2>2, <3>3 DEF Tabs!TabsIf
  <2>. QED
    BY <2>1, <2>2
<1>2. Lists(Tabs!metaplexTabs(a), Only(HasMetadata(a), {"metadata", "attributes"}))
  <2>1. CASE HasMetadata(a)
    <3>1. Tabs!metaplexTabs(a) = <<"metadata", "attributes">>
      BY <2>1, TabsOfNFT, MintIs DEF HasMetadata, Tabs!metaplexTabs, Tabs!TabsIf
    <3>2. Only(HasMetadata(a), {"metadata", "attributes"}) = {"metadata", "attributes"}
      BY <2>1 DEF Only
    <3>. QED
      BY <3>1, <3>2, ListsFew
  <2>2. CASE ~HasMetadata(a)
    BY <2>2, ListsFew DEF HasMetadata, Tabs!metaplexTabs, Tabs!TabsIf, Only
  <2>. QED
    BY <2>1, <2>2
<1>3. Lists(Tabs!compressedTabs(a),
            Only(Tabs!mayBeCompressed(a), {"metadata", "attributes", "compression"}))
  BY ListsIf, ListsFew DEF Tabs!compressedTabs
<1>4. Lists(Tabs!tokenTabs(a), Only(WithTokens(a), {"tokens", "domains"}))
  BY ListsIf, ListsFew DEF Tabs!tokenTabs, WithTokens
<1>. QED
  BY <1>1, <1>2, <1>3, <1>4

LEMMA OtherPieces ==
  ASSUME NEW a
  PROVE  /\ Lists(Tabs!TabsIf(Tabs!isAddressLookupTableAccount(a), Tabs!Tabs(<<"address-lookup-table">>)),
                  Only(Tabs!isAddressLookupTableAccount(a), {"entries"}))
         /\ Lists(Tabs!TabsIf(Tabs!isNFTokenAccount(a) /\ a.raw = "collection",
                              <<"nftoken-collection-nfts">>),
                  Only(Tabs!isNFTokenAccount(a) /\ a.raw = "collection", {"nftoken-collection-nfts"}))
         /\ Lists(Tabs!TabsIf(a.owner = "spl-account-compression", <<"concurrent-merkle-tree">>),
                  Only(a.owner = "spl-account-compression", {"concurrent-merkle-tree"}))
         /\ Lists(Tabs!TabsIf(a.owner = "spl-token-2022", <<"token-extensions">>),
                  Only(a.owner = "spl-token-2022", {"token-extensions"}))
         /\ Lists(Tabs!TabsIf(a.feature, <<"feature-gate">>), Only(a.feature, {"feature-gate"}))
         /\ Lists(<<"history">>, {"history"}) /\ Lists(<<"program-multisig">>, {"program-multisig"})
         /\ Lists(<<"anchor-program", "anchor-account">>, {"anchor-program", "anchor-account"})
<1>1. \A x \in Tabs!Tab : Lists(<<x>>, {x})
  BY ListsFew
<1>2. Lists(<<"anchor-program", "anchor-account">>, {"anchor-program", "anchor-account"})
  BY ListsFew DEF Tabs!Tab
<1>3. \A c : \A x \in Tabs!Tab : Lists(Tabs!TabsIf(c, <<x>>), Only(c, {x}))
  BY <1>1, ListsIf
<1>4. Tabs!Tabs(<<"address-lookup-table">>) = <<"entries">>
  BY TabsOfProgram
<1>. QED
  BY <1>1, <1>2, <1>3, <1>4 DEF Tabs!Tab, Tabs!Checking

LEMMA TabsListed ==
  ASSUME NEW a, Kept(a)
  PROVE  /\ Lists(Tabs!getTabs(a), Upper(a) \cup Middle(a) \cup Lower(a))
         /\ Lists(Tabs!tabs(a), Upper(a) \cup Middle(a) \cup Lower(a) \cup Linked(a))
<1> DEFINE p2 == Tabs!TabsIf(a.parsed # NoData, Tabs!Tabs(<<Tabs!program(a)>>) \o Tabs!Tabs(a.parsed))
           p3 == Tabs!TabsIf(Tabs!isAddressLookupTableAccount(a), Tabs!Tabs(<<"address-lookup-table">>))
           p6 == Tabs!TabsIf(Tabs!isNFTokenAccount(a) /\ a.raw = "collection", <<"nftoken-collection-nfts">>)
           p8 == Tabs!TabsIf(a.owner = "spl-account-compression", <<"concurrent-merkle-tree">>)
           c2 == Tabs!TabsIf(a.owner = "spl-token-2022", <<"token-extensions">>)
           c4 == Tabs!TabsIf(a.feature, <<"feature-gate">>)
           s3 == Only(Tabs!isAddressLookupTableAccount(a), {"entries"})
           s4 == Only(HasMetadata(a), {"metadata", "attributes"})
           s5 == Only(Tabs!mayBeCompressed(a), {"metadata", "attributes", "compression"})
           s6 == Only(Tabs!isNFTokenAccount(a) /\ a.raw = "collection", {"nftoken-collection-nfts"})
           s7 == Only(WithTokens(a), {"tokens", "domains"})
           s8 == Only(a.owner = "spl-account-compression", {"concurrent-merkle-tree"})
           t2 == Only(a.owner = "spl-token-2022", {"token-extensions"})
           t4 == Only(a.feature, {"feature-gate"})
<1>1. /\ Lists(p2, OfParsed(a)) /\ Lists(Tabs!metaplexTabs(a), s4)
      /\ Lists(Tabs!compressedTabs(a), s5) /\ Lists(Tabs!tokenTabs(a), s7)
  BY PiecesListed
<1>2. /\ Lists(p3, s3) /\ Lists(p6, s6) /\ Lists(p8, s8) /\ Lists(c2, t2) /\ Lists(c4, t4)
      /\ Lists(<<"history">>, {"history"}) /\ Lists(<<"program-multisig">>, {"program-multisig"})
      /\ Lists(<<"anchor-program", "anchor-account">>, {"anchor-program", "anchor-account"})
  BY OtherPieces
<1>3. OfParsed(a) \subseteq {"entries", "security", "verified-build", "rewards", "vote-history",
                            "blockhashes", "slot-hashes", "stake-history", "transfers", "instructions"}
  BY DEF OfParsed, OfProgram, OfType
<1>4. OfParsed(a) \cap s3 = {} /\ s4 \cap s5 = {}
  <2>1. Tabs!isAddressLookupTableAccount(a) => a.parsed = NoData
    BY NoDataIsNoText DEF Kept, Tabs!isAddressLookupTableAccount
  <2>2. ~(HasMetadata(a) /\ Tabs!mayBeCompressed(a))
    BY MintIs DEF HasMetadata, Tabs!mayBeCompressed
  <2>. QED
    BY <2>1, <2>2 DEF OfParsed, Only
<1>5. /\ s3 \subseteq {"entries"} /\ s4 \subseteq {"metadata", "attributes"}
      /\ s5 \subseteq {"metadata", "attributes", "compression"} /\ s6 \subseteq {"nftoken-collection-nfts"}
      /\ s7 \subseteq {"tokens", "domains"} /\ s8 \subseteq {"concurrent-merkle-tree"}
      /\ t2 \subseteq {"token-extensions"} /\ t4 \subseteq {"feature-gate"}
  BY DEF Only
<1>6. Tabs!getTabs(a) = <<"history">> \o p2 \o p3 \o Tabs!metaplexTabs(a) \o Tabs!compressedTabs(a)
                          \o p6 \o Tabs!tokenTabs(a) \o p8
  BY DEF Tabs!getTabs
<1>7. Tabs!getCustomLinkedTabs(a) =
        <<"program-multisig">> \o c2 \o <<"anchor-program", "anchor-account">> \o c4
  BY DEF Tabs!getCustomLinkedTabs
<1>8. /\ Upper(a) = {"history"} \cup OfParsed(a) \cup s3 /\ Middle(a) = s4 \cup s5
      /\ Lower(a) = s6 \cup s7 \cup s8
      /\ Linked(a) = {"program-multisig"} \cup t2 \cup {"anchor-program", "anchor-account"} \cup t4
  BY DEF Upper, Middle, Lower, Linked
<1> HIDE DEF p2, p3, p6, p8, c2, c4, s3, s4, s5, s6, s7, s8, t2, t4
<1>9. Lists(<<"history">> \o p2, {"history"} \cup OfParsed(a))
  BY <1>1, <1>2, <1>3, ListsBoth
<1>10. Lists(<<"history">> \o p2 \o p3, {"history"} \cup OfParsed(a) \cup s3)
  BY <1>2, <1>4, <1>5, <1>9, ListsBoth
<1>11. Lists(<<"history">> \o p2 \o p3 \o Tabs!metaplexTabs(a), Upper(a) \cup s4)
  <2>1. Upper(a) \cap s4 = {}
    BY <1>3, <1>5, <1>8
  <2>. QED
    BY <1>1, <1>8, <1>10, <2>1, ListsBoth
<1>12. Lists(<<"history">> \o p2 \o p3 \o Tabs!metaplexTabs(a) \o Tabs!compressedTabs(a),
             Upper(a) \cup Middle(a))
  <2>1. (Upper(a) \cup s4) \cap s5 = {} /\ Upper(a) \cup Middle(a) = (Upper(a) \cup s4) \cup s5
    BY <1>3, <1>4, <1>5, <1>8
  <2>. QED
    BY <1>1, <1>11, <2>1, ListsBoth
<1>13. Upper(a) \cup Middle(a) \subseteq
         {"history", "entries", "security", "verified-build", "rewards", "vote-history", "blockhashes",
          "slot-hashes", "stake-history", "transfers", "instructions", "metadata", "attributes",
          "compression"}
  BY <1>3, <1>5, <1>8
<1> DEFINE UM == Upper(a) \cup Middle(a)
           um == <<"history">> \o p2 \o p3 \o Tabs!metaplexTabs(a) \o Tabs!compressedTabs(a)
<1>14. Lists(um, UM)
  BY <1>12
<1> HIDE DEF um
<1>15. Lists(um \o p6, UM \cup s6)
  <2>1. UM \cap s6 = {}
    BY <1>5, <1>13
  <2>. QED
    BY <1>2, <1>14, <2>1, ListsBoth
<1>16. Lists(um \o p6 \o Tabs!tokenTabs(a), UM \cup s6 \cup s7)
  <2>1. (UM \cup s6) \cap s7 = {}
    BY <1>5, <1>13
  <2>. QED
    BY <1>1, <1>15, <2>1, ListsBoth
<1>17. Lists(um \o p6 \o Tabs!tokenTabs(a) \o p8, UM \cup s6 \cup s7 \cup s8)
  <2>1. (UM \cup s6 \cup s7) \cap s8 = {}
    BY <1>5, <1>13
  <2>. QED
    BY <1>2, <1>16, <2>1, ListsBoth
<1>18. Lists(Tabs!getTabs(a), UM \cup Lower(a))
  <2>1. UM \cup s6 \cup s7 \cup s8 = UM \cup Lower(a)
    BY <1>8
  <2>. QED
    BY <1>6, <1>17, <2>1 DEF um
<1>19. Lists(<<"program-multisig">> \o c2, {"program-multisig"} \cup t2)
  BY <1>2, <1>5, ListsBoth
<1>20. Lists(<<"program-multisig">> \o c2 \o <<"anchor-program", "anchor-account">>,
             {"program-multisig"} \cup t2 \cup {"anchor-program", "anchor-account"})
  BY <1>2, <1>5, <1>19, ListsBoth
<1>21. Lists(Tabs!getCustomLinkedTabs(a), Linked(a))
  <2>1. ({"program-multisig"} \cup t2 \cup {"anchor-program", "anchor-account"}) \cap t4 = {}
    BY <1>5
  <2>. QED
    BY <1>2, <1>7, <1>8, <1>20, <2>1, ListsBoth
<1>22. (UM \cup Lower(a)) \cap Linked(a) = {}
  BY <1>5, <1>8, <1>13
<1>. QED
  BY <1>18, <1>21, <1>22, ListsBoth DEF Tabs!tabs
-------------------------------------------------------------------------------
(* The pages.  What became of the lookups:                                 *)
Outcome == {NoData, "answered", "failed"}
LookupsAre ==
  /\ lookups = [name \in Tabs!Lookup |-> lookups[name]]
  /\ \A name \in Tabs!Lookup : lookups[name] \in Outcome

(* What each page takes.                                                   *)
LEMMA AcceptsIs ==
  ASSUME NEW a, NEW tab
  PROVE  /\ tab \in {"security", "verified-build", "program-multisig"} =>
              (Tabs!Accepts(tab, a) <=> Tabs!program(a) = "bpf-upgradeable-loader")
         /\ tab = "vote-history" => (Tabs!Accepts(tab, a) <=> Tabs!program(a) = "vote")
         /\ tab = "blockhashes" => (Tabs!Accepts(tab, a) <=> a.parsed = <<"sysvar", "recentBlockhashes">>)
         /\ tab = "slot-hashes" => (Tabs!Accepts(tab, a) <=> a.parsed = <<"sysvar", "slotHashes">>)
         /\ tab = "stake-history" => (Tabs!Accepts(tab, a) <=> a.parsed = <<"sysvar", "stakeHistory">>)
         /\ tab = "entries" =>
              (Tabs!Accepts(tab, a) <=> \/ a.parsed = <<"address-lookup-table", "lookupTable">>
                                        \/ Tabs!isAddressLookupTableAccount(a))
         /\ tab = "concurrent-merkle-tree" =>
              (Tabs!Accepts(tab, a) <=> a.owner = "spl-account-compression" /\ a.raw # NoData)
         /\ tab \in {"metadata", "attributes"} =>
              (Tabs!Accepts(tab, a) <=> HasMetadata(a) \/ Tabs!isCompressed)
         /\ tab = "compression" => (Tabs!Accepts(tab, a) <=> Tabs!isCompressed /\ Tabs!proof = "proof")
         /\ tab \notin Tabs!Checking => Tabs!Accepts(tab, a)
<1> USE DEF Tabs!Accepts, Tabs!Checking
<1>1. tab = "security" => (Tabs!Accepts(tab, a) <=> Tabs!program(a) = "bpf-upgradeable-loader")
  BY DEF Tabs!SecurityCardRenderer
<1>2. tab = "verified-build" => (Tabs!Accepts(tab, a) <=> Tabs!program(a) = "bpf-upgradeable-loader")
  BY DEF Tabs!VerifiedBuildCardRenderer
<1>3. tab = "program-multisig" => (Tabs!Accepts(tab, a) <=> Tabs!program(a) = "bpf-upgradeable-loader")
  BY DEF Tabs!ProgramMultisigCardRenderer
<1>4. tab = "vote-history" => (Tabs!Accepts(tab, a) <=> Tabs!program(a) = "vote")
  BY DEF Tabs!VotesCardRenderer
<1>5. tab = "blockhashes" => (Tabs!Accepts(tab, a) <=> a.parsed = <<"sysvar", "recentBlockhashes">>)
  BY DEF Tabs!BlockhashesCardRenderer
<1>6. tab = "slot-hashes" => (Tabs!Accepts(tab, a) <=> a.parsed = <<"sysvar", "slotHashes">>)
  BY DEF Tabs!SlotHashesCardRenderer
<1>7. tab = "stake-history" => (Tabs!Accepts(tab, a) <=> a.parsed = <<"sysvar", "stakeHistory">>)
  BY DEF Tabs!StakeHistoryCardRenderer
<1>8. tab = "entries" =>
        (Tabs!Accepts(tab, a) <=> \/ a.parsed = <<"address-lookup-table", "lookupTable">>
                                  \/ Tabs!isAddressLookupTableAccount(a))
  BY DEF Tabs!AddressLookupTableEntriesRenderer
<1>9. tab = "concurrent-merkle-tree" =>
        (Tabs!Accepts(tab, a) <=> a.owner = "spl-account-compression" /\ a.raw # NoData)
  BY DEF Tabs!ConcurrentMerkleTreeCardRenderer
<1>10. tab = "metadata" => (Tabs!Accepts(tab, a) <=> HasMetadata(a) \/ Tabs!isCompressed)
  BY DEF Tabs!MetaplexMetadataCard, HasMetadata
<1>11. tab = "attributes" => (Tabs!Accepts(tab, a) <=> HasMetadata(a) \/ Tabs!isCompressed)
  BY DEF Tabs!MetaplexNFTAttributesCard, HasMetadata
<1>12. tab = "compression" => (Tabs!Accepts(tab, a) <=> Tabs!isCompressed /\ Tabs!proof = "proof")
  BY DEF Tabs!CompressedNFTInfoCard
<1>13. tab \notin Tabs!Checking => Tabs!Accepts(tab, a)
  OBVIOUS
<1> HIDE DEF Tabs!Accepts, Tabs!Checking
<1>. QED
  BY <1>1, <1>2, <1>3, <1>4, <1>5, <1>6, <1>7, <1>8, <1>9, <1>10, <1>11, <1>12, <1>13

(* The pages that wait for the asset; the others take an account for what  *)
(* it is, whatever the lookups find.                                       *)
OfAsset == {"metadata", "attributes", "compression"}

Suits(tab, a) ==
  /\ tab \in {"security", "verified-build", "program-multisig"} =>
       Tabs!program(a) = "bpf-upgradeable-loader"
  /\ tab = "vote-history" => Tabs!program(a) = "vote"
  /\ tab = "blockhashes" => a.parsed = <<"sysvar", "recentBlockhashes">>
  /\ tab = "slot-hashes" => a.parsed = <<"sysvar", "slotHashes">>
  /\ tab = "stake-history" => a.parsed = <<"sysvar", "stakeHistory">>
  /\ tab = "entries" => \/ a.parsed = <<"address-lookup-table", "lookupTable">>
                         \/ Tabs!isAddressLookupTableAccount(a)
  /\ tab = "concurrent-merkle-tree" => a.owner = "spl-account-compression" /\ a.raw # NoData

LEMMA AcceptsSuited ==
  ASSUME NEW a, NEW tab, tab \notin OfAsset
  PROVE  Tabs!Accepts(tab, a) <=> Suits(tab, a)
<1>1. tab \notin Tabs!Checking => Suits(tab, a)
  BY DEF Suits, Tabs!Checking
<1>2. CASE tab \notin Tabs!Checking
  BY <1>1, <1>2, AcceptsIs
<1>3. CASE tab \in {"security", "verified-build", "program-multisig"}
  BY <1>3, AcceptsIs DEF Suits
<1>4. CASE tab \in {"vote-history", "blockhashes", "slot-hashes", "stake-history"}
  BY <1>4, AcceptsIs DEF Suits
<1>5. CASE tab \in {"entries", "concurrent-merkle-tree"}
  BY <1>5, AcceptsIs DEF Suits
<1>. QED
  BY <1>2, <1>3, <1>4, <1>5 DEF Tabs!Checking, OfAsset

(* A page that neither throws nor sends the user away suits the account,   *)
(* also while it waits.                                                    *)
LEMMA CommittedSuits ==
  ASSUME NEW a, Kept(a), NEW tab, tab \notin OfAsset, Tabs!Page(tab, a) \notin {"throws", "notFound"}
  PROVE  Suits(tab, a)
<1>1. \/ Tabs!Accepts(tab, a)
      \/ Tabs!waitsFor(tab, a) # {}
  BY DEF Tabs!Page, Tabs!Outcomes
<1>2. ASSUME Tabs!waitsFor(tab, a) # {}, tab \notin {"anchor-program", "anchor-account"}
      PROVE  tab = "program-multisig" /\ Tabs!looksForSquad(a)
  BY <1>2 DEF Tabs!waitsFor, OfAsset
<1>3. Tabs!looksForSquad(a) => Tabs!program(a) = "bpf-upgradeable-loader"
  BY NoDataIsNoText DEF Tabs!looksForSquad, Kept, Tabs!program
<1>. QED
  BY <1>1, <1>2, <1>3, AcceptsSuited DEF Suits

(* What is waited for by the pages of an asset has been answered.          *)
LEMMA NotFoundIs ==
  ASSUME NEW a, NEW tab, LookupsAre, Tabs!Page(tab, a) = "notFound"
  PROVE  /\ ~Tabs!Accepts(tab, a)
         /\ tab \in {"metadata", "attributes", "compression"} => lookups["asset"] = "answered"
         /\ tab = "compression" => lookups["proof"] = "answered"
<1>1. /\ ~("failed" \in Tabs!Outcomes(tab, a) /\ Tabs!waitsFor(tab, a) \cap {"idl", "ownerIdl"} = {})
      /\ NoData \notin Tabs!Outcomes(tab, a) /\ ~Tabs!Accepts(tab, a)
  BY DEF Tabs!Page
<1>2. /\ tab \in {"metadata", "attributes"} => Tabs!waitsFor(tab, a) = {"asset"}
      /\ tab = "compression" => Tabs!waitsFor(tab, a) = {"asset", "proof"}
  BY DEF Tabs!waitsFor
<1>3. \A name \in Tabs!waitsFor(tab, a) : lookups[name] \in Tabs!Outcomes(tab, a)
  BY DEF Tabs!Outcomes
<1>. QED
  BY <1>1, <1>2, <1>3 DEF LookupsAre, Outcome, Tabs!Lookup

(* A page that has its tab takes the account, the one of a table that is   *)
(* not initialized apart.                                                  *)
LEMMA FoundUnlessUninitialized ==
  ASSUME NEW a, Kept(a), NEW tab, tab \in Upper(a) \cup Middle(a) \cup Lower(a),
         LookupsAre, Tabs!Page(tab, a) = "notFound",
         Tabs!mayBeCompressed(a) /\ tab \in {"metadata", "attributes", "compression"} => Tabs!isCompressed
  PROVE  tab = "entries" /\ Tabs!Uninitialized(a)
<1>1. ~Tabs!Accepts(tab, a)
  BY NotFoundIs
<1>2. tab \in OfParsed(a) => tab = "entries" /\ Tabs!Uninitialized(a)
  <2>1. ASSUME tab \in OfParsed(a)
        PROVE  /\ Tabs!program(a) = a.parsed[1] /\ a.parsed = <<a.parsed[1], a.parsed[2]>>
               /\ tab \in OfProgram(a.parsed[1]) \/ tab \in OfType(a.parsed[1], a.parsed[2])
    BY <2>1 DEF OfParsed, Kept, Tabs!program
  <2>2. ASSUME tab \in OfParsed(a), tab \in OfType(a.parsed[1], a.parsed[2]) PROVE FALSE
    <3>1. tab \in {"transfers", "instructions"} => tab \notin Tabs!Checking
      BY DEF Tabs!Checking
    <3>. QED
      BY <1>1, <2>1, <2>2, <3>1, AcceptsIs DEF OfType
  <2>3. ASSUME tab \in OfParsed(a), tab \in OfProgram(a.parsed[1])
        PROVE  tab = "entries" /\ Tabs!Uninitialized(a)
    <3>1. tab = "rewards" => tab \notin Tabs!Checking
      BY DEF Tabs!Checking
    <3>2. tab = "entries" /\ a.parsed[1] = "address-lookup-table"
      BY <1>1, <2>1, <2>3, <3>1, AcceptsIs DEF OfProgram
    <3>3. a.parsed # NoData
      BY <2>3 DEF OfParsed
    <3>. QED
      BY <1>1, <3>2, <3>3, AcceptsIs DEF Kept, Tabs!Uninitialized
  <2>. QED
    BY <2>1, <2>2, <2>3
<1>3. tab \notin Middle(a)
  <2>1. lookups["proof"] = "answered" => Tabs!proof = "proof"
    BY DEF Tabs!proof, Tabs!Result
  <2>. QED
    BY <1>1, <2>1, NotFoundIs, AcceptsIs DEF Middle, Only
<1>4. tab \notin Lower(a)
  <2>1. tab \in {"nftoken-collection-nfts", "tokens", "domains"} => tab \notin Tabs!Checking
    BY DEF Tabs!Checking
  <2>. QED
    BY <1>1, <2>1, AcceptsIs DEF Lower, Only, Kept, NeverParsed
<1>5. tab # "history" /\ tab \notin Only(Tabs!isAddressLookupTableAccount(a), {"entries"})
  <2>1. "history" \notin Tabs!Checking
    BY DEF Tabs!Checking
  <2>. QED
    BY <1>1, <2>1, AcceptsIs DEF Only
<1>. QED
  BY <1>2, <1>3, <1>4, <1>5 DEF Upper
LEMMA LinksAre ==
  ASSUME NEW a, Kept(a)
  PROVE  /\ Tabs!IsInjective(Tabs!tabs(a))
         /\ Tabs!ToSet(Tabs!getTabs(a)) = Upper(a) \cup Middle(a) \cup Lower(a)
         /\ Tabs!ToSet(Tabs!compressedTabs(a)) =
              Only(Tabs!mayBeCompressed(a), {"metadata", "attributes", "compression"})
         /\ \A tab : tab \in Tabs!links(a) <=>
              /\ tab \in Upper(a) \cup Middle(a) \cup Lower(a) \cup Linked(a)
              /\ Tabs!isLinked(a, tab)
BY TabsListed, PiecesListed DEF Lists, Tabs!links

LEMMA LinkIsFound ==
  ASSUME NEW a, Kept(a), LookupsAre, NEW tab \in Tabs!links(a), Tabs!Page(tab, a) = "notFound"
  PROVE  tab = "entries" /\ Tabs!Uninitialized(a)
<1>1. tab \in Upper(a) \cup Middle(a) \cup Lower(a) \cup Linked(a) /\ Tabs!isLinked(a, tab)
  BY LinksAre
<1>2. Tabs!mayBeCompressed(a) /\ tab \in {"metadata", "attributes", "compression"} => Tabs!isCompressed
  BY <1>1, LinksAre DEF Tabs!isLinked, Only
<1>3. ASSUME tab \in Linked(a) PROVE FALSE
  <2>1. ~Tabs!Accepts(tab, a)
    BY NotFoundIs
  <2>2. tab # "program-multisig" => tab \notin Tabs!Checking
    BY <1>3 DEF Linked, Only, Tabs!Checking
  <2>3. tab = "program-multisig"
    BY <2>1, <2>2, AcceptsIs
  <2>4. Tabs!squadMapInfo(a) = "squad"
    BY <1>1, <2>3 DEF Tabs!isLinked
  <2>5. Tabs!looksForSquad(a)
    BY <2>4 DEF Tabs!squadMapInfo
  <2>6. Tabs!program(a) = "bpf-upgradeable-loader"
    BY <2>5, NoDataIsNoText DEF Tabs!looksForSquad, Kept, Tabs!program
  <2>. QED
    BY <2>1, <2>3, <2>6, AcceptsIs
<1>. QED
  BY <1>1, <1>2, <1>3, FoundUnlessUninitialized

LEMMA ShownIsLinked ==
  ASSUME NEW a, Kept(a), Tabs!isCompressed => Tabs!mayBeCompressed(a),
         NEW tab \in Tabs!Checking \ {"program-multisig"}, Tabs!Page(tab, a) = "shown"
  PROVE  tab \in Tabs!links(a)
<1>1. Tabs!Accepts(tab, a)
  BY DEF Tabs!Page
<1>2. tab \in {"metadata", "attributes", "compression"} => tab \in Middle(a)
  BY <1>1, AcceptsIs DEF Middle, Only
<1>3. tab = "concurrent-merkle-tree" => tab \in Lower(a)
  BY <1>1, AcceptsIs DEF Lower, Only
<1>4. tab \notin {"metadata", "attributes", "compression", "concurrent-merkle-tree"} => tab \in Upper(a)
  <2>1. CASE tab = "entries" /\ Tabs!isAddressLookupTableAccount(a)
    BY <2>1 DEF Upper, Only
  <2>2. CASE tab \in {"security", "verified-build", "vote-history", "blockhashes", "slot-hashes",
                      "stake-history", "entries"} /\ ~(tab = "entries" /\ Tabs!isAddressLookupTableAccount(a))
    <3>1. \/ /\ Tabs!program(a) = "bpf-upgradeable-loader" /\ tab \in {"security", "verified-build"}
          \/ Tabs!program(a) = "vote" /\ tab = "vote-history"
          \/ a.parsed = <<"sysvar", "recentBlockhashes">> /\ tab = "blockhashes"
          \/ a.parsed = <<"sysvar", "slotHashes">> /\ tab = "slot-hashes"
          \/ a.parsed = <<"sysvar", "stakeHistory">> /\ tab = "stake-history"
          \/ a.parsed = <<"address-lookup-table", "lookupTable">> /\ tab = "entries"
      BY <1>1, <2>2, AcceptsIs
    <3>2. a.parsed = NoData => Tabs!program(a) = NoData
      BY DEF Tabs!program
    <3>3. a.parsed # NoData => Tabs!program(a) = a.parsed[1]
      BY DEF Tabs!program
    <3>4. tab \in OfParsed(a)
      <4>1. CASE a.parsed = NoData
        <5>1. Tabs!program(a) \notin {"bpf-upgradeable-loader", "vote"}
          BY <3>2, <4>1, NoDataIsNoText
        <5>. QED
          BY <3>1, <5>1, <4>1, NoDataIsNoText
      <4>2. CASE a.parsed # NoData
        BY <3>1, <3>3, <4>2 DEF OfParsed, OfProgram, OfType
      <4>. QED
        BY <4>1, <4>2
    <3>. QED
      BY <3>4 DEF Upper
  <2>. QED
    BY <2>1, <2>2 DEF Tabs!Checking
<1>5. Tabs!isLinked(a, tab)
  <2>1. tab \in Tabs!ToSet(Tabs!compressedTabs(a)) => Tabs!isCompressed
    <3>1. tab \in Tabs!ToSet(Tabs!compressedTabs(a)) =>
            Tabs!mayBeCompressed(a) /\ tab \in {"metadata", "attributes", "compression"}
      BY LinksAre DEF Only
    <3>2. Tabs!mayBeCompressed(a) => ~HasMetadata(a)
      BY MintIs DEF Tabs!mayBeCompressed, HasMetadata
    <3>. QED
      BY <1>1, <3>1, <3>2, AcceptsIs
  <2>2. tab \notin {"program-multisig", "anchor-program", "anchor-account"}
    BY DEF Tabs!Checking
  <2>. QED
    BY <2>1, <2>2 DEF Tabs!isLinked
<1>. QED
  BY <1>2, <1>3, <1>4, <1>5, LinksAre

LEMMA HeaderAndSection ==
  ASSUME NEW a, Kept(a)
  PROVE  /\ Tabs!Header(a) = "nftoken" <=> Tabs!Section(a) = "nftoken"
         /\ Tabs!Header(a) \in {"nft", "token"} => Tabs!Section(a) = "token"
<1>1. Tabs!isMint(a) =>
        /\ Tabs!program(a) \in {"spl-token", "spl-token-2022"} /\ Tabs!isTokenProgramData(a)
        /\ a.owner # "nftoken" /\ ~Tabs!isNFTokenAccount(a)
  BY MintIs DEF Kept, NeverParsed, Tabs!isNFTokenAccount, Tabs!isTokenProgramData
<1>2. a.owner = "nftoken" <=> Tabs!isNFTokenAccount(a)
  BY DEF Kept, NeverParsed, Tabs!isNFTokenAccount
<1>3. a.owner = "nftoken" => Tabs!program(a) = NoData /\ ~Tabs!isMint(a)
  BY <1>1 DEF Kept, NeverParsed, Tabs!program
<1>4. Tabs!isMetaplexNFT(a) => Tabs!isMint(a)
  BY DEF Tabs!isMetaplexNFT
<1>5. Tabs!Section(a) = "nftoken" <=> a.owner = "nftoken"
  BY <1>3, NoDataIsNoText DEF Tabs!Section
<1>6. Tabs!Header(a) = "nftoken" <=> Tabs!isNFTokenAccount(a)
  BY <1>1, <1>4 DEF Tabs!Header
<1>7. Tabs!Header(a) \in {"nft", "token"} => Tabs!isMint(a)
  BY <1>4 DEF Tabs!Header
<1>8. Tabs!isMint(a) => Tabs!Section(a) = "token"
  BY <1>1 DEF Tabs!Section
<1>. QED
  BY <1>2, <1>5, <1>6, <1>7, <1>8
-------------------------------------------------------------------------------
(* What may be kept of an account.                                         *)
Reads(at) == {Tabs!Read(at, answered) : answered \in BOOLEAN}

(* The cache of the tabs: what it keeps is of its url, and is there once   *)
(* it was fetched.                                                         *)
CacheIs(c, chain, u, s, d) ==
  /\ c = [url |-> u, entries |-> [k \in {Shown} |-> [status |-> s, data |-> d]]]
  /\ d \in {NoData} \cup Reads(chain[u])
  /\ s = "Fetched" => d # NoData

TabsCacheIs(c, chain) == \E u \in Url : \E s, d : CacheIs(c, chain, u, s, d)

(* After a switch of the cluster: that the page neither threw nor sent the *)
(* user away on the earlier one is what is left of its decision there.     *)
Decided ==
  /\ tabsCache.url # tabsUrl
  /\ Tabs!info.status = "Fetched" /\ ~Tabs!isTokenProgramData(Tabs!info.data)
  /\ path \notin OfAsset
  => Suits(path, Tabs!info.data)

(* The inductive invariant of the tabs.                                    *)
TabsInv ==
  /\ tabsUrl \in Url /\ onChain \in Ledgers /\ acts \in Nat
  /\ LookupsAre /\ TabsCacheIs(tabsCache, onChain)
  /\ Decided

AddressInv == (part = "tabs" => TabsInv) /\ (part # "tabs" => crashed)

LEMMA ReadIsKept ==
  ASSUME onChain \in Ledgers, NEW u \in Url, NEW a \in Reads(onChain[u])
  PROVE  Kept(a) /\ a # NoData /\ (onChain[u].asset = "compressed" => Tabs!mayBeCompressed(a))
<1>1. PICK answered \in BOOLEAN : a = Tabs!Read(onChain[u], answered)
  BY DEF Reads
<1> DEFINE at == onChain[u]
<1>2. /\ at.parsed = NoData <=> at.raw # NoData
      /\ at.parsed # NoData =>
           /\ at.parsed = <<at.parsed[1], at.parsed[2]>> /\ at.owner \notin NeverParsed
           /\ at.parsed[1] = "address-lookup-table" => at.parsed[2] \in {"lookupTable", "uninitialized"}
      /\ at.authority # NoData => at.parsed # NoData /\ at.parsed[1] = "bpf-upgradeable-loader"
      /\ at.asset = "compressed" => at.raw = "empty"
  BY LedgersAssumption
<1>3. a # NoData
  BY <1>1, NoDataIsNoText
<1> HIDE DEF at
<1>4. /\ a.owner = at.owner /\ a.raw = at.raw
      /\ a.parsed # NoData => a.parsed = at.parsed
      /\ a.authority # NoData => a.parsed = at.parsed /\ a.authority = at.authority
  BY <1>1 DEF Tabs!Read, at
<1>5. Kept(a)
  BY <1>2, <1>4 DEF Kept
<1>6. at.asset = "compressed" => Tabs!mayBeCompressed(a)
  BY <1>2, <1>4, NoDataIsNoText DEF Tabs!mayBeCompressed
<1>. QED
  BY <1>3, <1>5, <1>6 DEF at

(* A compressed asset is of the account on display.                        *)
LEMMA TabsMatch ==
  ASSUME TabsInv
  PROVE  Tabs!TabsMatchPages
<1> SUFFICES ASSUME tabsCache.url = tabsUrl, Tabs!info.status = "Fetched" PROVE Tabs!TabsMatchPages
  BY DEF Tabs!TabsMatchPages, Tabs!ThisUrl, Tabs!rendered
<1> DEFINE a == Tabs!info.data
<1>1. a \in Reads(onChain[tabsUrl])
  BY DEF TabsInv, TabsCacheIs, CacheIs, Tabs!info
<1>2. Kept(a) /\ (onChain[tabsUrl].asset = "compressed" => Tabs!mayBeCompressed(a))
  BY <1>1, ReadIsKept DEF TabsInv
<1>3. Tabs!isCompressed => onChain[tabsUrl].asset = "compressed"
  <2>1. lookups["asset"] \in {NoData, "answered", "failed"}
    BY DEF TabsInv, LookupsAre, Outcome, Tabs!Lookup
  <2>2. lookups["asset"] # "compressed"
    BY <2>1, NoDataIsNoText
  <2>. QED
    BY <2>2 DEF Tabs!isCompressed, Tabs!asset, Tabs!Result
<1> HIDE DEF a
<1>4. LookupsAre
  BY DEF TabsInv
<1>5. \A tab \in Tabs!links(a) :
        Tabs!Page(tab, a) = "notFound" => tab = "entries" /\ Tabs!Uninitialized(a)
  BY <1>2, <1>4, LinkIsFound
<1>6. \A tab \in Tabs!Checking \ {"program-multisig"} :
        Tabs!Page(tab, a) = "shown" => tab \in Tabs!links(a)
  BY <1>2, <1>3, ShownIsLinked
<1>. QED
  BY <1>2, <1>5, <1>6, LinksAre, HeaderAndSection DEF Tabs!TabsMatchPages, a

(* The account of this url, read in full, sends no one away from a page it *)
(* has, that of a table that is not initialized apart.                     *)
LEMMA OwnPageKept ==
  ASSUME TabsInv, NEW a, a = Tabs!Read(onChain[tabsUrl], TRUE), Tabs!Page(path, a) = "notFound",
         path \in Tabs!TabsOf(tabsUrl)
  PROVE  path = "entries" /\ Tabs!Uninitialized(a)
<1>1. a \in Reads(onChain[tabsUrl]) /\ LookupsAre
  BY DEF Reads, TabsInv
<1>2. Kept(a)
  BY <1>1, ReadIsKept DEF TabsInv
<1>3. CASE path = "program-multisig"
  <2>1. a.authority = "squad"
    <3>1. path \notin Upper(a) \cup Middle(a) \cup Lower(a)
      BY <1>3 DEF Upper, Middle, Lower, Only, OfParsed, OfProgram, OfType
    <3>. QED
      BY <1>2, <3>1, LinksAre DEF Tabs!TabsOf
  <2>2. Tabs!program(a) = "bpf-upgradeable-loader"
    BY <1>2, <2>1, NoDataIsNoText DEF Kept, Tabs!program
  <2>. QED
    BY <1>1, <1>3, <2>2, AcceptsIs, NotFoundIs
<1>4. CASE path # "program-multisig"
  <2>1. /\ path \in Tabs!ToSet(Tabs!getTabs(a))
        /\ path \in Tabs!ToSet(Tabs!compressedTabs(a)) => onChain[tabsUrl].asset = "compressed"
    BY <1>4 DEF Tabs!TabsOf
  <2>2. Tabs!mayBeCompressed(a) /\ path \in {"metadata", "attributes", "compression"} => Tabs!isCompressed
    <3>1. path \in {"metadata", "attributes", "compression"} => lookups["asset"] = "answered"
      BY <1>1, NotFoundIs
    <3>. QED
      BY <1>2, <2>1, <3>1, LinksAre DEF Only, Tabs!isCompressed, Tabs!asset, Tabs!Result
  <2>. QED
    BY <1>1, <1>2, <2>1, <2>2, LinksAre, FoundUnlessUninitialized
<1>. QED
  BY <1>3, <1>4

(* In the render with the cache of the other url the asset is that of the  *)
(* new one: the page of a compressed asset that was found is not given up. *)
LEMMA CompressionKept ==
  ASSUME TabsInv, path = "compression", path \in Tabs!TabsOf(tabsUrl),
         NEW a, Tabs!Page(path, a) = "notFound"
  PROVE  FALSE
<1> DEFINE own == Tabs!Read(onChain[tabsUrl], TRUE)
<1>1. own \in Reads(onChain[tabsUrl])
  BY DEF Reads
<1>2. Kept(own)
  BY <1>1, ReadIsKept DEF TabsInv
<1>3. /\ path \in Tabs!ToSet(Tabs!getTabs(own))
      /\ path \in Tabs!ToSet(Tabs!compressedTabs(own)) => onChain[tabsUrl].asset = "compressed"
  BY DEF Tabs!TabsOf
<1> HIDE DEF own
<1>4. path \in Upper(own) \cup Middle(own) \cup Lower(own)
  BY <1>2, <1>3, LinksAre
<1>5. Tabs!mayBeCompressed(own)
  BY <1>4 DEF Upper, Middle, Lower, Only, OfParsed, OfProgram, OfType
<1>6. onChain[tabsUrl].asset = "compressed"
  BY <1>2, <1>3, <1>5, LinksAre DEF Only
<1>7. lookups["asset"] = "answered" /\ lookups["proof"] = "answered" /\ ~Tabs!Accepts(path, a)
  BY NotFoundIs DEF TabsInv
<1>. QED
  BY <1>6, <1>7, AcceptsIs DEF Tabs!isCompressed, Tabs!asset, Tabs!proof, Tabs!Result

(* Only a page that has found nothing gives up the url.                    *)
LEMMA PageKept ==
  ASSUME TabsInv, Tabs!Next
  PROVE  Tabs!KeepsPage
<1> DEFINE a == Tabs!info.data
           own == Tabs!Read(onChain[tabsUrl], TRUE)
<1> SUFFICES ASSUME path' # path, acts' = acts, path \in Tabs!TabsOf(tabsUrl),
                    ~(path = "entries" /\ Tabs!Uninitialized(own)), ~Tabs!Lost, ~Tabs!DecidesAnew
             PROVE  FALSE
  BY Zenon DEF Tabs!KeepsPage
<1>1. Tabs!Redirect
  <2>1. \A u \in Url : ~Tabs!Switch(u)
    BY DEF Tabs!Switch
  <2>2. \A tab \in Tabs!Tab : ~Tabs!Click(tab)
    <3>1. acts' # acts + 1
      BY DEF TabsInv
    <3>. QED
      BY <3>1 DEF Tabs!Click, Tabs!Act
  <2>3. ~Tabs!ClearEffect /\ ~Tabs!Fetch /\ ~Tabs!Refresh /\ ~Tabs!Fail
    BY DEF Tabs!ClearEffect, Tabs!Fetch, Tabs!Refresh, Tabs!Fail
  <2>4. ~Tabs!RetryTokenInfo /\ ~Tabs!Crash
    BY DEF Tabs!RetryTokenInfo, Tabs!Crash
  <2>5. \A fails : ~Tabs!Answer(fails)
    BY DEF Tabs!Answer
  <2>6. \A fails, name : ~Tabs!Settle(name, fails)
    BY DEF Tabs!Settle
  <2>. QED
    BY <2>1, <2>2, <2>3, <2>4, <2>5, <2>6 DEF Tabs!Next
<1>2. Tabs!Page(path, a) = "notFound" /\ Tabs!info.status = "Fetched"
  BY <1>1 DEF Tabs!Redirect, Tabs!Redirects, Tabs!rendered
<1> HIDE DEF a, own
<1>3. CASE tabsCache.url = tabsUrl
  <2>1. a = own
    BY <1>3 DEF Tabs!Lost, a, own
  <2>. QED
    BY <1>2, <2>1, OwnPageKept DEF own
<1>4. CASE tabsCache.url # tabsUrl
  <2>1. path \notin {"metadata", "attributes"} /\ ~Tabs!isTokenProgramData(a)
    BY <1>4 DEF Tabs!DecidesAnew, a
  <2>2. path # "compression"
    BY <1>2, CompressionKept
  <2>3. path \notin OfAsset
    BY <2>1, <2>2 DEF OfAsset
  <2>4. Suits(path, a)
    BY <1>2, <1>4, <2>1, <2>3 DEF TabsInv, Decided, a
  <2>5. ~Tabs!Accepts(path, a)
    BY <1>2, NotFoundIs DEF TabsInv
  <2>. QED
    BY <2>3, <2>4, <2>5, AcceptsSuited
<1>. QED
  BY <1>3, <1>4
LEMMA TabsInvInit == Tabs!Init => TabsInv
<1> SUFFICES ASSUME Tabs!Init PROVE TabsInv
  OBVIOUS
<1>1. tabsUrl \in Url /\ onChain \in Ledgers /\ acts \in Nat
  BY DEF Tabs!Init
<1>2. LookupsAre
  BY DEF Tabs!Init, LookupsAre, Outcome
<1>3. tabsCache = [url |-> tabsUrl, entries |-> [k \in {Shown} |-> [status |-> "Absent", data |-> NoData]]]
  BY DEF Tabs!Init, Tabs!Clear, Tabs!Absent
<1>4. CacheIs(tabsCache, onChain, tabsUrl, "Absent", NoData)
  BY <1>3 DEF CacheIs
<1>5. Decided
  BY <1>3 DEF Decided
<1>. QED
  BY <1>1, <1>2, <1>4, <1>5 DEF TabsInv, TabsCacheIs

(* The cache after an update for the url of the page.                      *)
LEMMA TabsUpdated ==
  ASSUME TabsInv, Tabs!Ready, NEW s, NEW d \in {NoData} \cup Reads(onChain[tabsUrl]),
         s = "Fetched" => d # NoData, Tabs!Update(s, d)
  PROVE  TabsCacheIs(tabsCache', onChain) /\ tabsCache'.url = tabsUrl
<1>1. PICK u \in Url : \E t, e : CacheIs(tabsCache, onChain, u, t, e)
  BY DEF TabsInv, TabsCacheIs
<1>2. PICK t, e : CacheIs(tabsCache, onChain, u, t, e)
  BY <1>1
<1>3. /\ tabsCache = [url |-> u, entries |-> [k \in {Shown} |-> [status |-> t, data |-> e]]]
      /\ e \in {NoData} \cup Reads(onChain[u]) /\ u = tabsUrl /\ tabsCache.entries[Shown].data = e
  BY <1>2 DEF CacheIs, Tabs!Ready
<1> DEFINE kept == Tabs!defaultReconciler(e, d)
<1>4. kept \in {NoData} \cup Reads(onChain[u]) /\ (d # NoData => kept = d)
  <2>1. CASE d = NoData
    BY <1>3, <2>1 DEF Tabs!defaultReconciler
  <2>2. CASE d # NoData /\ e = NoData
    BY <1>3, <2>2 DEF Tabs!defaultReconciler
  <2>3. CASE d # NoData /\ e # NoData
    <3>1. PICK answered \in BOOLEAN : d = Tabs!Read(onChain[u], answered)
      BY <1>3, <2>3 DEF Reads
    <3>2. PICK before \in BOOLEAN : e = Tabs!Read(onChain[u], before)
      BY <1>3, <2>3 DEF Reads
    <3>3. DOMAIN d = DOMAIN e /\ d = [f \in DOMAIN d |-> d[f]]
      BY <3>1, <3>2 DEF Tabs!Read
    <3>4. kept = [f \in DOMAIN e \cup DOMAIN d |-> IF f \in DOMAIN d THEN d[f] ELSE e[f]]
      BY <2>3 DEF Tabs!defaultReconciler
    <3>. QED
      BY <1>3, <3>3, <3>4
  <2>. QED
    BY <2>1, <2>2, <2>3
<1>5. tabsCache' = [url |-> u, entries |-> [k \in {Shown} |-> [status |-> s, data |-> kept]]]
  <2> DEFINE all == [k \in {Shown} |-> Tabs!defaultReconciler(tabsCache.entries[k].data,
                                                             [n \in {Shown} |-> d][k])]
  <2>1. tabsCache' = Tabs!UpdateAll(tabsCache, tabsUrl, {Shown}, s, all)
    BY DEF Tabs!Update, Tabs!defaultReducer
  <2>2. all[Shown] = kept
    BY <1>3 DEF kept
  <2> HIDE DEF all, kept
  <2>3. tabsCache' = [tabsCache EXCEPT !.entries =
                        [k \in {Shown} |-> IF k \in {Shown} THEN [status |-> s, data |-> all[k]] ELSE @[k]]]
    BY <1>3, <2>1 DEF Tabs!UpdateAll
  <2>4. tabsCache' = [tabsCache EXCEPT !.entries =
                        [k \in {Shown} |-> [status |-> s, data |-> kept]]]
    BY <2>2, <2>3
  <2>. QED
    BY <1>3, <2>4
<1> HIDE DEF kept
<1>6. CacheIs(tabsCache', onChain, u, s, kept)
  BY <1>4, <1>5 DEF CacheIs
<1>. QED
  BY <1>3, <1>5, <1>6 DEF TabsCacheIs

(* The step of a switch: the page was rendered, and had not been left.     *)
LEMMA SwitchDecides ==
  ASSUME TabsInv, NEW u \in Url, Tabs!Switch(u)
  PROVE  Decided'
<1> DEFINE a == Tabs!info.data
<1>1. UNCHANGED <<tabsCache, path>> /\ Tabs!Ready
  BY DEF Tabs!Switch, Tabs!Act
<1>2. Tabs!info' = Tabs!info
  BY <1>1 DEF Tabs!info
<1>3. ASSUME Tabs!info.status = "Fetched", ~Tabs!isTokenProgramData(a), path \notin OfAsset
      PROVE  Suits(path, a)
  <2>1. Tabs!rendered
    BY <1>3 DEF Tabs!rendered, Tabs!isTokenInfoLoading
  <2>2. Tabs!Page(path, a) \notin {"throws", "notFound"}
    BY <1>1, <2>1 DEF Tabs!Ready, Tabs!Committed, Tabs!Throws, Tabs!Redirects
  <2>3. a \in Reads(onChain[tabsCache.url]) /\ tabsCache.url \in Url
    BY <1>3 DEF TabsInv, TabsCacheIs, CacheIs, Tabs!info
  <2>4. Kept(a)
    BY <2>3, ReadIsKept DEF TabsInv
  <2>. QED
    BY <1>3, <2>2, <2>4, CommittedSuits
<1>. QED
  BY <1>1, <1>2, <1>3 DEF Decided

(* With the cache of the url there is nothing to remember.                 *)
LEMMA DecidedAtOnce ==
  ASSUME tabsCache'.url = tabsUrl'
  PROVE  Decided'
BY DEF Decided

LEMMA TabsInvNext ==
  ASSUME TabsInv, Tabs!Next
  PROVE  TabsInv'
<1> USE DEF Tabs!Act
<1>1. ASSUME NEW u \in Url, Tabs!Switch(u) PROVE TabsInv'
  <2>1. /\ tabsUrl' \in Url /\ UNCHANGED <<onChain, tabsCache>> /\ acts' \in Nat
        /\ lookups' \in {[name \in Tabs!Lookup |-> outcome] : outcome \in {NoData, "answered"}}
    BY <1>1 DEF Tabs!Switch, TabsInv
  <2>2. LookupsAre'
    BY <2>1 DEF LookupsAre, Outcome
  <2>. QED
    BY <1>1, <2>1, <2>2, SwitchDecides DEF TabsInv
<1>2. CASE Tabs!ClearEffect
  <2>1. /\ UNCHANGED <<tabsUrl, onChain, lookups, acts>>
        /\ tabsCache' = [url |-> tabsUrl,
                         entries |-> [k \in {Shown} |-> [status |-> "Absent", data |-> NoData]]]
    BY <1>2 DEF Tabs!ClearEffect, Tabs!Clear, Tabs!Absent
  <2>2. CacheIs(tabsCache', onChain, tabsUrl, "Absent", NoData)
    BY <2>1 DEF CacheIs
  <2>3. Decided'
    BY <2>1, DecidedAtOnce
  <2>. QED
    BY <2>1, <2>2, <2>3 DEF TabsInv, LookupsAre, TabsCacheIs
<1>3. CASE Tabs!Fetch \/ Tabs!Refresh
  <2>1. /\ UNCHANGED <<tabsUrl, onChain, lookups>> /\ acts' \in Nat
        /\ Tabs!Ready /\ Tabs!Update("Fetching", NoData)
    BY <1>3 DEF Tabs!Fetch, Tabs!Refresh, TabsInv
  <2>. QED
    BY <2>1, TabsUpdated, DecidedAtOnce DEF TabsInv, LookupsAre
<1>4. CASE Tabs!Fail
  <2>1. UNCHANGED <<tabsUrl, onChain, lookups, acts>> /\ Tabs!Ready /\ Tabs!Update("FetchFailed", NoData)
    BY <1>4 DEF Tabs!Fail
  <2>. QED
    BY <2>1, TabsUpdated, DecidedAtOnce DEF TabsInv, LookupsAre
<1>5. ASSUME NEW lost \in BOOLEAN, Tabs!Answer(lost) PROVE TabsInv'
  <2> DEFINE d == Tabs!Read(onChain[tabsUrl], ~lost)
  <2>1. UNCHANGED <<tabsUrl, onChain, lookups, acts>> /\ Tabs!Ready /\ Tabs!Update("Fetched", d)
    BY <1>5 DEF Tabs!Answer
  <2>2. d \in Reads(onChain[tabsUrl])
    BY DEF Reads
  <2>3. d # NoData
    BY <2>2, ReadIsKept DEF TabsInv
  <2> HIDE DEF d
  <2>. QED
    BY <2>1, <2>2, <2>3, TabsUpdated, DecidedAtOnce DEF TabsInv, LookupsAre
<1>6. ASSUME NEW name \in Tabs!Lookup, NEW fails, Tabs!Settle(name, fails) PROVE TabsInv'
  <2>1. /\ UNCHANGED <<tabsUrl, onChain, tabsCache, acts>> /\ tabsCache.url = tabsUrl
        /\ lookups' = [lookups EXCEPT ![name] = IF fails THEN "failed" ELSE "answered"]
    BY <1>6 DEF Tabs!Settle, Tabs!Ready
  <2>2. LookupsAre'
    BY <2>1 DEF TabsInv, LookupsAre, Outcome
  <2>. QED
    BY <2>1, <2>2, DecidedAtOnce DEF TabsInv
<1>7. CASE Tabs!RetryTokenInfo
  <2>1. /\ UNCHANGED <<tabsUrl, onChain, tabsCache, acts>> /\ tabsCache.url = tabsUrl
        /\ lookups' = [lookups EXCEPT !["tokenInfo"] = NoData]
    BY <1>7 DEF Tabs!RetryTokenInfo, Tabs!Ready
  <2>2. LookupsAre'
    BY <2>1 DEF TabsInv, LookupsAre, Outcome
  <2>. QED
    BY <2>1, <2>2, DecidedAtOnce DEF TabsInv
<1>8. CASE Tabs!Redirect
  <2>1. UNCHANGED <<tabsUrl, onChain, tabsCache, lookups, acts>> /\ path' = "history"
    BY <1>8 DEF Tabs!Redirect
  <2>2. Decided'
    BY <2>1 DEF Decided, Suits
  <2>. QED
    BY <2>1, <2>2 DEF TabsInv, LookupsAre
<1>9. CASE Tabs!Crash
  <2>1. UNCHANGED <<tabsUrl, onChain, tabsCache, lookups, path, acts>>
    BY <1>9 DEF Tabs!Crash
  <2>2. Decided'
    BY <2>1 DEF TabsInv, Decided, Tabs!info
  <2>. QED
    BY <2>1, <2>2 DEF TabsInv, LookupsAre
<1>10. ASSUME NEW tab, Tabs!Click(tab) PROVE TabsInv'
  <2>1. /\ UNCHANGED <<tabsUrl, onChain, tabsCache, lookups>> /\ tabsCache.url = tabsUrl
        /\ acts' \in Nat
    BY <1>10 DEF Tabs!Click, Tabs!Ready, TabsInv
  <2>. QED
    BY <2>1, DecidedAtOnce DEF TabsInv, LookupsAre
<1>. QED
  BY <1>1, <1>2, <1>3, <1>4, <1>5, <1>6, <1>7, <1>8, <1>9, <1>10 DEF Tabs!Next

(* The step of the tabs, when the accounts are at rest.                    *)
LEMMA AddressInvNext ==
  ASSUME AddressInv, [AddressesNext]_<<part, vars, tabsState>>
  PROVE  AddressInv' /\ [Tabs!KeepsPage]_<<part, vars, tabsState>>
<1>1. CASE part = "tabs" /\ Tabs!Next /\ part' = part
  BY <1>1, TabsInvNext, PageKept DEF AddressInv
<1>2. CASE UNCHANGED <<part, tabsState>>
  <2>1. /\ UNCHANGED <<part, tabsUrl, onChain, tabsCache, lookups, path, crashed, acts, failures>>
        /\ (part = "tabs" => TabsInv)
    BY <1>2 DEF AddressInv, tabsState
  <2>2. part = "tabs" => Decided'
    BY <2>1 DEF TabsInv, Decided, Tabs!info
  <2>. QED
    BY <2>1, <2>2 DEF AddressInv, tabsState, TabsInv, LookupsAre, Tabs!KeepsPage
<1>3. CASE part = "accounts" /\ UNCHANGED <<part, tabsState>>
  BY <1>2, <1>3
<1>. QED
  BY <1>1, <1>2, <1>3 DEF AddressesNext

(* Where a behaviour is of the accounts the tabs are not rendered.         *)
LEMMA AddressInvTells ==
  ASSUME AddressInv
  PROVE  Tabs!TabsMatchPages
<1>1. crashed => Tabs!TabsMatchPages
  BY DEF Tabs!TabsMatchPages, Tabs!ThisUrl
<1>. QED
  BY <1>1, TabsMatch DEF AddressInv

(* Of an account of any kind: no link leads to a page that sends the user  *)
(* away, no tab is there twice, what is shown has its tab, header and      *)
(* section agree; and a page the account has is not given up, in whichever *)
(* order the account and the lookups are answered and the cluster changed. *)
THEOREM AddressIsAlwaysTold == AddressesSpec => AddressIsTold
<1>1. AddressesInit => AddressInv
  BY TabsInvInit DEF AddressesInit, AddressInv, NoTabs
<1>2. AddressInv /\ [AddressesNext]_<<part, vars, tabsState>> =>
        AddressInv' /\ [Tabs!KeepsPage]_<<part, vars, tabsState>>
  BY AddressInvNext
<1>3. AddressInv => Tabs!TabsMatchPages
  BY AddressInvTells
<1>. QED
  BY <1>1, <1>2, <1>3, PTL DEF AddressesSpec, AddressIsTold

===============================================================================
