------------------------------- MODULE Accounts -------------------------------
(***************************************************************************)
(* The accounts provider (app/providers/accounts/index.tsx) under a        *)
(* connection that may be switched at any time, together with the address  *)
(* page that loads its account through it.                                 *)
(*                                                                         *)
(* A request only puts the address into the fetcher of its mode; a timer   *)
(* of the fetcher later turns the addresses collected meanwhile into one   *)
(* fetchMultipleAccounts call, which marks them Fetching and asks for them *)
(* batch after batch.  A fetcher and a call keep the url they were made    *)
(* with.  When the url changes the provider clears the cache and makes new *)
(* fetchers, but timers already set and calls already running go on.       *)
(***************************************************************************)
EXTENDS Naturals, FiniteSets

CONSTANTS
  Pubkey,          \* the addresses, the keys of the cache
  Shown,           \* the address of the page
  Url,             \* see Connection
  NoData,
  Mode,            \* the FetchAccountDataModes in use: parsed, perhaps raw and skip
  BatchSize,       \* BATCH_SIZE of fetchMultipleAccounts
  Call,            \* slots for fetchMultipleAccounts calls in flight (a bound)
  MaxReconnects,   \* bound on Connecting dispatches
  MaxRequests      \* bound on requests besides the page's own

ASSUME AccountsAssumption ==
  /\ Shown \in Pubkey
  /\ "parsed" \in Mode /\ Mode \subseteq {"parsed", "raw", "skip"}
  /\ BatchSize \in Nat \ {0}

ASSUME BoundsAssumption == MaxReconnects \in Nat /\ MaxRequests \in Nat

VARIABLES
  url, status,     \* the connection
  ran,             \* [url, status] the effects last ran with, NoData before mount
  unseen,          \* in its last render the page found no entry for its account
  cache,           \* the reducer state of AccountsProvider
  fetchers,        \* the MultipleAccountFetcher of each mode
  retired,         \* replaced fetchers whose timer is still set
  calls,           \* fetchMultipleAccounts calls, by slot
  reconnects, requests

vars == <<url, status, ran, unseen, cache, fetchers, retired, calls, reconnects, requests>>

connection == <<url, status, reconnects>>

Conn == INSTANCE Connection

INSTANCE FetchCache WITH Key <- Pubkey

-------------------------------------------------------------------------------
(* What the explorer keeps of an account: the url that answered, whether   *)
(* the account exists, and which form of its data there is.                *)
Account(u) == [from : {u}, exists : BOOLEAN, parsed : BOOLEAN, raw : BOOLEAN]

AccountData == UNION {Account(u) : u \in Url}

ASSUME NoDataAssumption == NoData \notin AccountData

account(u, exists, parsed, raw) ==
  [from |-> u, exists |-> exists, parsed |-> parsed, raw |-> raw]

(* The loop body of fetchMultipleAccounts: a missing account gets empty    *)
(* raw data; data the RPC parsed is kept if its layout is recognised, and  *)
(* otherwise nothing is; unparsed data is kept raw unless it was skipped.  *)
Results(u, mode) ==
  {account(u, FALSE, FALSE, TRUE)} \cup
  [parsed |-> {account(u, TRUE, TRUE, FALSE), account(u, TRUE, FALSE, FALSE),
               account(u, TRUE, FALSE, TRUE)},
   raw    |-> {account(u, TRUE, FALSE, TRUE)},
   skip   |-> {account(u, TRUE, FALSE, FALSE)}][mode]

(* Updates without data: the status of the keys is all that changes. *)
noData(keys) == [k \in keys |-> NoData]

(* A fetcher: the pubkeys collected for its timer, which is set exactly    *)
(* when there are some.                                                    *)
newFetchers(u) == [m \in Mode |-> [url |-> u, mode |-> m, pubkeys |-> {}]]

(* A call: the batch whose answer it waits for, the addresses of it still  *)
(* to be dispatched, and those of the batches to come.                     *)
Idle == [url |-> NoData, mode |-> "parsed", batch |-> {}, left |-> {}, todo |-> {}]

newCall(f, b) == [url |-> f.url, mode |-> f.mode, batch |-> b, left |-> b,
                  todo |-> f.pubkeys \ b]

(* pubkeys.slice(nextBatchStart, nextBatchStart + BATCH_SIZE); the order   *)
(* of the addresses is the order they were asked for, which is any.        *)
Batches(keys) ==
  {b \in SUBSET keys : Cardinality(b) = IF Cardinality(keys) < BatchSize
                                          THEN Cardinality(keys) ELSE BatchSize}

-------------------------------------------------------------------------------
(* The page may be opened long after the explorer connected. *)
Init ==
  /\ url \in Url /\ status \in Conn!ClusterStatus
  /\ ran = [url |-> NoData, status |-> NoData]
  /\ unseen = TRUE
  /\ cache = Clear(url)
  /\ fetchers = newFetchers(url)
  /\ retired = {}
  /\ calls = [c \in Call |-> Idle]
  /\ reconnects = 0
  /\ requests = 0

(* React runs the effects of a commit before it renders again. *)
EffectsDone == ran = [url |-> url, status |-> status]

(* A change of the connection renders the page, with the cache as it is.   *)
Renders ==
  /\ EffectsDone
  /\ unseen' = (cache.entries[Shown] = Absent)

(* The effect of the provider depends on the cluster as well, which may     *)
(* change although the url does not: a custom url may be that of a named    *)
(* cluster.  The effect is then due as it is on mount.                      *)
Reconnect(u) ==
  /\ Renders
  /\ reconnects < MaxReconnects
  /\ Conn!Reconnect(u)
  /\ reconnects' = reconnects + 1
  /\ ran' = ran \/ (u = url /\ ran' = [ran EXCEPT !.url = NoData])
  /\ UNCHANGED <<cache, fetchers, retired, calls, requests>>

Settle(s) ==
  /\ Renders
  /\ Conn!Settle(s)
  /\ UNCHANGED <<ran, cache, fetchers, retired, calls, reconnects, requests>>

(* MultipleAccountFetcher.fetch *)
fetch(fs, mode, key) == [fs EXCEPT ![mode].pubkeys = @ \cup {key}]

(* Mutant: the page asks on mount only.                                    *)
pageFetchesOnMount == ran.status = NoData /\ status = "Connected" /\ unseen

(* The effects of a commit, children first: the page asks for its account  *)
(* if it just got connected and found no entry; then, on a new url and on  *)
(* mount, the provider clears the cache and replaces the fetchers.         *)
pageFetches == ran.status # status /\ status = "Connected" /\ unseen

Effects ==
  /\ ~EffectsDone
  /\ ran' = [url |-> url, status |-> status]
  /\ LET asked == IF pageFetches THEN fetch(fetchers, "parsed", Shown) ELSE fetchers
     IN  IF ran.url # url
         THEN /\ cache' = Clear(url)
              /\ fetchers' = newFetchers(url)
              /\ retired' = retired \cup {f \in {asked[m] : m \in Mode} : f.pubkeys # {}}
         ELSE /\ fetchers' = asked
              /\ UNCHANGED <<cache, retired>>
  /\ UNCHANGED <<unseen, calls, requests>> /\ UNCHANGED connection

(* useFetchAccountInfo, called by any other component: a retry or refresh  *)
(* button, a card that needs another account or the raw data.              *)
Request(mode, key) ==
  /\ requests < MaxRequests
  /\ requests' = requests + 1
  /\ fetchers' = fetch(fetchers, mode, key)
  /\ UNCHANGED <<ran, unseen, cache, retired, calls>> /\ UNCHANGED connection

(* The callback of a fetcher's timer, and fetchMultipleAccounts up to its  *)
(* first await: every address is marked Fetching, the first batch is sent. *)
StartCall(f) ==
  \E c \in Call, b \in Batches(f.pubkeys) :
    /\ calls[c] = Idle
    /\ calls' = [calls EXCEPT ![c] = newCall(f, b)]
    /\ cache' = defaultReducer(cache, f.url, f.pubkeys, "Fetching",
                          noData(f.pubkeys))

TimerFires(mode) ==
  /\ fetchers[mode].pubkeys # {}
  /\ StartCall(fetchers[mode])
  /\ fetchers' = [fetchers EXCEPT ![mode].pubkeys = {}]
  /\ UNCHANGED <<ran, unseen, retired, requests>> /\ UNCHANGED connection

RetiredTimerFires(f) ==
  /\ f \in retired
  /\ StartCall(f)
  /\ retired' = retired \ {f}
  /\ UNCHANGED <<ran, unseen, fetchers, requests>> /\ UNCHANGED connection

(* The while loop goes on: to the next batch, or to the end of the call.   *)
NextBatch(c) ==
  IF calls[c].todo = {}
  THEN calls' = [calls EXCEPT ![c] = Idle]
  ELSE \E b \in Batches(calls[c].todo) :
         calls' = [calls EXCEPT ![c].batch = b, ![c].left = b,
                                ![c].todo = @ \ b]

(* Results of the batch are dispatched.  Raw and skipped accounts are      *)
(* dispatched in one go; handleParsedAccountData awaits more requests, so  *)
(* anything may happen between two parsed ones.                            *)
Deliver(c, S, result) ==
  /\ S # {} /\ S \subseteq calls[c].left
  /\ calls[c].mode # "parsed" => S = calls[c].left
  /\ cache' = defaultReducer(cache, calls[c].url, S, "Fetched", result)
  /\ IF S = calls[c].left
       THEN NextBatch(c)
       ELSE calls' = [calls EXCEPT ![c].left = @ \ S]
  /\ UNCHANGED <<ran, unseen, fetchers, retired, requests>> /\ UNCHANGED connection

(* Mutant: an error ends the call, not only the batch.                     *)
FailCall(c) ==
  /\ calls[c].left # {}
  /\ cache' = defaultReducer(cache, calls[c].url, calls[c].batch, "FetchFailed",
                        noData(calls[c].batch))
  /\ calls' = [calls EXCEPT ![c] = Idle]
  /\ UNCHANGED <<ran, unseen, fetchers, retired, requests>> /\ UNCHANGED connection

(* The catch block: the request failed, or its results could not be read   *)
(* half way through.  The whole batch is marked, the addresses already     *)
(* dispatched as well.                                                     *)
FailBatch(c) ==
  /\ calls[c].left # {}
  /\ cache' = defaultReducer(cache, calls[c].url, calls[c].batch, "FetchFailed",
                        noData(calls[c].batch))
  /\ NextBatch(c)
  /\ UNCHANGED <<ran, unseen, fetchers, retired, requests>> /\ UNCHANGED connection

DeliverSome(c) ==
  \E S \in SUBSET calls[c].left :
    \E result \in [S -> Results(calls[c].url, calls[c].mode)] : Deliver(c, S, result)

Next ==
  \/ \E u \in Url : Reconnect(u)
  \/ \E s \in Conn!ClusterStatus : Settle(s)
  \/ Effects
  \/ \E mode \in Mode, key \in Pubkey : Request(mode, key)
  \/ \E mode \in Mode : TimerFires(mode)
  \/ \E f \in retired : RetiredTimerFires(f)
  \/ \E c \in Call : DeliverSome(c) \/ FailBatch(c)

Spec == Init /\ [][Next]_vars

(* React flushes effects, timers fire, and a request settles one way or    *)
(* the other.  Nothing makes the user request, or the cluster change.      *)
Fairness ==
  /\ WF_vars(Effects)
  /\ \A mode \in Mode : WF_vars(TimerFires(mode))
  /\ WF_vars(\E f \in retired : RetiredTimerFires(f))
  /\ \A c \in Call : WF_vars(DeliverSome(c) \/ FailBatch(c))

FairSpec == Spec /\ Fairness

-------------------------------------------------------------------------------
FetcherType == [url : Url, mode : Mode, pubkeys : SUBSET Pubkey]

CallType == [url : Url, mode : Mode, batch : SUBSET Pubkey,
             left : SUBSET Pubkey, todo : SUBSET Pubkey] \cup {Idle}

TypeOK ==
  /\ Conn!ConnTypeOK
  /\ ran \in [url : Url \cup {NoData}, status : Conn!ClusterStatus \cup {NoData}]
  /\ unseen \in BOOLEAN
  /\ cache \in CacheOf(Url, AccountData)
  /\ fetchers \in [Mode -> FetcherType]
  /\ retired \subseteq FetcherType
  /\ calls \in [Call -> CallType]
  /\ reconnects \in 0 .. MaxReconnects
  /\ requests \in 0 .. MaxRequests

(* The addresses of a call still to dispatch belong to its batch. *)
LeftInBatch == \A c \in Call : calls[c].left \subseteq calls[c].batch

(* No account of one cluster is ever shown as an account of another: what  *)
(* the cache holds was answered by the url the cache is for, although      *)
(* timers and calls of earlier urls keep running (reducer, cache.tsx).     *)
EntriesAnsweredByCacheUrl ==
  \A k \in Pubkey : cache.entries[k].data # NoData =>
    cache.entries[k].data.from = cache.url

(* An entry is only shown as loading while some call to the right url      *)
(* still has that address to dispatch: no spinner outlives its request.    *)
PendingAt(c, k) == k \in calls[c].left \cup calls[c].todo

FetchingIsInFlight ==
  \A k \in Pubkey : cache.entries[k].status = "Fetching" =>
    \E c \in Call : calls[c].url = cache.url /\ PendingAt(c, k)

(* The page never loads for ever: if the connection ends up Connected, the *)
(* account of the page ends up fetched or failed, also when the url was    *)
(* switched while requests were waiting for their timer or their answer.   *)
PageSettles ==
  <>[](status = "Connected") =>
    <>[](cache.entries[Shown].status \in {"Fetched", "FetchFailed"})

Promise == INSTANCE UrlCache WITH Key <- Pubkey, AnswerOf <- Account

(* The provider keeps what UrlCache promises. *)
ImplementsUrlCache == Promise!Spec
===============================================================================
