---------------------------- MODULE RawTransaction ----------------------------
(***************************************************************************)
(* The inspector of a transaction of the ledger (providers/transactions/   *)
(* raw.tsx and PermalinkView of components/inspector/InspectorPage.tsx):   *)
(* the raw transaction of a signature is fetched from the url of the       *)
(* cluster.  Unlike the other providers this one dispatches nothing when a *)
(* request starts, and nothing when it fails.                              *)
(***************************************************************************)
EXTENDS Naturals

CONSTANTS
  Signature,       \* the signature of the page
  Url,             \* see Connection
  NoData,
  MaxFetches       \* bound on requests under way for a url

VARIABLES
  url,             \* the url of the connection
  rawCache,        \* the reducer state of RawDetailsProvider
  ran,             \* the url the effect of the view asked, since details went
  fetches,         \* how many requests are under way, by url
  failed           \* the urls a request of which failed

rawVars == <<url, rawCache, ran, fetches, failed>>

INSTANCE FetchCache WITH Key <- {Signature}

(* Details: the transaction, or null when the cluster has none.            *)
Details(u) == [from : {u}, raw : {"transaction", "null"}]

(* NoData is none of the data. *)
NoDataAssumption == \A u \in Url : NoData \notin Details(u) /\ NoData # u

details == rawCache.entries[Signature]

EffectsDone == rawCache.url = url /\ (details = Absent => ran = url)

Init ==
  /\ url \in Url
  /\ rawCache = Clear(url)
  /\ ran = NoData
  /\ fetches = [u \in Url |-> 0]
  /\ failed = {}

(* fetchRawTransaction, up to its await. *)
fetchRawTransaction(u) ==
  /\ fetches[u] < MaxFetches
  /\ fetches' = [fetches EXCEPT ![u] = @ + 1]
  /\ ran' = u

Switch(u) ==
  /\ EffectsDone /\ u # url
  /\ url' = u
  /\ UNCHANGED <<rawCache, ran, fetches, failed>>

(* The effects after a change of the url, of one flush.  That of the view  *)
(* is the first: without details it fetches them.  That of the provider    *)
(* clears the cache, after which the view's runs again if there were any.  *)
UrlEffects ==
  /\ rawCache.url # url
  /\ rawCache' = Clear(url)
  /\ IF details = Absent THEN fetchRawTransaction(url) ELSE ran' = NoData /\ UNCHANGED fetches
  /\ UNCHANGED <<url, failed>>

(* The effect of the view when it mounts, and when the details are gone.   *)
FetchEffect ==
  /\ rawCache.url = url /\ details = Absent /\ ran # url
  /\ fetchRawTransaction(url)
  /\ UNCHANGED <<url, rawCache, failed>>

(* An answer.  React runs the effects of a change before it renders again, *)
(* so that an answer takes effect before the change or after its effects.  *)
Answered(u) ==
  /\ rawCache.url = url
  /\ fetches[u] > 0 /\ fetches' = [fetches EXCEPT ![u] = @ - 1]

Succeed(u) ==
  /\ Answered(u)
  /\ \E data \in Details(u) :
       rawCache' = defaultReducer(rawCache, u, {Signature}, "Fetched",
                                  [k \in {Signature} |-> data])
  /\ UNCHANGED <<url, ran, failed>>

(* The catch block logs the error; that is all.                            *)
Fail(u) ==
  /\ Answered(u)
  /\ failed' = failed \cup {u}
  /\ UNCHANGED <<url, rawCache, ran>>

Next ==
  \/ \E u \in Url : Switch(u)
  \/ UrlEffects
  \/ FetchEffect
  \/ \E u \in Url : Succeed(u) \/ Fail(u)

Spec == Init /\ [][Next]_rawVars

Fairness ==
  /\ WF_rawVars(UrlEffects)
  /\ WF_rawVars(FetchEffect)
  /\ \A u \in Url : WF_rawVars(Succeed(u) \/ Fail(u))

(* A page that is loading has asked the cluster it is for, and its request *)
(* is under way, unless one failed.                                        *)
WaitingIsInFlight ==
  EffectsDone /\ details = Absent => fetches[url] > 0 \/ url \in failed

Promise == INSTANCE UrlCache WITH Key <- {Signature}, AnswerOf <- Details, cache <- rawCache

(* The raw transactions are kept as every provider promises: an answer of  *)
(* a cluster that was left does not count.                                 *)
ImplementsUrlCache == Promise!Spec

(* A cluster that stays chosen does not leave the page loading for ever: a *)
(* request that failed is told ("Failed to fetch transaction",             *)
(* InspectorPage.tsx:386).                                                 *)
FailureIsTold == \A u \in Url : []<>(url = u => details # Absent)
===============================================================================
