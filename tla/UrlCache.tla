------------------------------- MODULE UrlCache -------------------------------
(***************************************************************************)
(* What a data provider promises its readers, whatever the order its       *)
(* requests are answered in and however often the cluster is switched:     *)
(*                                                                         *)
(*   - the entries only ever hold answers of the one url the cache is for; *)
(*   - nothing but emptying the whole cache takes an entry or its data     *)
(*     away, and a change of url always empties it;                        *)
(*   - an entry becomes Fetched only together with data.                   *)
(*                                                                         *)
(* Provider modules implement this specification.                          *)
(***************************************************************************)
CONSTANTS
  Key,
  Url,
  NoData,
  AnswerOf(_)     \* the data a url can answer

INSTANCE FetchCache

VARIABLE cache

Init == \E u \in Url : cache = Clear(u)

(* How an entry may change while the cache is for one url. *)
Changes(old, new) ==
  /\ new.status \in FetchStatus
  /\ old.data # NoData => new.data # NoData
  /\ new.status = "Fetched" => new.data # NoData

UpdateEntries ==
  /\ cache' = [cache EXCEPT !.entries = cache'.entries]
  /\ cache'.entries \in [Key -> Entry(AnswerOf(cache.url))]
  /\ \A k \in Key : \/ cache'.entries[k] = cache.entries[k]
                    \/ Changes(cache.entries[k], cache'.entries[k])

Empty == \E u \in Url : cache' = Clear(u)

Next == UpdateEntries \/ Empty

Spec == Init /\ [][Next]_cache
===============================================================================
