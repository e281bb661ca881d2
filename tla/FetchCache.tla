------------------------------ MODULE FetchCache ------------------------------
(***************************************************************************)
(* The cache every data provider keeps (app/providers/cache.tsx): entries  *)
(* by key, each with a fetch status and perhaps data, and the url they are *)
(* for.  Everything that happens to a cache goes through its reducer: a    *)
(* Clear, or an Update that names the url its data was asked from.         *)
(***************************************************************************)
CONSTANTS
  Key,      \* the keys of the cache (addresses, signatures, slots, epochs)
  NoData    \* `undefined`

FetchStatus == {"Fetching", "FetchFailed", "Fetched"}

(* A key the entries object does not have. *)
Absent == [status |-> "Absent", data |-> NoData]

(* The state of useReducer(url), and of the reducer after a Clear. *)
Clear(u) == [url |-> u, entries |-> [k \in Key |-> Absent]]

(* Mutant: the update wins even when it is undefined.                      *)
latestReconciler(entry, update) == update

(* defaultReconciler: { ...entry, ...update }, or the one that is defined. *)
defaultReconciler(entry, update) ==
  IF update = NoData THEN entry
  ELSE IF entry = NoData THEN update
  ELSE [f \in DOMAIN entry \cup DOMAIN update |->
          IF f \in DOMAIN update THEN update[f] ELSE entry[f]]

(* Mutant: the url of the update is not looked at.                         *)
UpdateAllOfAnyUrl(cache, u, keys, status, data) ==
  [cache EXCEPT !.entries =
     [k \in Key |-> IF k \in keys THEN [status |-> status, data |-> data[k]] ELSE @[k]]]

(* reducer on an Update for each key of keys in turn, data being what the  *)
(* reconciler makes of the entries: ignored when it is for another url,    *)
(* else the entry is replaced.  The updates of a loop over keys are for    *)
(* different keys and commute.                                             *)
UpdateAll(cache, u, keys, status, data) ==
  IF u # cache.url
  THEN cache
  ELSE [cache EXCEPT !.entries =
          [k \in Key |-> IF k \in keys THEN [status |-> status, data |-> data[k]] ELSE @[k]]]

(* defaultReducer, of the providers that take no reconciler of their own.  *)
defaultReducer(cache, u, keys, status, update) ==
  UpdateAll(cache, u, keys, status,
            [k \in keys |-> defaultReconciler(cache.entries[k].data, update[k])])

Entry(Data) == [status : FetchStatus, data : Data \cup {NoData}] \cup {Absent}

CacheOf(U, Data) == [url : U, entries : [Key -> Entry(Data)]]
===============================================================================
