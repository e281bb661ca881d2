------------------------------ MODULE HistoryRows ------------------------------
(***************************************************************************)
(* The rows of an account's history, newest first, and how a fetched page  *)
(* joins them (app/providers/accounts/history.tsx).  A signature is its    *)
(* position in the ledger, from 1.                                         *)
(***************************************************************************)
EXTENDS Naturals, Sequences, SequencesExt

(* No signature: the `before` of a refresh. *)
Newest == 0

(* The members of a sequence that are in a set, in their order: for each   *)
(* n, those of the first n.                                                *)
amongFirst(s, S) ==
  LET f[n \in 0 .. Len(s)] ==
        IF n = 0 THEN <<>> ELSE IF s[n] \in S THEN Append(f[n-1], s[n]) ELSE f[n-1]
  IN  f

Among(s, S) == amongFirst(s, S)[Len(s)]

(* Mutant: what was loaded is appended even if rows were added meanwhile.  *)
combineFetchedAppending(fetched, current, before) ==
  IF current = <<>> THEN fetched
  ELSE IF before = Newest
  THEN IF Head(current) \in ToSet(fetched)
       THEN SelectSeq(fetched, LAMBDA s : s > Head(current)) \o current
       ELSE fetched
  ELSE current \o fetched

(* combineFetched: a refresh is put before the rows it reaches, a page of  *)
(* older rows after the row it was asked for; else the page replaces them. *)
combineFetched(fetched, current, before) ==
  IF current = <<>> THEN fetched
  ELSE IF before = Newest
  THEN LET ends == {i \in DOMAIN fetched : fetched[i] = Head(current)}
       IN  IF ends = {} THEN fetched
           ELSE SubSeq(fetched, 1, (CHOOSE i \in ends : TRUE) - 1) \o current
  ELSE IF Last(current) = before THEN current \o fetched ELSE fetched
===============================================================================
