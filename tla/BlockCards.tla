------------------------------ MODULE BlockCards ------------------------------
(***************************************************************************)
(* The tabs of a block (components/block): its transactions, with filters  *)
(* and an order that are in the url; the programs it invoked; the accounts *)
(* it used, each with a link to the transactions that load it.             *)
(***************************************************************************)
EXTENDS Messages

CONSTANTS
  Blocks,         \* sequences of transactions as they were sent, with what
                  \* is kept of their execution: [sent, meta]
  NoData,
  VOTE_PROGRAM,
  PAGE_SIZE,
  MaxClicks       \* bound on what the user does

VARIABLES
  sentBlock, block,     \* the transactions as they were sent, and as they are read
  tab, params,          \* the path, and the params of the url
  numDisplayed,         \* the state of the card of the tab
  clicks

blockVars == <<sentBlock, block, tab, params, numDisplayed, clicks>>

ALL_TRANSACTIONS == "all"
HIDE_VOTES == ""

-------------------------------------------------------------------------------
(* Of a transaction with meta the loaded addresses and inner instructions  *)
(* are kept; one without is old, and loads none.                           *)
Read(tx) ==
  LET message == compile(tx.sent)
      keys == getAccountKeys(message, loadedAddresses(message))
  IN  [header |-> message.header, staticAccountKeys |-> message.staticAccountKeys,
       addressTableLookups |-> message.addressTableLookups,
       instructions |-> compiledInstructions(tx.sent, keys), keys |-> keys, meta |-> tx.meta]

innerIndexes(tx) ==
  IF tx.meta = NoData THEN <<>>
  ELSE FlattenSeq([n \in DOMAIN tx.instructions |-> tx.instructions[n].innerProgramIndexes])

programIndexes(tx) ==
  [n \in DOMAIN tx.instructions |-> tx.instructions[n].programIdIndex] \o innerIndexes(tx)

Count(s, x) == Cardinality({n \in DOMAIN s : s[n] = x})

invocations(tx) ==
  LET used == ToSet(programIndexes(tx))
  IN  [p \in {tx.keys[i + 1] : i \in used} |->
         Count(programIndexes(tx), CHOOSE i \in used : tx.keys[i + 1] = p)]

(* Logs that are not there cannot be parsed. *)
computeUnits(tx) == IF tx.meta = NoData THEN NoData ELSE tx.meta.units
fee(tx) == IF tx.meta = NoData THEN 0 ELSE tx.meta.fee

-------------------------------------------------------------------------------
(* BlockHistoryCard. *)
programFilter == params.filter
accountFilter == params.accountFilter

invokedPrograms ==
  [p \in UNION {DOMAIN invocations(block[n]) : n \in DOMAIN block} |->
     Cardinality({n \in DOMAIN block : p \in DOMAIN invocations(block[n])})]

passes(tx) ==
  /\ \/ programFilter = ALL_TRANSACTIONS
     \/ programFilter = HIDE_VOTES /\ DOMAIN invocations(tx) # {VOTE_PROGRAM}
     \/ programFilter \in DOMAIN invocations(tx)
  /\ accountFilter = NoData \/ accountFilter \in ToSet(tx.keys)

showComputeUnits == \A n \in DOMAIN block : passes(block[n]) => computeUnits(block[n]) # NoData

filteredTransactions ==
  LET key(n) == IF params.sort = "compute" /\ showComputeUnits THEN computeUnits(block[n])
                ELSE IF params.sort = "fee" THEN fee(block[n])
                ELSE 0
  IN  SetToSortSeq({n \in DOMAIN block : passes(block[n])},
                   LAMBDA a, b : key(a) > key(b) \/ (key(a) = key(b) /\ a < b))

resultOf(tx) == IF tx.meta # NoData /\ tx.meta.err THEN "Failed" ELSE "Success"

TransactionRow(n) ==
  [index |-> n, result |-> resultOf(block[n]), invocations |-> invocations(block[n])]

Displayed(s) == SubSeq(s, 1, IF Len(s) < numDisplayed THEN Len(s) ELSE numDisplayed)

transactionRows == [i \in DOMAIN Displayed(filteredTransactions) |->
                      TransactionRow(Displayed(filteredTransactions)[i])]

moreTransactions == Len(filteredTransactions) > numDisplayed

(* FilterDropdown: the options with their counts, and the one it names.    *)
filterOptions ==
  LET of(p) == IF p = HIDE_VOTES
               THEN Len(block) - (IF VOTE_PROGRAM \in DOMAIN invokedPrograms
                                  THEN invokedPrograms[VOTE_PROGRAM] ELSE 0)
               ELSE IF p = ALL_TRANSACTIONS THEN Len(block)
               ELSE invokedPrograms[p]
  IN  [p \in {HIDE_VOTES, ALL_TRANSACTIONS} \cup DOMAIN invokedPrograms |-> of(p)]

currentFilterOption ==
  IF programFilter \in DOMAIN filterOptions THEN programFilter ELSE HIDE_VOTES

-------------------------------------------------------------------------------
(* BlockProgramsCard: by program, the transactions, instructions and       *)
(* successes.                                                              *)
programStats ==
  [p \in UNION {DOMAIN invocations(block[n]) : n \in DOMAIN block} |->
     LET uses(tx) == p \in DOMAIN invocations(tx)
         sum(Of(_)) == MapThenSumSet(LAMBDA n : Of(block[n]), DOMAIN block)
     IN  [transactions |-> sum(LAMBDA tx : IF uses(tx) THEN 1 ELSE 0),
          instructions |-> sum(LAMBDA tx : IF uses(tx) THEN invocations(tx)[p] ELSE 0),
          successes |-> sum(LAMBDA tx : IF uses(tx) /\ tx.meta # NoData /\ ~tx.meta.err THEN 1 ELSE 0)]]

totalInstructions ==
  MapThenSumSet(LAMBDA n : Len(block[n].instructions) + Len(innerIndexes(block[n])), DOMAIN block)

showSuccessRate == \A n \in DOMAIN block : block[n].meta # NoData

(* BlockAccountsCard: the accounts of the instructions, once by            *)
(* transaction, the most used first.                                       *)
accountStats ==
  LET indexes(tx) == UNION {ToSet(ix.accountKeyIndexes) : ix \in ToSet(tx.instructions)}
      using(a, writable) ==
        Cardinality({n \in DOMAIN block :
          \E i \in indexes(block[n]) :
            block[n].keys[i + 1] = a /\ isAccountWritable(block[n], i) = writable})
      used == UNION {{block[n].keys[i + 1] : i \in indexes(block[n])} : n \in DOMAIN block}
  IN  [a \in used |-> [reads |-> using(a, FALSE), writes |-> using(a, TRUE)]]

-------------------------------------------------------------------------------
NoParams == [filter |-> HIDE_VOTES, accountFilter |-> NoData, sort |-> "index"]

Init ==
  /\ sentBlock \in Blocks /\ block = [n \in DOMAIN sentBlock |-> Read(sentBlock[n])]
  /\ tab = "transactions" /\ params = NoParams
  /\ numDisplayed = PAGE_SIZE /\ clicks = 0

Click ==
  /\ clicks < MaxClicks /\ clicks' = clicks + 1
  /\ UNCHANGED <<sentBlock, block>>

(* The links between the tabs keep no params but the cluster's.            *)
OpenTab ==
  /\ Click /\ tab' \in {"transactions", "programs", "accounts"} \ {tab}
  /\ params' = NoParams /\ numDisplayed' = PAGE_SIZE

(* FilterLink, and the headers, change one param each.                     *)
SetFilter ==
  /\ Click /\ tab = "transactions"
  /\ \E p \in DOMAIN filterOptions : params' = [params EXCEPT !.filter = p]
  /\ UNCHANGED <<tab, numDisplayed>>

SetSort ==
  /\ Click /\ tab = "transactions" /\ filteredTransactions # <<>>
  /\ \E s \in {"index", "fee"} \cup (IF showComputeUnits THEN {"compute"} ELSE {}) :
       params' = [params EXCEPT !.sort = s]
  /\ UNCHANGED <<tab, numDisplayed>>

LoadMore ==
  /\ Click /\ tab = "transactions" /\ moreTransactions
  /\ numDisplayed' = numDisplayed + PAGE_SIZE
  /\ UNCHANGED <<tab, params>>

(* StatsRow: the link of an account.                                       *)
FollowAccount ==
  /\ Click /\ tab = "accounts"
  /\ \E a \in DOMAIN accountStats :
       params' = [NoParams EXCEPT !.filter = ALL_TRANSACTIONS, !.accountFilter = a]
  /\ tab' = "transactions" /\ numDisplayed' = PAGE_SIZE

Next == OpenTab \/ SetFilter \/ SetSort \/ LoadMore \/ FollowAccount

Spec == Init /\ [][Next]_blockVars

-------------------------------------------------------------------------------
(* What ran, from the transactions as they were sent; what an old one      *)
(* invoked in turn is not known.                                           *)
ran(n) ==
  LET tx == sentBlock[n].sent
  IN  [i \in DOMAIN tx.instructions |-> tx.instructions[i].program]
        \o (IF sentBlock[n].meta = NoData THEN <<>> ELSE FlattenSeq(tx.inner))

wanted ==
  {n \in DOMAIN sentBlock :
     /\ CASE programFilter = ALL_TRANSACTIONS -> TRUE
          [] programFilter = HIDE_VOTES -> ToSet(ran(n)) # {VOTE_PROGRAM}
          [] OTHER -> programFilter \in ToSet(ran(n))
     /\ accountFilter = NoData \/ accountFilter \in Keys(sentBlock[n].sent)}

(* The list has the transactions the filters ask for, each once, all of    *)
(* them when there is no more to load; in the order that was chosen, or    *)
(* that of the block when the compute units of one are not known; and each *)
(* says what it invoked and how often.                                     *)
ListIsOfFilters ==
  LET rows == transactionRows
      indexes == {r.index : r \in ToSet(rows)}
      unknown == \E n \in wanted : computeUnits(block[n]) = NoData
      key(n) == IF params.sort = "fee" THEN fee(block[n])
                ELSE IF params.sort = "compute" /\ ~unknown THEN computeUnits(block[n])
                ELSE - n
  IN  /\ indexes \subseteq wanted /\ Cardinality(indexes) = Len(rows)
      /\ moreTransactions \/ indexes = wanted
      /\ \A i \in DOMAIN rows :
           /\ rows[i].invocations = [p \in ToSet(ran(rows[i].index)) |-> Count(ran(rows[i].index), p)]
           /\ \A n \in (wanted \ indexes) \cup {rows[j].index : j \in i .. Len(rows)} :
                key(rows[i].index) >= key(n)

(* What the tabs count agrees with what they lead to: an option of the     *)
(* filter with as many transactions as it then lists (but "All Except      *)
(* Votes" leaves out of its count whatever votes and does more as well);   *)
(* an account with no more than load it; and the programs with all that    *)
(* was executed.                                                           *)
CountsAgree ==
  LET votesOnly == {n \in DOMAIN sentBlock : ToSet(ran(n)) = {VOTE_PROGRAM}}
      votes == {n \in DOMAIN sentBlock : VOTE_PROGRAM \in ToSet(ran(n))}
      loading(a) == {n \in DOMAIN sentBlock : a \in Keys(sentBlock[n].sent)}
      executed == MapThenSumSet(LAMBDA n : Len(ran(n)), DOMAIN sentBlock)
  IN  /\ accountFilter = NoData =>
           filterOptions[programFilter]
             = Cardinality(wanted) - (IF programFilter = HIDE_VOTES
                                      THEN Cardinality(votes \ votesOnly) ELSE 0)
      /\ currentFilterOption = programFilter
      /\ \A a \in DOMAIN accountStats :
           LET s == accountStats[a]
           IN  /\ s.reads + s.writes <= Cardinality(loading(a))
               /\ s.writes = Cardinality({n \in loading(a) :
                    \E m \in Metas(sentBlock[n].sent) : m.key = a /\ Writes(sentBlock[n].sent, a)})
      /\ totalInstructions = executed
      /\ MapThenSumSet(LAMBDA p : programStats[p].instructions, DOMAIN programStats) = executed
      /\ \A p \in DOMAIN programStats :
           /\ programStats[p].transactions = filterOptions[p]
           /\ showSuccessRate =>
                programStats[p].successes
                  = Cardinality({n \in DOMAIN sentBlock : p \in ToSet(ran(n)) /\ ~sentBlock[n].meta.err})

BlockIsListed == ListIsOfFilters /\ CountsAgree
===============================================================================
