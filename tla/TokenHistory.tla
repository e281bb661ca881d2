----------------------------- MODULE TokenHistory -----------------------------
(***************************************************************************)
(* The tokens page of an address (components/account/OwnedTokensCard.tsx   *)
(* and TokenHistoryCard.tsx).  The token accounts the address owns are     *)
(* fetched first; then the histories of all of them, or of those of one    *)
(* mint, are loaded side by side and shown as one table, down to the       *)
(* oldest slot that every one of them has reached.                         *)
(*                                                                         *)
(* A transaction is its position in the ledger and may touch several token *)
(* accounts; transactions of one slot follow each other.  The histories    *)
(* are HistoryProvider's (see AccountHistory), here of one cluster.        *)
(***************************************************************************)
EXTENDS HistoryRows, FiniteSetsExt

CONSTANTS
  Token,           \* the token accounts
  MintOf,          \* the mint of each
  ALL_TOKENS,      \* no filter
  Filters,         \* the filters that are chosen: mints, ALL_TOKENS
  OwnedTokens,     \* the answers of getParsedTokenAccountsByOwner: sequences
  Url,             \* the url of the connection
  NoData,
  Limit,           \* the page size, 25 in useFetchAccountHistory
  Ledgers,         \* the ledgers to start with
  MaxLedger,       \* bound on the length of the ledger
  MaxCalls,        \* bound on fetchAccountHistory calls at a time
  MaxFailures,     \* bound on failed requests
  MaxPresses       \* bound on what the user presses once the page is open

VARIABLES
  ledger,          \* the transactions: the slot and the accounts of each
  opened,          \* whether the page is open
  ran,             \* whether the table has run the effects of its mount
  ownedTokens,     \* the entry of the address in the cache of TokensProvider
  filter,          \* the mint of the url's filter, or ALL_TOKENS
  cache,           \* the reducer state of HistoryProvider
  calls,           \* its calls, oldest first
  failures, presses

(* A transaction is in a slot, no earlier than those before it.            *)
Transaction == [slot : Nat, accounts : SUBSET Token]

History == [fetched : Seq(Nat), foundOldest : BOOLEAN]

SlotsRise(txs) == \A i, j \in 1 .. Len(txs) : i <= j => txs[i].slot <= txs[j].slot

ConstantsAssumption ==
  /\ Limit \in Nat \ {0} /\ MaxLedger \in Nat
  /\ OwnedTokens \subseteq Seq(Token)
  /\ \A txs \in Ledgers : txs \in Seq(Transaction) /\ SlotsRise(txs)
  /\ NoData \notin Seq(Token) \cup Seq(Nat) \cup History

vars == <<ledger, opened, ran, ownedTokens, filter, cache, calls, failures, presses>>

INSTANCE FetchCache WITH Key <- Token

-------------------------------------------------------------------------------
(* The transactions of a token account up to each, newest first.           *)
rowsUpTo(token) ==
  LET f[n \in 0 .. Len(ledger)] ==
        IF n = 0 THEN <<>>
        ELSE IF token \in ledger[n].accounts THEN <<n>> \o f[n-1] ELSE f[n-1]
  IN  f

rowsOf(token, last) == rowsUpTo(token)[last]

(* getSignaturesForAddress(before, limit), of the ledger up to tip.        *)
Page(token, before, tip) ==
  LET rows == rowsOf(token, IF before = Newest THEN tip ELSE before - 1)
  IN  SubSeq(rows, 1, IF Len(rows) < Limit THEN Len(rows) ELSE Limit)

(* Mutant: one row less than a page is not the end yet.                    *)
reconcileLate(history, page, before) ==
  IF page = NoData THEN history
  ELSE IF history = NoData THEN [fetched |-> page, foundOldest |-> Len(page) + 1 < Limit]
  ELSE [fetched |-> combineFetched(page, history.fetched, before),
        foundOldest |-> Len(page) + 1 < Limit \/ history.foundOldest]

(* reconcile, of an update that brought a page or, failed, none.           *)
reconcile(history, page, before) ==
  IF page = NoData THEN history
  ELSE IF history = NoData THEN [fetched |-> page, foundOldest |-> Len(page) < Limit]
  ELSE [fetched |-> combineFetched(page, history.fetched, before),
        foundOldest |-> Len(page) < Limit \/ history.foundOldest]

Dispatch(token, status, page, before) ==
  cache' = UpdateAll(cache, Url, {token}, status,
                     [t \in {token} |-> reconcile(cache.entries[t].data, page, before)])

-------------------------------------------------------------------------------
(* What the page shows. *)

tokens == IF ownedTokens.data = NoData THEN <<>> ELSE ownedTokens.data

(* TokenHistoryTable is there when some token is. *)
mounted == opened /\ tokens # <<>>

(* The tokens of the filter, as a set and in their order.                  *)
filtered == {t \in ToSet(tokens) : filter = ALL_TOKENS \/ MintOf[t] = filter}
filteredTokens == Among(tokens, filtered)

history(token) == cache.entries[token].data

allFoundOldest == \A t \in filtered : history(t) # NoData /\ history(t).foundOldest

allFetchedSome == \A t \in filtered : history(t) # NoData

(* The slots of the last rows of the histories that go on.                 *)
earliest ==
  {ledger[Last(history(t).fetched)].slot : t \in {u \in filtered : ~history(u).foundOldest}}

(* Mutant: down to the oldest row of any history.                          *)
oldestSlotOfAny ==
  IF allFoundOldest THEN 0 ELSE IF allFetchedSome THEN Min(earliest) ELSE NoData

(* "the oldest slot which we know we have the full history for"            *)
oldestSlot ==
  IF allFoundOldest THEN 0 ELSE IF allFetchedSome THEN Max(earliest) ELSE NoData

someToken(status) == \E t \in filtered : cache.entries[t].status = status
fetching == someToken("Fetching")
failed == someToken("FetchFailed")

fetchedOf(t) == IF history(t) = NoData THEN {} ELSE ToSet(history(t).fetched)

(* Mutant: a transaction of two tokens is listed for each.                 *)
mintAndTxsOfAll ==
  IF oldestSlot = NoData THEN {}
  ELSE UNION {{[mint |-> MintOf[t], tx |-> tx] :
                 tx \in {i \in fetchedOf(t) : ledger[i].slot >= oldestSlot}} :
              t \in filtered}

(* Each transaction once, with the mint of the first token that has it.    *)
mintAndTxs ==
  LET list == {k \in DOMAIN tokens : tokens[k] \in filtered}
      oldest == oldestSlot
      shown(k) == fetchedOf(tokens[k]) \ UNION {fetchedOf(tokens[j]) : j \in {l \in list : l < k}}
  IN  IF oldest = NoData THEN {}
      ELSE UNION {{[mint |-> MintOf[tokens[k]], tx |-> tx] :
                     tx \in {i \in shown(k) : ledger[i].slot >= oldest}} : k \in list}

-------------------------------------------------------------------------------
Init ==
  /\ ledger \in Ledgers
  /\ opened = FALSE
  /\ ran = FALSE
  /\ ownedTokens = Absent
  /\ filter \in Filters
  /\ cache = Clear(Url)
  /\ calls = <<>>
  /\ failures = 0
  /\ presses = 0

(* A transaction lands, in the last slot or in the next.                   *)
Land(accounts, slot) ==
  /\ Len(ledger) < MaxLedger
  /\ IF ledger = <<>> THEN slot = 1 ELSE slot \in {Last(ledger).slot, Last(ledger).slot + 1}
  /\ ledger' = Append(ledger, [slot |-> slot, accounts |-> accounts])
  /\ UNCHANGED <<opened, ran, ownedTokens, filter, cache, calls, failures, presses>>

Call(token, before, details) ==
  [token |-> token, before |-> before, details |-> details, asked |-> Len(ledger)]

(* useFetchAccountHistory without a refresh, for each token of a list: a   *)
(* history that has rows is loaded further back, and not at all when its   *)
(* oldest row was found.                                                   *)
wanted(list, details) ==
  LET more == Among(list, {t \in Token : \/ history(t) = NoData
                                         \/ history(t).fetched = <<>>
                                         \/ ~history(t).foundOldest})
  IN  [k \in DOMAIN more |->
         Call(more[k],
              IF history(more[k]) = NoData \/ history(more[k]).fetched = <<>>
              THEN Newest ELSE Last(history(more[k]).fetched),
              details)]

(* fetchAccountHistory for each, up to its first await.                    *)
Start(new) ==
  /\ Len(calls) + Len(new) <= MaxCalls
  /\ calls' = calls \o new
  /\ cache' = UpdateAll(cache, Url, {new[k].token : k \in DOMAIN new}, "Fetching",
                        [t \in Token |-> history(t)])

(* fetchHistories(refresh): the flag arrives as fetchTransactions.         *)
fetchHistories(refresh) == Start(wanted(filteredTokens, refresh))

(* Mutant: what failed waits for the retry button.                         *)
fetchesAgainUnlessFailed == mounted /\ ~fetching /\ ~failed /\ mintAndTxs = {} /\ ~allFoundOldest

(* The condition of the second effect of the table, which runs after every *)
(* render, since mintAndTxs is a new array each time.                      *)
fetchesAgain == mounted /\ ~fetching /\ mintAndTxs = {} /\ ~allFoundOldest

EffectsDone == (mounted => ran) /\ ~fetchesAgain

(* The table mounts.  The first effect fetches the histories that are not  *)
(* there, with their transactions; the second is of the same render and    *)
(* may ask for the same once more.                                         *)
MountEffects ==
  /\ mounted /\ ~ran
  /\ ran' = TRUE
  /\ Start(wanted(Among(filteredTokens, {t \in Token : cache.entries[t] = Absent}), TRUE)
             \o (IF fetchesAgain THEN wanted(filteredTokens, FALSE) ELSE <<>>))
  /\ UNCHANGED <<ledger, opened, ownedTokens, filter, failures, presses>>

FetchEffect ==
  /\ ran /\ fetchesAgain
  /\ fetchHistories(FALSE)
  /\ UNCHANGED <<ledger, opened, ran, ownedTokens, filter, failures, presses>>

(* The page is opened, and OwnedTokensCard fetches tokens not there.       *)
OpenPage ==
  /\ ~opened /\ opened' = TRUE
  /\ ownedTokens' = IF ownedTokens = Absent THEN [Absent EXCEPT !.status = "Fetching"]
                                            ELSE ownedTokens
  /\ UNCHANGED <<ledger, ran, filter, cache, calls, failures, presses>>

Press == presses < MaxPresses /\ presses' = presses + 1

ClosePage ==
  /\ Press
  /\ opened /\ EffectsDone
  /\ opened' = FALSE
  /\ ran' = FALSE
  /\ UNCHANGED <<ledger, ownedTokens, filter, cache, calls, failures>>

(* fetchAccountTokens ends: the accounts of both token programs, or none.  *)
OwnedAnswer ==
  /\ ownedTokens.status = "Fetching"
  /\ \E list \in OwnedTokens : ownedTokens' = [status |-> "Fetched", data |-> list]
  /\ UNCHANGED <<ledger, opened, ran, filter, cache, calls, failures, presses>>

OwnedFail ==
  /\ ownedTokens.status = "Fetching" /\ failures < MaxFailures
  /\ ownedTokens' = [ownedTokens EXCEPT !.status = "FetchFailed"]
  /\ failures' = failures + 1
  /\ UNCHANGED <<ledger, opened, ran, filter, cache, calls, presses>>

(* The retry button of the holdings: none could be fetched, or none found. *)
RetryOwned ==
  /\ Press
  /\ opened /\ tokens = <<>> /\ ownedTokens.status \in {"Fetched", "FetchFailed"}
  /\ ownedTokens' = [ownedTokens EXCEPT !.status = "Fetching"]
  /\ UNCHANGED <<ledger, opened, ran, filter, cache, calls, failures>>

(* The Refresh button, and the retry buttons of the error cards.           *)
Refresh ==
  /\ Press
  /\ mounted /\ EffectsDone /\ ~fetching
  /\ fetchHistories(TRUE)
  /\ UNCHANGED <<ledger, opened, ran, ownedTokens, filter, failures>>

(* The Load More button. *)
LoadMore ==
  /\ Press
  /\ mounted /\ EffectsDone /\ ~fetching
  /\ mintAndTxs # {} /\ ~allFoundOldest
  /\ fetchHistories(FALSE)
  /\ UNCHANGED <<ledger, opened, ran, ownedTokens, filter, failures>>

(* FilterDropdown. *)
SetFilter(mint) ==
  /\ Press
  /\ mounted /\ EffectsDone
  /\ mint \in {ALL_TOKENS} \cup {MintOf[t] : t \in ToSet(tokens)}
  /\ filter' = mint
  /\ UNCHANGED <<ledger, opened, ran, ownedTokens, cache, calls, failures>>

Finish(k, status, page) ==
  /\ calls' = RemoveAt(calls, k)
  /\ Dispatch(calls[k].token, status, page, calls[k].before)
  /\ UNCHANGED <<ledger, opened, ran, ownedTokens, filter, presses>>

(* What the server may answer: it reads its ledger at some time since.     *)
pages(k) == {Page(calls[k].token, calls[k].before, tip) : tip \in calls[k].asked .. Len(ledger)}

Succeed(k) == UNCHANGED failures /\ \E page \in pages(k) : Finish(k, "Fetched", page)

(* The signatures could not be fetched, or not their transactions: then    *)
(* the rows are there all the same.                                        *)
Fail(k) ==
  /\ failures < MaxFailures /\ failures' = failures + 1
  /\ \E page \in {NoData} \cup (IF calls[k].details THEN pages(k) \ {<<>>} ELSE {}) :
       Finish(k, "FetchFailed", page)

Answer(k) == k \in DOMAIN calls /\ (Succeed(k) \/ Fail(k))

Next ==
  \/ \E accounts \in SUBSET Token \ {{}}, slot \in 1 .. MaxLedger : Land(accounts, slot)
  \/ MountEffects
  \/ FetchEffect
  \/ OpenPage
  \/ ClosePage
  \/ OwnedAnswer
  \/ OwnedFail
  \/ RetryOwned
  \/ Refresh
  \/ LoadMore
  \/ \E mint \in Filters : SetFilter(mint)
  \/ \E k \in 1 .. MaxCalls : Answer(k)

Spec == Init /\ [][Next]_vars

(* Requests settle, the oldest first at the latest, and effects run; the   *)
(* user and the ledger are free.                                           *)
Fairness ==
  /\ WF_vars(MountEffects)
  /\ WF_vars(FetchEffect)
  /\ WF_vars(OwnedAnswer \/ OwnedFail)
  /\ WF_vars(Answer(1))

FairSpec == Spec /\ Fairness

-------------------------------------------------------------------------------
(* A history that says so does reach its account's first transaction.      *)
FoundOldest(t) ==
  LET fetched == history(t).fetched
  IN  history(t).foundOldest /\ fetched # <<>> => rowsOf(t, Last(fetched) - 1) = <<>>

(* Above the oldest slot the table misses nothing: every transaction of a  *)
(* filtered account, from the newest its history has, is shown             *)
(* ("the oldest slot which we know we have the full history for",          *)
(* TokenHistoryCard.tsx:115), unless a history lost its older rows to a    *)
(* page that did not reach them (FullHistoryIsFull in AccountHistory).  In *)
(* the slot itself rows may be missing.                                    *)
ShownSinceOldestSlot ==
  mounted /\ oldestSlot # NoData /\ (\A t \in filtered : FoundOldest(t)) =>
    \A t \in filtered :
      history(t).fetched # <<>> =>
        \A i \in 1 .. Head(history(t).fetched) :
          t \in ledger[i].accounts /\ ledger[i].slot > oldestSlot =>
            \E row \in mintAndTxs : row.tx = i

(* No transaction is listed under two mints, and none under the mint of an *)
(* account it did not touch.                                               *)
RowsAreOfTheirMint ==
  mounted =>
    \A row \in mintAndTxs :
      /\ \A other \in mintAndTxs : other.tx = row.tx => other = row
      /\ \E t \in filtered : MintOf[t] = row.mint /\ t \in ledger[row.tx].accounts

(* The end of a history whose oldest row is still to be found has a slot   *)
(* to read (TokenHistoryCard.tsx:123).                                     *)
EarliestIsThere ==
  \A t \in Token : history(t) # NoData /\ ~history(t).foundOldest => history(t).fetched # <<>>

(* However the tokens are filtered and whatever fails at first, the table  *)
(* comes to show rows, or to know that there are none.                     *)
TokenHistorySettles == []<>(mounted => mintAndTxs # {} \/ allFoundOldest)

(* "Refresh" asks for transactions newer than the rows (its name, and the  *)
(* parameter refresh of fetchHistories, TokenHistoryCard.tsx:88).          *)
RefreshAsksForNewest ==
  [][Refresh => \A k \in DOMAIN calls' \ DOMAIN calls : calls'[k].before = Newest]_vars
===============================================================================
