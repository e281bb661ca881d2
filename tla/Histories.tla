------------------------------ MODULE Histories -------------------------------
(* The two places that show histories, each driving the histories of the   *)
(* provider: the page of one address (AccountHistory) and the merged table *)
(* of an owner's tokens (TokenHistory).  They are never open at once: a    *)
(* behaviour is of one of them.                                            *)
EXTENDS AccountHistory

CONSTANTS Token, MintOf, ALL_TOKENS, Filters, OwnedTokens, tokenUrl, TokenLimit, Ledgers,
          MaxLedger, MaxCalls, MaxFailures, MaxPresses

VARIABLES part, ledger, opened, ran, ownedTokens, filter, tokenCache, tokenCalls,
          failures, presses

tokenState ==
  <<ledger, opened, ran, ownedTokens, filter, tokenCache, tokenCalls, failures, presses>>

Tokens == INSTANCE TokenHistory WITH
            Url <- tokenUrl, Limit <- TokenLimit, cache <- tokenCache, calls <- tokenCalls

ASSUME TokensAssumption == Tokens!ConstantsAssumption

-------------------------------------------------------------------------------
(* What a behaviour is not of is at rest.                                  *)
NoTokens ==
  /\ ledger = <<>> /\ opened = FALSE /\ ran = FALSE /\ ownedTokens = Tokens!Absent
  /\ filter = ALL_TOKENS /\ tokenCache = Tokens!Clear(tokenUrl) /\ tokenCalls = <<>>
  /\ failures = 0 /\ presses = 0

NoHistory ==
  /\ url \in Url /\ cache = Clear(url) /\ card = "none"
  /\ calls = [r \in Request |-> Idle] /\ tip = 0 /\ switches = 0 /\ requests = 0

HistoriesInit ==
  \/ part = "address" /\ Init /\ NoTokens
  \/ part = "tokens" /\ Tokens!Init /\ NoHistory /\ url = (CHOOSE u \in Url : TRUE)

HistoriesNext ==
  \/ part = "address" /\ Next /\ UNCHANGED <<part, tokenState>>
  \/ part = "tokens" /\ Tokens!Next /\ UNCHANGED <<part, vars>>

HistoriesSpec ==
  HistoriesInit /\ [][HistoriesNext]_<<part, vars, tokenState>> /\ Fairness /\ Tokens!Fairness

(* The merged table shows all and only the transactions of the accounts of *)
(* its filter, down to the slot every history has reached, each with the   *)
(* mint it is listed for (TokenHistory).                                   *)
MergedTableIsTrue == Tokens!ShownSinceOldestSlot /\ Tokens!RowsAreOfTheirMint

(* The end of a history whose oldest row is still to be found has a slot   *)
(* to read (TokenHistory).                                                 *)
EarliestIsThere == Tokens!EarliestIsThere

(* No history loads for ever: neither that of an address, nor the merged   *)
(* one of an owner's tokens, which goes on until all can be shown.         *)
HistoriesSettle == HistorySettles /\ Tokens!TokenHistorySettles

-------------------------------------------------------------------------------
(* Values to check: two token accounts, and ledgers with a transaction     *)
(* that touches both, with two of one slot, and with three slots.          *)
MCMintOf == [t \in {"gold", "fuel"} |-> IF t = "gold" THEN "mg" ELSE "mf"]
MCOwnedTokens == {<<>>, <<"gold", "fuel">>}

Tx(slot, accounts) == [slot |-> slot, accounts |-> accounts]
MCLedgers ==
  {<<Tx(1, {"gold", "fuel"}), Tx(1, {"gold"})>>,
   <<Tx(1, {"fuel"}), Tx(2, {"gold"}), Tx(3, {"gold"})>>}
===============================================================================
