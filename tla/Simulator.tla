------------------------------- MODULE Simulator -------------------------------
(***************************************************************************)
(* The simulation card of the inspector                                    *)
(* (components/inspector/SimulatorCard.tsx) and the table of token         *)
(* balances (components/transaction/TokenBalancesCard.tsx).  A simulation  *)
(* is several requests in a row; its answer sets the state of the card     *)
(* without a look at whether the url or the message is still the same.     *)
(*                                                                         *)
(* An account holds nothing, tokens of a mint, or is a mint, one of        *)
(* Token-2022 with extensions or not.                                      *)
(***************************************************************************)
EXTENDS Integers, Sequences, SequencesExt, FiniteSets

CONSTANTS
  Url,
  Message,          \* the messages that are inspected, as their static keys
  Simulations,      \* what may happen: [pre, post], the accounts before and after
  NoData,
  Slot,             \* the simulations that may run at a time
  MaxSwitches       \* bound on the switches of url and message

VARIABLES
  url, message,
  simulating, logs, error, tokenBalanceRows,   \* the state of the card
  sims,             \* by slot, the url and message of a simulation, NoData if none
  ran,              \* the url the effect last ran with
  switches

simVars == <<url, message, simulating, logs, error, tokenBalanceRows, sims, ran, switches>>

EffectsDone == ran = url
(* NoData is no simulation that runs. *)
NoDataAssumption == \A u \in Url, m \in Message : NoData # [url |-> u, message |-> m]

Free == {s \in Slot : sims[s] = NoData}

-------------------------------------------------------------------------------
(* Contents of accounts: external. *)
Tokens(mint, amount) == [kind |-> "account", mint |-> mint, amount |-> amount]
MintData(extended) == [kind |-> "mint", extended |-> extended]

isTokenAccount(c) == c # NoData /\ c.kind = "account"
isMint(c) == c # NoData /\ c.kind = "mint"

(* AccountLayout.decode reads whatever is at least as long as a token      *)
(* account, so also a mint with extensions: no mint that is there.         *)
Garbage == Tokens("garbage", 0)

decodedPost(c) ==
  IF isTokenAccount(c) THEN c
  ELSE IF isMint(c) /\ c.extended THEN Garbage
  ELSE NoData

(* getMintDecimals: the mints whose decimals are known, from the token     *)
(* accounts and mints before and the plain mints after.                    *)
knownMints(keys, sim) ==
  {sim.pre[k].mint : k \in {j \in ToSet(keys) : isTokenAccount(sim.pre[j])}}
    \cup {k \in ToSet(keys) : isMint(sim.pre[k])}
    \cup {k \in ToSet(keys) : isMint(sim.post[k]) /\ ~sim.post[k].extended}

-------------------------------------------------------------------------------
(* generateTokenBalanceRows, of balances by the index of their account.    *)
NaN == NoData
minus(a, b) == IF a = NaN THEN NaN ELSE a - b

Row(account, mint, balance, delta) ==
  [account |-> account, mint |-> mint, balance |-> balance, delta |-> delta]

Balance(mint, amount) == [mint |-> mint, amount |-> amount]

(* Mutant: a token account that is gone has no row.                        *)
rowsOfKept(account, pre, post) ==
  IF post = NoData THEN <<>>
  ELSE IF pre = NoData THEN <<Row(account, post.mint, post.amount, post.amount)>>
  ELSE <<Row(account, post.mint, post.amount, minus(post.amount, pre.amount))>>

(* The balance of a mint the account no longer holds has no string to show. *)
rowsOf(account, pre, post) ==
  IF pre = NoData /\ post = NoData THEN <<>>
  ELSE IF pre = NoData THEN <<Row(account, post.mint, post.amount, post.amount)>>
  ELSE LET after == IF post = NoData THEN Balance(pre.mint, 0) ELSE post
       IN  IF pre.mint # after.mint
           THEN <<Row(account, pre.mint, NoData, - pre.amount),
                  Row(account, after.mint, after.amount, after.amount)>>
           ELSE <<Row(account, after.mint, after.amount, minus(after.amount, pre.amount))>>

generateTokenBalanceRows(keys, pre, post) ==
  FlattenSeq([i \in DOMAIN keys |-> rowsOf(keys[i], pre[i], post[i])])

(* The loop of onClick over the static keys, before and after.             *)
simulatedRows(keys, sim) ==
  LET pre(c) == IF isTokenAccount(c) THEN Balance(c.mint, c.amount) ELSE NoData
      post(c) == LET d == decodedPost(c)
                 IN  IF d = NoData THEN NoData
                     ELSE Balance(d.mint, IF d.mint \in knownMints(keys, sim) THEN d.amount ELSE NaN)
  IN  generateTokenBalanceRows(keys, [i \in DOMAIN keys |-> pre(sim.pre[keys[i]])],
                                     [i \in DOMAIN keys |-> post(sim.post[keys[i]])])

-------------------------------------------------------------------------------
Init ==
  /\ url \in Url /\ message \in Message
  /\ simulating = FALSE /\ logs = NoData /\ error = FALSE /\ tokenBalanceRows = NoData
  /\ sims = [s \in Slot |-> NoData]
  /\ ran = NoData /\ switches = 0

(* The url changes, or another message is shown in the same card.          *)
Switch ==
  /\ EffectsDone /\ switches < MaxSwitches
  /\ \E u \in Url, m \in Message : <<u, m>> # <<url, message>> /\ url' = u /\ message' = m
  /\ switches' = switches + 1
  /\ UNCHANGED <<simulating, logs, error, tokenBalanceRows, sims, ran>>

(* Mutant: the effect leaves the spinner alone.                            *)
UrlEffectSpinning ==
  /\ ~EffectsDone /\ ran' = url
  /\ logs' = NoData /\ error' = FALSE
  /\ UNCHANGED <<url, message, simulating, tokenBalanceRows, sims, switches>>

UrlEffect ==
  /\ ~EffectsDone /\ ran' = url
  /\ logs' = NoData /\ simulating' = FALSE /\ error' = FALSE
  /\ UNCHANGED <<url, message, tokenBalanceRows, sims, switches>>

(* Simulate or Retry. *)
onClick ==
  /\ EffectsDone /\ ~simulating /\ Free # {}
  /\ LET s == CHOOSE s \in Free : TRUE
     IN  sims' = [sims EXCEPT ![s] = [url |-> url, message |-> message]]
  /\ error' = FALSE /\ simulating' = TRUE
  /\ UNCHANGED <<url, message, logs, tokenBalanceRows, ran, switches>>

(* The `finally` of a simulation.                                          *)
End(s) ==
  /\ EffectsDone /\ sims[s] # NoData
  /\ sims' = [sims EXCEPT ![s] = NoData]
  /\ simulating' = FALSE
  /\ UNCHANGED <<url, message, ran, switches>>

(* One of its requests fails, or an answer cannot be read.                 *)
Throw(s) ==
  /\ End(s)
  /\ logs' = NoData /\ error' = TRUE
  /\ UNCHANGED tokenBalanceRows

(* It is answered.  Of the accounts of a simulation that failed nothing is *)
(* returned.  The answer may come without logs, or with none although the  *)
(* transaction was rejected.                                               *)
Answer(s) ==
  /\ End(s)
  /\ \E sim \in Simulations, err \in BOOLEAN, told \in BOOLEAN :
       LET returned == IF err THEN [sim EXCEPT !.post = [k \in DOMAIN @ |-> NoData]] ELSE sim
       IN  /\ tokenBalanceRows' = simulatedRows(sims[s].message, returned)
           /\ IF told THEN /\ logs' = [sim |-> returned, of |-> sims[s]]
                           /\ error' = (err \/ error)
                      ELSE logs' = NoData /\ error' = TRUE

Next ==
  \/ Switch \/ UrlEffect \/ onClick
  \/ \E s \in Slot : Throw(s) \/ Answer(s)

Spec == Init /\ [][Next]_simVars

(* Effects run, and every request of a simulation ends.                    *)
Fairness ==
  /\ WF_simVars(UrlEffect)
  /\ \A s \in Slot : WF_simVars(Throw(s) \/ Answer(s))

FairSpec == Spec /\ Fairness

-------------------------------------------------------------------------------
(* The spinner is that of a simulation that runs, at the url of the card.  *)
SpinnerIsOfUrl ==
  (EffectsDone /\ simulating) => \E s \in Slot : sims[s] # NoData /\ sims[s].url = url

balancesShown == ~simulating /\ logs # NoData /\ ~error /\ tokenBalanceRows # NoData

Held(c, mint) == IF isTokenAccount(c) /\ c.mint = mint THEN c.amount ELSE 0

(* The table of balances is of the simulation whose logs are shown above   *)
(* it.  Every account that held tokens of a mint before or after has one   *)
(* row for it, with its balance and the change, also when it was opened,   *)
(* closed, or changed its mint; the balance is left blank only beside that *)
(* of another mint the account came to hold, and no number only when       *)
(* nothing in the message tells the decimals of the mint.  (A mint with    *)
(* extensions is taken for a token account; its row says nothing.)         *)
BalancesAreTold ==
  balancesShown =>
    LET sim == logs.sim
        keys == logs.of.message
        known == knownMints(keys, sim)
        mintsOf(k) ==
          {c \in {sim.pre[k], sim.post[k]} : isTokenAccount(c)}
        changedMint(r) ==
          LET after == decodedPost(sim.post[r.account]) IN after # NoData /\ after.mint # r.mint
        rows == SelectSeq(tokenBalanceRows, LAMBDA r : r.mint # Garbage.mint)
        wanted == UNION {{<<k, c.mint>> : c \in mintsOf(k)} : k \in ToSet(keys)}
    IN  /\ Len(rows) = Cardinality(wanted)
        /\ {<<r.account, r.mint>> : r \in ToSet(rows)} = wanted
        /\ \A r \in ToSet(rows) :
             IF r.mint \in known
             THEN /\ r.balance = IF changedMint(r) THEN NoData ELSE Held(sim.post[r.account], r.mint)
                  /\ r.delta = Held(sim.post[r.account], r.mint) - Held(sim.pre[r.account], r.mint)
             ELSE r.balance = NaN /\ r.delta = NaN

(* A simulation does not spin for ever.                                    *)
SimulationEnds == []<>~simulating
===============================================================================
