------------------------------ MODULE SageTokens ------------------------------
(***************************************************************************)
(* The token movements in the card of a SAGE instruction (utils/           *)
(* sage-cargo.ts).  The token instructions inside the instruction are      *)
(* movements; for the accounts of the instruction that none of them names  *)
(* there are the changes of balance over the whole transaction, and a      *)
(* transfer that does not say its mint takes it from those.                *)
(*                                                                         *)
(* A transaction is built here step by step, and every prefix of it is one *)
(* that could have been sent.  The ledger is external.                     *)
(***************************************************************************)
EXTENDS Integers, Sequences, SequencesExt, FiniteSetsExt

CONSTANTS
  Account,         \* the token accounts of the transaction
  Mint,
  NoData,          \* `undefined`; of an account: it does not exist
  MaxBalance,      \* bound on what an account holds
  MaxInstructions, \* bound on the SAGE instructions
  MaxOps           \* bound on the token instructions

VARIABLES
  pre,             \* what each account held before, its mint and amount
  held,            \* what each account holds
  instructions,    \* the SAGE instructions: their accounts, and what is inside
  open,            \* whether the last of them is still running
  mints,           \* the mints each account ever had
  ops

tokenVars == <<pre, held, instructions, open, mints, ops>>

-------------------------------------------------------------------------------
(* The ledger *)

Balance == [mint : Mint, amount : 0..MaxBalance]

(* A token instruction: a transfer may leave out the mint, which `token`   *)
(* always is.                                                              *)
Transfers == [type : {"transfer"}, source : Account, destination : Account,
              mint : Mint \cup {NoData}, amount : 0..MaxBalance, token : Mint]
MintTos == [type : {"mintTo"}, source : {NoData}, destination : Account,
            mint : Mint, amount : 1..MaxBalance, token : Mint]
Burns == [type : {"burn"}, source : Account, destination : {NoData},
          mint : Mint, amount : 1..MaxBalance, token : Mint]

Ops == {op \in Transfers \cup MintTos \cup Burns :
          op.mint \in {op.token, NoData} /\ op.source # op.destination}

Accounts(op) == {op.source, op.destination} \ {NoData}

Signed(op, a) == (IF op.destination = a THEN op.amount ELSE 0)
                   - (IF op.source = a THEN op.amount ELSE 0)

Init ==
  /\ pre \in [Account -> {b \in Balance : b.amount > 0} \cup {NoData}]
  /\ held = pre
  /\ instructions = <<>>
  /\ open = FALSE
  /\ mints = [a \in Account |-> IF pre[a] = NoData THEN {} ELSE {pre[a].mint}]
  /\ ops = 0

(* A SAGE instruction starts, with its accounts. *)
Start(keys) ==
  /\ Len(instructions) < MaxInstructions
  /\ instructions' = Append(instructions, [keys |-> keys, inner |-> <<>>])
  /\ open' = TRUE
  /\ UNCHANGED <<pre, held, mints, ops>>

Spend == ops < MaxOps /\ ops' = ops + 1

Execute(op) ==
  /\ Spend
  /\ \A a \in Accounts(op) :
       held[a] # NoData /\ held[a].mint = op.token
         /\ held[a].amount + Signed(op, a) \in 0..MaxBalance
  /\ held' = [a \in Account |->
                IF a \in Accounts(op) THEN [held[a] EXCEPT !.amount = @ + Signed(op, a)]
                ELSE held[a]]
  /\ UNCHANGED <<pre, mints>>

(* The program calls the token program, with accounts it was given.        *)
Inner(op) ==
  /\ open /\ Accounts(op) \subseteq Last(instructions).keys
  /\ Execute(op)
  /\ instructions' = [instructions EXCEPT ![Len(instructions)].inner = Append(@, op)]
  /\ UNCHANGED open

(* An instruction of the transaction of its own. *)
TopLevel(op) == Execute(op) /\ open' = FALSE /\ UNCHANGED instructions

(* An empty account is closed, or one is opened, by a call or on its own:  *)
(* no movement.                                                            *)
Replace(a, b) ==
  /\ Spend
  /\ held' = [held EXCEPT ![a] = b]
  /\ mints' = [mints EXCEPT ![a] = IF b = NoData THEN @ ELSE @ \cup {b.mint}]
  /\ open' = (open /\ a \in Last(instructions).keys)
  /\ UNCHANGED <<pre, instructions>>

CloseAccount(a) == held[a] # NoData /\ held[a].amount = 0 /\ Replace(a, NoData)

OpenAccount(a, m) == held[a] = NoData /\ Replace(a, [mint |-> m, amount |-> 0])

Next ==
  \/ \E keys \in SUBSET Account : Start(keys)
  \/ \E op \in Ops : Inner(op) \/ TopLevel(op)
  \/ \E a \in Account : CloseAccount(a) \/ \E m \in Mint : OpenAccount(a, m)

Spec == Init /\ [][Next]_tokenVars

-------------------------------------------------------------------------------
(* The card *)

(* addTokenBalanceDelta, to an account that has none yet or one.           *)
addTokenBalanceDelta(mint, amount) ==
  IF amount = 0 THEN <<>> ELSE << [mint |-> mint, amount |-> amount] >>

amountOf(balance) == IF balance = NoData THEN 0 ELSE balance.amount

(* What the changes of one account are. *)
deltasOf(before, after) ==
  IF before = NoData /\ after = NoData THEN <<>>
  ELSE IF before # NoData /\ after # NoData /\ before.mint # after.mint
  THEN addTokenBalanceDelta(before.mint, - before.amount)
         \o addTokenBalanceDelta(after.mint, after.amount)
  ELSE addTokenBalanceDelta((IF after # NoData THEN after ELSE before).mint,
                            amountOf(after) - amountOf(before))

getSageTokenBalanceDeltas == [a \in Account |-> deltasOf(pre[a], held[a])]

getDeltaMint(op, deltas) ==
  LET first == SelectSeq(<<op.source, op.destination>>, LAMBDA a : a # NoData /\ deltas[a] # <<>>)
  IN  IF first = <<>> THEN NoData ELSE deltas[first[1]][1].mint

(* One movement, or none when nothing is moved. *)
parseTokenInstructionMovement(op, deltas) ==
  IF op.amount = 0 THEN <<>>
  ELSE <<[source |-> op.source, destination |-> op.destination, amount |-> op.amount,
          mint |-> IF op.mint # NoData THEN op.mint ELSE getDeltaMint(op, deltas)]>>

tokenTransferMovements(instruction, deltas) ==
  FlattenSeq([n \in DOMAIN instruction.inner |->
                parseTokenInstructionMovement(instruction.inner[n], deltas)])

(* Mutant: only the source of a movement is covered.                       *)
coveredSources(movements) ==
  {<<m.source, m.mint>> : m \in {x \in ToSet(movements) : x.mint # NoData}}

(* coveredDeltaKeys. *)
covered(movements) ==
  UNION {{<<a, m.mint>> : a \in Accounts(m)} : m \in {x \in ToSet(movements) : x.mint # NoData}}

(* A change of balance: an increase or a decrease of one account.          *)
deltaMovement(a, delta) ==
  [source |-> IF delta.amount < 0 THEN a ELSE NoData,
   destination |-> IF delta.amount < 0 THEN NoData ELSE a,
   amount |-> IF delta.amount < 0 THEN - delta.amount ELSE delta.amount,
   mint |-> delta.mint]

deltaMovements(instruction, movements, deltas) ==
  LET touched == instruction.keys \cup UNION {Accounts(m) : m \in ToSet(movements)}
  IN  UNION {{deltaMovement(a, d) : d \in {x \in ToSet(deltas[a]) : <<a, x.mint>> \notin covered(movements)}}
             : a \in touched}

buildSageTokenAccountMovements(instruction) ==
  LET deltas == getSageTokenBalanceDeltas
      movements == tokenTransferMovements(instruction, deltas)
  IN  movements \o SetToSeq(deltaMovements(instruction, movements, deltas))

-------------------------------------------------------------------------------
Net(movements, a) == FoldLeft(LAMBDA n, m : n + Signed(m, a), 0, movements)

Moves(instruction, a) ==
  \E op \in ToSet(instruction.inner) : op.amount # 0 /\ a \in Accounts(op)

(* What the card of an instruction says of an account adds up to what the  *)
(* instruction itself moved, or, when it moved nothing there, to what the  *)
(* whole transaction changed: never to a mix of both, and never in another *)
(* token than the account's.  An account that was closed and opened for    *)
(* another mint is left out, as are the tokens when there is one.          *)
NetIsOwnOrWhole ==
  \A i \in DOMAIN instructions : \A a \in instructions[i].keys :
    LET rows == buildSageTokenAccountMovements(instructions[i])
    IN  Cardinality(mints[a]) <= 1 =>
          /\ Net(rows, a) = IF Moves(instructions[i], a)
                            THEN Net(instructions[i].inner, a)
                            ELSE amountOf(held[a]) - amountOf(pre[a])
          /\ (\A b \in Account : Cardinality(mints[b]) <= 1) =>
               \A row \in ToSet(rows) :
                 a \in Accounts(row) => row.mint \in mints[a] \cup {NoData}
===============================================================================
