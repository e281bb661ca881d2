-------------------------------- MODULE Messages --------------------------------
(***************************************************************************)
(* The messages of transactions, as wallets compile them and as the        *)
(* explorer reads them: one list of keys, first those in the message in    *)
(* the order of the header, then the writable and then the read-only ones  *)
(* that are loaded from lookup tables; everything else is an index into    *)
(* it.  Compiling and indexing are external (@solana/web3.js); the cards   *)
(* of InspectorPage and of the block count on them.                        *)
(*                                                                         *)
(* A transaction as it is sent is                                          *)
(*   [payer, instructions, inner, tables]                                  *)
(* of instructions [program, accounts], accounts [key, signer, writable];  *)
(* inner gives for each instruction the programs it invokes in turn.       *)
(***************************************************************************)
EXTENDS Integers, Sequences, SequencesExt, FiniteSets, FiniteSetsExt

CONSTANTS TableEntries     \* by lookup table, the keys in it

-------------------------------------------------------------------------------
(* What the transaction asks for. *)
Metas(tx) == UNION {ToSet(ix.accounts) : ix \in ToSet(tx.instructions)}
Programs(tx) == {ix.program : ix \in ToSet(tx.instructions)}
Keys(tx) == {tx.payer} \cup Programs(tx) \cup {m.key : m \in Metas(tx)}

Signs(tx, k) == k = tx.payer \/ \E m \in Metas(tx) : m.key = k /\ m.signer
Writes(tx, k) == k = tx.payer \/ \E m \in Metas(tx) : m.key = k /\ m.writable

-------------------------------------------------------------------------------
(* The message.  Signers and invoked programs stay in it; other keys move  *)
(* to the first table that has them.                                       *)
compile(tx) ==
  LET movable == {k \in Keys(tx) : ~Signs(tx, k) /\ k \notin Programs(tx)}
      tableOf(k) == {n \in DOMAIN tx.tables : k \in ToSet(TableEntries[tx.tables[n]])}
      moved == {k \in movable : tableOf(k) # {}}
      class(signs, writes) ==
        SetToSeq({k \in Keys(tx) \ (moved \cup {tx.payer}) :
                    Signs(tx, k) = signs /\ Writes(tx, k) = writes})
      static == <<tx.payer>> \o class(TRUE, TRUE) \o class(TRUE, FALSE)
                  \o class(FALSE, TRUE) \o class(FALSE, FALSE)
      indexes(n, writes) ==
        LET entries == TableEntries[tx.tables[n]]
        IN  SetToSeq({SelectInSeq(entries, LAMBDA e : e = k) - 1
                      : k \in {m \in moved : n = Min(tableOf(m)) /\ Writes(tx, m) = writes}})
      lookups == [n \in DOMAIN tx.tables |->
                    [accountKey |-> tx.tables[n],
                     writableIndexes |-> indexes(n, TRUE), readonlyIndexes |-> indexes(n, FALSE)]]
  IN  [header |-> [numRequiredSignatures |-> 1 + Len(class(TRUE, TRUE)) + Len(class(TRUE, FALSE)),
                   numReadonlySignedAccounts |-> Len(class(TRUE, FALSE)),
                   numReadonlyUnsignedAccounts |-> Len(class(FALSE, FALSE))],
       staticAccountKeys |-> static,
       addressTableLookups |->
         SelectSeq(lookups, LAMBDA l : l.writableIndexes \o l.readonlyIndexes # <<>>)]

(* loadedAddresses: what the runtime loads, from all tables the writable   *)
(* keys first.                                                             *)
loadedAddresses(message) ==
  LET read(lookup, indexes) == [n \in DOMAIN indexes |-> TableEntries[lookup.accountKey][indexes[n] + 1]]
      Of(pick(_)) == FlattenSeq([n \in DOMAIN message.addressTableLookups |->
                                   LET l == message.addressTableLookups[n] IN read(l, pick(l))])
  IN  [writable |-> Of(LAMBDA l : l.writableIndexes), readonly |-> Of(LAMBDA l : l.readonlyIndexes)]

getAccountKeys(message, loaded) == message.staticAccountKeys \o loaded.writable \o loaded.readonly

compiledInstructions(tx, keys) ==
  LET indexOf(k) == SelectInSeq(keys, LAMBDA e : e = k) - 1
  IN  [n \in DOMAIN tx.instructions |->
         [programIdIndex |-> indexOf(tx.instructions[n].program),
          accountKeyIndexes |-> [i \in DOMAIN tx.instructions[n].accounts |->
                                   indexOf(tx.instructions[n].accounts[i].key)],
          innerProgramIndexes |-> [i \in DOMAIN tx.inner[n] |-> indexOf(tx.inner[n][i])]]]

numWritableLookups(message) ==
  MapThenSumSet(LAMBDA n : Len(message.addressTableLookups[n].writableIndexes),
                DOMAIN message.addressTableLookups)

isAccountWritable(message, index) ==
  LET h == message.header
      static == Len(message.staticAccountKeys)
  IN  IF index >= static THEN index - static < numWritableLookups(message)
      ELSE IF index >= h.numRequiredSignatures THEN index < static - h.numReadonlyUnsignedAccounts
      ELSE index < h.numRequiredSignatures - h.numReadonlySignedAccounts
===============================================================================
