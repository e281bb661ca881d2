----------------------------- MODULE MessageCards -----------------------------
(***************************************************************************)
(* What the inspector tells of a message: its accounts (AccountsCard), its *)
(* lookups (AddressTableLookupsCard) and its instructions                  *)
(* (InstructionsSection), in components/inspector.  The three resolve      *)
(* lookup tables that the accounts provider fetches: LoadedView asks for   *)
(* the tables, and AddressWithContext for each static key, which may be    *)
(* the same account, without its data.                                     *)
(*                                                                         *)
(* The message may be of another cluster, or a table closed since: what    *)
(* is at its address is then shorter, not there, or no table.              *)
(***************************************************************************)
EXTENDS Messages

CONSTANTS
  Sent,          \* the transactions whose messages are inspected
  NoData,
  MaxChanges     \* bound on the changes of tables

VARIABLES
  sentTx, card,  \* the transaction, and its message as the cards have it
  onChain,       \* what is at the address of a table: a kind, and its entries
  entries,       \* of the accounts provider, by table
  requested,     \* the requests under way: [table, mode]
  opened,        \* whether the effects of LoadedView and the rows have run
  changes

messageVars == <<sentTx, card, onChain, entries, requested, opened, changes>>

Table == DOMAIN TableEntries
Lookups == ToSet(card.addressTableLookups)

-------------------------------------------------------------------------------
At(kind, addresses) == [kind |-> kind, addresses |-> addresses]
IsTable(account) == account # NoData /\ account.kind = "table"

(* parseAddressLookupTableFromCache: [data, status], data NoData if there  *)
(* is none yet, and otherwise a table or the remark that there is none.    *)
parsed(table) ==
  LET e == entries[table]
  IN  IF e = NoData THEN NoData
      ELSE [status |-> e.status,
            data |-> IF e.data = NoData \/ IsTable(e.data) THEN e.data ELSE At("remark", <<>>)]

(* One cell of a card: what is said of an entry of a table.                *)
Loading == At("loading", <<>>)
Remark == At("remark", <<>>)
AddressCell(k) == At("address", <<k>>)

entryOf(data, index) ==
  IF ~IsTable(data) \/ index >= Len(data.addresses) THEN Remark
  ELSE AddressCell(data.addresses[index + 1])

(* AddressFromLookupTableWithContext does not look at the status.          *)
addressFromLookupTable(table, index) ==
  LET info == parsed(table)
  IN  IF info = NoData THEN Loading
      ELSE IF info.data = NoData THEN Loading
      ELSE entryOf(info.data, index)

-------------------------------------------------------------------------------
(* AccountsCard. *)
invalidHeader ==
  \/ card.header.numReadonlySignedAccounts >= card.header.numRequiredSignatures
  \/ card.header.numReadonlyUnsignedAccounts >= Len(card.staticAccountKeys)

staticAccountRows ==
  [n \in DOMAIN card.staticAccountKeys |->
     LET accountIndex == n - 1
         h == card.header
         signer == accountIndex < h.numRequiredSignatures
     IN  [cell |-> AddressCell(card.staticAccountKeys[n]), signer |-> signer,
          readOnly |-> IF signer THEN accountIndex >= h.numRequiredSignatures - h.numReadonlySignedAccounts
                       ELSE accountIndex >= Len(card.staticAccountKeys) - h.numReadonlyUnsignedAccounts]]

lookupRow(table, index, readOnly) ==
  [cell |-> addressFromLookupTable(table, index), signer |-> FALSE, readOnly |-> readOnly]

rowsFrom(lookup, indexes, readOnly) ==
  [n \in DOMAIN indexes |-> lookupRow(lookup.accountKey, indexes[n], readOnly)]

lookupTableRows ==
  LET l(n) == card.addressTableLookups[n]
  IN  FlattenSeq([n \in DOMAIN card.addressTableLookups |-> rowsFrom(l(n), l(n).writableIndexes, FALSE)])
        \o FlattenSeq([n \in DOMAIN card.addressTableLookups |-> rowsFrom(l(n), l(n).readonlyIndexes, TRUE)])

accountRows == staticAccountRows \o lookupTableRows

(* AddressTableLookupsCard: by table, in the order of the indexes.         *)
resolvedKey(table, index) ==
  LET info == parsed(table)
  IN  IF info = NoData THEN Loading
      ELSE IF info.status = "Fetching" THEN Loading
      ELSE IF info.status = "FetchFailed" \/ info.data = NoData THEN Remark
      ELSE entryOf(info.data, index)

lookupRows ==
  UNION {{[table |-> l.accountKey, index |-> i, readOnly |-> readOnly, cell |-> resolvedKey(l.accountKey, i)]
          : i \in ToSet(IF readOnly THEN l.readonlyIndexes ELSE l.writableIndexes)}
         : l \in Lookups, readOnly \in BOOLEAN}

-------------------------------------------------------------------------------
(* InstructionsSection: what it shows, and the keys the tables give.       *)
allDefined ==
  \A l \in Lookups : parsed(l.accountKey) # NoData /\ IsTable(parsed(l.accountKey).data)

resolved(table, index) == entryOf(parsed(table).data, index)

section ==
  IF \E l \in Lookups : parsed(l.accountKey) # NoData /\ parsed(l.accountKey).status = "FetchFailed"
  THEN "failed"
  ELSE IF ~allDefined THEN "loading"
  ELSE IF \E l \in Lookups : \E i \in ToSet(l.writableIndexes \o l.readonlyIndexes) :
            resolved(l.accountKey, i) = Remark
  THEN "thrown"
  ELSE "instructions"

(* TransactionMessage.decompile, external. *)
decompile ==
  LET read(l, indexes) == [n \in DOMAIN indexes |-> resolved(l.accountKey, indexes[n]).addresses[1]]
      Of(pick(_)) == FlattenSeq([n \in DOMAIN card.addressTableLookups |->
                       read(card.addressTableLookups[n], pick(card.addressTableLookups[n]))])
      keys == getAccountKeys(card, [writable |-> Of(LAMBDA l : l.writableIndexes),
                                    readonly |-> Of(LAMBDA l : l.readonlyIndexes)])
      AccountOf(index) == [key |-> keys[index + 1], signer |-> index < card.header.numRequiredSignatures,
                           writable |-> isAccountWritable(card, index)]
  IN  [n \in DOMAIN card.instructions |->
         [program |-> keys[card.instructions[n].programIdIndex + 1],
          accounts |-> [i \in DOMAIN card.instructions[n].accountKeyIndexes |->
                          AccountOf(card.instructions[n].accountKeyIndexes[i])]]]

-------------------------------------------------------------------------------
Message(tx) ==
  LET message == compile(tx)
      keys == getAccountKeys(message, loadedAddresses(message))
  IN  [header |-> message.header, staticAccountKeys |-> message.staticAccountKeys,
       addressTableLookups |-> message.addressTableLookups,
       instructions |-> compiledInstructions(tx, keys)]

(* A table of the cluster may be an earlier state of it, or another        *)
(* account.                                                                *)
States(table) ==
  {At("table", SubSeq(TableEntries[table], 1, n)) : n \in 0 .. Len(TableEntries[table])}
    \cup {At("none", <<>>), At("other", <<>>)}

Init ==
  /\ sentTx \in Sent /\ card = Message(sentTx)
  /\ onChain \in {f \in [Table -> UNION {States(t) : t \in Table}] : \A t \in Table : f[t] \in States(t)}
  /\ entries = [t \in Table |-> NoData]
  /\ requested = {} /\ opened = FALSE /\ changes = 0

(* The effects of the rows come first.  Fetchers begin after a timer; an   *)
(* entry that is not there yet is told like one that is fetched.           *)
Open ==
  /\ ~opened /\ opened' = TRUE
  /\ requested' =
       {[table |-> t, mode |-> "skip"] : t \in Table \cap ToSet(card.staticAccountKeys)}
         \cup {[table |-> l.accountKey, mode |-> "parsed"] : l \in Lookups}
  /\ entries' = [t \in Table |-> IF \E r \in requested' : r.table = t
                                 THEN [status |-> "Fetching", data |-> NoData] ELSE NoData]
  /\ UNCHANGED <<sentTx, card, onChain, changes>>

Dispatch(r, status, data) ==
  /\ r \in requested /\ requested' = requested \ {r}
  /\ entries' = [entries EXCEPT ![r.table] =
                   [status |-> status, data |-> IF data = NoData THEN @.data ELSE data]]
  /\ UNCHANGED <<sentTx, card, onChain, opened, changes>>

(* Without data an account is like one that is no table.                   *)
Answer(r) ==
  LET account == onChain[r.table]
  IN  Dispatch(r, "Fetched",
               IF r.mode = "skip" /\ account.kind # "none" THEN At("other", <<>>) ELSE account)

Fail(r) == Dispatch(r, "FetchFailed", NoData)

(* A table grows or is closed. *)
Change(t) ==
  /\ changes < MaxChanges /\ changes' = changes + 1
  /\ onChain[t].kind = "table"
  /\ \E s \in States(t) :
       /\ \/ s.kind = "none"
          \/ s.kind = "table" /\ Len(s.addresses) > Len(onChain[t].addresses)
       /\ onChain' = [onChain EXCEPT ![t] = s]
  /\ UNCHANGED <<sentTx, card, entries, requested, opened>>

Next ==
  \/ Open
  \/ \E r \in requested : Answer(r) \/ Fail(r)
  \/ \E t \in Table : Change(t)

Spec == Init /\ [][Next]_messageVars

-------------------------------------------------------------------------------
(* Whatever the tables are and in whatever order they are answered: the    *)
(* list of accounts has a row for each key the runtime loads, at its place *)
(* and with what the transaction asks of it; a card that names an account  *)
(* of a table names the one that was sent; and the instructions are shown  *)
(* as they were sent, if the tables of the cluster have all of it.         *)
AccountsAreTold ==
  LET keys == getAccountKeys(card, loadedAddresses(card))
      fromTables == Keys(sentTx) \ ToSet(card.staticAccountKeys)
  IN  /\ ~invalidHeader
      /\ Len(accountRows) = Cardinality(Keys(sentTx))
      /\ \A n \in DOMAIN accountRows :
           LET row == accountRows[n]
           IN  /\ row.signer = Signs(sentTx, keys[n])
               /\ row.readOnly = ~Writes(sentTx, keys[n])
               /\ row.cell.kind = "address" => row.cell = AddressCell(keys[n])
               /\ section = "instructions" => row.cell = AddressCell(keys[n])
      /\ Cardinality(lookupRows) = Cardinality(fromTables)
      /\ \A row \in lookupRows :
           LET key == TableEntries[row.table][row.index + 1]
           IN  /\ key \in fromTables
               /\ row.readOnly = ~Writes(sentTx, key)
               /\ row.cell.kind = "address" => row.cell = AddressCell(key)
      /\ section = "instructions" =>
           decompile = [n \in DOMAIN sentTx.instructions |->
                          [program |-> sentTx.instructions[n].program,
                           accounts |-> [i \in DOMAIN sentTx.instructions[n].accounts |->
                             LET k == sentTx.instructions[n].accounts[i].key
                             IN  [key |-> k, signer |-> Signs(sentTx, k), writable |-> Writes(sentTx, k)]]]]
===============================================================================
