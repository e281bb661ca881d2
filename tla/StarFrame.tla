------------------------------- MODULE StarFrame -------------------------------
(***************************************************************************)
(* The decoding of StarFrame instructions and accounts                     *)
(* (utils/starframe/index.ts): the bundled IDLs describe arguments as      *)
(* trees of types, and a decoder reads them from the bytes.  Upgrades have *)
(* inserted accounts and arguments without a new discriminator, so that    *)
(* the layout of an instruction is told by the number of its accounts.     *)
(*                                                                         *)
(* The programs and their SDKs are external: they encode what the decoder  *)
(* reads.  A transaction that failed may carry anything: a payload that is *)
(* cut or has a byte too many.                                             *)
(***************************************************************************)
EXTENDS Integers, Sequences, SequencesExt

CONSTANTS
  NoData,          \* `undefined`
  ProgramById,     \* STARFRAME_PROGRAMS_BY_ID: the names of the programs by id
  Definition,      \* by name: [instructions, accounts, definedTypes]
  Sage,            \* the name of the program with older layouts
  Legacy,          \* the sequence of its older layouts
  ByteValues,      \* 256
  Numbers,         \* bound: the numbers that are sent, where they fit
  MaxCount,        \* bound on the items of a collection
  MaxRemaining     \* bound on the accounts after those of the layout

VARIABLES
  sent,     \* what the SDK encoded, NoData before
  wire      \* what is on the chain

starVars == <<sent, wire>>

-------------------------------------------------------------------------------
(* Values are pairs of a tag and a content. *)
Number(n) == <<"number", n>>
List(s) == <<"list", s>>
null == <<"null", 0>>

Pow(n) == ByteValues ^ n

(* A number is little endian, a signed one in two's complement.            *)
digits(n, bytes) == [i \in 1..bytes |-> ((n % Pow(bytes)) \div Pow(i - 1)) % ByteValues]

Fits(n, type) == IF type.signed THEN - Pow(type.bytes) \div 2 <= n /\ 2 * n < Pow(type.bytes)
                                ELSE 0 <= n /\ n < Pow(type.bytes)

discriminatorOf(variants, i) ==
  IF variants[i].discriminator = NoData THEN i - 1 ELSE variants[i].discriminator

-------------------------------------------------------------------------------
(* The SDK: the values of a type, and their bytes.                         *)
(* A type that is linked, in the program that defines it.                  *)
owner(type, program) == IF type.program = NoData THEN program ELSE type.program
linked(type, program) == Definition[owner(type, program)].definedTypes[type.name]

SeqsOf(S, n) == [1..n -> S]
Products(sets) == FoldLeft(LAMBDA P, S : {Append(s, x) : s \in P, x \in S}, {<<>>}, sets)

RECURSIVE Values(_, _)
Values(type, program) ==
  LET Each(types) == Products([i \in DOMAIN types |-> Values(types[i], program)])
      Counts(c) == IF c.kind = "fixed" THEN {c.value} ELSE 0..MaxCount
      Lists(c, S) == UNION {{List(s) : s \in SeqsOf(S, n)} : n \in Counts(c)}
  IN  CASE type.kind = "number" -> {Number(n) : n \in {m \in Numbers : Fits(m, type)}}
        [] type.kind = "boolean" -> {<<"boolean", b>> : b \in BOOLEAN}
        [] type.kind = "bytes" -> {<<"bytes", s>> : s \in SeqsOf({0, 1}, type.size)}
        [] type.kind = "fixedSize" -> Values(type.type, program)
        [] type.kind = "option" -> {null} \cup Values(type.item, program)
        [] type.kind \in {"array", "set"} -> Lists(type.count, Values(type.item, program))
        [] type.kind = "map" ->
             Lists(type.count, {List(e) : e \in Each(<<type.key, type.value>>)})
        [] type.kind \in {"struct", "tuple"} -> {List(s) : s \in Each(type.items)}
        [] type.kind = "enum" ->
             UNION {IF type.variants[i].tuple = NoData THEN {<<"enum", <<type.variants[i].name>>>>}
                    ELSE {<<"enum", <<type.variants[i].name, v>>>> :
                            v \in Values(type.variants[i].tuple, program)}
                    : i \in DOMAIN type.variants}
        [] type.kind = "link" ->
             Values(linked(type, program), owner(type, program))

RECURSIVE Encode(_, _, _)
Encode(v, type, program) ==
  LET Each(s, types) == FlattenSeq([i \in DOMAIN s |-> Encode(s[i], types[i], program)])
      Same(s, item) == FlattenSeq([i \in DOMAIN s |-> Encode(s[i], item, program)])
      Count(c, n) == IF c.kind = "fixed" THEN <<>> ELSE Encode(Number(n), c.prefix, program)
  IN  CASE type.kind = "number" -> digits(v[2], type.bytes)
        [] type.kind = "boolean" -> Encode(Number(IF v[2] THEN 1 ELSE 0), type.size, program)
        [] type.kind = "bytes" -> v[2]
        [] type.kind = "fixedSize" -> Encode(v, type.type, program)
        [] type.kind = "option" ->
             IF v = null THEN Encode(Number(0), type.prefix, program)
             ELSE Encode(Number(1), type.prefix, program) \o Encode(v, type.item, program)
        [] type.kind \in {"array", "set"} -> Count(type.count, Len(v[2])) \o Same(v[2], type.item)
        [] type.kind = "map" ->
             Count(type.count, Len(v[2]))
               \o FlattenSeq([i \in DOMAIN v[2] |-> Each(v[2][i][2], <<type.key, type.value>>)])
        [] type.kind \in {"struct", "tuple"} -> Each(v[2], type.items)
        [] type.kind = "enum" ->
             LET i == CHOOSE j \in DOMAIN type.variants : type.variants[j].name = v[2][1]
             IN  Encode(Number(discriminatorOf(type.variants, i)), type.size, program)
                   \o (IF Len(v[2]) = 1 THEN <<>> ELSE Encode(v[2][2], type.variants[i].tuple, program))
        [] type.kind = "link" ->
             Encode(v, linked(type, program), owner(type, program))

-------------------------------------------------------------------------------
(* StarFrameDecoder.  Reading gives the set of the pair of what was read   *)
(* and the bytes that remain; it is empty where the code throws.           *)
readBytes(n, data) ==
  IF n > Len(data) THEN {} ELSE {<<SubSeq(data, 1, n), SubSeq(data, n + 1, Len(data))>>}

readInteger(bytes, signed, data) ==
  {LET value == FoldLeftDomain(LAMBDA sum, i : sum + r[1][i] * Pow(i - 1), 0, r[1])
   IN  <<IF signed /\ 2 * value >= Pow(bytes) THEN value - Pow(bytes) ELSE value, r[2]>>
   : r \in readBytes(bytes, data)}

(* Counts, prefixes and discriminators must not be negative.               *)
assertSafeCount(reads) == {<<r[1][2], r[2]>> : r \in {q \in reads : q[1][2] >= 0}}

Wrap(tag, reads) == {<<<<tag, r[1]>>, r[2]>> : r \in reads}

RECURSIVE decodeType(_, _, _)
RECURSIVE decodeEach(_, _, _)

(* Each of a sequence of types in turn: structs, tuples, and the items of  *)
(* a collection.                                                           *)
decodeEach(types, program, data) ==
  IF types = <<>> THEN {<<<<>>, data>>}
  ELSE UNION {{<<<<r[1]>> \o q[1], q[2]>> : q \in decodeEach(Tail(types), program, r[2])}
              : r \in decodeType(Head(types), program, data)}

decodeCount(count, program, data) ==
  IF count.kind = "fixed" THEN {<<count.value, data>>}
  ELSE assertSafeCount(decodeType(count.prefix, program, data))

decodeCollection(count, item, program, data) ==
  Wrap("list", UNION {decodeEach([i \in 1..c[1] |-> item], program, c[2])
                      : c \in decodeCount(count, program, data)})

decodeEnum(type, program, data) ==
  LET of(d) == {i \in DOMAIN type.variants : discriminatorOf(type.variants, i) = d}
      first(d) == type.variants[CHOOSE i \in of(d) : \A j \in of(d) : i <= j]
  IN  UNION {IF of(d[1]) = {} THEN {}
             ELSE IF first(d[1]).tuple = NoData THEN {<<<<"enum", <<first(d[1]).name>>>>, d[2]>>}
             ELSE {<<<<"enum", <<first(d[1]).name, r[1]>>>>, r[2]>>
                   : r \in decodeType(first(d[1]).tuple, program, d[2])}
             : d \in assertSafeCount(decodeType(type.size, program, data))}

decodeOption(type, program, data) ==
  UNION {IF p[1] = 0 THEN {<<null, p[2]>>}
         ELSE IF p[1] = 1 THEN decodeType(type.item, program, p[2])
         ELSE {}
         : p \in assertSafeCount(decodeType(type.prefix, program, data))}

(* A type without a program of its own is of the program that links it.    *)
resolveProgramForType(type, program) == IF type.program = NoData THEN program ELSE type.program

decodeDefinedType(type, program, data) ==
  LET resolved == resolveProgramForType(type, program)
  IN  IF resolved \in DOMAIN Definition /\ type.name \in DOMAIN Definition[resolved].definedTypes
      THEN decodeType(Definition[resolved].definedTypes[type.name], resolved, data)
      ELSE {}

decodeType(type, program, data) ==
  CASE type.kind = "number" -> Wrap("number", readInteger(type.bytes, type.signed, data))
    [] type.kind = "boolean" ->
         {<<<<"boolean", r[1][2] # 0>>, r[2]>> : r \in decodeType(type.size, program, data)}
    [] type.kind = "bytes" -> Wrap("bytes", readBytes(type.size, data))
    [] type.kind = "fixedSize" ->
         {r \in decodeType(type.type, program, data) : Len(data) - Len(r[2]) = type.size}
    [] type.kind = "option" -> decodeOption(type, program, data)
    [] type.kind \in {"array", "set"} -> decodeCollection(type.count, type.item, program, data)
    [] type.kind = "map" ->
         decodeCollection(type.count, [kind |-> "tuple", items |-> <<type.key, type.value>>],
                          program, data)
    [] type.kind \in {"struct", "tuple"} -> Wrap("list", decodeEach(type.items, program, data))
    [] type.kind = "enum" -> decodeEnum(type, program, data)
    [] type.kind = "link" -> decodeDefinedType(type, program, data)

-------------------------------------------------------------------------------
(* The loop over the arguments, which keeps what it read before it failed. *)
decodeArguments(types, program, data) ==
  FoldLeft(LAMBDA s, type :
             LET r == decodeType(type, program, s.data)
             IN  IF s.failed \/ r = {} THEN [s EXCEPT !.failed = TRUE]
                 ELSE LET q == CHOOSE q \in r : TRUE
                      IN  [s EXCEPT !.arguments = Append(@, q[1]), !.data = q[2]],
           [arguments |-> <<>>, data |-> data, failed |-> FALSE], types)

complete(read) == ~read.failed /\ read.data = <<>>

Result(status, name, accounts, arguments, layoutWarning) ==
  [status |-> status, name |-> name, accounts |-> accounts, arguments |-> arguments,
   layoutWarning |-> layoutWarning]

decodeWith(instruction, program, data, layoutWarning) ==
  LET read == decodeArguments(instruction.arguments, program, data)
  IN  IF complete(read)
      THEN Result("decoded", instruction.name, instruction.accounts, read.arguments, layoutWarning)
      ELSE IF layoutWarning
      THEN Result("error", instruction.name, <<>>, <<>>, FALSE)
      ELSE Result("error", instruction.name, instruction.accounts, read.arguments, FALSE)

decodeStarFrameInstruction(ix) ==
  LET program == ProgramById[ix.programId]
      found == SelectSeq(Definition[program].instructions,
                         LAMBDA i : i.discriminator = ix.discriminator)
      current == found[1]
      layouts == IF program # Sage THEN <<>>
                 ELSE SelectSeq(Legacy, LAMBDA l : l.name = current.name)
      matching == SelectSeq(layouts, LAMBDA l : Len(l.accounts) = Len(ix.keys))
  IN  IF ix.programId \notin DOMAIN ProgramById THEN NoData
      ELSE IF found = <<>> THEN Result("error", NoData, <<>>, <<>>, FALSE)
      ELSE IF layouts = <<>> \/ Len(ix.keys) >= Len(current.accounts)
      THEN decodeWith(current, program, ix.data, FALSE)
      ELSE IF Len(matching) = 1 THEN decodeWith(matching[1], program, ix.data, TRUE)
      ELSE Result("error", current.name, <<>>, <<>>, FALSE)

(* The rows of the card: what each address is said to be, NoData for a     *)
(* remaining account.                                                      *)
accountRows(ix, decoded) ==
  [n \in DOMAIN ix.keys |-> IF n \in DOMAIN decoded.accounts THEN decoded.accounts[n] ELSE NoData]

(* decodeStarFrameAccount: its data, NoData for an error.                  *)
decodeStarFrameAccount(program, account, stored) ==
  LET reads == {r \in decodeType(account.data, program, stored.data) : r[2] = <<>>}
  IN  IF account.discriminator # stored.discriminator \/ reads = {} THEN NoData
      ELSE (CHOOSE r \in reads : TRUE)[1]

-------------------------------------------------------------------------------
Init == sent = NoData /\ wire = NoData

layoutsOf(program) ==
  ToSet(Definition[program].instructions) \cup IF program = Sage THEN ToSet(Legacy) ELSE {}

isCurrent(layout, program) == layout \in ToSet(Definition[program].instructions)

EncodeAll(values, types, program) ==
  FlattenSeq([i \in DOMAIN values |-> Encode(values[i], types[i], program)])

(* A program of any release takes an instruction, with any accounts after  *)
(* those of its layout.                                                    *)
Submit(id, layout, remaining) ==
  LET program == ProgramById[id]
      types == layout.arguments
  IN  /\ sent = NoData
      /\ \E values \in Products([i \in DOMAIN types |-> Values(types[i], program)]) :
           /\ sent' = [kind |-> "instruction", program |-> program, layout |-> layout,
                       remaining |-> remaining, values |-> values, damaged |-> FALSE]
           /\ wire' = [programId |-> id, discriminator |-> layout.discriminator,
                       keys |-> layout.accounts \o [n \in 1..remaining |-> NoData],
                       data |-> EncodeAll(values, types, program)]

(* A program writes one of its accounts.                                   *)
Store(program, account) ==
  /\ sent = NoData
  /\ \E value \in Values(account.data, program) :
       /\ sent' = [kind |-> "account", program |-> program, account |-> account,
                   value |-> value, damaged |-> FALSE]
       /\ wire' = [discriminator |-> account.discriminator,
                   data |-> Encode(value, account.data, program)]

(* The payload of a transaction that failed, or an account of another size *)
(* than the IDL says.                                                      *)
Damage ==
  /\ sent # NoData /\ ~sent.damaged
  /\ sent' = [sent EXCEPT !.damaged = TRUE]
  /\ \/ wire.data # <<>> /\ wire' = [wire EXCEPT !.data = Front(@)]
     \/ \E b \in {0, 1} : wire' = [wire EXCEPT !.data = Append(@, b)]

Next ==
  \/ \E id \in DOMAIN ProgramById : \E layout \in layoutsOf(ProgramById[id]),
        remaining \in 0..MaxRemaining : Submit(id, layout, remaining)
  \/ \E program \in DOMAIN Definition :
       \E account \in Definition[program].accounts : Store(program, account)
  \/ Damage

Spec == Init /\ [][Next]_starVars

-------------------------------------------------------------------------------
(* Two older layouts with as many accounts cannot be told apart; and with  *)
(* accounts after its own an older layout is like any other of that length *)
(* (idls/README.md: "cannot be versioned from their discriminator alone"). *)
ToldApart(layout) ==
  \A i, j \in DOMAIN Legacy :
    (i # j /\ Legacy[i] = layout /\ Legacy[j].name = layout.name) =>
      Len(Legacy[j].accounts) # Len(layout.accounts)

(* An instruction of any release is told as it was sent: its arguments,    *)
(* and what each address is, with a warning just when it is of an older    *)
(* layout.  A damaged payload is always an error, which names no account   *)
(* wrongly, tells no argument that was not sent, and never passes for      *)
(* another layout.                                                         *)
InstructionIsTold ==
  (sent # NoData /\ sent.kind = "instruction") =>
    LET decoded == decodeStarFrameInstruction(wire)
        current == isCurrent(sent.layout, sent.program)
    IN  (current \/ sent.remaining = 0) =>
          /\ decoded.status = "decoded" <=>
               ~sent.damaged /\ (current \/ ToldApart(sent.layout))
          /\ decoded.status = "decoded" =>
               /\ decoded.arguments = sent.values
               /\ accountRows(wire, decoded) = wire.keys
               /\ decoded.layoutWarning = ~current
          /\ decoded.status = "error" =>
               /\ IsPrefix(decoded.arguments, sent.values)
               /\ decoded.accounts # <<>> => accountRows(wire, decoded) = wire.keys

(* An account is read as what it is, and as no other account of its        *)
(* program; one with a byte too many or too few is not read.               *)
AccountIsTold ==
  (sent # NoData /\ sent.kind = "account") =>
    \A account \in Definition[sent.program].accounts :
      decodeStarFrameAccount(sent.program, account, wire)
        = IF account = sent.account /\ ~sent.damaged THEN sent.value ELSE NoData

DecodedIsAsSent == InstructionIsTold /\ AccountIsTold
===============================================================================
