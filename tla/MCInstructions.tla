---------------------------- MODULE MCInstructions ----------------------------
(* What the page of a transaction tells of its instructions: the log and   *)
(* the telemetry in it, the replay of a combat, the token movements, the   *)
(* cargo of an instruction, its accounts and arguments, and the cards of   *)
(* what the node has parsed.  The six share no state; a behaviour is of    *)
(* one of them.                                                            *)
EXTENDS TransactionLogs, TLC

CONSTANTS sage, token, loader, ed25519,
          Account, Mint, MaxBalance, MaxOps,
          Url, CargoId, Pending, MaxRuns,
          ByteValues, MaxCount, MaxRemaining

VARIABLES part, pre, held, instructions, open, mints, ops,
          url, ix, promises, runs, cargoGameData, ran,
          sent, wire,
          transaction, details, idls, known, raw, showRaw, hash, scroll

combatVars == <<phase, combat, event>>
tokenVars == <<pre, held, instructions, open, mints, ops>>
cardVars == <<url, ix, promises, runs, cargoGameData, ran>>
starVars == <<sent, wire>>
pageVars == <<transaction, details, idls, known, raw, showRaw, hash, scroll>>

Tokens == INSTANCE SageTokens

-------------------------------------------------------------------------------
Payload(kind, version, length) ==
  [kind |-> kind, version |-> version, length |-> length, values |-> TRUE, slot |-> 7]

(* Telemetry of both kinds, and version 2 declared at the length of 3.     *)
MCBytes == {Payload(1, 3, 468), Payload(2, 1, 267), Payload(1, 2, 468)}

-------------------------------------------------------------------------------
(* Damages in two types, or of none. *)
MCTypes == <<"kinetic", "energy">>
MCDamages ==
  {[t \in {"kinetic", "energy", "other"} |->
      IF t = "kinetic" THEN d[1] ELSE IF t = "energy" THEN d[2] ELSE d[3]]
   : d \in {<<0, 0, 0>>, <<1, 0, 0>>, <<0, 2, 0>>, <<1, 1, 0>>, <<2, 1, 0>>, <<1, 0, 1>>, <<2, 0, 1>>}}

-------------------------------------------------------------------------------
(* An instruction with an optional account before the game and one after   *)
(* it, either of which may be left out; and one of every kind.  The game   *)
(* is at the same address of both urls, with other cargo.                  *)
Keys == <<"certificate", "fleet", "game", "crew">>
Optional == {"certificate", "crew"}

MCInstruction ==
  LET Definition == [n \in DOMAIN Keys |-> [name |-> Keys[n], isOptional |-> Keys[n] \in Optional]]
      Pair(id, n) == [cargoId |-> id, amount |-> n]
      Ix(name, fuel, ammo, toLoad, toUnload, omitted) ==
        [name |-> name, fuelTank |-> fuel, ammoBank |-> ammo, toLoad |-> toLoad, toUnload |-> toUnload,
         accounts |-> Definition, keys |-> SelectSeq(Keys, LAMBDA k : k \notin omitted), game |-> "game"]
  IN  {Ix("transferCargoToFleet", 2, -1, <<Pair("1", 1), Pair("3", 2)>>, <<Pair("2", 1)>>, o)
       : o \in SUBSET Optional}
      \cup
      {Ix("transferCargoToFleet", -1, 0, <<>>, <<Pair("1", 1), Pair("1", 2)>>, Optional),
       Ix("transferCargoWithinFleet", 0, 0, <<Pair("2", 2)>>, <<>>, Optional),
       Ix("startClaimStakesFleetTransfer", 0, 0, <<Pair("2", 2), Pair("3", 0)>>, <<Pair("1", 1)>>, Optional),
       Ix("craftingHabResourceSwap", 0, 0, <<Pair("2", 2)>>, <<Pair("1", 1)>>, Optional),
       Ix("retrieveLoot", 0, 0, <<Pair("3", 1), Pair("3", 2)>>, <<>>, Optional),
       Ix("contributeToStarbaseUpgrade", 0, 0, <<Pair("1", 2)>>, <<>>, Optional)}

MCGameAt ==
  [u \in Url |->
     [a \in {Keys[n] : n \in DOMAIN Keys} |->
        IF a # "game" THEN NoData
        ELSE IF u = "atlasnet"
        THEN [names |-> ("1" :> "Fuel" @@ "2" :> "Ammo" @@ "3" :> "Food"),
              resources |-> [fuel |-> "1", ammo |-> "2"]]
        ELSE [names |-> ("1" :> "Food" @@ "2" :> "Fuel" @@ "3" :> "Ammo"),
              resources |-> [fuel |-> "2", ammo |-> "3"]]]]

Card == INSTANCE SageCard WITH
          Address <- {Keys[n] : n \in DOMAIN Keys},
          GameAt <- MCGameAt, Instruction <- MCInstruction

-------------------------------------------------------------------------------
(* IDLs of two programs that give their own types the same names: an       *)
(* instruction with two older layouts, one with two of the same length,    *)
(* and one without.                                                        *)
Integer(bytes, signed) == [kind |-> "number", bytes |-> bytes, signed |-> signed]
U8 == Integer(1, FALSE)
I16 == Integer(2, TRUE)
BytesOf(n) == [kind |-> "bytes", size |-> n]
Struct(items) == [kind |-> "struct", items |-> items]
Prefixed == [kind |-> "prefixed", prefix |-> U8]
Collection(kind, count, item) == [kind |-> kind, count |-> count, item |-> item]
Link(name, program) == [kind |-> "link", name |-> name, program |-> program]
Variant(name, discriminator, tuple) ==
  [name |-> name, discriminator |-> discriminator, tuple |-> tuple]

Node(name, discriminator, accounts, arguments) ==
  [name |-> name, discriminator |-> discriminator, accounts |-> accounts, arguments |-> arguments]

Fuel == [kind |-> "option", prefix |-> U8, item |-> I16]
ToLoad == Collection("array", Prefixed, Struct(<<U8, Link("mask", NoData)>>))

Idls ==
  [sage |->
     [instructions |->
        <<Node("transferCargo", "1", <<"signer", "profile", "fleet", "game">>, <<Fuel, ToLoad>>),
          Node("craft", "2", <<"signer", "station", "game">>,
               <<Link("mode", NoData), Link("mode", "profile"), [kind |-> "boolean", size |-> U8]>>),
          Node("order", "3", <<"signer">>,
               <<[kind |-> "map", key |-> U8, value |-> BytesOf(1), count |-> Prefixed],
                 [kind |-> "fixedSize", size |-> 2, type |-> I16],
                 Collection("array", [kind |-> "fixed", value |-> 2], U8)>>)>>,
      accounts |->
        {[name |-> "fleet", discriminator |-> "f", data |-> Struct(<<U8, Link("mode", NoData)>>)],
         [name |-> "crew", discriminator |-> "c",
          data |-> Struct(<<U8, Collection("set", Prefixed, U8)>>)]},
      definedTypes |->
        [mode |-> [kind |-> "enum", size |-> U8,
                   variants |-> <<Variant("attack", NoData, NoData),
                                  Variant("mine", NoData, [kind |-> "tuple", items |-> <<U8>>]),
                                  Variant("removed", 3, NoData)>>],
         mask |-> U8]],
   profile |->
     [instructions |-> <<Node("rename", "1", <<"signer", "profile">>, <<Link("mode", NoData)>>)>>,
      accounts |-> {},
      definedTypes |->
        [mode |-> Struct(<<U8, Link("mask", NoData)>>), mask |-> BytesOf(2)]]]

OlderLayouts ==
  <<Node("transferCargo", "1", <<"signer", "fleet", "game">>, <<Fuel>>),
    Node("transferCargo", "1", <<"fleet", "game">>, <<Fuel, ToLoad>>),
    Node("craft", "2", <<"signer", "game">>, <<Link("mode", NoData)>>),
    Node("craft", "2", <<"station", "game">>, <<Link("mode", NoData)>>)>>

ById == [C4SAGe |-> "sage", HYEWZX |-> "sage", pprofE |-> "profile"]
SmallNumbers == {-1, 0, 2, 5}

Star == INSTANCE StarFrame WITH
          ProgramById <- ById, Definition <- Idls, Sage <- "sage", Legacy <- OlderLayouts,
          Numbers <- SmallNumbers

-------------------------------------------------------------------------------
(* Three accounts of two tokens, the last of them closed since; and seven  *)
(* keys.                                                                   *)
MCMintOf == [source |-> "mint", other |-> "otherMint", closed |-> NoData]
MCDecimalsOf == [mint |-> 6, otherMint |-> 0]
SevenKeys == <<"k1", "k2", "k3", "k4", "k5", "k6", "k7">>

Infos == INSTANCE InstructionCards WITH
           Transactions <- {}, INNER_INSTRUCTIONS_START_SLOT <- 2,
           MintOf <- MCMintOf, DecimalsOf <- MCDecimalsOf

(* Instructions of every type of a program, with all that the node may say *)
(* of them, with only what it must, and with one thing missing or wrong.   *)
Said(fields) == [f \in fields |-> f]

Parsed(program, type, info, whole) ==
  [program |-> program, type |-> type, info |-> info, whole |-> whole, keys |-> SevenKeys,
   data |-> "empty", decodes |-> TRUE, mint |-> "mint"]

OfEveryType(program, structs) ==
  UNION {LET must == structs[t].required
             may == must \cup structs[t].optional
         IN  {Parsed(program, t, Said(may), TRUE), Parsed(program, t, Said(must), TRUE)}
             \cup {Parsed(program, t, Said(may \ {f}), FALSE) : f \in must}
             \cup {Parsed(program, t, [Said(may) EXCEPT ![f] = "bad"], FALSE) : f \in may}
         : t \in DOMAIN structs}

(* The accounts of an associated token instruction, as the node and as the *)
(* message have them.                                                      *)
CreateInfo == [source |-> "k1", account |-> "k2", wallet |-> "k3", mint |-> "k4",
               systemProgram |-> "k5", tokenProgram |-> "k6"]
RecoverInfo == [nestedSource |-> "k1", nestedMint |-> "k2", destination |-> "k3", nestedOwner |-> "k4",
                ownerMint |-> "k5", wallet |-> "k6", tokenProgram |-> "k7"]

AssociatedToken(data, type, info) ==
  [Parsed("associatedToken", type, info, TRUE) EXCEPT !.data = data]

MCParsed ==
  OfEveryType("system", Infos!SystemInfo) \cup OfEveryType("stake", Infos!StakeInfo)
  \cup OfEveryType("vote", Infos!VoteInfo) \cup OfEveryType("bpfLoader", Infos!BpfLoaderInfo)
  \cup OfEveryType("bpfUpgradeableLoader", Infos!BpfUpgradeableLoaderInfo)
  \cup OfEveryType("splToken", Infos!IX_STRUCTS)
  \cup {p \in OfEveryType("addressLookupTable", Infos!LookupTableInfo) : p.whole}
  \cup {AssociatedToken("empty", "create", CreateInfo), AssociatedToken("create", "create", CreateInfo),
        AssociatedToken("createIdempotent", "createIdempotent", CreateInfo),
        AssociatedToken("recoverNested", "recoverNested", RecoverInfo)}
  \cup {Parsed("stake", "initialize", [Said(Infos!StakeInfo.initialize.required) EXCEPT ![f] = "zero"], TRUE)
        : f \in {"epoch", "unixTimestamp", "custodian"}}
  \cup {Parsed("vote", "vote",
               [Said(Infos!VoteInfo.vote.required \cup {"vote.timestamp"}) EXCEPT !["vote.timestamp"] = "zero"],
               TRUE),
        Parsed("splMemo", "memo", Said({"parsed"}), TRUE),
        Parsed("vote", "authorizeWithSeed", Said({"voteAccount"}), FALSE),
        Parsed("nameService", "create", Said({"name"}), FALSE)}

OneOf(p) ==
  [instructions |-> <<p>>, inner |-> <<>>, err |-> 0, accountKeys |-> ToSet(SevenKeys),
   cluster |-> "custom", slot |-> 1]

(* Transactions that call: their inner instructions are in two sets, the   *)
(* ones of the second instruction first.                                   *)
Transfer(source, mint) ==
  [Parsed("splToken", "transfer", [Said({"amount", "destination", "source"}) EXCEPT !.source = source], TRUE)
     EXCEPT !.mint = mint, !.keys = <<source>>]

NotParsed(program, decodes, keys) ==
  [Parsed(program, NoData, NoData, TRUE) EXCEPT !.decodes = decodes, !.keys = keys]

Calling(cluster, first, inner) ==
  [OneOf(first) EXCEPT
     !.instructions = @ \o <<Transfer("source", "mint")>>,
     !.inner = <<[index |-> 2, instructions |-> <<Transfer("closed", "mint")>>],
                 [index |-> 1, instructions |-> <<inner>>]>>,
     !.cluster = cluster]

MCTransactions ==
  {OneOf(p) : p \in MCParsed}
  \cup {Calling("mainnet-beta", NotParsed("anchor", FALSE, <<"k1">>), Transfer("other", "otherMint")),
        Calling("custom", NotParsed("anchor", TRUE, <<"k1", "k2">>), Transfer("other", "otherMint")),
        Calling("custom", NotParsed("serum", FALSE, <<"k2">>), NotParsed("native", TRUE, <<"k0">>))}

Page == INSTANCE InstructionCards WITH
          Transactions <- MCTransactions, INNER_INSTRUCTIONS_START_SLOT <- 2,
          MintOf <- MCMintOf, DecimalsOf <- MCDecimalsOf

-------------------------------------------------------------------------------
NoLog ==
  /\ tx = <<[program |-> sage, name |-> "attackFleet"]>> /\ at = 1 /\ frames = <<>> /\ err = 0
  /\ log = <<>> /\ limit = 12 /\ written = 0 /\ said = 0

NoCombat == phase = "armed" /\ combat = NoData /\ event = NoData

NoTokens ==
  /\ pre = [a \in Account |-> NoData] /\ held = pre /\ instructions = <<>> /\ open = FALSE
  /\ mints = [a \in Account |-> {}] /\ ops = 0

NoCard == Card!Init /\ url = "atlasnet"

NoStar == sent = NoData /\ wire = NoData

NoPage ==
  /\ transaction = NoData /\ details = FALSE /\ idls = <<>> /\ known = {}
  /\ raw = NoData /\ showRaw = {} /\ hash = NoData /\ scroll = NoData

MCInit ==
  \/ part = "log" /\ Init /\ NoCombat /\ NoTokens /\ NoCard /\ NoStar /\ NoPage
  \/ part = "combat" /\ NoLog /\ Combat!Init /\ NoTokens /\ NoCard /\ NoStar /\ NoPage
  \/ part = "tokens" /\ NoLog /\ NoCombat /\ Tokens!Init /\ NoCard /\ NoStar /\ NoPage
  \/ part = "card" /\ NoLog /\ NoCombat /\ NoTokens /\ Card!Init /\ NoStar /\ NoPage
  \/ part = "starframe" /\ NoLog /\ NoCombat /\ NoTokens /\ NoCard /\ Star!Init /\ NoPage
  \/ part = "page" /\ NoLog /\ NoCombat /\ NoTokens /\ NoCard /\ NoStar /\ Page!Init

MCNext ==
  \/ part = "log" /\ Next /\ UNCHANGED <<part, combatVars, tokenVars, cardVars, starVars, pageVars>>
  \/ part = "combat" /\ Combat!Next /\ UNCHANGED <<part, vars, tokenVars, cardVars, starVars, pageVars>>
  \/ part = "tokens" /\ Tokens!Next /\ UNCHANGED <<part, vars, combatVars, cardVars, starVars, pageVars>>
  \/ part = "card" /\ Card!Next /\ UNCHANGED <<part, vars, combatVars, tokenVars, starVars, pageVars>>
  \/ part = "starframe" /\ Star!Next /\ UNCHANGED <<part, vars, combatVars, tokenVars, cardVars, pageVars>>
  \/ part = "page" /\ Page!Next /\ UNCHANGED <<part, vars, combatVars, tokenVars, cardVars, starVars>>

MCSpec ==
  MCInit /\ [][MCNext]_<<part, vars, combatVars, tokenVars, cardVars, starVars, pageVars>> /\ Card!Fairness

(* What is told of the cargo of an instruction, by its token movements and *)
(* by its card, is what it moves; and what the Star Frame card tells of    *)
(* its accounts and arguments is what was sent.                            *)
SageInstructionIsTold ==
  /\ Tokens!NetIsOwnOrWhole
  /\ part = "card" => Card!FleetGainIsTold
  /\ part = "starframe" => Star!DecodedIsAsSent

(* What the cards tell of the instructions the node has parsed is what it  *)
(* says of them.                                                           *)
CardsTellInstructions == part = "page" => Page!CardsTellInstructions

CardSettles == part = "card" => Card!CardSettles
===============================================================================
