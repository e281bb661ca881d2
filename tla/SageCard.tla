------------------------------- MODULE SageCard -------------------------------
(***************************************************************************)
(* The cargo in the card of a SAGE instruction (utils/sage-cargo.ts and    *)
(* components/instruction/StarFrameDetailsCard.tsx): the arguments say     *)
(* which cargo, by id, moves where, and the account of the game has the    *)
(* names.  An instruction may leave out optional accounts, so that several *)
(* of its accounts may be the game: they are asked one after the other.    *)
(* Requests are shared by all cards and never repeated, whatever they gave.*)
(***************************************************************************)
EXTENDS Integers, Sequences, SequencesExt, FiniteSetsExt

CONSTANTS
  Url,
  Address,
  CargoId,
  GameAt,          \* the games of a url: their data by address
  NoData,          \* `undefined`; of an address: not a game
  Pending,         \* a promise that has not ended
  Instruction,     \* the instructions the user looks at
  MaxRuns          \* bound on the runs there are when the user acts

(* The data of a game: the names of the cargo ids, and the ids of the      *)
(* resources fuel and ammo.  An instruction: the accounts its definition   *)
(* has, the addresses it was given, which one is the game, and arguments.  *)

VARIABLES
  url,             \* the url the card was given
  ix,              \* the instruction whose card there is, NoData if none
  promises,        \* cachedCargoDataPromises
  runs,            \* the runs of the effect that have not ended
  cargoGameData,   \* the state of the card
  ran              \* the dependencies the effect last ran with

cardVars == <<url, ix, promises, runs, cargoGameData, ran>>

(* EMPTY_CARGO_GAME_DATA. *)
Empty == [names |-> [id \in {} |-> NoData], resources |-> [r \in {"fuel", "ammo"} |-> NoData]]

hasSageCargoGameData(data) ==
  DOMAIN data.names # {} \/ \E r \in {"fuel", "ammo"} : data.resources[r] # NoData

-------------------------------------------------------------------------------
(* getInstructionAccountAddressCandidates for 'game': the key at its place *)
(* in the definition, or as many places before it as there may be optional *)
(* accounts left out before it.                                            *)
candidates(i) ==
  LET games == {n \in DOMAIN i.accounts : i.accounts[n].name = "game"}
      index == Min(games)
      optionals == {n \in 1..(index - 1) : i.accounts[n].isOptional}
      omitted == Max({0, Len(i.accounts) - Len(i.keys)})
      places == [n \in 1..(1 + Min({omitted, Cardinality(optionals)})) |-> index - (n - 1)]
      found == SelectSeq(places, LAMBDA p : p \in DOMAIN i.keys)
      first(n) == \A m \in 1..(n - 1) : i.keys[found[m]] # i.keys[found[n]]
      kept == SelectSeq([n \in DOMAIN found |-> n], first)
  IN  IF games = {} THEN <<>> ELSE [n \in DOMAIN kept |-> i.keys[found[kept[n]]]]

-------------------------------------------------------------------------------
(* buildSageCargoMovements: a list of cargo or resources, where each moves *)
(* from and to.                                                            *)

Movement(cargoId, fallbackName, amount, from, to) ==
  [cargoId |-> cargoId, fallbackName |-> fallbackName, amount |-> amount,
   from |-> from, to |-> to]

signedMovement(amount, cargoId, fallbackName, place) ==
  IF amount = 0 THEN <<>>
  ELSE IF amount < 0
  THEN <<Movement(cargoId, fallbackName, - amount, place, "Starbase")>>
  ELSE <<Movement(cargoId, fallbackName, amount, "Starbase", place)>>

cargoPairMovements(pairs, from, to) ==
  FlattenSeq([n \in DOMAIN pairs |->
                IF pairs[n].amount = 0 THEN <<>>
                ELSE <<Movement(pairs[n].cargoId, NoData, pairs[n].amount, from, to)>>])

Hold == "Fleet Cargo Hold"

buildSageCargoMovements(i, data) ==
  LET swap(elsewhere, place) == cargoPairMovements(i.toLoad, elsewhere, place)
                                  \o cargoPairMovements(i.toUnload, place, elsewhere)
  IN  CASE i.name = "transferCargoToFleet" ->
             signedMovement(i.fuelTank, data.resources["fuel"], "Fuel", "Fleet Fuel Tank")
               \o signedMovement(i.ammoBank, data.resources["ammo"], "Ammo", "Fleet Ammo Bank")
               \o swap("Starbase", Hold)
        [] i.name = "transferCargoWithinFleet" ->
             cargoPairMovements(i.toLoad, "Fleet Ammo Bank", Hold)
        [] i.name = "startClaimStakesFleetTransfer" -> swap("Claim Stake", "Fleet")
        [] i.name = "craftingHabResourceSwap" -> swap("Starbase", "Crafting Hab")
        [] i.name = "retrieveLoot" -> cargoPairMovements(i.toLoad, "Loot", "Fleet")
        [] i.name = "contributeToStarbaseUpgrade" ->
             cargoPairMovements(i.toLoad, "Starbase", "Upgrade")
        [] OTHER -> <<>>

(* CargoItemLabel: the name in the game, else the fallback, else the id.   *)
label(m, data) ==
  IF m.cargoId \in DOMAIN data.names
  THEN data.names[m.cargoId]
  ELSE IF m.fallbackName # NoData THEN m.fallbackName ELSE m.cargoId

-------------------------------------------------------------------------------
deps == <<candidates(ix), url>>

Settled == ix # NoData /\ ran = deps /\ \A r \in runs : ~r.isMounted

Init ==
  /\ url \in Url
  /\ ix = NoData
  /\ promises = [k \in Url \X Address |-> NoData]
  /\ runs = {}
  /\ cargoGameData = Empty
  /\ ran = NoData

unmounted == {[r EXCEPT !.isMounted = FALSE] : r \in runs}

Act == Cardinality(runs) < MaxRuns

(* A card is shown, the only one of its kind: cards share but `promises`.  *)
Mount(i) ==
  /\ ix = NoData /\ Act
  /\ ix' = i
  /\ UNCHANGED <<url, promises, runs, cargoGameData, ran>>

Unmount ==
  /\ ix # NoData
  /\ ix' = NoData
  /\ runs' = unmounted
  /\ cargoGameData' = Empty /\ ran' = NoData
  /\ UNCHANGED <<url, promises>>

Switch(u) ==
  /\ Act /\ u # url /\ (ix # NoData => ran = deps)
  /\ url' = u
  /\ UNCHANGED <<ix, promises, runs, cargoGameData, ran>>

(* getSageCargoGameData: the promise there is, or a new one.               *)
getSageCargoGameData(game, u) ==
  promises' = IF promises[<<u, game>>] # NoData THEN promises
              ELSE [promises EXCEPT ![<<u, game>>] = Pending]

(* The effect: it starts a run, which asks for the first candidate.        *)
Effect ==
  /\ ix # NoData /\ ran # deps
  /\ ran' = deps
  /\ IF candidates(ix) = <<>>
       THEN /\ cargoGameData' = Empty
            /\ runs' = unmounted
            /\ UNCHANGED promises
       ELSE /\ runs' = unmounted \cup {[url |-> url, rest |-> candidates(ix), isMounted |-> TRUE]}
            /\ getSageCargoGameData(candidates(ix)[1], url)
            /\ UNCHANGED cargoGameData
  /\ UNCHANGED <<url, ix>>

(* Mutant: only the request of a game ends.                                *)
AnswerOfGames(u, game) ==
  /\ promises[<<u, game>>] = Pending /\ GameAt[u][game] # NoData
  /\ promises' = [promises EXCEPT ![<<u, game>>] = GameAt[u][game]]
  /\ UNCHANGED <<url, ix, runs, cargoGameData, ran>>

(* fetchSageCargoGameData ends: with the data of the game, or with nothing *)
(* when the account is not there, is not a game, or the request fails.     *)
Answer(u, game) ==
  /\ promises[<<u, game>>] = Pending
  /\ \E data \in {Empty, GameAt[u][game]} \ {NoData} :
       promises' = [promises EXCEPT ![<<u, game>>] = data]
  /\ UNCHANGED <<url, ix, runs, cargoGameData, ran>>

shownByMounted(run, data) == cargoGameData' = IF run.isMounted THEN data ELSE cargoGameData

(* A run goes on when the promise it awaits has ended: it takes the data,  *)
(* or asks for the next candidate, whether or not the card is still there. *)
Continue(r) ==
  LET data == promises[<<r.url, r.rest[1]>>]
  IN  /\ data # Pending
      /\ IF hasSageCargoGameData(data) \/ Len(r.rest) = 1
         THEN /\ runs' = runs \ {r}
              /\ shownByMounted(r, data)
              /\ UNCHANGED promises
         ELSE /\ runs' = (runs \ {r}) \cup {[r EXCEPT !.rest = Tail(@)]}
              /\ getSageCargoGameData(r.rest[2], r.url)
              /\ UNCHANGED cargoGameData
      /\ UNCHANGED <<url, ix, ran>>

Next ==
  \/ \E i \in Instruction : Mount(i)
  \/ Unmount
  \/ \E u \in Url : Switch(u)
  \/ Effect
  \/ \E u \in Url, game \in Address : Answer(u, game)
  \/ \E r \in runs : Continue(r)

Spec == Init /\ [][Next]_cardVars

(* Effects run, requests end, and what awaits them goes on; the user is    *)
(* free.                                                                   *)
Fairness ==
  /\ WF_cardVars(Effect)
  /\ WF_cardVars(\E u \in Url, game \in Address : Answer(u, game))
  /\ WF_cardVars(\E r \in runs : Continue(r))

FairSpec == Spec /\ Fairness

-------------------------------------------------------------------------------
(* What the program does to the cargo of the fleet: external.              *)
amountOf(id, pairs) ==
  FoldLeft(LAMBDA n, p : n + (IF p.cargoId = id THEN p.amount ELSE 0), 0, pairs)

FleetGain(i, id, fuel, ammo) ==
  CASE i.name = "transferCargoToFleet" ->
         amountOf(id, i.toLoad) - amountOf(id, i.toUnload)
           + (IF id = fuel THEN i.fuelTank ELSE 0) + (IF id = ammo THEN i.ammoBank ELSE 0)
    [] i.name \in {"startClaimStakesFleetTransfer", "retrieveLoot"} ->
         amountOf(id, i.toLoad) - amountOf(id, i.toUnload)
    [] OTHER -> 0

inFleet(place) == place \in {"Fleet", Hold, "Fleet Fuel Tank", "Fleet Ammo Bank"}

(* What the rows of the card say the fleet gains of an item.               *)
gainTold(item) ==
  FoldLeft(LAMBDA n, m : n + (IF label(m, cargoGameData) # item THEN 0
                              ELSE (IF inFleet(m.to) THEN m.amount ELSE 0)
                                     - (IF inFleet(m.from) THEN m.amount ELSE 0)),
           0, buildSageCargoMovements(ix, cargoGameData))

(* Once its requests have ended a card tells what the fleet gained of each *)
(* cargo, named as the game of the instruction names it at the url of the  *)
(* card, whichever optional accounts were left out and whatever url the    *)
(* card was for before.  Without the data the cargo has its id, and fuel   *)
(* and ammo have their names.                                              *)
FleetGainIsTold ==
  Settled =>
    LET data == promises[<<url, ix.game>>]
    IN  IF hasSageCargoGameData(data)
        THEN \A id \in DOMAIN data.names :
               gainTold(data.names[id])
                 = FleetGain(ix, id, data.resources["fuel"], data.resources["ammo"])
        ELSE \A id \in CargoId \cup {"Fuel", "Ammo"} :
               gainTold(id) = FleetGain(ix, id, "Fuel", "Ammo")

(* A card that stays, for an url that stays, does not wait for ever for    *)
(* the names.                                                              *)
CardSettles == \A u \in Url : []<>(url = u => ix = NoData \/ Settled)
===============================================================================
