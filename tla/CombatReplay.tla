----------------------------- MODULE CombatReplay -----------------------------
(***************************************************************************)
(* The replay of a combat (components/transaction/combat/                  *)
(* CombatVisualizer.tsx): what the card of an attack instruction tells of  *)
(* the two shots, from the telemetry that SAGE logged of them.             *)
(*                                                                         *)
(* The combat itself is SAGE's and external: the attacker fires at a fleet *)
(* or a starbase, the other side fires back, and what happened is logged   *)
(* in one of three versions of the telemetry.  What a version leaves out   *)
(* is Null in the event; `combat` keeps what really happened.              *)
(***************************************************************************)
EXTENDS Naturals, Sequences, SequencesExt

CONSTANTS
  Null,
  COMBAT_DAMAGE_TYPES,   \* the sequence of the typed components of a damage
  Damages,               \* the breakdowns that occur, by type and "other"
  Blocks,                \* how much of a shot is blocked
  Hp, SpQ6,              \* whole hull points; shield points in units of 1/Q6_SCALE
  Q6_SCALE               \* 64 in the code

VARIABLES
  phase,     \* "armed", "attacked", "returned" or "logged"
  combat,    \* the combatants by side, and their shots
  event      \* the telemetry of the instruction, Null when none was logged

vars == <<phase, combat, event>>

Side == {"left", "right"}
Types == ToSet(COMBAT_DAMAGE_TYPES)
other == "other"

(* What the telemetry tells of a shot, and what the replay shows of it.    *)
CombatShotSummary ==
  [attempted : BOOLEAN \cup {Null}, hit : BOOLEAN, dodged : BOOLEAN, crit : BOOLEAN,
   rawDamage : Nat, blockedDamage : Nat, effectiveDamage : Nat,
   effectiveDamageByType : [Types -> Nat] \cup {Null}, otherEffectiveDamage : Nat \cup {Null}]

FloatingText ==
  [text : {"NO SHOT", "DODGE", "MISS", "BLOCKED", "NO DAMAGE", "SP", "HP", "DESTROYED",
           "DOWNGRADED", "DISRUPTED"},
   amount : Nat, crit : BOOLEAN, type : Types \cup {Null}]

(* No type is there twice; Null is none of the values it stands out from.  *)
ConstantsAssumption ==
  /\ COMBAT_DAMAGE_TYPES \in Seq(Types) /\ IsInjective(COMBAT_DAMAGE_TYPES) /\ other \notin Types
  /\ Damages \subseteq [Types \cup {other} -> Nat] /\ Blocks \subseteq Nat
  /\ Hp \subseteq Nat \ {0} /\ SpQ6 \subseteq Nat /\ Q6_SCALE \in Nat \ {0}
  /\ Null \notin Types \cup Nat \cup BOOLEAN \cup [Types -> Nat] \cup CombatShotSummary
  /\ Null \notin [attempted : BOOLEAN, texts : Seq(FloatingText)]

(* The damage that is not typed and that of the first n types, for every n. *)
sums(damage) ==
  LET sum[n \in 0 .. Len(COMBAT_DAMAGE_TYPES)] ==
        IF n = 0 THEN damage[other] ELSE sum[n-1] + damage[COMBAT_DAMAGE_TYPES[n]]
  IN  sum

total(damage) == sums(damage)[Len(COMBAT_DAMAGE_TYPES)]

-------------------------------------------------------------------------------
(* The combat.  A shot is not fired, misses, is dodged, or hits.           *)
NoDamage == [t \in Types \cup {other} |-> 0]

Shot(result, crit, blocked, damage, sp, hp) ==
  [result |-> result, crit |-> crit, blocked |-> blocked, damage |-> damage,
   sp |-> sp, hp |-> hp]

NoShot == Shot("none", FALSE, 0, NoDamage, 0, 0)

(* The shots at c: a hit costs it whole shield and hull points, at most    *)
(* the effective damage.                                                   *)
ShotsAt(c) ==
  {Shot(r, FALSE, 0, NoDamage, 0, 0) : r \in {"none", "miss", "dodge"}}
    \cup {s \in {Shot("hit", crit, b, d, sp, hp) :
                   crit \in BOOLEAN, b \in Blocks, d \in Damages,
                   sp \in 0 .. (c.spQ6 \div Q6_SCALE), hp \in 0 .. c.hp} :
            /\ s.sp + s.hp <= total(s.damage)
            /\ s.crit => total(s.damage) + s.blocked > 0}

destroyedBy(c, shot) == shot.hp = c.hp

Init ==
  /\ phase = "armed"
  /\ event = Null
  /\ \E kind \in {"fleet-vs-fleet", "fleet-vs-starbase"} :
     \E start \in [Side -> [hp : Hp, spQ6 : SpQ6]] :
        combat = [kind |-> kind, start |-> start, primary |-> NoShot, return |-> NoShot]

Attack ==
  /\ phase = "armed"
  /\ \E s \in ShotsAt(combat.start["right"]) : combat' = [combat EXCEPT !.primary = s]
  /\ phase' = "attacked"
  /\ UNCHANGED event

(* The battery of a starbase is never seen to miss or to be dodged.        *)
ReturnFire ==
  /\ phase = "attacked"
  /\ \E s \in ShotsAt(combat.start["left"]) :
       /\ combat.kind = "fleet-vs-starbase" => s.result \in {"none", "hit"} /\ ~s.crit
       /\ combat' = [combat EXCEPT !.return = s]
  /\ phase' = "returned"
  /\ UNCHANGED event

(* CombatantSnapshot, of a combatant that was shot at.                     *)
snapshot(version, c, shot) ==
  [projectedHpQ6 |-> c.hp * Q6_SCALE, projectedSpQ6 |-> c.spQ6,
   postHp |-> c.hp - shot.hp,
   postSp |-> c.spQ6 \div Q6_SCALE - shot.sp,
   hpDamageTaken |-> shot.hp,
   spDamageTaken |-> IF version = 1 THEN Null ELSE shot.sp,
   destroyed |-> destroyedBy(c, shot)]

(* CombatShotSummary. *)
summary(version, shot) ==
  [attempted |-> IF version = 1 THEN Null ELSE shot.result # "none",
   hit |-> shot.result = "hit", dodged |-> shot.result = "dodge", crit |-> shot.crit,
   rawDamage |-> total(shot.damage) + shot.blocked, blockedDamage |-> shot.blocked,
   effectiveDamage |-> total(shot.damage),
   effectiveDamageByType |-> IF version = 1 THEN Null ELSE [t \in Types |-> shot.damage[t]],
   otherEffectiveDamage |-> IF version = 1 THEN Null ELSE shot.damage[other]]

(* The event.  A starbase that is destroyed is downgraded, or only         *)
(* disrupted on the lowest level.                                          *)
disrupted == combat.kind = "fleet-vs-starbase" /\ destroyedBy(combat.start["right"], combat.primary)

telemetry(version, downgraded) ==
  [kind |-> combat.kind, version |-> version,
   target |-> [left |-> snapshot(version, combat.start["left"], combat.return),
               right |-> snapshot(version, combat.start["right"], combat.primary)],
   attackerShot |-> summary(version, combat.primary),
   defenderShot |-> IF combat.kind = "fleet-vs-fleet"
                      THEN summary(version, combat.return) ELSE Null,
   retaliationDamage |-> total(combat.return.damage) + combat.return.blocked,
   starbaseDestroyedOrDowngraded |-> disrupted,
   downgraded |-> downgraded]

(* The instruction succeeds and logs the combat.                           *)
Log(version) ==
  /\ phase = "returned"
  /\ phase' = "logged"
  /\ \E downgraded \in BOOLEAN :
       /\ downgraded => disrupted
       /\ event' = telemetry(version, downgraded)
  /\ UNCHANGED combat

(* The instruction failed, or SAGE did not log yet.                        *)
LogNothing == phase = "returned" /\ phase' = "logged" /\ UNCHANGED <<combat, event>>

Next == Attack \/ ReturnFire \/ (\E v \in 1 .. 3 : Log(v)) \/ LogNothing

Spec == Init /\ [][Next]_vars

-------------------------------------------------------------------------------
(* The state of the loop after n types, for every n.                       *)
Consider(best, type, damage) ==
  IF damage > best.damage THEN [type |-> type, damage |-> damage, tied |-> FALSE]
  ELSE IF damage > 0 /\ damage = best.damage THEN [best EXCEPT !.tied = TRUE]
  ELSE best

considered(byType) ==
  LET best[n \in 0 .. Len(COMBAT_DAMAGE_TYPES)] ==
        IF n = 0 THEN [type |-> Null, damage |-> 0, tied |-> FALSE]
        ELSE Consider(best[n-1], COMBAT_DAMAGE_TYPES[n], byType[COMBAT_DAMAGE_TYPES[n]])
  IN  best

bestOf(byType) == considered(byType)[Len(COMBAT_DAMAGE_TYPES)]

isUntyped(shot) ==
  shot = Null \/ shot.effectiveDamageByType = Null \/ shot.otherEffectiveDamage = Null

(* Mutant: of two components that do the same, the first is dominant.      *)
getDominantFirst(shot) ==
  IF isUntyped(shot) THEN Null
  ELSE LET best == bestOf(shot.effectiveDamageByType)
       IN  IF shot.otherEffectiveDamage >= best.damage THEN Null ELSE best.type

(* getDominantCombatDamageType.                                            *)
getDominantCombatDamageType(shot) ==
  IF isUntyped(shot) THEN Null
  ELSE LET best == bestOf(shot.effectiveDamageByType)
       IN  IF best.damage = 0 \/ best.tied \/ shot.otherEffectiveDamage >= best.damage
           THEN Null ELSE best.type

getAppliedCombatHpDamage(target) == target.hpDamageTaken

getAppliedCombatSpDamage(target) ==
  IF target.spDamageTaken # Null THEN target.spDamageTaken
  ELSE LET projectedSp == target.projectedSpQ6 \div Q6_SCALE
       IN  IF projectedSp > target.postSp THEN projectedSp - target.postSp ELSE 0

-------------------------------------------------------------------------------
Text(text, amount, crit, type) ==
  [text |-> text, amount |-> amount, crit |-> crit, type |-> type]

Remark(text) == Text(text, 0, FALSE, Null)

(* getFloatingCombatText: shot is Null for the battery of a starbase.      *)
getFloatingCombatText(attempted, shot, target, rawDamageHint) ==
  LET crit == shot # Null /\ shot.crit
      raw == IF shot = Null THEN rawDamageHint ELSE shot.rawDamage
      blocked == shot # Null /\ shot.blockedDamage > 0
      type == getDominantCombatDamageType(shot)
      sp == getAppliedCombatSpDamage(target)
      hp == getAppliedCombatHpDamage(target)
      spText == IF sp > 0 THEN <<Text("SP", sp, crit, type)>> ELSE <<>>
      hpText == IF hp > 0 THEN <<Text("HP", hp, crit /\ sp = 0, type)>> ELSE <<>>
      last == IF target.destroyed THEN <<Remark("DESTROYED")>> ELSE <<>>
  IN  IF ~attempted THEN <<Remark("NO SHOT")>>
      ELSE IF shot # Null /\ shot.dodged THEN <<Remark("DODGE")>>
      ELSE IF shot # Null /\ ~shot.hit THEN <<Remark("MISS")>>
      ELSE IF sp = 0 /\ hp = 0
      THEN IF raw > 0 \/ blocked THEN <<Text("BLOCKED", 0, crit, Null)>>
                                 ELSE <<Remark("NO DAMAGE")>>
      ELSE spText \o hpText \o last

(* wasShotAttempted: version 1 does not say so, but what the shot did may. *)
wasShotAttempted(shot) ==
  IF shot.attempted # Null THEN shot.attempted
  ELSE shot.rawDamage > 0 \/ shot.blockedDamage > 0 \/ shot.effectiveDamage > 0 \/ shot.dodged

ShotView(attempted, texts) == [attempted |-> attempted, texts |-> texts]

(* The first shot.  What becomes of a starbase is told besides.            *)
primaryShot ==
  LET attempted == event.attackerShot.attempted # FALSE
      texts == getFloatingCombatText(attempted, event.attackerShot, event.target["right"], 0)
  IN  ShotView(attempted,
        IF event.kind = "fleet-vs-starbase" /\ event.starbaseDestroyedOrDowngraded
        THEN Append(texts, Remark(IF event.downgraded THEN "DOWNGRADED" ELSE "DISRUPTED"))
        ELSE texts)

returnAttempted ==
  IF event.kind = "fleet-vs-fleet" THEN wasShotAttempted(event.defenderShot)
                                   ELSE event.retaliationDamage > 0

(* The shot that was fired back, Null for NO RETURN FIRE.                  *)
returnShot ==
  IF ~returnAttempted THEN Null
  ELSE ShotView(TRUE,
         getFloatingCombatText(TRUE, event.defenderShot, event.target["left"],
                               event.retaliationDamage))

(* When the bars of a side move: with the shot that hits it.               *)
damageImpactPhase(side) ==
  IF side = "left" THEN (IF returnShot # Null THEN "return" ELSE "none")
  ELSE (IF primaryShot.attempted THEN "primary" ELSE "none")

projectedWhole(q6) == q6 \div Q6_SCALE

(* The vital bars of a side: where they start and where they end.          *)
vitals(side) ==
  LET s == event.target[side]
  IN  [hp |-> <<projectedWhole(s.projectedHpQ6), s.postHp>>,
       sp |-> <<projectedWhole(s.projectedSpQ6), s.postSp>>]

-------------------------------------------------------------------------------
Told == phase = "logged" /\ event # Null

(* What really became of a shot at a combatant.                            *)
Happened(shot, c) ==
  IF shot.result = "hit"
  THEN [texts |-> {t \in {"SP", "HP", "DESTROYED", "BLOCKED", "NO DAMAGE"} :
                     \/ t = "SP" /\ shot.sp > 0
                     \/ t = "HP" /\ shot.hp > 0
                     \/ t = "DESTROYED" /\ destroyedBy(c, shot)
                     \/ t = "BLOCKED" /\ shot.sp + shot.hp = 0
                                      /\ total(shot.damage) + shot.blocked > 0
                     \/ t = "NO DAMAGE" /\ total(shot.damage) + shot.blocked = 0},
        sp |-> shot.sp, hp |-> shot.hp, crit |-> shot.crit]
  ELSE [texts |-> {IF shot.result = "dodge" THEN "DODGE"
                   ELSE IF shot.result = "miss" THEN "MISS" ELSE "NO SHOT"},
        sp |-> 0, hp |-> 0, crit |-> FALSE]

amountOf(texts, t) == LET S == {x \in ToSet(texts) : x.text = t}
                      IN  IF S = {} THEN 0 ELSE (CHOOSE x \in S : TRUE).amount

Summary(texts) ==
  [texts |-> {x.text : x \in ToSet(texts)} \ {"DOWNGRADED", "DISRUPTED"},
   sp |-> amountOf(texts, "SP"), hp |-> amountOf(texts, "HP"),
   crit |-> \E x \in ToSet(texts) : x.crit]

(* The replay tells each shot as it was: fired or not, what became of it,  *)
(* what it cost the target in shield and hull, and the end of the target.  *)
(* Version 1 cannot tell a shot that missed from none (its type comment,   *)
(* combat-telemetry.ts:66), and the battery of a starbase that did nothing *)
(* is no return fire.                                                      *)
ShotsAreTold ==
  /\ (event.version > 1 \/ combat.primary.result # "none") =>
       Summary(primaryShot.texts) = Happened(combat.primary, combat.start["right"])
  /\ returnShot # Null =>
       Summary(returnShot.texts) = Happened(combat.return, combat.start["left"])
  /\ returnShot = Null =>
       \/ combat.return.result = "none"
       \/ event.version = 1 /\ Happened(combat.return, combat.start["left"]).texts
                                 \subseteq {"MISS", "NO DAMAGE"}
       \/ combat.kind = "fleet-vs-starbase"
            /\ Happened(combat.return, combat.start["left"]).texts = {"NO DAMAGE"}

(* A damage is given the type that did more than any other component, and  *)
(* no type when there is none such (combat-telemetry.ts:414).              *)
TypeIsDominant ==
  \A v \in {primaryShot} \cup (IF returnShot = Null THEN {} ELSE {returnShot}) :
    LET shot == IF v = primaryShot THEN combat.primary ELSE combat.return
        dominates(t) == \A u \in (Types \cup {other}) \ {t} : shot.damage[u] < shot.damage[t]
    IN  \A x \in ToSet(v.texts) :
          (x.text \in {"SP", "HP"} /\ event.version > 1
             /\ (v = primaryShot \/ event.kind = "fleet-vs-fleet")) =>
            IF x.type = Null THEN \A t \in Types : ~dominates(t) ELSE dominates(x.type)

(* A bar that moves is moved by a shot the replay shows at that side, and  *)
(* by as much as the numbers that float there.                             *)
BarsMoveWithShots ==
  \A side \in Side :
    LET v == IF side = "left" THEN returnShot ELSE primaryShot
        moved == vitals(side)
    IN  /\ (moved.sp[1] # moved.sp[2] \/ moved.hp[1] # moved.hp[2]) =>
             damageImpactPhase(side) = IF side = "left" THEN "return" ELSE "primary"
        /\ v # Null =>
             /\ moved.sp[1] = moved.sp[2] + amountOf(v.texts, "SP")
             /\ moved.hp[1] = moved.hp[2] + amountOf(v.texts, "HP")

(* The replay agrees with the combat whatever became of the two shots and  *)
(* whichever version told it: the words and numbers of a shot, the type of *)
(* its damage, and the bars it moves.                                      *)
ReplayTellsTheShots == Told => ShotsAreTold /\ TypeIsDominant /\ BarsMoveWithShots
===============================================================================
