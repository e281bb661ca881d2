---------------------------- MODULE StakeActivation ----------------------------
(***************************************************************************)
(* How much of a stake account is active (providers/accounts/utils/        *)
(* stake.ts): what the runtime of the cluster does with a stake over the   *)
(* epochs is computed again from the account, the epoch and the history of *)
(* the stake of the whole cluster, in floating point numbers and rounded   *)
(* to the nearest lamport, where the runtime truncates.                    *)
(*                                                                         *)
(* The runtime is external: it changes the stake of the account epoch by   *)
(* epoch, and adds an entry to the history at the end of each.             *)
(***************************************************************************)
EXTENDS Integers, FiniteSetsExt, TLC

CONSTANTS
  Stakes,          \* what may be delegated
  Others,          \* the rest of the cluster in an epoch
  RateNum, RateDen, \* WARMUP_COOLDOWN_RATE
  Reserve,         \* rentExemptReserve
  NoData,
  MaxEpoch         \* bound on the epochs

VARIABLES
  epoch,           \* the current epoch
  account,         \* the delegation of the account, NoData before the first
  effective,       \* what the runtime counts of it, in this epoch
  history          \* StakeHistory, the entry of each epoch that it holds

stakeVars == <<epoch, account, effective, history>>

Never == MaxEpoch + 1   \* a deactivationEpoch of 2^64 - 1

-------------------------------------------------------------------------------
(* The runtime *)

activating == IF account.deactivationEpoch <= epoch THEN 0 ELSE account.stake - effective
deactivating == IF account.deactivationEpoch <= epoch THEN effective ELSE 0

InTransition == account # NoData /\ (activating > 0 \/ deactivating > 0)

(* No stake, or one that was delegated before the history begins: the      *)
(* cluster keeps 512 entries, longer than any stake takes to become        *)
(* effective or to cease to be.                                            *)
Init ==
  /\ epoch = 0
  /\ \/ account = NoData /\ effective = 0
     \/ \E stake \in Stakes :
          /\ account = [stake |-> stake, activationEpoch |-> -2, deactivationEpoch |-> Never,
                        lamports |-> stake + Reserve]
          /\ effective = stake
     \/ \E stake \in Stakes :
          /\ account = [stake |-> stake, activationEpoch |-> -2, deactivationEpoch |-> -1,
                        lamports |-> stake + Reserve]
          /\ effective = 0
  /\ history = [e \in {} |-> NoData]

Delegate(stake) ==
  /\ IF account = NoData THEN TRUE ELSE account.deactivationEpoch <= epoch /\ effective = 0
  /\ account' = [stake |-> stake, activationEpoch |-> epoch, deactivationEpoch |-> Never,
                 lamports |-> stake + Reserve]
  /\ UNCHANGED <<epoch, effective, history>>

Deactivate ==
  /\ account # NoData /\ account.deactivationEpoch = Never
  /\ account' = [account EXCEPT !.deactivationEpoch = epoch]
  /\ UNCHANGED <<epoch, effective, history>>

(* What becomes effective, or ceases to be, of a share of the cluster's.   *)
Truncated(share, total, clusterEffective) ==
  Max({1, (share * clusterEffective * RateNum) \div (total * RateDen)})

Instantly == account.activationEpoch = account.deactivationEpoch

nextEffective(entry) ==
  IF account = NoData \/ Instantly THEN 0
  ELSE IF activating > 0
  THEN Min({account.stake, effective + Truncated(activating, entry.activating, entry.effective)})
  ELSE IF deactivating > 0
  THEN Max({0, effective - Truncated(deactivating, entry.deactivating, entry.effective)})
  ELSE effective

(* An epoch ends.  Its entry of the history counts the account in.         *)
EndEpoch(other) ==
  LET own(n) == IF account = NoData THEN 0 ELSE IF Instantly THEN 0 ELSE n
      entry == [effective |-> other.effective + effective,
                activating |-> other.activating + own(activating),
                deactivating |-> other.deactivating + own(deactivating)]
  IN  /\ epoch < MaxEpoch
      /\ epoch' = epoch + 1
      /\ history' = (epoch :> entry) @@ history
      /\ effective' = nextEffective(entry)
      /\ UNCHANGED account

Next ==
  \/ \E stake \in Stakes : Delegate(stake)
  \/ Deactivate
  \/ \E other \in Others : EndEpoch(other)

Spec == Init /\ [][Next]_stakeVars

-------------------------------------------------------------------------------
(* The explorer *)

Round(n, d) == (2 * n + d) \div (2 * d)

newly(share, total, clusterEffective) ==
  Max({1, Round(share * clusterEffective * RateNum, total * RateDen)})

(* The loop of getStakeAndActivating: the effective stake in each epoch    *)
(* since the activation.  NoData when an amount is divided by zero.        *)
warmup(d, target) ==
  LET eff[e \in d.activationEpoch .. target] ==
        IF e = d.activationEpoch THEN 0
        ELSE LET before == eff[e - 1]
             IN  IF before = NoData THEN NoData
                 ELSE IF before = d.stake \/ e - 1 \notin DOMAIN history
                         \/ (e > d.activationEpoch + 1 /\ e - 1 >= d.deactivationEpoch)
                 THEN before
                 ELSE IF history[e - 1].activating = 0 THEN NoData
                 ELSE Min({d.stake,
                           before + newly(d.stake - before, history[e - 1].activating,
                                          history[e - 1].effective)})
  IN  eff[target]

(* getStakeAndActivating, the effective stake.                             *)
getEffective(d, target) ==
  IF d.activationEpoch = d.deactivationEpoch \/ target <= d.activationEpoch THEN 0
  ELSE IF d.activationEpoch \in DOMAIN history THEN warmup(d, target)
  ELSE d.stake

getActivating(d, target) ==
  IF d.activationEpoch = d.deactivationEpoch \/ target < d.activationEpoch THEN 0
  ELSE d.stake - getEffective(d, target)

(* Mutant: the loop stops an epoch early.                                  *)
cooldownEarly(d, target, start) ==
  LET eff[e \in d.deactivationEpoch .. target] ==
        IF e = d.deactivationEpoch THEN start
        ELSE LET before == eff[e - 1]
             IN  IF before = 0 \/ e - 1 \notin DOMAIN history \/ history[e - 1].deactivating = 0
                 THEN before
                 ELSE Max({0, before - newly(before, history[e - 1].deactivating,
                                             history[e - 1].effective)})
  IN  eff[target - 1]

(* The loop of getStakeActivatingAndDeactivating. *)
cooldown(d, target, start) ==
  LET eff[e \in d.deactivationEpoch .. target] ==
        IF e = d.deactivationEpoch THEN start
        ELSE LET before == eff[e - 1]
             IN  IF before = 0 \/ e - 1 \notin DOMAIN history \/ history[e - 1].deactivating = 0
                 THEN before
                 ELSE Max({0, before - newly(before, history[e - 1].deactivating,
                                             history[e - 1].effective)})
  IN  eff[target]

StakeState(active, act, deact) ==
  [effective |-> active, activating |-> act, deactivating |-> deact]

getStakeActivatingAndDeactivating(d, target) ==
  LET active == getEffective(d, target)
      left == cooldown(d, target, active)
  IN  IF active = NoData THEN NoData
      ELSE IF target < d.deactivationEpoch
      THEN StakeState(active, getActivating(d, target), 0)
      ELSE IF target = d.deactivationEpoch THEN StakeState(active, 0, active)
      ELSE IF d.deactivationEpoch \in DOMAIN history THEN StakeState(left, 0, left)
      ELSE StakeState(0, 0, 0)

(* getStakeActivation, NoData when it throws. *)
getStakeActivation ==
  LET s == getStakeActivatingAndDeactivating(account, epoch)
  IN  IF s = NoData THEN NoData
      ELSE [active |-> s.effective,
            inactive |-> account.lamports - s.effective - Reserve,
            state |-> IF s.deactivating > 0 THEN "deactivating"
                      ELSE IF s.activating > 0 THEN "activating"
                      ELSE IF s.effective > 0 THEN "active" ELSE "inactive"]

-------------------------------------------------------------------------------
state ==
  IF Instantly THEN "inactive"
  ELSE IF deactivating > 0 THEN "deactivating"
  ELSE IF activating > 0 THEN "activating"
  ELSE IF effective > 0 THEN "active" ELSE "inactive"

AbsDiff(a, b) == IF a < b THEN b - a ELSE a - b

(* The stake that is told is what the runtime counts, up to a lamport for  *)
(* each epoch since it was delegated, and so is its state where it is      *)
(* exact; what is told never adds up to more than the account holds, and   *)
(* telling it never throws.                                                *)
StakeIsTold ==
  account # NoData =>
    LET told == getStakeActivation
        span == epoch - account.activationEpoch
    IN  /\ told # NoData
        /\ AbsDiff(told.active, effective) <= span
        /\ told.active = effective => told.state = state
        /\ told.active \in 0 .. account.stake /\ told.inactive >= 0
===============================================================================
