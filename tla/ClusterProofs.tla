---------------------------- MODULE ClusterProofs -----------------------------
(***************************************************************************)
(* Proofs about module Cluster, for any clusters and custom urls, any      *)
(* number of attempts in flight and any number of navigations.             *)
(***************************************************************************)
EXTENDS Cluster, TLAPS

-------------------------------------------------------------------------------
(* What was rendered is what the params ask for, given the custom url the  *)
(* state keeps.                                                            *)
RenderIsCurrent ==
  TargetOf(rendered) = TargetOf(Render(params, rendered.enabled, state))

(* The state is for the target the effects last ran with: an answer never  *)
(* changes it.                                                             *)
StateFollowsEffects == ran # None => TargetOf(state) = TargetOf(ran)

(* The inductive invariant. *)
IInv == TypeOK /\ RenderIsCurrent /\ StateFollowsEffects /\ ConnectingIsInFlight

-------------------------------------------------------------------------------
LEMMA Targets ==
  ASSUME NEW r \in Rendered
  PROVE  TargetOf(r) \in Target
BY DEF Rendered, TargetOf, Target

LEMMA StateTarget ==
  ASSUME TypeOK
  PROVE  TargetOf(state) \in Target /\ state \in State
BY DEF TypeOK, State, TargetOf, Target

LEMMA RenderType ==
  ASSUME NEW p \in [cluster : AnyCluster \cup {None}, customUrl : CustomUrl \cup {None}],
         NEW e \in BOOLEAN, NEW s \in State
  PROVE  Render(p, e, s) \in Rendered /\ Render(p, e, s).enabled = e
BY ClusterAssumption DEF Render, Rendered, State, parseClusterParam, AnyCluster

(* A render depends on the state only through its custom url. *)
LEMMA RenderOfTarget ==
  ASSUME NEW p, NEW e, NEW s, NEW t, TargetOf(s) = TargetOf(t)
  PROVE  Render(p, e, s) = Render(p, e, t)
<1>1. s.customUrl = t.customUrl
  BY DEF TargetOf
<1>. QED
  BY <1>1 DEF Render

LEMMA ConnectingType ==
  ASSUME NEW t \in Target
  PROVE  /\ Connecting(t) \in State
         /\ TargetOf(Connecting(t)) = t
         /\ Connecting(t).status = "Connecting"
BY DEF Connecting, State, TargetOf, Target

(* The outcomes of an attempt to a target. *)
LEMMA OutcomeType ==
  ASSUME NEW t \in Target, NEW o \in {Connected(t), Failure(t)}
  PROVE  /\ o \in State
         /\ TargetOf(o) = t
         /\ o.status \in {"Connected", "Failure"}
BY DEF Connected, Failure, State, TargetOf, Target

(* An outcome leaves the state alone or settles it; the target stays.      *)
LEMMA ReducerEffect ==
  ASSUME NEW s \in State, NEW t \in Target, NEW o \in {Connected(t), Failure(t)}
  PROVE  /\ clusterReducer(s, o) \in State
         /\ TargetOf(clusterReducer(s, o)) = TargetOf(s)
         /\ \/ clusterReducer(s, o) = s /\ TargetOf(s) # t
            \/ clusterReducer(s, o) = o /\ TargetOf(s) = t
<1>1. o \in State /\ TargetOf(o) = t /\ o.status \in {"Connected", "Failure"}
  BY OutcomeType
<1>2. CASE TargetOf(s) # t
  BY <1>1, <1>2 DEF clusterReducer
<1>3. CASE TargetOf(s) = t
  BY <1>1, <1>3 DEF clusterReducer
<1>. QED
  BY <1>2, <1>3

-------------------------------------------------------------------------------
LEMMA InitInvariant ==
  Init => IInv
<1> SUFFICES ASSUME Init PROVE IInv
  OBVIOUS
<1> DEFINE t == [cluster |-> DefaultCluster, customUrl |-> DefaultCustomUrl]
<1>1. t \in Target
  BY ClusterAssumption DEF Target, AnyCluster
<1>2. state \in State /\ ran = None
  BY <1>1, ConnectingType DEF Init
<1>3. rendered \in Rendered /\ rendered = Render(params, enabled, state)
      /\ rendered.enabled = enabled
  BY <1>2, RenderType DEF Init
<1>4. TypeOK
  BY <1>2, <1>3, ClusterAssumption DEF Init, TypeOK
<1>. QED
  BY <1>2, <1>3, <1>4 DEF IInv, RenderIsCurrent, StateFollowsEffects, ConnectingIsInFlight

LEMMA NavigateStep ==
  ASSUME IInv, NEW c \in AnyCluster \cup {None}, NEW u \in CustomUrl \cup {None},
         Navigate(c, u)
  PROVE  IInv'
<1> USE DEF IInv, Navigate
<1>1. params' \in [cluster : AnyCluster \cup {None}, customUrl : CustomUrl \cup {None}]
  OBVIOUS
<1>2. rendered' \in Rendered /\ rendered'.enabled = enabled
  BY <1>1, RenderType DEF TypeOK
<1>3. TypeOK'
  BY <1>1, <1>2, ClusterAssumption DEF TypeOK
<1>4. RenderIsCurrent'
  BY <1>2 DEF RenderIsCurrent
<1>5. (StateFollowsEffects /\ ConnectingIsInFlight)'
  BY DEF StateFollowsEffects, ConnectingIsInFlight
<1>. QED
  BY <1>3, <1>4, <1>5

LEMMA ToggleStep ==
  ASSUME IInv, ToggleCustomUrl
  PROVE  IInv'
BY ClusterAssumption
DEF IInv, TypeOK, RenderIsCurrent, StateFollowsEffects, ConnectingIsInFlight, ToggleCustomUrl

(* What the effects do to the state: it is for what was rendered, and if   *)
(* they changed it, an attempt to that target has begun.                   *)
LEMMA EffectsState ==
  ASSUME IInv, Effects
  PROVE  /\ state' \in State
         /\ TargetOf(state') = TargetOf(rendered)
         /\ \/ UNCHANGED <<state, attempts>> /\ ran # None
            \/ /\ state' = Connecting(TargetOf(rendered))
               /\ \E a \in Attempt : attempts' = [attempts EXCEPT ![a] = TargetOf(rendered)]
<1> DEFINE t == TargetOf(rendered)
<1>1. t \in Target
  BY Targets DEF IInv, TypeOK
<1>2. CASE TargetChanged
  <2>1. state' = clusterReducer(state, Connecting(t))
    BY <1>2 DEF Effects
  <2>2. state' = Connecting(t)
    BY <1>1, <2>1, ConnectingType DEF clusterReducer
  <2>3. \E a \in Attempt : attempts' = [attempts EXCEPT ![a] = t]
    BY <1>2 DEF Effects
  <2>. QED
    BY <1>1, <2>2, <2>3, ConnectingType
<1>3. CASE ~TargetChanged
  BY <1>3 DEF Effects, TargetChanged, IInv, TypeOK, StateFollowsEffects
<1>. QED
  BY <1>2, <1>3

LEMMA EffectsStep ==
  ASSUME IInv, Effects
  PROVE  IInv'
<1>1. /\ state' \in State
      /\ TargetOf(state') = TargetOf(rendered)
      /\ \/ UNCHANGED <<state, attempts>> /\ ran # None
         \/ /\ state' = Connecting(TargetOf(rendered))
            /\ \E a \in Attempt : attempts' = [attempts EXCEPT ![a] = TargetOf(rendered)]
  BY EffectsState
<1>2. TypeOK /\ TargetOf(rendered) \in Target
  BY Targets DEF IInv, TypeOK
<1>3. params' \in [cluster : AnyCluster \cup {None}, customUrl : CustomUrl \cup {None}]
  BY <1>2 DEF Effects, TypeOK
<1>4. /\ rendered' = Render(params', enabled, state')
      /\ rendered' \in Rendered
      /\ rendered'.enabled = enabled
  BY <1>1, <1>2, <1>3, RenderType DEF Effects, TypeOK
<1>5. attempts' \in [Attempt -> Target \cup {None}]
  BY <1>1, <1>2 DEF TypeOK
<1>6. TypeOK'
  BY <1>1, <1>2, <1>3, <1>4, <1>5 DEF Effects, TypeOK
<1>7. RenderIsCurrent'
  BY <1>4 DEF RenderIsCurrent
<1>8. StateFollowsEffects'
  BY <1>1 DEF Effects, StateFollowsEffects
<1>9. ConnectingIsInFlight'
  <2>1. CASE UNCHANGED <<state, attempts>> /\ ran # None
    BY <2>1 DEF IInv, ConnectingIsInFlight
  <2>2. CASE \E a \in Attempt : attempts' = [attempts EXCEPT ![a] = TargetOf(rendered)]
    BY <1>1, <1>2, <2>2 DEF TypeOK, ConnectingIsInFlight
  <2>. QED
    BY <1>1, <2>1, <2>2
<1>. QED
  BY <1>6, <1>7, <1>8, <1>9 DEF IInv

LEMMA AnswerStep ==
  ASSUME IInv, NEW a \in Attempt, attempts[a] # None,
         NEW o \in {Connected(attempts[a]), Failure(attempts[a])}, Answer(a, o)
  PROVE  IInv'
<1>1. TypeOK /\ attempts[a] \in Target /\ state \in State
  BY DEF IInv, TypeOK
<1>2. /\ state' \in State
      /\ TargetOf(state') = TargetOf(state)
      /\ \/ state' = state /\ TargetOf(state) # attempts[a]
         \/ state' = o /\ TargetOf(state) = attempts[a]
  BY <1>1, ReducerEffect DEF Answer
<1>3. /\ rendered' \in Rendered
      /\ TargetOf(rendered') = TargetOf(Render(params, rendered'.enabled, state))
  <2>1. CASE rendered' = rendered
    BY <1>1, <2>1 DEF IInv, TypeOK, RenderIsCurrent
  <2>2. CASE rendered' = Render(params, enabled, state')
    BY <1>1, <1>2, <2>2, RenderType, RenderOfTarget DEF TypeOK
  <2>. QED
    BY <2>1, <2>2 DEF Answer
<1>4. TypeOK'
  BY <1>1, <1>2, <1>3 DEF Answer, TypeOK
<1>5. RenderIsCurrent'
  BY <1>2, <1>3, RenderOfTarget DEF Answer, RenderIsCurrent
<1>6. StateFollowsEffects'
  BY <1>2 DEF Answer, IInv, StateFollowsEffects
<1>7. ConnectingIsInFlight'
  <2>1. CASE state' = o
    BY <1>1, <2>1, OutcomeType DEF ConnectingIsInFlight
  <2>2. CASE state' = state /\ TargetOf(state) # attempts[a]
    BY <1>1, <2>2 DEF Answer, IInv, TypeOK, ConnectingIsInFlight
  <2>. QED
    BY <1>2, <2>1, <2>2
<1>. QED
  BY <1>4, <1>5, <1>6, <1>7 DEF IInv

LEMMA StutterStep ==
  ASSUME IInv, UNCHANGED vars
  PROVE  IInv'
BY DEF IInv, TypeOK, RenderIsCurrent, StateFollowsEffects, ConnectingIsInFlight, vars

LEMMA NextInvariant ==
  IInv /\ [Next]_vars => IInv'
<1> SUFFICES ASSUME IInv, [Next]_vars PROVE IInv'
  OBVIOUS
<1>1. ASSUME NEW c \in AnyCluster \cup {None}, NEW u \in CustomUrl \cup {None}, Navigate(c, u)
      PROVE  IInv'
  BY <1>1, NavigateStep
<1>2. CASE ToggleCustomUrl
  BY <1>2, ToggleStep
<1>3. CASE Effects
  BY <1>3, EffectsStep
<1>4. ASSUME NEW a \in Attempt, Succeed(a)
      PROVE  IInv'
  BY <1>4, AnswerStep DEF Succeed
<1>5. ASSUME NEW a \in Attempt, Fail(a)
      PROVE  IInv'
  BY <1>5, AnswerStep DEF Fail
<1>6. CASE UNCHANGED vars
  BY <1>6, StutterStep
<1>. QED
  BY <1>1, <1>2, <1>3, <1>4, <1>5, <1>6 DEF Next

LEMMA Invariant ==
  Spec => []IInv
BY InitInvariant, NextInvariant, PTL DEF Spec

-------------------------------------------------------------------------------
(* Every variable of the cluster provider keeps its type.                  *)
THEOREM TypeCorrect ==
  Spec => []TypeOK
BY Invariant, PTL DEF IInv

(* Once the effects have run the connection is to the cluster the search   *)
(* params name, however many attempts overlap and whichever answers come   *)
(* late (clusterReducer).                                                  *)
THEOREM ConnectsToRequested ==
  Spec => []ShowsRequestedCluster
<1>1. ASSUME IInv
      PROVE  ShowsRequestedCluster
  <2> SUFFICES ASSUME EffectsDone
      PROVE  TargetOf(state) = TargetOf(Render(params, rendered.enabled, state))
    BY DEF ShowsRequestedCluster
  <2>1. ran = rendered /\ ran # None
    BY <1>1, NoneAssumption DEF EffectsDone, IInv, TypeOK
  <2>. QED
    BY <1>1, <2>1 DEF IInv, RenderIsCurrent, StateFollowsEffects
<1>. QED
  BY <1>1, Invariant, PTL

(* The spinner of the status button always has an attempt behind it        *)
(* (updateCluster).                                                        *)
THEOREM NoIdleSpinner ==
  Spec => []ConnectingIsInFlight
BY Invariant, PTL DEF IInv

-------------------------------------------------------------------------------
UrlOfState == clusterUrl(TargetOf(state))

LEMMA InitIsConnInit ==
  Init => Conn!ConnInit
<1> SUFFICES ASSUME Init PROVE Conn!ConnInit
  OBVIOUS
<1>1. TargetOf(state) \in Target /\ state.status = "Connecting"
  BY ClusterAssumption, ConnectingType DEF Init, Target, AnyCluster
<1>. QED
  BY <1>1 DEF Conn!ConnInit

LEMMA NextIsConnNext ==
  ASSUME IInv, [Next]_vars
  PROVE  [Conn!ConnNext]_<<UrlOfState, state.status>>
<1>1. ASSUME state' = state
      PROVE  UNCHANGED <<UrlOfState, state.status>>
  BY <1>1 DEF UrlOfState
<1>2. CASE Effects
  <2> DEFINE t == TargetOf(rendered)
  <2>1. t \in Target
    BY Targets DEF IInv, TypeOK
  <2>2. state' = state \/ state' = Connecting(t)
    BY <1>2, EffectsState
  <2>3. ASSUME state' = Connecting(t)
        PROVE  Conn!Reconnect(clusterUrl(t))
    BY <2>1, <2>3, ConnectingType DEF Conn!Reconnect
  <2>. QED
    BY <1>1, <2>1, <2>2, <2>3 DEF Conn!ConnNext
<1>3. ASSUME NEW a \in Attempt, attempts[a] # None,
             NEW o \in {Connected(attempts[a]), Failure(attempts[a])}, Answer(a, o)
      PROVE  Conn!ConnNext \/ state' = state
  <2>1. attempts[a] \in Target /\ state \in State
    BY <1>3 DEF IInv, TypeOK
  <2>2. /\ TargetOf(state') = TargetOf(state)
        /\ state' = state \/ state' = o
    BY <1>3, <2>1, ReducerEffect DEF Answer
  <2>3. CASE state' = o
    <3>1. state'.status \in {"Connected", "Failure"}
      BY <2>1, <2>3, OutcomeType
    <3>2. Conn!Settle(state'.status)
      BY <2>2, <3>1 DEF Conn!Settle
    <3>. QED
      BY <3>1, <3>2 DEF Conn!ConnNext, Conn!ClusterStatus
  <2>. QED
    BY <2>2, <2>3
<1>4. CASE \E a \in Attempt : Succeed(a) \/ Fail(a)
  BY <1>1, <1>3, <1>4 DEF Succeed, Fail
<1>5. CASE \/ \E c \in AnyCluster \cup {None}, u \in CustomUrl \cup {None} : Navigate(c, u)
           \/ ToggleCustomUrl
           \/ UNCHANGED vars
  BY <1>1, <1>5 DEF Navigate, ToggleCustomUrl, vars
<1>. QED
  BY <1>2, <1>4, <1>5 DEF Next

(* The cluster provider implements Connection, which the modules of the    *)
(* data providers take as their environment.                               *)
THEOREM ProvidesConnection ==
  Spec => ImplementsConnection
<1>1. ASSUME IInv, [Next]_vars
      PROVE  [Conn!ConnNext]_<<clusterUrl(TargetOf(state)), state.status>>
  BY <1>1, NextIsConnNext DEF UrlOfState
<1>. QED
  BY <1>1, InitIsConnInit, Invariant, PTL DEF Spec, ImplementsConnection, Conn!ConnSpec, Conn!connVars
===============================================================================
