------------------------------- MODULE Cluster --------------------------------
(***************************************************************************)
(* The cluster connection (app/providers/cluster.tsx): the search params   *)
(* name a cluster and perhaps a custom url; an effect of ClusterProvider   *)
(* opens a connection attempt whenever the pair changes; each attempt      *)
(* answers later, in any order, and the reducer decides whether its answer *)
(* still counts.                                                           *)
(*                                                                         *)
(* The custom url box of the cluster modal is not modelled as an actor: no *)
(* flavor lists Cluster.Custom in CLUSTERS, so it is never rendered, and a *)
(* custom cluster is reached through the url only.                         *)
(***************************************************************************)
EXTENDS Naturals, FiniteSets

CONSTANTS
  NamedCluster,      \* the clusters with a url of their own
  Custom,            \* Cluster.Custom
  CustomUrl,         \* values of the customUrl param
  ValidUrl,          \* the ones `new URL` accepts
  DefaultCluster,    \* DEFAULT_CLUSTER
  DefaultCustomUrl,  \* DEFAULT_CUSTOM_URL
  None,              \* an absent param, an absent clusterInfo
  Attempt,           \* slots for attempts in flight (a bound)
  MaxNavigations     \* bound on the user's navigations and toggles

ASSUME ClusterAssumption ==
  /\ DefaultCluster \in NamedCluster
  /\ DefaultCustomUrl \in ValidUrl
  /\ ValidUrl \subseteq CustomUrl
  /\ Custom \notin NamedCluster
  /\ None \notin NamedCluster \cup {Custom} \cup CustomUrl
  /\ MaxNavigations \in Nat

VARIABLES
  params,       \* the search params: [cluster, customUrl], each None if absent
  enabled,      \* localStorage holds "enableCustomUrl"
  rendered,     \* what ClusterProvider computed in its last render
  ran,          \* the dependencies its effects last ran with, None before mount
  state,        \* the reducer's state: [cluster, customUrl, status, info]
  attempts,     \* updateCluster calls in flight, by slot; None when free
  navigations   \* user steps taken, for the bound

vars == <<params, enabled, rendered, ran, state, attempts, navigations>>

-------------------------------------------------------------------------------
AnyCluster == NamedCluster \cup {Custom}

Target == [cluster : AnyCluster, customUrl : CustomUrl]
TargetOf(r) == [cluster |-> r.cluster, customUrl |-> r.customUrl]

(* parseClusterParam: a missing or unknown slug means the default cluster. *)
parseClusterParam(c) == IF c = None THEN DefaultCluster ELSE c

(* clusterUrl: a named cluster has one url, Custom has the custom one.     *)
clusterUrl(t) ==
  IF t.cluster = Custom THEN <<Custom, t.customUrl>> ELSE <<t.cluster, None>>

(* The body of ClusterProvider up to its effects.  Without a usable param  *)
(* the custom url is the one of the state: it sticks.                      *)
Render(p, e, s) ==
  [cluster   |-> parseClusterParam(p.cluster),
   customUrl |-> IF e /\ p.customUrl # None THEN p.customUrl ELSE s.customUrl,
   enabled   |-> e]

(* Mutant: an answer counts whatever the cluster is by now.                *)
clusterReducerUnguarded(s, action) == action

(* clusterReducer. *)
clusterReducer(s, action) ==
  IF /\ action.status \in {"Connected", "Failure"}
     /\ TargetOf(s) # TargetOf(action)
  THEN s
  ELSE action

Connecting(t) == [cluster |-> t.cluster, customUrl |-> t.customUrl,
                  status |-> "Connecting", info |-> None]
Connected(t)  == [cluster |-> t.cluster, customUrl |-> t.customUrl,
                  status |-> "Connected", info |-> clusterUrl(t)]
Failure(t)    == [cluster |-> t.cluster, customUrl |-> t.customUrl,
                  status |-> "Failure", info |-> None]

-------------------------------------------------------------------------------
Init ==
  /\ params \in [cluster : AnyCluster \cup {None}, customUrl : CustomUrl \cup {None}]
  /\ enabled \in BOOLEAN
  /\ state = Connecting([cluster |-> DefaultCluster, customUrl |-> DefaultCustomUrl])
  /\ rendered = Render(params, enabled, state)
  /\ ran = None
  /\ attempts = [a \in Attempt |-> None]
  /\ navigations = 0

(* React runs the effects of a render before it renders again, so nothing  *)
(* that renders may overtake them.                                         *)
EffectsDone == ran = rendered

(* The user follows a link or edits the address. *)
Navigate(c, u) ==
  /\ EffectsDone
  /\ navigations < MaxNavigations
  /\ params' = [cluster |-> c, customUrl |-> u]
  /\ rendered' = Render(params', enabled, state)
  /\ navigations' = navigations + 1
  /\ UNCHANGED <<enabled, ran, state, attempts>>

(* The switch in ClusterModalDeveloperSettings writes localStorage, which  *)
(* renders nothing: the provider notices at its next render.               *)
ToggleCustomUrl ==
  /\ navigations < MaxNavigations
  /\ enabled' = ~enabled
  /\ navigations' = navigations + 1
  /\ UNCHANGED <<params, rendered, ran, state, attempts>>

StripsParam == (ran = None \/ ran.enabled # rendered.enabled) /\ ~rendered.enabled

TargetChanged == ran = None \/ TargetOf(ran) # TargetOf(rendered)

(* Both effects of ClusterProvider, in order: drop a customUrl param that  *)
(* is not enabled; reconnect when the cluster or the custom url changed,   *)
(* which is updateCluster up to its first await.                           *)
Effects ==
  /\ ~EffectsDone
  /\ params' = IF StripsParam THEN [params EXCEPT !.customUrl = None] ELSE params
  /\ IF TargetChanged
       THEN /\ \E a \in Attempt :
                 /\ attempts[a] = None
                 /\ attempts' = [attempts EXCEPT ![a] = TargetOf(rendered)]
            /\ state' = clusterReducer(state, Connecting(TargetOf(rendered)))
       ELSE UNCHANGED <<attempts, state>>
  /\ ran' = rendered
  /\ rendered' = Render(params', enabled, state')
  /\ UNCHANGED <<enabled, navigations>>

(* The rest of updateCluster.  The custom url is validated whichever the   *)
(* cluster, so only an attempt with a valid one can connect; any attempt   *)
(* can fail.  A reducer that returns its state renders nothing, and the    *)
(* render a dispatch asks for waits for effects still to run.              *)
Answer(a, outcome) ==
  /\ attempts[a] # None
  /\ attempts' = [attempts EXCEPT ![a] = None]
  /\ state' = clusterReducer(state, outcome)
  /\ rendered' = IF state' # state /\ EffectsDone
                   THEN Render(params, enabled, state') ELSE rendered
  /\ UNCHANGED <<params, enabled, ran, navigations>>

Succeed(a) ==
  /\ attempts[a] # None
  /\ attempts[a].customUrl \in ValidUrl
  /\ Answer(a, Connected(attempts[a]))

(* Mutant: the failure of a custom cluster is not reported, as it is not   *)
(* logged.                                                                 *)
FailUnlessCustom(a) ==
  /\ attempts[a] # None
  /\ IF attempts[a].cluster = Custom
       THEN /\ attempts' = [attempts EXCEPT ![a] = None]
            /\ UNCHANGED <<params, enabled, rendered, ran, state, navigations>>
       ELSE Answer(a, Failure(attempts[a]))

Fail(a) == attempts[a] # None /\ Answer(a, Failure(attempts[a]))

Next ==
  \/ \E c \in AnyCluster \cup {None}, u \in CustomUrl \cup {None} : Navigate(c, u)
  \/ ToggleCustomUrl
  \/ Effects
  \/ \E a \in Attempt : Succeed(a) \/ Fail(a)

Spec == Init /\ [][Next]_vars

(* React always flushes the effects of a commit, and an RPC call settles,  *)
(* if only by a network error.  Nobody has to navigate.                    *)
Fairness ==
  /\ WF_vars(Effects)
  /\ \A a \in Attempt : WF_vars(Succeed(a) \/ Fail(a))

FairSpec == Spec /\ Fairness

-------------------------------------------------------------------------------
State == [cluster : AnyCluster, customUrl : CustomUrl,
          status : {"Connecting", "Connected", "Failure"},
          info : {clusterUrl(t) : t \in Target} \cup {None}]

Rendered == [cluster : AnyCluster, customUrl : CustomUrl, enabled : BOOLEAN]

ASSUME NoneAssumption == None \notin Target \cup Rendered

TypeOK ==
  /\ params \in [cluster : AnyCluster \cup {None}, customUrl : CustomUrl \cup {None}]
  /\ enabled \in BOOLEAN
  /\ rendered \in Rendered
  /\ ran \in Rendered \cup {None}
  /\ state \in State
  /\ attempts \in [Attempt -> Target \cup {None}]
  /\ navigations \in 0 .. MaxNavigations

(* Once the effects of a render have run, the connection is to the cluster *)
(* the search params name, whatever answers arrived in between.            *)
ShowsRequestedCluster ==
  EffectsDone => TargetOf(state) = TargetOf(Render(params, rendered.enabled, state))

(* The spinner of the status button is never shown for nothing: after the  *)
(* first effect, Connecting means an attempt to that very target is still  *)
(* to be answered.                                                         *)
ConnectingIsInFlight ==
  state.status = "Connecting" /\ ran # None =>
    \E a \in Attempt : attempts[a] = TargetOf(state)

(* When the user stops navigating, the connection comes to rest: connected *)
(* to, or failed for, the requested cluster, with no spinner.              *)
EventuallySettles ==
  <>[](state.status # "Connecting" /\ state.cluster = parseClusterParam(params.cluster))

(* The connection as the data providers see it. *)
Conn == INSTANCE Connection WITH
  Url    <- {clusterUrl(t) : t \in Target},
  url    <- clusterUrl(TargetOf(state)),
  status <- state.status

(* useCluster() hands the providers a connection that begins Connecting,   *)
(* changes its url only by becoming Connecting again, and settles.         *)
ImplementsConnection == Conn!ConnSpec
===============================================================================
