--------------------------------- MODULE Stats ---------------------------------
(***************************************************************************)
(* The cluster stats of the home page: SolanaClusterStatsProvider with its *)
(* two reducers, the card of StatsCardBody and that of TpsCardBody, either *)
(* of which is replaced by StatsNotReady, with a time-out of its own,      *)
(* while it has nothing to show.                                           *)
(*                                                                         *)
(* A request reads its stale flag when it is answered, but not when it     *)
(* fails.  The first block time, asked for right after the first epoch     *)
(* info, is the first poll of its interval here.  Slots and transaction    *)
(* counts are positive.                                                    *)
(***************************************************************************)
EXTENDS Naturals

CONSTANTS
  Url,
  ClusterOf,       \* the cluster a url belongs to: Custom has several
  None,
  MaxSwitches,     \* bound on changes of the url
  MaxToggles,      \* bound on hiding and showing the tab
  MaxRetries       \* bound on the presses of Try Again

ASSUME ClusterOfAssumption == DOMAIN ClusterOf = Url
ASSUME NoneAssumption == None \notin Url

VARIABLES
  url,             \* the url of the connection
  visible,         \* isTabVisible
  active,
  dashboard,       \* dashboardInfo: whose slot time, slot and block time it has
  performance,     \* performanceInfo: whose tps (None: zero) and count it has
  ran,             \* what the effects of the last commit ran with
  lastSlot,        \* whether the effect that ran last has seen a slot
  live,            \* kinds of request in flight of the effect that ran last
  stale,           \* how many requests of earlier ones are in flight, by kind
  timer,           \* the cards whose time-out is set
  switches, toggles, retries

bounds == <<switches, toggles, retries>>
infos == <<dashboard, performance>>
vars == <<url, visible, active, infos, ran, lastSlot, live, stale, timer, bounds>>

-------------------------------------------------------------------------------
Card == {"stats", "tps"}

(* Each kind of request has an interval of its own; at most one of a kind  *)
(* and effect is in flight (a bound).  Of the effects that are over only   *)
(* those are kept that do something when they fail.                        *)
Kind == {"samples", "count", "epoch", "blockTime"}
FailingKind == Kind \ {"blockTime"}

initialDashboardInfo ==
  [status |-> "Loading", slotTime |-> None, slot |-> None, blockTime |-> None]

initialPerformanceInfo == [status |-> "Loading", tps |-> None, count |-> None]

ReadyIf(known) == IF known # None THEN "Ready" ELSE "Loading"

(* What StatsCardBody and TpsCardBody render: their table or chart, or     *)
(* StatsNotReady with or without its error.                                *)
CardShows(card) ==
  LET statuses == IF card = "tps" THEN {performance.status}
                  ELSE {performance.status, dashboard.status}
  IN  IF statuses = {"Ready"} THEN "data"
      ELSE IF "Error" \in statuses THEN "error" ELSE "waiting"

(* Everything an effect of the page depends on. *)
Rendered == [url |-> url, visible |-> visible, active |-> active,
             shows |-> [card \in Card |-> CardShows(card)]]

Unmounted == [url |-> None, visible |-> FALSE, active |-> FALSE,
              shows |-> [card \in Card |-> "data"]]

EffectsDone == ran = Rendered

-------------------------------------------------------------------------------
Init ==
  /\ url \in Url
  /\ visible \in BOOLEAN
  /\ active = FALSE
  /\ dashboard = initialDashboardInfo
  /\ performance = initialPerformanceInfo
  /\ ran = Unmounted
  /\ lastSlot = FALSE
  /\ live = {}
  /\ stale = [k \in FailingKind |-> 0]
  /\ timer = {}
  /\ switches = 0 /\ toggles = 0 /\ retries = 0

Switch(u) ==
  /\ EffectsDone
  /\ u # url /\ switches < MaxSwitches
  /\ url' = u
  /\ switches' = switches + 1
  /\ UNCHANGED <<visible, active, infos, ran, lastSlot, live, stale, timer, toggles, retries>>

ToggleTab ==
  /\ EffectsDone
  /\ toggles < MaxToggles
  /\ visible' = ~visible
  /\ toggles' = toggles + 1
  /\ UNCHANGED <<url, active, infos, ran, lastSlot, live, stale, timer, switches, retries>>

resetData ==
  /\ dashboard' = initialDashboardInfo
  /\ performance' = initialPerformanceInfo

ClusterChanged == ran.url = None \/ ClusterOf[ran.url] # ClusterOf[url]

(* Mutant: a time-out that was set is not cleared when the card is gone.   *)
TimeoutEffectOnce ==
  timer' = timer \cup {card \in Card : ran.url = None /\ CardShows(card) = "waiting"}

(* The effect of StatsNotReady: a time-out as long as it waits.            *)
TimeoutEffect ==
  LET again == {card \in Card : ClusterChanged \/ ran.shows[card] # CardShows(card)}
  IN  timer' = (timer \ again) \cup {card \in again : CardShows(card) = "waiting"}

(* The effect of StatsCardBody: off and on again with another cluster. *)
ActiveEffect == active' = (active \/ ClusterChanged)

(* The polling effect: what is in flight becomes stale, and if the stats   *)
(* are active in a visible tab everything is requested at once (the block  *)
(* time only when a slot is known).                                        *)
PollingEffect ==
  IF [ran EXCEPT !.shows = Rendered.shows] = Rendered
  THEN UNCHANGED <<lastSlot, live, stale>>
  ELSE /\ lastSlot' = FALSE
       /\ stale' = [k \in FailingKind |-> stale[k] + (IF k \in live THEN 1 ELSE 0)]
       /\ live' = IF active /\ visible THEN FailingKind ELSE {}

(* Mutant: only a change of the cluster resets.                            *)
ResetEffectOfCluster ==
  IF ran.url = None \/ ~ClusterChanged THEN UNCHANGED infos ELSE resetData

(* "Reset when cluster changes". *)
ResetEffect == IF ran.url \in {None, url} THEN UNCHANGED infos ELSE resetData

(* The effects of a commit all see what was rendered, and what they set is *)
(* rendered next.                                                          *)
Effects ==
  /\ ~EffectsDone
  /\ ran' = Rendered
  /\ TimeoutEffect
  /\ ActiveEffect
  /\ PollingEffect
  /\ ResetEffect
  /\ UNCHANGED <<url, visible, bounds>>

-------------------------------------------------------------------------------
SetError(info) == [info EXCEPT !.status = "Error"]

(* An interval fires: getBlockTime does nothing before a slot is known.    *)
Tick(kind) ==
  /\ EffectsDone /\ active /\ visible
  /\ kind \notin live
  /\ kind = "blockTime" => lastSlot
  /\ live' = live \cup {kind}
  /\ UNCHANGED <<url, visible, active, infos, ran, lastSlot, stale, timer, bounds>>

(* Samples: none, some of less than a transaction per second, or others.   *)
SamplesAnswered(samples) ==
  IF samples = "none" THEN UNCHANGED infos
  ELSE /\ performance' = [performance EXCEPT
                            !.tps = IF samples = "quiet" THEN None ELSE url,
                            !.status = ReadyIf(performance.count)]
       /\ dashboard' = [dashboard EXCEPT !.slotTime = url,
                                         !.status = ReadyIf(dashboard.slot)]

(* A request of the current effect is answered.  An answer between an      *)
(* error and the effects that stop the polling is left out; it would take  *)
(* the error back, and with both infos the time-out would not be set again. *)
Succeed(kind) ==
  /\ EffectsDone /\ kind \in live
  /\ live' = live \ {kind}
  /\ lastSlot' = (lastSlot \/ kind = "epoch")
  /\ \/ /\ kind = "samples"
        /\ \E samples \in {"none", "quiet", "busy"} : SamplesAnswered(samples)
     \/ /\ kind = "count"
        /\ performance' = [performance EXCEPT !.count = url,
                                              !.status = ReadyIf(performance.tps)]
        /\ UNCHANGED dashboard
     \/ /\ kind = "epoch"
        /\ dashboard' = [dashboard EXCEPT !.slot = url,
                                          !.status = ReadyIf(dashboard.slotTime)]
        /\ UNCHANGED performance
     \/ /\ kind = "blockTime"
        /\ dashboard' = [dashboard EXCEPT !.blockTime = url]
        /\ UNCHANGED performance
  /\ UNCHANGED <<url, visible, active, ran, stale, timer, bounds>>

(* The catch of a request: the infos it is for fail and polling stops.     *)
Catch(kind) ==
  /\ performance' = IF kind \in {"samples", "count"} THEN SetError(performance) ELSE performance
  /\ dashboard' = IF kind \in {"samples", "epoch"} THEN SetError(dashboard) ELSE dashboard
  /\ active' = FALSE
  /\ UNCHANGED <<url, visible, ran, lastSlot, timer, bounds>>

Fail(kind) ==
  /\ EffectsDone /\ kind \in live
  /\ live' = live \ {kind}
  /\ UNCHANGED stale
  /\ IF kind = "blockTime"
     THEN UNCHANGED <<url, visible, active, infos, ran, lastSlot, timer, bounds>>
     ELSE Catch(kind)

(* A request of an earlier effect: its answer is dropped, its error is not. *)
StaleAnswered(kind) ==
  /\ EffectsDone /\ stale[kind] > 0
  /\ stale' = [stale EXCEPT ![kind] = @ - 1]
  /\ UNCHANGED live
  /\ \/ UNCHANGED <<url, visible, active, infos, ran, lastSlot, timer, bounds>>
     \/ Catch(kind)

-------------------------------------------------------------------------------
(* Mutant: a time-out leaves the stats active.                             *)
setTimedOutOnly ==
  /\ dashboard' = SetError(dashboard)
  /\ performance' = SetError(performance)
  /\ UNCHANGED active

(* setTimedOut fails both infos, also one that has its data. *)
setTimedOut ==
  /\ dashboard' = SetError(dashboard)
  /\ performance' = SetError(performance)
  /\ active' = FALSE

TimeOut(card) ==
  /\ EffectsDone /\ card \in timer
  /\ timer' = timer \ {card}
  /\ setTimedOut
  /\ UNCHANGED <<url, visible, ran, lastSlot, live, stale, bounds>>

(* Try Again, on a card with an error or on one that waits for nothing.    *)
Retry ==
  /\ EffectsDone
  /\ \E card \in Card : \/ CardShows(card) = "error"
                        \/ CardShows(card) = "waiting" /\ ~active
  /\ retries < MaxRetries
  /\ retries' = retries + 1
  /\ resetData
  /\ active' = TRUE
  /\ UNCHANGED <<url, visible, ran, lastSlot, live, stale, timer, switches, toggles>>

Next ==
  \/ \E u \in Url : Switch(u)
  \/ ToggleTab
  \/ Effects
  \/ \E k \in Kind : Tick(k) \/ Succeed(k) \/ Fail(k)
  \/ \E k \in FailingKind : StaleAnswered(k)
  \/ \E card \in Card : TimeOut(card)
  \/ Retry

Spec == Init /\ [][Next]_vars

(* Effects run and time-outs fire unless they are cleared; requests may    *)
(* hang for ever, and nobody has to click.                                 *)
Fairness == WF_vars(Effects) /\ \A card \in Card : SF_vars(TimeOut(card))

FairSpec == Spec /\ Fairness

-------------------------------------------------------------------------------
Dashboard == [status : {"Loading", "Ready", "Error"}, slotTime : Url \cup {None},
              slot : Url \cup {None}, blockTime : Url \cup {None}]
Performance == [status : {"Loading", "Ready", "Error"}, tps : Url \cup {None},
                count : Url \cup {None}]
Shown == [Card -> {"data", "error", "waiting"}]

TypeOK ==
  /\ url \in Url /\ visible \in BOOLEAN /\ active \in BOOLEAN
  /\ dashboard \in Dashboard /\ performance \in Performance
  /\ ran \in [url : Url \cup {None}, visible : BOOLEAN, active : BOOLEAN, shows : Shown]

(* The stats shown are all of the cluster the page is connected to, also   *)
(* between two urls of one cluster: every field was reset or is of the     *)
(* url, and no late answer puts one back.                                  *)
StatsAreOfUrl ==
  EffectsDone =>
    {dashboard.slotTime, dashboard.slot, dashboard.blockTime,
     performance.tps, performance.count} \subseteq {None, url}

(* A page that reports a problem has stopped polling, whoever reported it: *)
(* no answer turns the error into data behind the user's back, and Try     *)
(* Again begins from nothing.                                              *)
ErrorStopsPolling ==
  EffectsDone /\ "Error" \in {dashboard.status, performance.status} =>
    ~active /\ live = {}

Spinner == active /\ \E card \in Card : CardShows(card) = "waiting"

(* No spinner turns for ever, although every request may hang and the      *)
(* time-outs are cleared and set again with every switch and every change  *)
(* of what a card shows: data or an error come to be shown.                *)
SpinnerEnds == Spinner ~> ~Spinner
===============================================================================
