------------------------------ MODULE SupplyPage ------------------------------
(***************************************************************************)
(* The page /supply: SupplyProvider with SupplyCard, RichListProvider with *)
(* TopAccountsCard, over a connection that may be switched at any time.    *)
(* SupplyCard fetches on load, TopAccountsCard when its button is pressed; *)
(* it is only there while there is a supply, which its percentages divide  *)
(* by.                                                                     *)
(***************************************************************************)
EXTENDS Naturals

CONSTANTS
  Url, Fetch, None,   \* see StatusFetch
  MaxReconnects,      \* bound on Connecting dispatches
  MaxClicks           \* bound on the presses of load and retry buttons

ASSUME BoundsAssumption == MaxReconnects \in Nat /\ MaxClicks \in Nat
ASSUME NoneAssumption == None \notin Url \cup {"Connecting", "Connected", "Failure"}

VARIABLES
  url, status,                    \* the connection
  ran,                            \* [url, status] the effects last ran with
  supply, supplyFetches,
  richList, richListFetches,
  reconnects, clicks

Conn == INSTANCE Connection

Supply == INSTANCE StatusFetch WITH state <- supply, fetches <- supplyFetches
RichList == INSTANCE StatusFetch WITH state <- richList, fetches <- richListFetches

supplyVars == <<supply, supplyFetches>>
richListVars == <<richList, richListFetches>>
vars == <<url, status, ran, supplyVars, richListVars, reconnects, clicks>>

-------------------------------------------------------------------------------
Init ==
  /\ url \in Url /\ status \in Conn!ClusterStatus
  /\ ran = [url |-> None, status |-> None]
  /\ Supply!Init
  /\ RichList!Init
  /\ reconnects = 0
  /\ clicks = 0

Mounting == ran.status = None

(* React runs the effects of a commit before it renders again. *)
EffectsDone == ran = [url |-> url, status |-> status]

Reconnect(u) ==
  /\ EffectsDone
  /\ reconnects < MaxReconnects
  /\ Conn!Reconnect(u)
  /\ reconnects' = reconnects + 1
  /\ UNCHANGED <<ran, supplyVars, richListVars, clicks>>

Settle(s) ==
  /\ EffectsDone
  /\ Conn!Settle(s)
  /\ UNCHANGED <<ran, supplyVars, richListVars, reconnects, clicks>>

(* On mount SupplyCard finds the supply Idle and fetches it, whatever the  *)
(* status; the effect of the provider sees Idle and does nothing.          *)
Effects ==
  /\ ~EffectsDone
  /\ ran' = [url |-> url, status |-> status]
  /\ IF Mounting THEN Supply!Start(url) ELSE Supply!ConnectionEffect(status, url)
  /\ RichList!ConnectionEffect(status, url)
  /\ UNCHANGED <<url, status, reconnects, clicks>>

(* A button of a card: React has run the effects before it hands on the    *)
(* click.                                                                  *)
Click ==
  /\ EffectsDone
  /\ clicks < MaxClicks
  /\ clicks' = clicks + 1
  /\ UNCHANGED <<url, status, ran, reconnects>>

RetrySupply ==
  /\ Click
  /\ supply = Supply!Failed
  /\ Supply!Start(url)
  /\ UNCHANGED richListVars

(* "Load Largest Accounts", or a retry. *)
LoadRichList ==
  /\ Click
  /\ supply.tag = "Data"
  /\ richList \in {RichList!Idle, RichList!Failed}
  /\ RichList!Start(url)
  /\ UNCHANGED supplyVars

SupplyAnswered ==
  /\ \E f \in Fetch : Supply!Succeed(f) \/ Supply!Fail(f)
  /\ UNCHANGED <<url, status, ran, richListVars, reconnects, clicks>>

RichListAnswered ==
  /\ \E f \in Fetch : RichList!Succeed(f) \/ RichList!Fail(f)
  /\ UNCHANGED <<url, status, ran, supplyVars, reconnects, clicks>>

Next ==
  \/ \E u \in Url : Reconnect(u)
  \/ \E s \in Conn!ClusterStatus : Settle(s)
  \/ Effects
  \/ RetrySupply
  \/ LoadRichList
  \/ SupplyAnswered
  \/ RichListAnswered

Spec == Init /\ [][Next]_vars

(* React flushes effects and requests settle; nobody has to click.         *)
Fairness == WF_vars(Effects) /\ WF_vars(SupplyAnswered) /\ WF_vars(RichListAnswered)

FairSpec == Spec /\ Fairness

-------------------------------------------------------------------------------
TypeOK ==
  /\ Conn!ConnTypeOK
  /\ ran \in [url : Url \cup {None}, status : Conn!ClusterStatus \cup {None}]
  /\ Supply!TypeOK
  /\ RichList!TypeOK
  /\ reconnects \in 0 .. MaxReconnects
  /\ clicks \in 0 .. MaxClicks

(* A card only shows its spinner while a request of its provider is        *)
(* running, although an answer may be dropped for coming at the wrong time *)
(* and one answer may settle the state under another request.              *)
LoadingIsInFlight ==
  /\ Supply!Loading => Supply!InFlight
  /\ RichList!Loading => RichList!InFlight

(* "Not connected to the cluster" is never shown of a cluster that is      *)
(* connected, whichever late answers arrive around a reconnection.         *)
NotConnectedIsTrue ==
  EffectsDone /\ status = "Connected" =>
    supply # Supply!Disconnected /\ richList # RichList!Disconnected

(* Once the connection stays up the supply page stops loading: it ends in  *)
(* a supply or in an error with a retry button, and so does a rich list    *)
(* that was asked for.                                                     *)
SupplySettles ==
  <>[](status = "Connected") =>
    /\ <>[](supply.tag \in {"Data", "Failed"})
    /\ <>[](richList.tag \in {"Data", "Failed", "Idle"})

(* "Update state if still connecting" (supply.tsx:62, richList.tsx:67): an *)
(* answer counts only for the Connecting its own fetch began, so what the  *)
(* page of a cluster shows is what that cluster answered.  The code tests  *)
(* for Connecting, which a fetch from the next cluster may have set again. *)
ShownIsOfConnectedCluster ==
  EffectsDone /\ status = "Connected" /\ supply.tag = "Data" => supply.from = url
===============================================================================
