------------------------------ MODULE StatusFetch ------------------------------
(***************************************************************************)
(* A provider with one value instead of a cache: SupplyProvider            *)
(* (app/providers/supply.tsx) and RichListProvider (app/providers/         *)
(* richList.tsx) are the same state machine.  Its state is a Status, an    *)
(* error text or the data; fetches of it may overlap.                      *)
(***************************************************************************)
CONSTANTS
  Url,      \* the RPC urls
  Fetch,    \* slots for fetches in flight (a bound)
  None      \* a free slot

VARIABLES
  state,    \* the value of the provider's useState
  fetches   \* the url each running fetch asks, None when the slot is free

Idle == [tag |-> "Idle"]
Disconnected == [tag |-> "Disconnected"]
Connecting == [tag |-> "Connecting"]
Failed == [tag |-> "Failed"]                    \* a string: the text of the error card
Data(u) == [tag |-> "Data", from |-> u]         \* what url u answered

State == {Idle, Disconnected, Connecting, Failed} \cup {Data(u) : u \in Url}

TypeOK == state \in State /\ fetches \in [Fetch -> Url \cup {None}]

Init == state = Idle /\ fetches = [f \in Fetch |-> None]

(* fetch, up to its await. *)
Start(u) ==
  /\ state' = Connecting
  /\ \E f \in Fetch : fetches[f] = None /\ fetches' = [fetches EXCEPT ![f] = u]

(* The data is there: kept if the state is Connecting.                     *)
Succeed(f) ==
  /\ fetches[f] # None
  /\ state' = IF state = Connecting THEN Data(fetches[f]) ELSE state
  /\ fetches' = [fetches EXCEPT ![f] = None]

(* Mutant: the error is logged and not shown.                              *)
FailSilently(f) ==
  /\ fetches[f] # None
  /\ fetches' = [fetches EXCEPT ![f] = None]
  /\ UNCHANGED state

(* The catch block: the error replaces whatever is there.                  *)
Fail(f) ==
  /\ fetches[f] # None
  /\ state' = Failed
  /\ fetches' = [fetches EXCEPT ![f] = None]

(* Mutant: a connection that comes up is not fetched from again.           *)
ConnectionEffectOnLoss(status, u) ==
  IF state # Idle /\ status = "Connecting"
  THEN state' = Disconnected /\ UNCHANGED fetches
  ELSE UNCHANGED <<state, fetches>>

(* The provider's effect, on any change of status or url: once something   *)
(* was asked for, a lost connection empties the state and a new one        *)
(* fetches again.                                                          *)
ConnectionEffect(status, u) ==
  \/ state # Idle /\ status = "Connecting" /\ state' = Disconnected /\ UNCHANGED fetches
  \/ state # Idle /\ status = "Connected" /\ Start(u)
  \/ (state = Idle \/ status = "Failure") /\ UNCHANGED <<state, fetches>>

(* The card that shows the state loads for as long as a fetch runs.        *)
InFlight == \E f \in Fetch : fetches[f] # None

Loading == state = Connecting
================================================================================
