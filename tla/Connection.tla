------------------------------ MODULE Connection ------------------------------
(***************************************************************************)
(* What the rest of the explorer may rely on about the cluster it is       *)
(* connected to: the value of useCluster() (app/providers/cluster.tsx),    *)
(* reduced to the RPC url requests go to and the status of the connection. *)
(*                                                                         *)
(* Module Cluster describes the mechanism and implements this              *)
(* specification; the modules of the data providers take it as their       *)
(* environment.                                                            *)
(***************************************************************************)
CONSTANT Url    \* the RPC urls the explorer can be pointed at

VARIABLES
  url,          \* clusterUrl(cluster, customUrl) of the context value
  status        \* ClusterStatus of the context value

connVars == <<url, status>>

ClusterStatus == {"Connecting", "Connected", "Failure"}

ConnTypeOK == url \in Url /\ status \in ClusterStatus

ConnInit == url \in Url /\ status = "Connecting"

(* A connection attempt begins: the reducer takes a Connecting action as   *)
(* it comes, whatever the state was.  The url need not change.             *)
Reconnect(u) == url' = u /\ status' = "Connecting"

(* An attempt to the current url is answered.  The status need not be      *)
(* Connecting: the late answer of an earlier attempt to the same cluster   *)
(* is accepted too, so Connected may turn into Failure and back.           *)
Settle(s) == s \in {"Connected", "Failure"} /\ status' = s /\ UNCHANGED url

ConnNext == (\E u \in Url : Reconnect(u)) \/ (\E s \in ClusterStatus : Settle(s))

ConnSpec == ConnInit /\ [][ConnNext]_connVars
===============================================================================
