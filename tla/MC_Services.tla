----------------------------- MODULE MC_Services -----------------------------
(***************************************************************************)
(* One instance of the services that share no state with each other: in a  *)
(* behaviour one of them is at work and the others rest in their initial   *)
(* states, which loses none of the behaviours of any.                      *)
(*   Event bus: a publisher, and three subscriptions of two channels, two  *)
(*   in one list and one channel twice.                                    *)
(*   Plugins: an object and two external plugins, one with the object's    *)
(*   name, and two goroutines that call them.                              *)
(*   Cluster: two nodes; an entry is unhealthy after a tick of silence and *)
(*   removed after two.                                                    *)
(***************************************************************************)
EXTENDS EventBus, ClusterRegistry, PluginHost

CONSTANTS s1, s2, s3, added, chan1, chan2, n1, n2, object, external1, external2, name1, name2

Subscriptions ==
  [s \in {s1, s2, s3} |-> IF s = s1 THEN <<added, chan1>>
                          ELSE IF s = s2 THEN <<added, chan2>> ELSE <<Wildcard, chan1>>]

PluginNames ==
  [p \in {object, external1, external2} |-> IF p = external2 THEN name2 ELSE name1]

JoinPairs == {<<n1, n2>>}

VARIABLE service

Init ==
  /\ service \in {"bus", "cluster", "plugins"}
  /\ BusInit /\ ClusterInit /\ PluginInit

Next ==
  \/ service = "bus" /\ BusNext /\ UNCHANGED <<service, clusterVars, pluginVars>>
  \/ service = "cluster" /\ ClusterNext /\ UNCHANGED <<service, busVars, pluginVars>>
  \/ service = "plugins" /\ PluginNext /\ UNCHANGED <<service, busVars, clusterVars>>

Spec ==
  /\ Init /\ [][Next]_<<service, busVars, clusterVars, pluginVars>>
  /\ BusFairness /\ ClusterFairness /\ PluginFairness
=============================================================================
