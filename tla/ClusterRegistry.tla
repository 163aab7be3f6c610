--------------------------- MODULE ClusterRegistry ---------------------------
(***************************************************************************)
(* pkg/cluster/registry.go with handleJoin of server.go and the load       *)
(* balancer: every node pings the others over UDP, answers pings, and      *)
(* keeps what it has heard from, marking as unhealthy whoever has been     *)
(* silent and forgetting them later; a node may also ask another to take   *)
(* it in over HTTP.  Datagrams are lost, duplicated and come late.         *)
(*                                                                         *)
(* Time passes in ticks that age the entries.  Addresses are those of the  *)
(* nodes, and the role of an entry is read by nothing: both are left out.  *)
(***************************************************************************)
EXTENDS Naturals

CONSTANTS
  Nodes,
  Stale,    \* ticks of silence after which an entry is unhealthy, 15 seconds
  Removal,  \* ticks of silence after which it is removed, 2 minutes
  Joins,    \* bound: <<d, n>> when d is told to join n
  Unknown   \* no entry

ASSUME ClusterAssumption ==
  /\ Stale \in Nat /\ Removal \in Nat /\ Stale <= Removal
  /\ Joins \subseteq Nodes \X Nodes
  /\ Unknown \notin Nat

VARIABLES
  running,    \* nodes whose process runs
  age,        \* age[n][d]: ticks since n last heard from d, capped, or Unknown
  healthy,    \* healthy[n]: the nodes n's entries say are healthy
  datagrams   \* what is in the network: [kind, from, to]

clusterVars == <<running, age, healthy, datagrams>>

Ages == 0..(Removal + 1)
Datagrams == [kind : {"ping", "pong"}, from : Nodes, to : Nodes]

ClusterTypeOK ==
  /\ running \subseteq Nodes
  /\ age \in [Nodes -> [Nodes -> Ages \cup {Unknown}]]
  /\ healthy \in [Nodes -> SUBSET Nodes]
  /\ datagrams \subseteq Datagrams

ClusterInit ==
  /\ running = {}
  /\ age = [n \in Nodes |-> [d \in Nodes |-> Unknown]]
  /\ healthy = [n \in Nodes |-> {}]
  /\ datagrams = {}

Known(n) == {d \in Nodes : age[n][d] # Unknown}

\* HealthyNodes, the nodes the load balancer and the replication choose from.
HealthyNodes(n) == healthy[n] \cap Known(n)

-----------------------------------------------------------------------------
\* NewNodeRegistry and Start.
StartNode(n) ==
  /\ n \notin running
  /\ running' = running \cup {n}
  /\ UNCHANGED <<age, healthy, datagrams>>

\* Stop, or a crash: the registry is lost.
StopNode(n) ==
  /\ n \in running
  /\ running' = running \ {n}
  /\ age' = [age EXCEPT ![n] = [d \in Nodes |-> Unknown]]
  /\ healthy' = [healthy EXCEPT ![n] = {}]
  /\ UNCHANGED datagrams

\* Mutated BroadcastPing: only to nodes there is an entry for.
PingKnown(n) ==
  /\ n \in running
  /\ datagrams' = datagrams \cup {[kind |-> "ping", from |-> n, to |-> d] : d \in Known(n)}
  /\ UNCHANGED <<running, age, healthy>>

\* broadcastPing, at the start and with every tick of the 3-second ticker.
BroadcastPing(n) ==
  /\ n \in running
  /\ datagrams' = datagrams \cup {[kind |-> "ping", from |-> n, to |-> d] : d \in Nodes}
  /\ UNCHANGED <<running, age, healthy>>

\* Mutated Hears: an entry that there is is not made healthy again.
HearsOnce(n, d) ==
  /\ age' = [age EXCEPT ![n][d] = 0]
  /\ healthy' = IF age[n][d] = Unknown THEN [healthy EXCEPT ![n] = @ \cup {d}] ELSE healthy

\* An entry for d, new or not: heard from now, and healthy.
Hears(n, d) ==
  /\ age' = [age EXCEPT ![n][d] = 0]
  /\ healthy' = [healthy EXCEPT ![n] = @ \cup {d}]

\* handleGossip: what a node hears from itself it ignores; a ping is answered.
\* The network may keep the datagram to deliver it once more.
HandleGossip(n, d, kind, kept) ==
  LET datagram == [kind |-> kind, from |-> d, to |-> n]
      answer == [kind |-> "pong", from |-> n, to |-> d]
  IN  /\ n \in running
      /\ datagram \in datagrams
      /\ IF d = n THEN UNCHANGED <<age, healthy>> ELSE Hears(n, d)
      /\ datagrams' = (datagrams \ (IF kept THEN {} ELSE {datagram}))
                        \cup (IF kind = "ping" /\ d # n THEN {answer} ELSE {})
      /\ UNCHANGED running

\* The network loses a datagram.
Loses(datagram) ==
  /\ datagram \in datagrams
  /\ datagrams' = datagrams \ {datagram}
  /\ UNCHANGED <<running, age, healthy>>

\* JoinCluster of d, and handleJoin at n, which may be d itself: the entry is
\* put into the registry whoever's it is.
Join(d, n) ==
  /\ <<d, n>> \in Joins
  /\ d \in running /\ n \in running
  /\ Hears(n, d)
  /\ UNCHANGED <<running, datagrams>>

\* Mutated Prune: an entry that is stale stays, although unhealthy.
PruneMarks(n) ==
  /\ n \in running
  /\ healthy' = [healthy EXCEPT ![n] = {d \in @ : age[n][d] = Unknown \/ age[n][d] <= Stale}]
  /\ UNCHANGED <<running, age, datagrams>>

\* pruneStaleNodes, with every tick of the 3-second ticker.
Prune(n) ==
  /\ n \in running
  /\ healthy' = [healthy EXCEPT ![n] = {d \in @ \cap Known(n) : age[n][d] <= Stale}]
  /\ age' = [age EXCEPT ![n] = [d \in Nodes |->
               IF d \in Known(n) /\ age[n][d] > Removal THEN Unknown ELSE age[n][d]]]
  /\ UNCHANGED <<running, datagrams>>

\* A tick of time.
Older(a) == IF a = Unknown \/ a > Removal THEN a ELSE a + 1

TimePasses ==
  /\ age' = [n \in Nodes |-> [d \in Nodes |-> Older(age[n][d])]]
  /\ UNCHANGED <<running, healthy, datagrams>>

-----------------------------------------------------------------------------
ClusterNext ==
  \/ \E n \in Nodes : StartNode(n) \/ StopNode(n) \/ BroadcastPing(n) \/ Prune(n)
  \/ \E n, d \in Nodes : Join(d, n)
  \/ \E n, d \in Nodes, kind \in {"ping", "pong"}, kept \in BOOLEAN :
       HandleGossip(n, d, kind, kept)
  \/ \E datagram \in Datagrams : Loses(datagram)
  \/ TimePasses

ClusterSpec == ClusterInit /\ [][ClusterNext]_clusterVars

\* The ticker's goroutine runs and time passes; a datagram is not for ever in
\* the network, and of the pings one node sends another again and again some
\* arrive.
ClusterFairness ==
  /\ WF_clusterVars(TimePasses)
  /\ \A n \in Nodes : WF_clusterVars(Prune(n)) /\ WF_clusterVars(BroadcastPing(n))
  /\ \A datagram \in Datagrams : WF_clusterVars(Loses(datagram))
  /\ \A n \in Nodes : \A d \in Nodes \ {n} : SF_clusterVars(HandleGossip(n, d, "ping", FALSE))

-----------------------------------------------------------------------------
\* A node heard from within the last 15 seconds is never reported unhealthy:
\* although entries are written by the listener and by handleJoin, and marked
\* by the ticker's goroutine, one is unhealthy only when it is stale; and no
\* flag is left behind by an entry that was removed.
UnhealthyIsStale ==
  \A n \in Nodes :
    /\ healthy[n] \subseteq Known(n)
    /\ \A d \in Known(n) \ healthy[n] : age[n][d] > Stale

\* A process that does not run has no registry.
StoppedKnowsNobody ==
  \A n \in Nodes \ running : Known(n) = {}

ClusterInv == ClusterTypeOK /\ UnhealthyIsStale /\ StoppedKnowsNobody

\* A node that is gone for good is forgotten for good, although what it sent
\* may still be under way.
GoneIsForgotten ==
  \A n \in Nodes : \A d \in Nodes \ {n} :
    <>[](n \in running /\ d \notin running) => <>[](d \notin Known(n))

\* Two nodes that stay up find each other again and again, whatever was lost,
\* without either having to join the other.
PeersMeetAgain ==
  \A n \in Nodes : \A d \in Nodes \ {n} :
    <>[]({n, d} \subseteq running) => []<>(d \in HealthyNodes(n))
==============================================================================
