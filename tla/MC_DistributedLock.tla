------------------------- MODULE MC_DistributedLock -------------------------
(***************************************************************************)
(* An instance of DistributedLock for TLC: two callers of one node and a   *)
(* caller of another, so that callers contend within a node and across,    *)
(* and the two of one node ask for different ttls.                         *)
(***************************************************************************)
EXTENDS DistributedLock

CONSTANTS n1, n2, c1, c2, c3

CallersNode == [h \in {c1, c2, c3} |-> IF h = c3 THEN n2 ELSE n1]
CallersAsk == [h \in {c1, c2, c3} |-> IF h = c1 THEN {2} ELSE {1}]
=============================================================================
