------------------------------ MODULE LeaseLock ------------------------------
(***************************************************************************)
(* What pkg/cluster's distributed lock promises the holders of one key: a  *)
(* grant is good for the ticks asked for unless it is extended, given up   *)
(* or cut, and none is made while another is good.                         *)
(***************************************************************************)
EXTENDS Naturals

CONSTANTS Holders, Ttls

VARIABLE granted   \* granted[h]: ticks for which h may still rely on the lock

LeaseInit == granted = [h \in Holders |-> 0]

\* A first grant, or a renewed one: nobody else may rely on the lock.
Grant(h, t) ==
  /\ \A g \in Holders \ {h} : granted[g] = 0
  /\ granted' = [granted EXCEPT ![h] = t]

\* Holders give up, by releasing the lock or by crashing, or their grant is cut.
GiveUp(S) == granted' = [h \in Holders |-> IF h \in S THEN 0 ELSE granted[h]]

TimePasses ==
  granted' = [h \in Holders |-> IF granted[h] > 0 THEN granted[h] - 1 ELSE 0]

LeaseNext ==
  \/ \E h \in Holders, t \in Ttls : Grant(h, t)
  \/ \E S \in SUBSET Holders : GiveUp(S)
  \/ TimePasses

LeaseSpec == LeaseInit /\ [][LeaseNext]_granted
=============================================================================
