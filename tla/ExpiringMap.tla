----------------------------- MODULE ExpiringMap -----------------------------
(***************************************************************************)
(* What the users of pkg/cache may rely on: a map of at most Max keys from *)
(* which anything may disappear at any time, but in which a key is given a *)
(* value only by a Set of that key, and keeps the value it has till then.  *)
(***************************************************************************)
EXTENDS Naturals

CONSTANTS MapKeys, MapValues, Capacity, Nothing

VARIABLES map, justSet    \* what each key has, or Nothing; the keys set by the last step

MapInit == map = [k \in MapKeys |-> Nothing] /\ justSet = {}

\* Every key that has a value has a place of its own.
Fits ==
  \E place \in [{k \in MapKeys : map[k] # Nothing} -> 1..Capacity] :
    \A j, k \in DOMAIN place : place[j] = place[k] => j = k

\* The keys of "kept" keep their values, the others are gone but for the one set.
Put(k, v, kept) ==
  /\ justSet' = {k}
  /\ map' = [j \in MapKeys |-> IF j = k THEN v ELSE IF j \in kept THEN map[j] ELSE Nothing]
  /\ Fits'

Lose(kept) ==
  /\ justSet' = {}
  /\ map' = [j \in MapKeys |-> IF j \in kept THEN map[j] ELSE Nothing]

MapNext ==
  \E kept \in SUBSET MapKeys :
    Lose(kept) \/ \E k \in MapKeys, v \in MapValues : Put(k, v, kept)

MapSpec == MapInit /\ [][MapNext]_<<map, justSet>>
=============================================================================
