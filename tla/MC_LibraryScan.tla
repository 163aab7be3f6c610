---------------------------- MODULE MC_LibraryScan ----------------------------
(***************************************************************************)
(* An instance of LibraryScan for TLC: directories /m, /m/cache and /m2,   *)
(* where the path of /m is the beginning of every other path, so that a    *)
(* file of /m2 may be filed under a library of /m, and /m/cache appears    *)
(* while /m is watched or not and is left out of walks.                    *)
(***************************************************************************)
EXTENDS LibraryScan

CONSTANTS m, cache, m2, chunk, film, l1, l2

Tree == [d \in {m, cache, m2} |-> IF d = cache THEN {m, cache} ELSE {d}]

FileDirs == [f \in {chunk, film} |-> IF f = chunk THEN cache ELSE m2]

TextPrefixes == {<<m, chunk>>, <<cache, chunk>>, <<m, film>>, <<m2, film>>}

OnePathEach == {<<l1, m>>, <<l2, m2>>}
=============================================================================
