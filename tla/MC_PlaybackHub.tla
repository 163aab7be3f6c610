---------------------------- MODULE MC_PlaybackHub ----------------------------
(***************************************************************************)
(* Instances of PlaybackHub for TLC.  TVs are alike, and so are devices,   *)
(* as every device of an instance may have any key that is no player's.    *)
(***************************************************************************)
EXTENDS PlaybackHub, TLC

Interchangeable ==
  Permutations(Receivers) \cup Permutations(Devices)
    \cup Permutations(Players \ Receivers)
=============================================================================
