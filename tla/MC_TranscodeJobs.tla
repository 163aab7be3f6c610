-------------------------- MODULE MC_TranscodeJobs --------------------------
(***************************************************************************)
(* Instances of TranscodeJobs for TLC.  Two jobs of one key are enough for *)
(* a goroutine to outlive its job and meet the next one.                   *)
(***************************************************************************)
EXTENDS TranscodeJobs
=============================================================================
