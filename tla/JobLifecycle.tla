---------------------------- MODULE JobLifecycle ----------------------------
(***************************************************************************)
(* What the transcode job manager (pkg/tasks) promises its callers: a job  *)
(* is begun for a key that has no live job, may be marked as started, and  *)
(* ends once, with one outcome that never changes afterwards.  How the     *)
(* manager finds the job a caller means - by id or by key - is left to     *)
(* JobManager, which is shown to implement this specification.             *)
(***************************************************************************)
CONSTANTS Jobs, Keys, NoKey

VARIABLES
  stage,     \* stage[j]: where job j is in its life
  subject    \* subject[j]: the transcode key job j was begun for

lifecycleVars == <<stage, subject>>

Live == {"queued", "running"}
Final == {"completed", "failed", "cancelled"}

LiveFor(k) == {j \in Jobs : stage[j] \in Live /\ subject[j] = k}

LifecycleInit ==
  /\ stage = [j \in Jobs |-> "new"]
  /\ subject = [j \in Jobs |-> NoKey]

Begin(j, k) ==
  /\ stage[j] = "new"
  /\ LiveFor(k) = {}
  /\ stage' = [stage EXCEPT ![j] = "queued"]
  /\ subject' = [subject EXCEPT ![j] = k]

Start(j) ==
  /\ stage[j] \in Live
  /\ stage' = [stage EXCEPT ![j] = "running"]
  /\ UNCHANGED subject

End(j, outcome) ==
  /\ stage[j] \in Live
  /\ stage' = [stage EXCEPT ![j] = outcome]
  /\ UNCHANGED subject

LifecycleNext ==
  \/ \E j \in Jobs, k \in Keys : Begin(j, k)
  \/ \E j \in Jobs : Start(j)
  \/ \E j \in Jobs, outcome \in Final : End(j, outcome)

LifecycleSpec == LifecycleInit /\ [][LifecycleNext]_lifecycleVars
=============================================================================
