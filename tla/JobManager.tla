----------------------------- MODULE JobManager -----------------------------
(***************************************************************************)
(* pkg/tasks/tasks.go: the in-memory manager of transcode jobs.            *)
(*                                                                         *)
(* Every method holds the manager's mutex from its first to its last       *)
(* statement, so a method is one action.  The two maps-and-slices of the   *)
(* Manager are `active` and `history`; the fields of a Job that decide     *)
(* anything are its Status, its Key and whether its context is done.       *)
(* Names, titles, profiles, sizes and timestamps are carried along by the  *)
(* code and never read back by it, and are left out.                       *)
(***************************************************************************)
EXTENDS Naturals, Sequences, FiniteSets

CONSTANTS
  Jobs,      \* the ids uuid.New may return; an id is used at most once
  Keys,      \* transcode keys, itemID or itemID_aN
  MaxHist,   \* Manager.maxHist
  NoJob,     \* no entry of the active map
  NoKey      \* the key of an id that has not been used yet

ASSUME JobManagerAssumption ==
  /\ MaxHist \in Nat \ {0}
  /\ NoJob \notin Jobs
  /\ NoKey \notin Keys

VARIABLES
  active,    \* Manager.active: key -> job, NoJob when the key is absent
  history,   \* Manager.history: ended jobs, newest first
  status,    \* Job.Status, "new" for an id that has not been used yet
  keyOf,     \* Job.Key
  ctxDone    \* Job.Ctx is done: cancelled, or past its 30 minutes

managerVars == <<active, history, status, keyOf, ctxDone>>

Live == {"queued", "running"}
Final == {"completed", "failed", "cancelled"}

TypeOK ==
  /\ active \in [Keys -> Jobs \cup {NoJob}]
  /\ history \in Seq(Jobs)
  /\ status \in [Jobs -> {"new"} \cup Live \cup Final]
  /\ keyOf \in [Jobs -> Keys \cup {NoKey}]
  /\ ctxDone \in [Jobs -> BOOLEAN]

NewManager ==
  /\ active = [k \in Keys |-> NoJob]
  /\ history = <<>>
  /\ status = [j \in Jobs |-> "new"]
  /\ keyOf = [j \in Jobs |-> NoKey]
  /\ ctxDone = [j \in Jobs |-> FALSE]

-----------------------------------------------------------------------------
IsActive(k) == active[k] # NoJob

ActiveJobs == {active[k] : k \in {q \in Keys : IsActive(q)}}

ActiveCount == Cardinality({k \in Keys : IsActive(k)})

\* List: the active jobs, then the history.
Listed == ActiveJobs \cup {history[i] : i \in DOMAIN history}

\* Mutated Prepended: the history is not cut.
PrependedUncut(j) == <<j>> \o history

\* append([]*Job{job}, history...), cut to its first maxHist entries.
Prepended(j) ==
  LET longer == <<j>> \o history
  IN  IF Len(longer) > MaxHist THEN SubSeq(longer, 1, MaxHist) ELSE longer

\* Mutated Retire: the entry of the active map is not deleted.
RetireKept(j, k, outcome) ==
  /\ ctxDone' = [ctxDone EXCEPT ![j] = TRUE]
  /\ status' = [status EXCEPT ![j] = outcome]
  /\ history' = Prepended(j)
  /\ UNCHANGED <<active, keyOf>>

\* Mutated Retire: the context of the job is not cancelled.
RetireUncancelled(j, k, outcome) ==
  /\ active' = [active EXCEPT ![k] = NoJob]
  /\ status' = [status EXCEPT ![j] = outcome]
  /\ history' = Prepended(j)
  /\ UNCHANGED <<keyOf, ctxDone>>

\* What Complete and Cancel share: job j leaves the active map under key k
\* with its context cancelled, and becomes the newest entry of the history.
Retire(j, k, outcome) ==
  /\ active' = [active EXCEPT ![k] = NoJob]
  /\ ctxDone' = [ctxDone EXCEPT ![j] = TRUE]
  /\ status' = [status EXCEPT ![j] = outcome]
  /\ history' = Prepended(j)
  /\ UNCHANGED keyOf

\* Mutated Submit: the check for a duplicate is gone.
SubmitTwice(j, k) ==
  /\ status[j] = "new"
  /\ active' = [active EXCEPT ![k] = j]
  /\ status' = [status EXCEPT ![j] = "queued"]
  /\ keyOf' = [keyOf EXCEPT ![j] = k]
  /\ UNCHANGED <<history, ctxDone>>

\* Submit for a key that is not active.  For an active key Submit returns the
\* job there is, and changes nothing.
Submit(j, k) ==
  /\ ~IsActive(k)
  /\ status[j] = "new"
  /\ active' = [active EXCEPT ![k] = j]
  /\ status' = [status EXCEPT ![j] = "queued"]
  /\ keyOf' = [keyOf EXCEPT ![j] = k]
  /\ UNCHANGED <<history, ctxDone>>

\* Mutated SetRunning: the status is set through the pointer the caller has,
\* without looking the id up in the active map.
SetRunningAlways(j) ==
  /\ status' = [status EXCEPT ![j] = "running"]
  /\ UNCHANGED <<active, history, keyOf, ctxDone>>

\* SetRunning(id): a job that has left the active map is not touched.
SetRunning(j) ==
  /\ status' = IF j \in ActiveJobs THEN [status EXCEPT ![j] = "running"]
                                   ELSE status
  /\ UNCHANGED <<active, history, keyOf, ctxDone>>

\* The outcome Complete gives a job: an error never turns a cancelled job
\* into a failed one.
Outcome(j, failed) ==
  IF ~failed THEN "completed"
  ELSE IF status[j] = "cancelled" THEN "cancelled" ELSE "failed"

\* Complete(key, _, err): the job that is active for the key, whoever calls.
Complete(k, failed) ==
  \/ /\ IsActive(k)
     /\ Retire(active[k], k, Outcome(active[k], failed))
  \/ /\ ~IsActive(k)
     /\ UNCHANGED managerVars

\* Cancel(id) of an active job; of any other it returns false.
Cancel(j) ==
  \E k \in Keys : /\ active[k] = j
                  /\ Retire(j, k, "cancelled")

\* Mutated CtxTimeout: the context has no deadline.
CtxTimeoutNever(j) == FALSE

\* The 30 minutes given by context.WithTimeout in Submit have passed.
CtxTimeout(j) ==
  /\ status[j] # "new"
  /\ ~ctxDone[j]
  /\ ctxDone' = [ctxDone EXCEPT ![j] = TRUE]
  /\ UNCHANGED <<active, history, status, keyOf>>

-----------------------------------------------------------------------------
\* Callers are arbitrary here: any method, any argument, in any order.
ManagerNext ==
  \/ \E j \in Jobs, k \in Keys : Submit(j, k)
  \/ \E j \in Jobs : SetRunning(j)
  \/ \E k \in Keys, failed \in BOOLEAN : Complete(k, failed)
  \/ \E j \in Jobs : Cancel(j)
  \/ \E j \in Jobs : CtxTimeout(j)

ManagerSpec == NewManager /\ [][ManagerNext]_managerVars

-----------------------------------------------------------------------------
\* The active map and the status of the jobs never disagree: the entry of a
\* key is a queued or running job of that key, and every queued or running
\* job is the entry of its key.  Submit, Complete, Cancel and SetRunning look
\* jobs up in three different ways (by key, by id, by pointer); this is what
\* makes the answers of IsActive and Submit's duplicate check true.
ActiveIndexExact ==
  /\ \A k \in Keys : IsActive(k) =>
       /\ status[active[k]] \in Live
       /\ keyOf[active[k]] = k
  /\ \A j \in Jobs : status[j] \in Live =>
       /\ keyOf[j] \in Keys
       /\ active[keyOf[j]] = j

\* List shows a job once: the history is within its limit, holds no job
\* twice, none that is still active, and only jobs whose context has been
\* released.
HistorySound ==
  /\ Len(history) <= MaxHist
  /\ \A i \in 1..Len(history) :
       /\ status[history[i]] \in Final
       /\ ctxDone[history[i]]
  /\ \A i, m \in 1..Len(history) : history[i] = history[m] => i = m

ManagerInv == TypeOK /\ ActiveIndexExact /\ HistorySound

\* The manager implements the lifecycle a caller may rely on.
Lifecycle == INSTANCE JobLifecycle WITH stage <- status, subject <- keyOf

ImplementsLifecycle == Lifecycle!LifecycleSpec
=============================================================================
