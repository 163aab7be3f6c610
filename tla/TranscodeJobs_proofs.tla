------------------------ MODULE TranscodeJobs_proofs ------------------------
(****************************************************************************)
(* For any sets of jobs and keys, any number of profiles and any history   *)
(* limit: the job manager keeps ManagerInv and implements JobLifecycle; no *)
(* active job is without a goroutine that will report it, and a key never  *)
(* has two goroutines whose context is not done.                           *)
(****************************************************************************)
EXTENDS TranscodeJobs, TLAPS

-----------------------------------------------------------------------------
(* The job manager, a specification of its own.                           *)

\* What prepending and cutting does to a sequence: entry 1 is the new job,
\* entry i > 1 is the former entry i - 1, and the limit is respected.
LEMMA PrependedProperties ==
  ASSUME history \in Seq(Jobs), NEW j \in Jobs, Len(history) <= MaxHist
  PROVE  /\ Prepended(j) \in Seq(Jobs)
         /\ Len(Prepended(j)) \in 1..MaxHist
         /\ Len(Prepended(j)) <= Len(history) + 1
         /\ Prepended(j)[1] = j
         /\ \A i \in 2..Len(Prepended(j)) : Prepended(j)[i] = history[i - 1]
<1> DEFINE longer == <<j>> \o history
<1>1. /\ longer \in Seq(Jobs)
      /\ Len(longer) = Len(history) + 1
      /\ longer[1] = j
      /\ \A i \in 2..Len(longer) : longer[i] = history[i - 1]
  OBVIOUS
<1>2. MaxHist \in Nat \ {0}
  BY JobManagerAssumption
<1>3. Len(history) \in Nat
  OBVIOUS
<1> HIDE DEF longer
<1>4. CASE Len(longer) > MaxHist
  <2>1. Prepended(j) = SubSeq(longer, 1, MaxHist)
    BY <1>4 DEF Prepended, longer
  <2>2. /\ SubSeq(longer, 1, MaxHist) \in Seq(Jobs)
        /\ Len(SubSeq(longer, 1, MaxHist)) = MaxHist
        /\ \A i \in 1..MaxHist : SubSeq(longer, 1, MaxHist)[i] = longer[i]
    BY <1>1, <1>2, <1>3, <1>4
  <2>3. QED
    BY <1>1, <1>2, <1>3, <1>4, <2>1, <2>2
<1>5. CASE ~(Len(longer) > MaxHist)
  <2>1. Prepended(j) = longer
    BY <1>5 DEF Prepended, longer
  <2>2. QED
    BY <1>1, <1>2, <1>3, <1>5, <2>1
<1>6. QED
  BY <1>4, <1>5

\* A job that is retired keeps the manager's invariant.
LEMMA RetireInv ==
  ASSUME ManagerInv, NEW j \in Jobs, NEW k \in Keys, active[k] = j,
         NEW outcome \in Final, Retire(j, k, outcome)
  PROVE  ManagerInv'
<1> USE JobManagerAssumption
<1>1. /\ Prepended(j) \in Seq(Jobs)
      /\ Len(Prepended(j)) \in 1..MaxHist
      /\ Len(Prepended(j)) <= Len(history) + 1
      /\ Prepended(j)[1] = j
      /\ \A i \in 2..Len(Prepended(j)) : Prepended(j)[i] = history[i - 1]
  BY PrependedProperties DEF ManagerInv, TypeOK, HistorySound
<1>2. j # NoJob /\ status[j] \in Live /\ keyOf[j] = k
  BY DEF ManagerInv, TypeOK, ActiveIndexExact, IsActive
<1>3. TypeOK'
  BY <1>1 DEF ManagerInv, TypeOK, Retire, Final, Live
<1>4. ActiveIndexExact'
  <2>1. /\ active' = [active EXCEPT ![k] = NoJob]
        /\ status' = [status EXCEPT ![j] = outcome]
        /\ keyOf' = keyOf
    BY DEF Retire
  <2>2. ASSUME NEW q \in Keys, IsActive(q)'
        PROVE  status'[active'[q]] \in Live /\ keyOf'[active'[q]] = q
    <3>1. q # k /\ active'[q] = active[q] /\ active[q] # NoJob
      BY <2>1, <2>2 DEF ManagerInv, TypeOK, IsActive
    <3>2. active[q] \in Jobs /\ keyOf[active[q]] = q /\ status[active[q]] \in Live
      BY <3>1 DEF ManagerInv, TypeOK, ActiveIndexExact, IsActive
    <3>3. QED
      BY <1>2, <2>1, <3>1, <3>2 DEF ManagerInv, TypeOK
  <2>3. ASSUME NEW i \in Jobs, status'[i] \in Live
        PROVE  keyOf'[i] \in Keys /\ active'[keyOf'[i]] = i
    <3>1. i # j /\ status[i] \in Live
      BY <2>1, <2>3 DEF ManagerInv, TypeOK, Live, Final
    <3>2. keyOf[i] \in Keys /\ active[keyOf[i]] = i
      BY <3>1 DEF ManagerInv, ActiveIndexExact
    <3>3. QED
      BY <2>1, <3>1, <3>2 DEF ManagerInv, TypeOK
  <2>4. QED
    BY <2>2, <2>3 DEF ActiveIndexExact
<1>5. HistorySound'
  <2>1. /\ history' = Prepended(j)
        /\ status' = [status EXCEPT ![j] = outcome]
        /\ ctxDone' = [ctxDone EXCEPT ![j] = TRUE]
    BY DEF Retire
  <2>2. \A i \in 1..Len(history) : history[i] \in Jobs /\ history[i] # j
    BY <1>2 DEF ManagerInv, TypeOK, HistorySound, Live, Final
  <2>3. ASSUME NEW i \in 1..Len(history')
        PROVE  status'[history'[i]] \in Final /\ ctxDone'[history'[i]]
    <3>1. CASE i = 1
      BY <1>1, <2>1, <3>1 DEF ManagerInv, TypeOK
    <3>2. CASE i # 1
      <4>1. i \in 2..Len(Prepended(j)) /\ i - 1 \in 1..Len(history)
        BY <1>1, <2>1, <3>2 DEF ManagerInv, TypeOK
      <4>2. QED
        BY <1>1, <2>1, <2>2, <4>1 DEF ManagerInv, TypeOK, HistorySound
    <3>3. QED
      BY <3>1, <3>2
  <2>4. ASSUME NEW i \in 1..Len(history'), NEW m \in 1..Len(history'),
               history'[i] = history'[m]
        PROVE  i = m
    <3>1. /\ Len(history) \in Nat
          /\ \A n \in 1..Len(history') :
               n # 1 => /\ n \in 2..Len(Prepended(j))
                        /\ n - 1 \in 1..Len(history)
      BY <1>1, <2>1 DEF ManagerInv, TypeOK
    <3>2. QED
      BY <1>1, <2>1, <2>2, <2>4, <3>1 DEF ManagerInv, HistorySound
  <2>5. QED
    BY <1>1, <2>1, <2>3, <2>4 DEF HistorySound
<1>6. QED
  BY <1>3, <1>4, <1>5 DEF ManagerInv
\* Every step of the manager keeps its invariant.
LEMMA ManagerStep ==
  ASSUME ManagerInv, [ManagerNext]_managerVars
  PROVE  ManagerInv'
<1> USE JobManagerAssumption DEF ManagerInv
<1>1. ASSUME NEW j \in Jobs, NEW k \in Keys, Submit(j, k)
      PROVE  ManagerInv'
  <2>1. TypeOK'
    BY <1>1 DEF TypeOK, Submit, Live, Final
  <2>2. ActiveIndexExact'
    <3>1. \A q \in Keys : active[q] # j
      BY <1>1 DEF TypeOK, ActiveIndexExact, IsActive, Live, Submit
    <3>2. QED
      BY <1>1, <3>1 DEF TypeOK, ActiveIndexExact, Submit, IsActive, Live
  <2>3. HistorySound'
    <3>1. \A i \in 1..Len(history) : history[i] \in Jobs /\ history[i] # j
      BY <1>1 DEF TypeOK, HistorySound, Submit, Final
    <3>2. QED
      BY <1>1, <3>1 DEF TypeOK, HistorySound, Submit
  <2>4. QED
    BY <2>1, <2>2, <2>3
<1>2. ASSUME NEW j \in Jobs, SetRunning(j)
      PROVE  ManagerInv'
  <2>1. TypeOK'
    BY <1>2 DEF TypeOK, SetRunning, Live
  <2>2. ActiveIndexExact'
    BY <1>2 DEF TypeOK, ActiveIndexExact, SetRunning, ActiveJobs, IsActive, Live
  <2>3. HistorySound'
    <3>1. j \in ActiveJobs => status[j] \in Live
      BY DEF ActiveJobs, ActiveIndexExact
    <3>2. \A i \in 1..Len(history) : history[i] \in Jobs
      BY DEF TypeOK
    <3>3. QED
      BY <1>2, <3>1, <3>2 DEF TypeOK, HistorySound, SetRunning, Live, Final
  <2>4. QED
    BY <2>1, <2>2, <2>3
<1>3. ASSUME NEW k \in Keys, NEW failed \in BOOLEAN, Complete(k, failed)
      PROVE  ManagerInv'
  <2>1. CASE IsActive(k) /\ Retire(active[k], k, Outcome(active[k], failed))
    <3>1. active[k] \in Jobs /\ Outcome(active[k], failed) \in Final
      BY <2>1 DEF TypeOK, IsActive, Outcome, Final
    <3>2. QED
      BY <2>1, <3>1, RetireInv
  <2>2. CASE UNCHANGED managerVars
    BY <2>2 DEF managerVars, TypeOK, ActiveIndexExact, HistorySound, IsActive
  <2>3. QED
    BY <1>3, <2>1, <2>2 DEF Complete
<1>4. ASSUME NEW j \in Jobs, Cancel(j)
      PROVE  ManagerInv'
  BY <1>4, RetireInv DEF Cancel, Final
<1>5. ASSUME NEW j \in Jobs, CtxTimeout(j)
      PROVE  ManagerInv'
  <2>1. TypeOK' /\ ActiveIndexExact'
    BY <1>5 DEF CtxTimeout, TypeOK, ActiveIndexExact, IsActive
  <2>2. HistorySound'
    BY <1>5 DEF CtxTimeout, TypeOK, HistorySound
  <2>3. QED
    BY <2>1, <2>2
<1>6. CASE UNCHANGED managerVars
  BY <1>6 DEF managerVars, TypeOK, ActiveIndexExact, HistorySound, IsActive
<1>7. QED
  BY <1>1, <1>2, <1>3, <1>4, <1>5, <1>6 DEF ManagerNext

\* A new manager has no jobs.
LEMMA ManagerStart == NewManager => ManagerInv
BY JobManagerAssumption
   DEF NewManager, ManagerInv, TypeOK, ActiveIndexExact, HistorySound, IsActive, Live

\* The manager's state is well typed, its active map and the job statuses
\* agree, and its history is bounded, free of duplicates and final - whatever
\* its callers do.
THEOREM ManagerCorrect == ManagerSpec => []ManagerInv
BY ManagerStart, ManagerStep, PTL DEF ManagerSpec

\* Every map, list and status of the manager has its type.
THEOREM TypeCorrect == ManagerSpec => []TypeOK
<1>1. ManagerInv => TypeOK
  BY DEF ManagerInv
<1>2. QED
  BY <1>1, ManagerCorrect, PTL

\* The active map holds exactly the jobs that are active, each under its key.
THEOREM ActiveIndexIsExact == ManagerSpec => []ActiveIndexExact
<1>1. ManagerInv => ActiveIndexExact
  BY DEF ManagerInv
<1>2. QED
  BY <1>1, ManagerCorrect, PTL

\* The history is within its limit and has no job twice or still active.
THEOREM HistoryIsSound == ManagerSpec => []HistorySound
<1>1. ManagerInv => HistorySound
  BY DEF ManagerInv
<1>2. QED
  BY <1>1, ManagerCorrect, PTL

-----------------------------------------------------------------------------
\* Retiring a live job is the end of its life; nothing else happens to it.
LEMMA RetireEnds ==
  ASSUME ManagerInv, NEW k \in Keys, IsActive(k), NEW outcome \in Final,
         Retire(active[k], k, outcome)
  PROVE  Lifecycle!End(active[k], outcome)
BY DEF ManagerInv, ActiveIndexExact, Retire, Live, Lifecycle!End, Lifecycle!Live

\* Every step of the manager is a lifecycle step of one job, or leaves every
\* job where it is.
LEMMA StepImplementsLifecycle ==
  ASSUME ManagerInv, [ManagerNext]_managerVars
  PROVE  [Lifecycle!LifecycleNext]_(Lifecycle!lifecycleVars)
<1> USE JobManagerAssumption DEF Lifecycle!LifecycleNext
<1>1. ASSUME NEW j \in Jobs, NEW k \in Keys, Submit(j, k)
      PROVE  Lifecycle!Begin(j, k)
  <2>1. Lifecycle!LiveFor(k) = {}
    BY <1>1 DEF ManagerInv, ActiveIndexExact, Submit, IsActive, Live,
                Lifecycle!LiveFor, Lifecycle!Live
  <2>2. QED
    BY <1>1, <2>1 DEF Submit, Lifecycle!Begin
<1>2. ASSUME NEW j \in Jobs, SetRunning(j)
      PROVE  Lifecycle!Start(j) \/ UNCHANGED Lifecycle!lifecycleVars
  BY <1>2 DEF ManagerInv, ActiveIndexExact, SetRunning, ActiveJobs, IsActive, Live,
              Lifecycle!Start, Lifecycle!Live, Lifecycle!lifecycleVars
<1>3. ASSUME NEW k \in Keys, NEW failed \in BOOLEAN, Complete(k, failed)
      PROVE  \/ \E j \in Jobs, outcome \in Lifecycle!Final : Lifecycle!End(j, outcome)
             \/ UNCHANGED Lifecycle!lifecycleVars
  <2>1. CASE IsActive(k) /\ Retire(active[k], k, Outcome(active[k], failed))
    <3>1. active[k] \in Jobs /\ Outcome(active[k], failed) \in Final
      BY <2>1 DEF ManagerInv, TypeOK, IsActive, Outcome, Final
    <3>2. QED
      BY <2>1, <3>1, RetireEnds DEF Final, Lifecycle!Final
  <2>2. CASE UNCHANGED managerVars
    BY <2>2 DEF managerVars, Lifecycle!lifecycleVars
  <2>3. QED
    BY <1>3, <2>1, <2>2 DEF Complete
<1>4. ASSUME NEW j \in Jobs, Cancel(j)
      PROVE  \E outcome \in Lifecycle!Final : Lifecycle!End(j, outcome)
  <2>1. PICK k \in Keys : active[k] = j /\ Retire(j, k, "cancelled")
    BY <1>4 DEF Cancel
  <2>2. IsActive(k) /\ "cancelled" \in Final
    BY <2>1 DEF IsActive, Final
  <2>3. QED
    BY <2>1, <2>2, RetireEnds DEF Final, Lifecycle!Final
<1>5. ASSUME NEW j \in Jobs, CtxTimeout(j)
      PROVE  UNCHANGED Lifecycle!lifecycleVars
  BY <1>5 DEF CtxTimeout, Lifecycle!lifecycleVars
<1>6. CASE UNCHANGED managerVars
  BY <1>6 DEF managerVars, Lifecycle!lifecycleVars
<1>7. QED
  BY <1>1, <1>2, <1>3, <1>4, <1>5, <1>6 DEF ManagerNext

\* The job manager implements the lifecycle its callers rely on: a job begins
\* only for a key without a live job, and ends once and for good.
THEOREM ManagerImplementsLifecycle == ManagerSpec => ImplementsLifecycle
<1>1. NewManager => Lifecycle!LifecycleInit
  BY DEF NewManager, Lifecycle!LifecycleInit
<1>2. QED
  BY <1>1, StepImplementsLifecycle, ManagerCorrect, PTL
     DEF ManagerSpec, ImplementsLifecycle, Lifecycle!LifecycleSpec

-----------------------------------------------------------------------------
(* The goroutines, handlers and main that use it.                          *)

\* The system's invariant contains the manager's.
LEMMA TranscodeInvSplit == TranscodeInv => ManagerInv
BY DEF TranscodeInv, TranscodeTypeOK, ManagerInv

\* The shared part of giving up, reporting and cancelling: whoever retires a
\* job, and whichever goroutine is done with it.
LEMMA RetireKeepsWorkers ==
  ASSUME TranscodeInv, NEW k \in Keys, IsActive(k), NEW outcome \in Final,
         Retire(active[k], k, outcome),
         NEW i \in Jobs, worker' = worker \/ (Goto(i, "done") /\ keyOf[i] = k /\ worker[i] \in Busy)
  PROVE  NoStrandedJob' /\ LiveWorkerIsActive' /\ WorkerMatchesJob'
<1> USE JobManagerAssumption
<1>1. /\ active \in [Keys -> Jobs \cup {NoJob}]
      /\ worker \in [Jobs -> {"none", "done"} \cup Busy]
      /\ status \in [Jobs -> {"new"} \cup Live \cup Final]
      /\ ctxDone \in [Jobs -> BOOLEAN]
  BY DEF TranscodeInv, TranscodeTypeOK, TypeOK
<1>2. /\ active[k] \in Jobs
      /\ active' = [active EXCEPT ![k] = NoJob]
      /\ ctxDone' = [ctxDone EXCEPT ![active[k]] = TRUE]
      /\ status' = [status EXCEPT ![active[k]] = outcome]
      /\ keyOf' = keyOf
  BY <1>1 DEF Retire, IsActive
<1>3. /\ status[active[k]] \in Live
      /\ keyOf[active[k]] = k
  BY DEF TranscodeInv, ActiveIndexExact
<1>4. NoStrandedJob'
  <2>1. ASSUME NEW q \in Keys, IsActive(q)'
        PROVE  worker'[active'[q]] \in Busy
    <3>1. q # k /\ active'[q] = active[q] /\ IsActive(q)
      BY <1>1, <1>2, <2>1 DEF IsActive
    <3>2. keyOf[active[q]] = q /\ worker[active[q]] \in Busy
      BY <3>1 DEF TranscodeInv, NoStrandedJob, ActiveIndexExact
    <3>3. active[q] \in Jobs
      BY <1>1, <3>1 DEF IsActive
    <3>4. QED
      BY <1>1, <3>1, <3>2, <3>3 DEF Goto
  <2>2. QED
    BY <2>1 DEF NoStrandedJob
<1>5. LiveWorkerIsActive'
  <2>1. ASSUME NEW j \in Jobs, worker'[j] \in Busy, ~ctxDone'[j]
        PROVE  active'[keyOf'[j]] = j
    <3>1. worker[j] \in Busy
      BY <1>1, <2>1 DEF Goto, Busy
    <3>2. j # active[k] /\ ~ctxDone[j]
      BY <1>1, <1>2, <2>1
    <3>3. active[keyOf[j]] = j /\ keyOf[j] \in Keys
      BY <3>1, <3>2 DEF TranscodeInv, LiveWorkerIsActive, WorkerMatchesJob, Busy
    <3>4. QED
      BY <1>1, <1>2, <3>2, <3>3
  <2>2. QED
    BY <2>1 DEF LiveWorkerIsActive
<1>6. WorkerMatchesJob'
  BY <1>1, <1>2, <1>3
     DEF TranscodeInv, WorkerMatchesJob, Goto, Busy, Live, Final
<1>7. QED
  BY <1>4, <1>5, <1>6

\* Complete by a goroutine that is then done, as WorkerGivesUp and
\* WorkerReports do.
LEMMA ReportKeepsWorkers ==
  ASSUME TranscodeInv, NEW i \in Jobs, worker[i] \in Busy, NEW failed \in BOOLEAN,
         Complete(keyOf[i], failed), Goto(i, "done")
  PROVE  NoStrandedJob' /\ LiveWorkerIsActive' /\ WorkerMatchesJob'
<1> USE JobManagerAssumption
<1>1. keyOf[i] \in Keys
  BY DEF TranscodeInv, WorkerMatchesJob, Busy
<1>2. CASE IsActive(keyOf[i])
  <2>1. Retire(active[keyOf[i]], keyOf[i], Outcome(active[keyOf[i]], failed))
    BY <1>2 DEF Complete
  <2>2. Outcome(active[keyOf[i]], failed) \in Final
    BY DEF Outcome, Final
  <2>3. QED
    BY <1>1, <1>2, <2>1, <2>2, RetireKeepsWorkers
<1>3. CASE ~IsActive(keyOf[i])
  <2>1. UNCHANGED managerVars
    BY <1>3 DEF Complete
  <2>2. worker \in [Jobs -> {"none", "done"} \cup Busy]
    BY DEF TranscodeInv, TranscodeTypeOK
  <2>3. \A k \in Keys : IsActive(k) => active[k] # i
    BY <1>3 DEF TranscodeInv, ActiveIndexExact
  <2>4. NoStrandedJob'
    BY <2>1, <2>2, <2>3
       DEF TranscodeInv, TranscodeTypeOK, TypeOK, NoStrandedJob, IsActive, Goto, managerVars
  <2>5. LiveWorkerIsActive' /\ WorkerMatchesJob'
    BY <2>1, <2>2
       DEF TranscodeInv, LiveWorkerIsActive, WorkerMatchesJob, Goto, Busy, managerVars
  <2>6. QED
    BY <2>4, <2>5
<1>4. QED
  BY <1>2, <1>3

\* A change of disk, process phase or launch count disturbs none of it.
LEMMA UnrelatedKeepsWorkers ==
  ASSUME TranscodeInv, UNCHANGED <<managerVars, worker>>
  PROVE  NoStrandedJob' /\ LiveWorkerIsActive' /\ WorkerMatchesJob'
BY DEF TranscodeInv, NoStrandedJob, LiveWorkerIsActive, WorkerMatchesJob, IsActive, managerVars

\* Neither does a goroutine that goes from one busy place to another.
LEMMA BusyKeepsWorkers ==
  ASSUME TranscodeInv, NEW j \in Jobs, worker[j] \in Busy, NEW pc \in Busy,
         Goto(j, pc), UNCHANGED managerVars
  PROVE  NoStrandedJob' /\ LiveWorkerIsActive' /\ WorkerMatchesJob'
<1>1. /\ worker \in [Jobs -> {"none", "done"} \cup Busy]
      /\ active \in [Keys -> Jobs \cup {NoJob}]
  BY DEF TranscodeInv, TranscodeTypeOK, TypeOK
<1>2. worker' = [worker EXCEPT ![j] = pc]
  BY DEF Goto
<1>3. NoStrandedJob'
  BY <1>1, <1>2 DEF TranscodeInv, NoStrandedJob, IsActive, managerVars
<1>4. LiveWorkerIsActive'
  BY <1>1, <1>2 DEF TranscodeInv, LiveWorkerIsActive, managerVars
<1>5. WorkerMatchesJob'
  BY <1>1, <1>2 DEF TranscodeInv, WorkerMatchesJob, managerVars, Busy
<1>6. QED
  BY <1>3, <1>4, <1>5

\* Every step of the whole is a step of the job manager, or none of its.
LEMMA StepIsManagerStep ==
  ASSUME TranscodeInv, [Next]_vars
  PROVE  [ManagerNext]_managerVars
<1>1. ASSUME NEW j \in Jobs, WorkerStep(j)
      PROVE  [ManagerNext]_managerVars
  <2>1. worker[j] # "none" => keyOf[j] \in Keys
    BY DEF TranscodeInv, WorkerMatchesJob
  <2>2. QED
    BY <1>1, <2>1 DEF WorkerStep, WorkerBegins, WorkerNextProfile, WorkerGivesUp,
                      WorkerStarts, WorkerRuns, WorkerReports, ManagerNext
<1>2. ASSUME NEW j \in Jobs,
             FfmpegExits(j) \/ FfmpegFails(j) \/ CancelJob(j)
             \/ ContextExpires(j) \/ ShutdownCancels(j)
      PROVE  [ManagerNext]_managerVars
  BY <1>2 DEF FfmpegExits, FfmpegFails, CancelJob, ContextExpires, ShutdownCancels, ManagerNext
<1>3. ASSUME NEW k \in Keys,
             RequestManifest(k) \/ Transcode(k) \/ DeleteCheck(k) \/ DeleteRemove(k)
      PROVE  [ManagerNext]_managerVars
  BY <1>3 DEF RequestManifest, Transcode, DeleteCheck, DeleteRemove, ManagerNext
<1>4. CASE ShutdownLists \/ ShutdownStops \/ ProcessExits
  BY <1>4 DEF ShutdownLists, ShutdownStops, ProcessExits
<1>5. CASE UNCHANGED vars
  BY <1>5 DEF vars
<1>6. QED
  BY <1>1, <1>2, <1>3, <1>4, <1>5 DEF Next

\* The types of what the goroutines, the disk and the process add, and the
\* loop over the profiles.
LEMMA TranscodeTypeStep ==
  ASSUME TranscodeInv, [Next]_vars
  PROVE  TranscodeTypeOK' /\ ProfilesLeft'
<1> DEFINE Added == /\ launches \in [Keys -> 0..MaxLaunch]
                    /\ worker \in [Jobs -> {"none", "done"} \cup Busy]
                    /\ encoded \in [Jobs -> 0..NProfiles]
                    /\ dir \in [Keys -> BOOLEAN]
                    /\ deleting \subseteq Keys
                    /\ phase \in {"up", "cancelling", "stopping", "exited"}
                    /\ toCancel \subseteq Jobs
                    /\ ProfilesLeft
<1> USE TranscodeAssumption
<1>1. Added
  BY DEF TranscodeInv, TranscodeTypeOK
<1>2. ASSUME NEW j \in Jobs, WorkerStep(j)
      PROVE  Added'
  <2>1. worker[j] # "none" => keyOf[j] \in Keys
    BY DEF TranscodeInv, WorkerMatchesJob
  <2>2. CASE WorkerBegins(j)
    BY <1>1, <2>2 DEF WorkerBegins, Goto, Busy, diskVars, processVars, ProfilesLeft
  <2>3. CASE WorkerNextProfile(j)
    BY <1>1, <2>1, <2>3 DEF WorkerNextProfile, Goto, Busy, processVars, ProfilesLeft
  <2>4. CASE WorkerGivesUp(j)
    BY <1>1, <2>4 DEF WorkerGivesUp, Goto, Busy, diskVars, processVars, ProfilesLeft
  <2>5. CASE WorkerStarts(j) \/ WorkerRuns(j)
    BY <1>1, <2>5 DEF WorkerStarts, WorkerRuns, Goto, Busy, diskVars, processVars, ProfilesLeft
  <2>6. CASE WorkerReports(j)
    BY <1>1, <2>6 DEF WorkerReports, Goto, Busy, diskVars, processVars, ProfilesLeft
  <2>7. QED
    BY <1>2, <2>2, <2>3, <2>4, <2>5, <2>6 DEF WorkerStep
<1>3. ASSUME NEW j \in Jobs, FfmpegExits(j) \/ FfmpegFails(j)
      PROVE  Added'
  <2>1. encoded[j] < NProfiles /\ encoded[j] \in Nat
    BY <1>1, <1>3 DEF FfmpegExits, FfmpegFails, ProfilesLeft
  <2>2. QED
    BY <1>1, <1>3, <2>1
       DEF FfmpegExits, FfmpegFails, Goto, Busy, diskVars, processVars, ProfilesLeft
<1>4. ASSUME NEW k \in Keys,
             RequestManifest(k) \/ Transcode(k) \/ DeleteCheck(k) \/ DeleteRemove(k)
      PROVE  Added'
  <2>1. CASE RequestManifest(k)
    BY <1>1, <2>1 DEF RequestManifest, workVars, diskVars, processVars, ProfilesLeft
  <2>2. CASE Transcode(k)
    <3>1. launches' \in [Keys -> 0..MaxLaunch]
      BY <1>1, <2>2 DEF Transcode
    <3>2. QED
      BY <1>1, <2>2, <3>1 DEF Transcode, Goto, Busy, diskVars, processVars, ProfilesLeft
  <2>3. CASE DeleteCheck(k) \/ DeleteRemove(k)
    BY <1>1, <2>3 DEF DeleteCheck, DeleteRemove, workVars, processVars, ProfilesLeft
  <2>4. QED
    BY <1>4, <2>1, <2>2, <2>3
<1>5. Listed \subseteq Jobs
  BY JobManagerAssumption
     DEF TranscodeInv, TranscodeTypeOK, TypeOK, Listed, ActiveJobs, IsActive
<1>6. ASSUME NEW j \in Jobs, CancelJob(j) \/ ContextExpires(j) \/ ShutdownCancels(j)
      PROVE  Added'
  BY <1>1, <1>6 DEF CancelJob, ContextExpires, ShutdownCancels,
                    workVars, diskVars, processVars, ProfilesLeft
<1>7. ASSUME ShutdownLists \/ ShutdownStops \/ ProcessExits
      PROVE  Added'
  BY <1>1, <1>5, <1>7 DEF ShutdownLists, ShutdownStops, ProcessExits,
                          workVars, diskVars, ProfilesLeft
<1>8. ASSUME UNCHANGED vars
      PROVE  Added'
  BY <1>1, <1>8 DEF vars, workVars, diskVars, processVars, ProfilesLeft
<1>9. Added'
  <2> HIDE DEF Added
  <2> QED
    BY <1>2, <1>3, <1>4, <1>6, <1>7, <1>8 DEF Next
<1>10. TypeOK'
  BY StepIsManagerStep, ManagerStep, TranscodeInvSplit DEF ManagerInv
<1>11. QED
  BY <1>9, <1>10 DEF TranscodeTypeOK

\* Every step keeps the invariant.
LEMMA TranscodeStep ==
  ASSUME TranscodeInv, [Next]_vars
  PROVE  TranscodeInv'
<1> DEFINE Workers == NoStrandedJob /\ LiveWorkerIsActive /\ WorkerMatchesJob
<1>1. ManagerInv'
  BY StepIsManagerStep, ManagerStep, TranscodeInvSplit
<1>2. TranscodeTypeOK' /\ ProfilesLeft'
  BY TranscodeTypeStep
<1>3. ASSUME NEW k \in Keys, Transcode(k)
      PROVE  Workers'
  <2>1. CASE UNCHANGED <<managerVars, worker>>
    BY <2>1, UnrelatedKeepsWorkers
  <2>2. ASSUME NEW j \in Jobs, Submit(j, k), Goto(j, "spawned")
        PROVE  Workers'
    <3>1. /\ worker \in [Jobs -> {"none", "done"} \cup Busy]
          /\ active \in [Keys -> Jobs \cup {NoJob}]
          /\ status \in [Jobs -> {"new"} \cup Live \cup Final]
          /\ keyOf \in [Jobs -> Keys \cup {NoKey}]
      BY DEF TranscodeInv, TranscodeTypeOK, TypeOK
    <3>2. worker[j] = "none" /\ ~IsActive(k)
      BY <2>2 DEF TranscodeInv, WorkerMatchesJob, Submit
    <3>3. NoStrandedJob'
      BY <2>2, <3>1, <3>2
         DEF TranscodeInv, NoStrandedJob, IsActive, Submit, Goto, Busy
    <3>4. LiveWorkerIsActive'
      <4>1. ASSUME NEW i \in Jobs, i # j, worker[i] \in Busy, ~ctxDone[i]
            PROVE  keyOf[i] # k /\ keyOf[i] \in Keys /\ active[keyOf[i]] = i
        BY <3>2, <4>1, JobManagerAssumption
           DEF TranscodeInv, LiveWorkerIsActive, WorkerMatchesJob, IsActive, Busy
      <4>2. QED
        BY <2>2, <3>1, <4>1 DEF LiveWorkerIsActive, Submit, Goto
    <3>5. WorkerMatchesJob'
      BY <2>2, <3>1 DEF TranscodeInv, WorkerMatchesJob, Submit, Goto
    <3>6. QED
      BY <3>3, <3>4, <3>5
  <2>3. QED
    BY <1>3, <2>1, <2>2 DEF Transcode
<1>4. ASSUME NEW j \in Jobs, WorkerStep(j)
      PROVE  Workers'
  <2>1. CASE WorkerBegins(j)
    <3>1. /\ worker \in [Jobs -> {"none", "done"} \cup Busy]
          /\ status \in [Jobs -> {"new"} \cup Live \cup Final]
      BY DEF TranscodeInv, TranscodeTypeOK, TypeOK
    <3>2. NoStrandedJob' /\ LiveWorkerIsActive'
      BY <2>1, <3>1 DEF TranscodeInv, NoStrandedJob, LiveWorkerIsActive, IsActive,
                        WorkerBegins, SetRunning, Goto, Busy
    <3>3. WorkerMatchesJob'
      BY <2>1, <3>1 DEF TranscodeInv, WorkerMatchesJob, WorkerBegins, SetRunning, Goto
    <3>4. QED
      BY <3>2, <3>3
  <2>2. CASE WorkerNextProfile(j)
    BY <2>2, BusyKeepsWorkers DEF WorkerNextProfile, Busy
  <2>3. CASE WorkerGivesUp(j)
    BY <2>3, ReportKeepsWorkers DEF WorkerGivesUp, Busy
  <2>4. CASE WorkerStarts(j) \/ WorkerRuns(j)
    BY <2>4, BusyKeepsWorkers DEF WorkerStarts, WorkerRuns, Busy
  <2>5. CASE WorkerReports(j)
    BY <2>5, ReportKeepsWorkers DEF WorkerReports, Busy
  <2>6. QED
    BY <1>4, <2>1, <2>2, <2>3, <2>4, <2>5 DEF WorkerStep
<1>5. ASSUME NEW j \in Jobs, FfmpegExits(j) \/ FfmpegFails(j)
      PROVE  Workers'
  BY <1>5, BusyKeepsWorkers DEF FfmpegExits, FfmpegFails, Busy
<1>6. ASSUME NEW j \in Jobs, Cancel(j), UNCHANGED worker
      PROVE  Workers'
  <2>1. PICK k \in Keys : active[k] = j /\ Retire(j, k, "cancelled")
    BY <1>6 DEF Cancel
  <2>2. IsActive(k) /\ "cancelled" \in Final
    BY <2>1, JobManagerAssumption DEF IsActive, Final
  <2>3. QED
    BY <1>6, <2>1, <2>2, RetireKeepsWorkers
<1>7. ASSUME NEW j \in Jobs, CancelJob(j) \/ ShutdownCancels(j)
      PROVE  Workers'
  BY <1>6, <1>7, UnrelatedKeepsWorkers DEF CancelJob, ShutdownCancels, workVars
<1>8. ASSUME NEW j \in Jobs, ContextExpires(j)
      PROVE  Workers'
  BY <1>8 DEF TranscodeInv, TranscodeTypeOK, TypeOK, NoStrandedJob, LiveWorkerIsActive,
              WorkerMatchesJob, IsActive, ContextExpires, CtxTimeout, workVars
<1>9. ASSUME NEW k \in Keys, RequestManifest(k) \/ DeleteCheck(k) \/ DeleteRemove(k)
      PROVE  Workers'
  BY <1>9, UnrelatedKeepsWorkers DEF RequestManifest, DeleteCheck, DeleteRemove, workVars
<1>10. ASSUME ShutdownLists \/ ShutdownStops \/ ProcessExits
       PROVE  Workers'
  BY <1>10, UnrelatedKeepsWorkers DEF ShutdownLists, ShutdownStops, ProcessExits, workVars
<1>11. ASSUME UNCHANGED vars
       PROVE  Workers'
  BY <1>11, UnrelatedKeepsWorkers DEF vars, workVars
<1>12. Workers'
  <2> HIDE DEF Workers
  <2> QED
    BY <1>3, <1>4, <1>5, <1>7, <1>8, <1>9, <1>10, <1>11 DEF Next
<1>13. QED
  BY <1>1, <1>2, <1>12 DEF TranscodeInv, ManagerInv

\* There are no jobs and no goroutines at the start.
LEMMA TranscodeStart == Init => TranscodeInv
BY JobManagerAssumption, TranscodeAssumption, ManagerStart
   DEF Init, NewManager, TranscodeInv, TranscodeTypeOK, ManagerInv, NoStrandedJob,
       LiveWorkerIsActive, WorkerMatchesJob, ProfilesLeft, IsActive, Busy

\* The transcoder's invariant: no stranded job, no second live goroutine.
THEOREM TranscodeCorrect == Spec => []TranscodeInv
BY TranscodeStart, TranscodeStep, PTL DEF Spec

\* Whatever is cancelled, timed out, deleted or shut down, a job that is
\* active has a goroutine that has yet to call Complete.
THEOREM NoJobIsStranded == Spec => []NoStrandedJob
<1>1. TranscodeInv => NoStrandedJob
  BY DEF TranscodeInv
<1>2. QED
  BY <1>1, TranscodeCorrect, PTL

\* Whatever the order of requests and cancellations, a key never has two
\* goroutines whose contexts are both not done.
THEOREM OneLiveWorker == Spec => []OneLiveWorkerPerKey
<1>1. TranscodeInv => OneLiveWorkerPerKey
  BY DEF TranscodeInv, LiveWorkerIsActive, OneLiveWorkerPerKey
<1>2. QED
  BY <1>1, TranscodeCorrect, PTL

\* The transcoder uses the job manager as the manager allows, so that what
\* is proved of the manager for arbitrary callers holds for this one.
THEOREM TranscodeUsesManager == Spec => ManagerSpec
<1>1. Init => NewManager
  BY DEF Init
<1>2. QED
  BY <1>1, StepIsManagerStep, TranscodeCorrect, PTL DEF Spec, ManagerSpec
=============================================================================
