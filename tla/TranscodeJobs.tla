---------------------------- MODULE TranscodeJobs ----------------------------
(***************************************************************************)
(* pkg/stream/stream.go over pkg/tasks: HTTP handlers launch, list, cancel *)
(* and delete transcodes; every accepted job has a goroutine that runs one *)
(* ffmpeg per profile and then reports to the job manager BY KEY; main     *)
(* cancels what it lists as active when the process is told to stop.       *)
(*                                                                         *)
(* A goroutine's step is what it does between two points where others can  *)
(* interfere: a call of the job manager, the start or the exit of ffmpeg,  *)
(* a change of the output directory.  ffmpeg itself is external: it may    *)
(* exit well, fail, or run until its context is done and be killed.        *)
(***************************************************************************)
EXTENDS JobManager

CONSTANTS
  NProfiles,  \* length of the profile list the handlers ask for
  MaxLaunch   \* bound: `go Transcode` goroutines of a key not yet at Submit

ASSUME TranscodeAssumption ==
  /\ NProfiles \in Nat \ {0}
  /\ MaxLaunch \in Nat \ {0}

VARIABLES
  launches,  \* launches[k]: `go Transcode` goroutines that have yet to Submit
  worker,    \* worker[j]: where the goroutine of job j is
  encoded,   \* encoded[j]: profiles job j's goroutine has transcoded
  dir,       \* dir[k]: the output directory of k exists
  deleting,  \* keys whose delete handler has seen them inactive
  phase,     \* the process: "up", "cancelling", "stopping", "exited"
  toCancel   \* jobs main listed and has yet to cancel

diskVars == <<dir, deleting>>
processVars == <<phase, toCancel>>
workVars == <<worker, encoded>>
vars == <<managerVars, launches, workVars, diskVars, processVars>>

\* A goroutine that will still call Complete.
Busy == {"spawned", "loop", "exec", "starting", "ffmpeg", "broken"}

TranscodeTypeOK ==
  /\ TypeOK
  /\ launches \in [Keys -> 0..MaxLaunch]
  /\ worker \in [Jobs -> {"none", "done"} \cup Busy]
  /\ encoded \in [Jobs -> 0..NProfiles]
  /\ dir \in [Keys -> BOOLEAN]
  /\ deleting \subseteq Keys
  /\ phase \in {"up", "cancelling", "stopping", "exited"}
  /\ toCancel \subseteq Jobs

\* A process starts with an empty job manager; the disk is as the last
\* process left it.
Init ==
  /\ NewManager
  /\ launches = [k \in Keys |-> 0]
  /\ worker = [j \in Jobs |-> "none"]
  /\ encoded = [j \in Jobs |-> 0]
  /\ dir \in [Keys -> BOOLEAN]
  /\ deleting = {}
  /\ phase = "up"
  /\ toCancel = {}

Alive == phase # "exited"
Serving == phase \in {"up", "cancelling"}

Goto(j, pc) == worker' = [worker EXCEPT ![j] = pc]

-----------------------------------------------------------------------------
\* handleHLSMaster and handleDASHManifest: a missing output directory starts a
\* transcode.  The HLS handler then polls the disk, which changes nothing.
RequestManifest(k) ==
  /\ Serving
  /\ ~dir[k]
  /\ launches[k] < MaxLaunch
  /\ launches' = [launches EXCEPT ![k] = @ + 1]
  /\ UNCHANGED <<managerVars, workVars, diskVars, processVars>>

\* Transcode up to `go func`: the item is unknown or has no path, or the key
\* has a job, or a job is submitted and its goroutine started.
Transcode(k) ==
  /\ Alive
  /\ launches[k] > 0
  /\ launches' = [launches EXCEPT ![k] = @ - 1]
  /\ \/ /\ UNCHANGED <<managerVars, worker>>
     \/ \E j \in Jobs : Submit(j, k) /\ Goto(j, "spawned")
  /\ UNCHANGED <<encoded, diskVars, processVars>>

WorkerBegins(j) ==
  /\ Alive
  /\ worker[j] = "spawned"
  /\ SetRunning(j)
  /\ Goto(j, "loop")
  /\ UNCHANGED <<launches, encoded, diskVars, processVars>>

\* Mutated WorkerNextProfile: the loop runs once too often.
WorkerNextProfilePast(j) ==
  /\ Alive
  /\ worker[j] = "loop"
  /\ encoded[j] <= NProfiles
  /\ ~ctxDone[j]
  /\ dir' = [dir EXCEPT ![keyOf[j]] = TRUE]
  /\ Goto(j, "exec")
  /\ UNCHANGED <<managerVars, launches, encoded, deleting, processVars>>

\* The next profile: its directory is made, and the command is built.
WorkerNextProfile(j) ==
  /\ Alive
  /\ worker[j] = "loop"
  /\ encoded[j] < NProfiles
  /\ ~ctxDone[j]
  /\ dir' = [dir EXCEPT ![keyOf[j]] = TRUE]
  /\ Goto(j, "exec")
  /\ UNCHANGED <<managerVars, launches, encoded, deleting, processVars>>

\* Mutated WorkerGivesUp: it returns without telling the job manager.
WorkerGivesUpSilently(j) ==
  /\ Alive
  /\ worker[j] = "loop"
  /\ encoded[j] < NProfiles
  /\ ctxDone[j]
  /\ Goto(j, "done")
  /\ UNCHANGED <<managerVars, launches, encoded, diskVars, processVars>>

\* The context was found done between two profiles.
WorkerGivesUp(j) ==
  /\ Alive
  /\ worker[j] = "loop"
  /\ encoded[j] < NProfiles
  /\ ctxDone[j]
  /\ Complete(keyOf[j], FALSE)
  /\ Goto(j, "done")
  /\ UNCHANGED <<launches, encoded, diskVars, processVars>>

\* exec.CommandContext starts nothing once its context is done ...
WorkerStarts(j) ==
  /\ Alive
  /\ worker[j] = "exec"
  /\ Goto(j, IF ctxDone[j] THEN "broken" ELSE "starting")
  /\ UNCHANGED <<managerVars, launches, encoded, diskVars, processVars>>

\* ... but the context may be done by the time ffmpeg runs, which then is killed.
WorkerRuns(j) ==
  /\ Alive
  /\ worker[j] = "starting"
  /\ Goto(j, "ffmpeg")
  /\ UNCHANGED <<managerVars, launches, encoded, diskVars, processVars>>

\* ffmpeg exits well: on to the next profile.
FfmpegExits(j) ==
  /\ Alive
  /\ worker[j] = "ffmpeg"
  /\ encoded' = [encoded EXCEPT ![j] = @ + 1]
  /\ Goto(j, "loop")
  /\ UNCHANGED <<managerVars, launches, diskVars, processVars>>

\* ffmpeg exits with an error: the loop is left.
FfmpegFails(j) ==
  /\ Alive
  /\ worker[j] = "ffmpeg"
  /\ Goto(j, "broken")
  /\ UNCHANGED <<managerVars, launches, encoded, diskVars, processVars>>

\* The loop is over: the goroutine reports, for its key.
WorkerReports(j) ==
  /\ Alive
  /\ \/ /\ worker[j] = "loop"
        /\ encoded[j] = NProfiles
        /\ Complete(keyOf[j], FALSE)
     \/ /\ worker[j] = "broken"
        /\ Complete(keyOf[j], TRUE)
  /\ Goto(j, "done")
  /\ UNCHANGED <<launches, encoded, diskVars, processVars>>
-----------------------------------------------------------------------------
\* handleCancelJob of a job that is active; of another it answers 404.
CancelJob(j) ==
  /\ Serving
  /\ Cancel(j)
  /\ UNCHANGED <<launches, workVars, diskVars, processVars>>

\* The 30 minutes of the job's context have passed.
ContextExpires(j) ==
  /\ Alive
  /\ CtxTimeout(j)
  /\ UNCHANGED <<launches, workVars, diskVars, processVars>>

\* handleDeleteTranscode, first its IsActive check ...
DeleteCheck(k) ==
  /\ Serving
  /\ ~IsActive(k)
  /\ deleting' = deleting \cup {k}
  /\ UNCHANGED <<managerVars, launches, workVars, dir, processVars>>

\* ... and later os.RemoveAll, which may fail and leave the directory.
DeleteRemove(k) ==
  /\ Alive
  /\ k \in deleting
  /\ deleting' = deleting \ {k}
  /\ \/ dir' = [dir EXCEPT ![k] = FALSE]
     \/ UNCHANGED dir
  /\ UNCHANGED <<managerVars, launches, workVars, processVars>>

-----------------------------------------------------------------------------
\* main, on SIGINT or SIGTERM: JobManager().List() ...
ShutdownLists ==
  /\ phase = "up"
  /\ phase' = "cancelling"
  /\ toCancel' = Listed
  /\ UNCHANGED <<managerVars, launches, workVars, diskVars>>

\* ... Cancel for each job of the list, false for one that has ended ...
ShutdownCancels(j) ==
  /\ phase = "cancelling"
  /\ j \in toCancel
  /\ toCancel' = toCancel \ {j}
  /\ \/ Cancel(j)
     \/ j \notin ActiveJobs /\ UNCHANGED managerVars
  /\ UNCHANGED <<launches, workVars, diskVars, phase>>

\* ... "all active sessions cancelled", and the listener is closed.
ShutdownStops ==
  /\ phase = "cancelling"
  /\ toCancel = {}
  /\ phase' = "stopping"
  /\ UNCHANGED <<managerVars, launches, workVars, diskVars, toCancel>>

\* The handlers are done or their 10 seconds have passed: main returns, and
\* with it every goroutine.  ffmpeg is another process and is not stopped.
ProcessExits ==
  /\ phase = "stopping"
  /\ phase' = "exited"
  /\ UNCHANGED <<managerVars, launches, workVars, diskVars, toCancel>>

-----------------------------------------------------------------------------
WorkerStep(j) ==
  \/ WorkerBegins(j)
  \/ WorkerNextProfile(j)
  \/ WorkerGivesUp(j)
  \/ WorkerStarts(j)
  \/ WorkerRuns(j)
  \/ WorkerReports(j)

Next ==
  \/ \E k \in Keys : RequestManifest(k) \/ Transcode(k)
  \/ \E j \in Jobs : WorkerStep(j) \/ FfmpegExits(j) \/ FfmpegFails(j)
  \/ \E j \in Jobs : CancelJob(j) \/ ContextExpires(j)
  \/ \E k \in Keys : DeleteCheck(k) \/ DeleteRemove(k)
  \/ ShutdownLists
  \/ \E j \in Jobs : ShutdownCancels(j)
  \/ ShutdownStops
  \/ ProcessExits

Spec == Init /\ [][Next]_vars

\* Mutated Killed: the command is not bound to the job's context.
KilledNever(j) == FALSE

\* A runnable goroutine runs; the timer of a context fires; and ffmpeg dies
\* when it is killed, as exec.CommandContext does once the context is done.
\* Nothing is assumed of ffmpeg's own progress, of the handlers or of main.
Killed(j) == ctxDone[j] /\ FfmpegFails(j)

Fairness == \A j \in Jobs : /\ WF_vars(WorkerStep(j))
                            /\ WF_vars(ContextExpires(j))
                            /\ WF_vars(Killed(j))

FairSpec == Spec /\ Fairness

-----------------------------------------------------------------------------
\* No job is stranded: a job that is active has a goroutine that has yet to
\* report, so the key cannot stay taken for ever.  It takes both lookups -
\* Complete by key, Cancel by id - to agree for this to hold.
NoStrandedJob ==
  \A k \in Keys : IsActive(k) => worker[active[k]] \in Busy

\* Of all goroutines at work on a key - a cancelled one goes on until it
\* notices - at most one has a context that is not done: any other is on its
\* way out.
OneLiveWorkerPerKey ==
  \A i, j \in Jobs :
    /\ worker[i] \in Busy /\ worker[j] \in Busy
    /\ keyOf[i] = keyOf[j]
    /\ ~ctxDone[i] /\ ~ctxDone[j]
    => i = j

\* What keeps the two true: a goroutine whose context is not done runs the
\* job that is active for its key, and a job has a goroutine from the moment
\* it is submitted.
LiveWorkerIsActive ==
  \A j \in Jobs : worker[j] \in Busy /\ ~ctxDone[j] => active[keyOf[j]] = j

WorkerMatchesJob ==
  \A j \in Jobs : /\ worker[j] = "none" <=> status[j] = "new"
                  /\ worker[j] # "none" => keyOf[j] \in Keys

ProfilesLeft ==
  \A j \in Jobs : worker[j] \in {"exec", "starting", "ffmpeg"} => encoded[j] < NProfiles

TranscodeInv ==
  /\ TranscodeTypeOK
  /\ ActiveIndexExact
  /\ HistorySound
  /\ NoStrandedJob
  /\ LiveWorkerIsActive
  /\ WorkerMatchesJob
  /\ ProfilesLeft

\* A job that was accepted ends - whatever ffmpeg does - unless the process
\* exits first: tasks.go gives every job a context with a deadline.
EveryJobEnds ==
  \A j \in Jobs : status[j] \in Live ~> status[j] \in Final \/ phase = "exited"

\* Once a job is cancelled its goroutine winds up, ffmpeg with it.
CancelledWorkEnds ==
  \A j \in Jobs : ctxDone[j] ~> worker[j] = "done" \/ phase = "exited"

-----------------------------------------------------------------------------
\* Statements of the repository that the code does not keep.

\* stream.go:751, "refuses if job is active": a delete handler never removes
\* the directory of a key whose job is active.
DeleteRefusedWhenActive ==
  [][\A k \in Keys : k \in deleting /\ k \notin deleting' => ~IsActive(k)]_vars

\* stream.go:846, "Check cancellation between profiles": a goroutine winds up
\* its own job; a job is completed or failed by the goroutine that runs it.
JobEndedByItsWorker ==
  [][\A j \in Jobs : /\ status[j] \in Live
                     /\ status'[j] \in {"completed", "failed"}
                     => worker'[j] = "done"]_vars
=============================================================================
