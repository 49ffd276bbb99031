--------------------------- MODULE BatchEvaluation --------------------------
(***************************************************************************)
(* One batch test: the preview of its schedule, the process that runs the  *)
(* episodes (run_evaluation in evaluation/batch.py), and everybody who     *)
(* replaces evaluation.json besides that process: the dispatcher,          *)
(* stop_evaluation, the readers that synchronise it with its job, and      *)
(* delete_evaluation (services/offline_job_service.py).                    *)
(*                                                                         *)
(* The job's runner is the subject of OfflineJobRunner; here it is its     *)
(* status, whether it lives and whether it was told to stop.  It waits for *)
(* "conda run", which may die of the SIGTERM before the process it         *)
(* started (external: the code only sees the wrapper's exit).              *)
(***************************************************************************)
EXTENDS EvaluationSchedule

CONSTANTS
  MaxPreviewed,   \* bound: trials of the previewed schedules
  MaxStates,      \* bound: selected initial states
  MaxSeeds,       \* bound: seed_count of a request
  MaxLaunched,    \* bound: trials of a test that is started
  ErrorLimit,     \* consecutive_error_limit, fixed at 3 by the code
  NoRead,         \* no read-modify-write in progress
  Unread          \* a part of it not read yet

EvaluationAssumption ==
  /\ {MaxPreviewed, MaxStates, MaxSeeds, MaxLaunched} \subseteq Nat \ {0}
  /\ ErrorLimit \in Nat \ {0}

Active   == {"STARTING", "RUNNING", "STOPPING"}
Terminal == {"COMPLETED", "FAILED", "CANCELED"}
Open     == Active \cup {"QUEUED"}

(* evaluation.json: its status and how many trials it holds; "gone" once   *)
(* it is deleted.                                                          *)
Record == [status : Open \cup Terminal \cup {"gone"}, trials : Nat]
At(status, n) == [status |-> status, trials |-> n]

VARIABLES
  request,    \* the previewed request
  scheduled,  \* trials of the frozen schedule, 0 before the launch
  job,        \* status in job.json
  told,       \* the runner received SIGTERM
  alive,      \* the runner process
  stop,       \* the evaluation process received SIGTERM
  at,         \* program point of the evaluation process
  record,     \* the result it holds in memory
  errors,     \* consecutive_errors
  shared,     \* shared_env is not None
  envs,       \* simulator environments created and not closed
  exit,       \* whether the process returned 0
  file,       \* evaluation.json
  stopper,    \* stop_evaluation between reading and writing the file
  reader      \* _synchronize_evaluation between its reads and its write

procVars == <<stop, at, record, errors, shared, envs, exit>>
jobVars == <<job, told, alive>>
backendVars == <<stopper, reader>>
vars == <<request, scheduled, jobVars, procVars, file, backendVars>>
-----------------------------------------------------------------------------
Requests == [trials : 1..MaxPreviewed, states : 1..MaxStates, asked : 0..MaxSeeds]
Previewed(r) == Schedule(r.trials, r.states, SeedCount(r.trials, r.states, r.asked))

(* start_evaluation: the manifest is written QUEUED and the job registered. *)
Start ==
  /\ scheduled = 0 /\ request.trials <= MaxLaunched
  /\ scheduled' = request.trials
  /\ request' = [trials |-> 1, states |-> 1, asked |-> 0]
  /\ file' = At("QUEUED", 0)
  /\ job' = "QUEUED"
  /\ UNCHANGED <<told, alive, procVars, backendVars>>

(* The manifest is in place but registering the job raises.                *)
StartFails ==
  /\ scheduled = 0 /\ request.trials <= MaxLaunched
  /\ scheduled' = request.trials
  /\ file' = At("FAILED", 0)
  /\ job' = "FAILED"
  /\ UNCHANGED <<request, told, alive, procVars, backendVars>>

(* The dispatcher publishes STARTING in job.json and in evaluation.json    *)
(* and spawns the runner, which starts the process; or it fails.           *)
Dispatch ==
  /\ job = "QUEUED"
  /\ \/ /\ job' = "RUNNING" /\ alive' = TRUE /\ at' = "boot"
        /\ file' = [file EXCEPT !.status = "STARTING"]
     \/ /\ job' = "FAILED"
        /\ file' \in {file, [file EXCEPT !.status = "STARTING"]}
        /\ UNCHANGED <<alive, at>>
  /\ UNCHANGED <<request, scheduled, told, stop, record, errors, shared, envs, exit, backendVars>>
-----------------------------------------------------------------------------
(***************************************************************************)
(* run_evaluation.  Every write replaces the whole file by the record in   *)
(* memory, and recreates its directory where there is none.                *)
(***************************************************************************)
(* load_effective_config passes and the first record is written over       *)
(* whatever the file holds; or the process ends before it wrote anything:  *)
(* a configuration it refuses, a SIGTERM before its handler stands.        *)
Boot ==
  /\ at = "boot"
  /\ \/ /\ at' = "setup"
        /\ record' = At("STARTING", 0) /\ file' = record'
     \/ /\ at' = "ended"
        /\ UNCHANGED <<record, file>>
  /\ UNCHANGED <<request, scheduled, jobVars, stop, errors, shared, envs, exit, backendVars>>

(* The simulator, the policy and the prewarming; a stop seen between them  *)
(* raises InterruptedError.                                                *)
SetUp ==
  /\ at = "setup" /\ ~stop
  /\ at' = "next"
  /\ record' = [record EXCEPT !.status = "RUNNING"] /\ file' = record'
  /\ UNCHANGED <<request, scheduled, jobVars, stop, errors, shared, envs, exit, backendVars>>

(* except BaseException: a stop requested meanwhile makes any failure a    *)
(* cancellation.                                                           *)
Blamed == IF stop THEN "CANCELED" ELSE "FAILED"

SetUpFails ==
  /\ at = "setup"
  /\ at' = "closing"
  /\ record' = [record EXCEPT !.status = Blamed]
  /\ UNCHANGED <<request, scheduled, jobVars, stop, errors, shared, envs, exit, file, backendVars>>

(* The head of the loop over the schedule.                                 *)
LeaveLoop ==
  /\ at = "next"
  /\ \/ /\ record.trials = scheduled
        /\ record' = [record EXCEPT !.status = "COMPLETED"]
     \/ /\ record.trials < scheduled /\ stop
        /\ record' = [record EXCEPT !.status = "CANCELED"]
  /\ at' = "closing"
  /\ UNCHANGED <<request, scheduled, jobVars, stop, errors, shared, envs, exit, file, backendVars>>

(* The environment of the last trial is reset, or one is created.          *)
StartEpisode ==
  /\ at = "next" /\ record.trials < scheduled /\ ~stop
  /\ at' = "episode"
  /\ shared' = TRUE
  /\ envs' = IF shared THEN envs ELSE envs + 1
  /\ UNCHANGED <<request, scheduled, jobVars, stop, record, errors, exit, file, backendVars>>

(* The trial is recorded and the file replaced; or replacing it fails,     *)
(* which the outer handler takes for a failure of the test.                *)
Append(streak) ==
  LET counted == At("RUNNING", record.trials + 1)
  IN  /\ errors' = streak
      /\ \/ /\ streak < ErrorLimit
            /\ file' = counted /\ record' = counted /\ at' = "next"
         \/ /\ streak >= ErrorLimit
            /\ file' = counted /\ record' = [counted EXCEPT !.status = "FAILED"] /\ at' = "closing"
         \/ /\ record' = [counted EXCEPT !.status = Blamed] /\ at' = "closing"
            /\ UNCHANGED file

EpisodeEnds ==
  /\ at = "episode"
  /\ Append(0)
  /\ UNCHANGED <<request, scheduled, jobVars, stop, shared, envs, exit, backendVars>>

(* An error trial: its environment is discarded and closed.  Creating one  *)
(* may itself have failed, in which case there is none to close.           *)
\* mutant
DiscardKeepingReference == envs' = envs - 1 /\ UNCHANGED shared
Discard == envs' = envs - 1 /\ shared' = FALSE

EpisodeFails ==
  /\ at = "episode"
  /\ Discard /\ Append(errors + 1)
  /\ UNCHANGED <<request, scheduled, jobVars, stop, exit, backendVars>>

EnvironmentFails ==
  /\ at = "next" /\ record.trials < scheduled /\ ~stop /\ ~shared
  /\ Append(errors + 1)
  /\ UNCHANGED <<request, scheduled, jobVars, stop, shared, envs, exit, backendVars>>

(* A stop seen before a step or after an inference: nothing is recorded.   *)
EpisodeInterrupted ==
  /\ at = "episode" /\ stop
  /\ record' = [record EXCEPT !.status = "CANCELED"]
  /\ at' = "closing"
  /\ UNCHANGED <<request, scheduled, jobVars, stop, errors, shared, envs, exit, file, backendVars>>

(* finally: the environment is closed, the policy unloaded, which may turn *)
(* COMPLETED into FAILED, and the last record written, or that write fails.*)
Unloaded == IF record.status = "COMPLETED" THEN {"COMPLETED", "FAILED"} ELSE {record.status}

Finish ==
  /\ at = "closing"
  /\ envs' = IF shared THEN envs - 1 ELSE envs
  /\ shared' = FALSE
  /\ \E status \in Unloaded :
       /\ record' = [record EXCEPT !.status = status]
       /\ \/ file' = record' /\ exit' = (status = "COMPLETED")
          \/ UNCHANGED <<file, exit>>
  /\ at' = "ended"
  /\ UNCHANGED <<request, scheduled, jobVars, stop, errors, backendVars>>

(* Out of memory, SIGKILL: the process disappears.                         *)
Killed ==
  /\ at \notin {"none", "ended"}
  /\ at' = "ended" /\ envs' = 0 /\ shared' = FALSE
  /\ UNCHANGED <<request, scheduled, jobVars, stop, record, errors, exit, file, backendVars>>
-----------------------------------------------------------------------------
(***************************************************************************)
(* The runner of the job and the reconciliation of a runner that died.     *)
(***************************************************************************)
JobEnds ==
  /\ alive /\ (at = "ended" \/ told)
  /\ job' = IF told THEN "CANCELED" ELSE IF exit THEN "COMPLETED" ELSE "FAILED"
  /\ alive' = FALSE
  /\ UNCHANGED <<request, scheduled, told, procVars, file, backendVars>>

RunnerDies ==
  /\ alive
  /\ alive' = FALSE
  /\ UNCHANGED <<request, scheduled, job, told, procVars, file, backendVars>>

\* mutant
ReconciledTrusting == job
Reconciled == IF job \in Active /\ ~alive
                THEN IF job = "STOPPING" THEN "CANCELED" ELSE "FAILED"
                ELSE job
-----------------------------------------------------------------------------
(***************************************************************************)
(* stop_evaluation: the job is stopped, then the file read and replaced.   *)
(* SIGTERM goes to the process group: runner and process both receive it.  *)
(***************************************************************************)
StopJob ==
  /\ stopper = NoRead /\ job \in Open /\ file.status # "gone"
  /\ job' = IF job = "QUEUED" THEN "CANCELED" ELSE "STOPPING"
  /\ told' = (told \/ alive)
  /\ \/ at = "boot" /\ at' = "ended" /\ UNCHANGED stop
     \/ stop' = (stop \/ at \notin {"none", "ended"}) /\ UNCHANGED at
  /\ stopper' = [job |-> job', file |-> Unread]
  /\ UNCHANGED <<request, scheduled, alive, record, errors, shared, envs, exit, file, reader>>

StopRead ==
  /\ stopper # NoRead /\ stopper.file = Unread
  /\ stopper' = IF file.status \in Open THEN [stopper EXCEPT !.file = file] ELSE NoRead
  /\ UNCHANGED <<request, scheduled, jobVars, procVars, file, reader>>

StopWrite ==
  /\ stopper # NoRead /\ stopper.file # Unread
  /\ file' = [stopper.file EXCEPT !.status = IF stopper.job \in Terminal THEN stopper.job
                                                                     ELSE "STOPPING"]
  /\ stopper' = NoRead
  /\ UNCHANGED <<request, scheduled, jobVars, procVars, reader>>
-----------------------------------------------------------------------------
(***************************************************************************)
(* _synchronize_evaluation, run by get and list without the lock: the file *)
(* is read, then its job; if the job has ended, the file is read again     *)
(* and, if still active, given the outcome of the job.                     *)
(***************************************************************************)
SyncBegin ==
  /\ reader = NoRead /\ file.status \in Open
  /\ reader' = [job |-> Unread, file |-> file, again |-> FALSE]
  /\ UNCHANGED <<request, scheduled, jobVars, procVars, file, stopper>>

SyncReadJob ==
  /\ reader # NoRead /\ reader.job = Unread
  /\ job' = Reconciled
  /\ reader' = IF job' \in Terminal THEN [reader EXCEPT !.job = job'] ELSE NoRead
  /\ UNCHANGED <<request, scheduled, told, alive, procVars, file, stopper>>

SyncReadLatest ==
  /\ reader # NoRead /\ reader.job # Unread /\ ~reader.again
  /\ reader' = IF file.status \in Open THEN [reader EXCEPT !.file = file, !.again = TRUE] ELSE NoRead
  /\ UNCHANGED <<request, scheduled, jobVars, procVars, file, stopper>>

SyncWrite ==
  /\ reader # NoRead /\ reader.again
  /\ file' = [reader.file EXCEPT !.status = reader.job]
  /\ reader' = NoRead
  /\ UNCHANGED <<request, scheduled, jobVars, procVars, stopper>>

(* delete_evaluation: neither the file nor the job may be active.          *)
Delete ==
  /\ file.status \in Terminal /\ job \in Terminal
  /\ file' = At("gone", 0)
  /\ UNCHANGED <<request, scheduled, jobVars, procVars, backendVars>>
-----------------------------------------------------------------------------
Init ==
  /\ request \in Requests
  /\ scheduled = 0
  /\ job = "absent" /\ told = FALSE /\ alive = FALSE
  /\ stop = FALSE /\ at = "none" /\ errors = 0 /\ shared = FALSE /\ envs = 0 /\ exit = FALSE
  /\ record = At("gone", 0) /\ file = At("gone", 0)
  /\ stopper = NoRead /\ reader = NoRead

ProcessStep ==
  \/ Boot \/ SetUp \/ SetUpFails \/ LeaveLoop \/ StartEpisode \/ EpisodeEnds \/ EpisodeFails
  \/ EnvironmentFails \/ EpisodeInterrupted \/ Finish
SyncStep == SyncBegin \/ SyncReadJob \/ SyncReadLatest \/ SyncWrite
StopStep == StopRead \/ StopWrite

Next ==
  \/ Start \/ StartFails \/ Dispatch \/ ProcessStep \/ Killed
  \/ JobEnds \/ RunnerDies \/ StopJob \/ StopStep \/ SyncStep \/ Delete

Spec == Init /\ [][Next]_vars
-----------------------------------------------------------------------------
(***************************************************************************)
(* The dispatcher, the process and its runner go on by themselves, a stop  *)
(* that began ends, and somebody keeps looking at the test: the file is    *)
(* only repaired by those who read it.                                     *)
(***************************************************************************)
Fairness ==
  /\ WF_vars(Dispatch) /\ WF_vars(ProcessStep) /\ WF_vars(JobEnds)
  /\ WF_vars(StopStep) /\ WF_vars(SyncStep)

FairSpec == Spec /\ Fairness
-----------------------------------------------------------------------------
TypeOK ==
  /\ request \in Requests /\ scheduled \in 0..MaxLaunched
  /\ job \in Open \cup Terminal \cup {"absent"}
  /\ {told, alive, stop, shared, exit} \subseteq BOOLEAN
  /\ at \in {"none", "boot", "setup", "next", "episode", "closing", "ended"}
  /\ record \in Record /\ file \in Record
  /\ errors \in 0..ErrorLimit /\ envs \in Nat
  /\ stopper = NoRead \/ (stopper.job \in Open \cup Terminal /\ stopper.file \in Record \cup {Unread})
  /\ reader = NoRead \/ (reader.job \in Terminal \cup {Unread} /\ reader.file \in Record)

(* "state, seed and pair counts each differ by at most one" (118-119), for *)
(* every request, and neither RuntimeError (181, 186) is ever raised: the  *)
(* greedy choice always realises the degrees of the partial round.         *)
Even(f) == \A x, y \in DOMAIN f : f[x] <= f[y] + 1
ScheduleBalanced ==
  LET s == Previewed(request)
      seeds == SeedCount(request.trials, request.states, request.asked)
  IN  /\ ~s.raised
      /\ TrialCount(s, request.states, seeds) = request.trials
      /\ Even(s.count)
      /\ Even([i \in 1..request.states |-> StateCount(s, seeds, i)])
      /\ Even([i \in 1..seeds |-> SeedCountOf(s, request.states, i)])

(* Whoever wrote evaluation.json last: a test shown COMPLETED holds every  *)
(* scheduled trial, and one shown CANCELED was stopped by somebody.        *)
OutcomeHonest ==
  /\ file.status = "COMPLETED" => file.trials = scheduled
  /\ file.status = "CANCELED" => job \in {"STOPPING", "CANCELED"}

(* One simulator environment serves all trials and is rebuilt only after   *)
(* an error; none is left behind and none is closed twice.                 *)
EnvironmentAccounted ==
  /\ envs = (IF shared THEN 1 ELSE 0)
  /\ at \in {"none", "boot", "ended"} => envs = 0

(* A test that was started settles for good on an outcome, through error   *)
(* trials, failed writes, stops, dead processes and dead runners.          *)
EvaluationSettles == scheduled > 0 ~> [](file.status \notin Open)
=============================================================================
