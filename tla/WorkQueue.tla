----------------------------- MODULE WorkQueue -----------------------------
(***************************************************************************)
(* The unified work queue of the backend: one FIFO shared by in-process    *)
(* ("local") tasks and detached runner processes, dispatched under one     *)
(* cross-process resource lease (services/work_queue.py,                   *)
(* services/work_resources.py, the job part of                             *)
(* services/offline_job_service.py and workers/offline_job_runner.py).     *)
(*                                                                         *)
(* What is on disk (job.json, launcher.json, the sqlite index) survives a  *)
(* crash; the task table, the locks and the threads of a backend do not;   *)
(* a detached runner outlives the backend that spawned it.                 *)
(*                                                                         *)
(* Atomicity.  A section guarded by OfflineJobService.lock and the flock   *)
(* on .training-queue.lock is split wherever a crash, a runner or a        *)
(* lock-free reader can observe it half done: the dispatcher after each of *)
(* its publications, stop() between reading and writing job.json.  The     *)
(* reconciliation that list(), get() and every status poll run without any *)
(* lock is split the same way (PollRead, PollWrite); inside the dispatcher *)
(* the same code is one step, its racy interleavings being those of Poll.  *)
(*                                                                         *)
(* A definition marked "mutant" is a plausible bug: it takes no part in    *)
(* the specification and stands before the definition it would replace.    *)
(***************************************************************************)
EXTENDS Naturals

CONSTANTS
  Backends,       \* backend processes sharing one project root
  LocalJobs,      \* in-process tasks: simulation, dataset, export, verification
  DetachedJobs,   \* training and evaluation jobs, each with its own runner
  Cancelable,     \* local jobs submitted with a cancel callback
  NoJob,          \* "no job" in a section or a poll
  DiskFaults,     \* whether even the record of a failed launch may fail
  RefusedJobs,    \* bound: jobs whose registration may raise half way
  PolledJobs,     \* bound: jobs that lock-free status requests read
  MaxRestarts     \* bound: how many times backends are restarted

Jobs == LocalJobs \cup DetachedJobs

ASSUME JobsAssumption ==
  /\ LocalJobs \cap DetachedJobs = {}
  /\ Cancelable \subseteq LocalJobs
  /\ NoJob \notin Jobs
  /\ Jobs \cap Backends = {}
  /\ DiskFaults \in BOOLEAN
  /\ RefusedJobs \subseteq Jobs
  /\ PolledJobs \subseteq Jobs
  /\ MaxRestarts \in Nat

Active   == {"STARTING", "RUNNING", "STOPPING"}
Terminal == {"COMPLETED", "FAILED", "CANCELED"}
Pending  == Active \cup {"QUEUED"}
Status   == Pending \cup Terminal \cup {"absent"}

(***************************************************************************)
(* A manifest is what the properties need of job.json: the status and      *)
(* whether a pid is recorded in it.                                        *)
(***************************************************************************)
Manifest == [st : Status, pid : BOOLEAN]
NoManifest == [st |-> "absent", pid |-> FALSE]

(***************************************************************************)
(* Program points of the section a backend runs under its lock and the     *)
(* dispatch flock.  In the first four the dispatcher holds the lease.      *)
(***************************************************************************)
Dispatching == {"selected", "published", "indexed", "spawned"}
Free == [at |-> "free", job |-> NoJob, seen |-> NoManifest]
Section == {Free} \cup [at : {"selected", "published", "indexed"}, job : Jobs, seen : Manifest]
                  \cup [at : {"spawned", "stopping"}, job : DetachedJobs, seen : Manifest]

NoPoll == [job |-> NoJob, seen |-> NoManifest]
PollState == [job : Jobs \cup {NoJob}, seen : Manifest]

(***************************************************************************)
(* A runner process.  While it ends, its state is the terminal status it   *)
(* holds in memory and writes a last time before it releases the lease.    *)
(***************************************************************************)
RunnerAlive == {"booting", "running"} \cup Terminal
RunnerState == RunnerAlive \cup {"none", "exited"}
CallbackBusy == {"running", "saved"}
CallbackState == CallbackBusy \cup {"none", "done"}

(***************************************************************************)
(* Who may hold an open, locked copy of the lease file.                    *)
(***************************************************************************)
Dispatcher(b) == <<"dispatcher", b>>
LocalThread(j) == <<"local", j>>
Runner(j) == <<"runner", j>>
ManualSession(b) == <<"manual", b>>
Holders == {Dispatcher(b) : b \in Backends} \cup {LocalThread(j) : j \in LocalJobs}
             \cup {Runner(j) : j \in DetachedJobs} \cup {ManualSession(b) : b \in Backends}

VARIABLES
  manifest,  \* job.json of every job
  launcher,  \* jobs with a launcher.json
  index,     \* status column of the offline_jobs table
  clock,     \* the time of the latest registration
  arrival,   \* created_at, 0 until the job is registered
  refused,   \* jobs whose registration raised after job.json was written
  late,      \* jobs dispatched more than five seconds ago
  tasks,     \* _local_tasks of each backend
  callback,  \* thread of each local job
  runner,    \* runner process of each detached job
  lease,     \* holders of the resource lease
  section,   \* what each backend does under its lock
  poll,      \* a lock-free reconciliation in progress in each backend
  up,        \* "up", "closing" or "down"
  restarts

fileVars == <<manifest, launcher, index>>
arrivalVars == <<clock, arrival, refused>>
workVars == <<tasks, callback, runner, lease>>
sectionVars == <<section, poll>>
upVars == <<up, restarts>>
vars == <<fileVars, arrivalVars, late, workVars, sectionVars, upVars>>
-----------------------------------------------------------------------------
Registered(j) == arrival[j] # 0

(* _load_job: the pid of launcher.json completes a manifest without one.   *)
Load(j) == [st |-> manifest[j].st, pid |-> manifest[j].pid \/ j \in launcher]

(* OfflineJobService.lock is free, and no backend holds the dispatch flock *)
LockFree(b) == section[b].at = "free"
DispatchLockFree == \A b \in Backends : LockFree(b)

(* What an active job becomes whose process is gone.                       *)
Verdict(st) == IF st = "STOPPING" THEN "CANCELED" ELSE "FAILED"

(* The status _reconcile gives a job it has read as seen.                  *)
Reconciled(b, j, seen) ==
  IF j \in LocalJobs
    THEN IF seen.st \in Pending /\ j \notin tasks[b] THEN "FAILED" ELSE seen.st
    ELSE IF /\ seen.st \in Active
            /\ IF seen.pid THEN runner[j] \notin RunnerAlive ELSE j \in late
           THEN Verdict(seen.st) ELSE seen.st

(* What _reconcile leaves in job.json and in the index.                    *)
ReconciledManifest(b, j, seen) ==
  LET st == Reconciled(b, j, seen)
  IN  IF st # seen.st THEN [seen EXCEPT !.st = st] ELSE manifest[j]
ReconciledIndex(b, j, seen) ==
  LET st == Reconciled(b, j, seen)
  IN  IF j \in DetachedJobs \/ st # seen.st THEN st ELSE index[j]
-----------------------------------------------------------------------------
(***************************************************************************)
(* Registration: submit_local and _new_job(queued=True).                   *)
(***************************************************************************)
Submit(b, j) ==
  /\ up[b] = "up" /\ LockFree(b) /\ ~Registered(j)
  /\ manifest' = [manifest EXCEPT ![j].st = "QUEUED"]
  /\ index' = [index EXCEPT ![j] = "QUEUED"]
  /\ clock' = clock + 1
  /\ arrival' = [arrival EXCEPT ![j] = clock + 1]
  /\ tasks' = IF j \in LocalJobs THEN [tasks EXCEPT ![b] = @ \cup {j}] ELSE tasks
  /\ UNCHANGED <<launcher, refused, late, callback, runner, lease, sectionVars, upVars>>

(* The index write raises after job.json is in place: the caller gets the  *)
(* exception, a local task is withdrawn, the manifest stays.               *)
SubmitRefused(b, j) ==
  /\ j \in RefusedJobs
  /\ up[b] = "up" /\ LockFree(b) /\ ~Registered(j)
  /\ manifest' = [manifest EXCEPT ![j].st = "QUEUED"]
  /\ clock' = clock + 1
  /\ arrival' = [arrival EXCEPT ![j] = clock + 1]
  /\ refused' = refused \cup {j}
  /\ UNCHANGED <<launcher, index, late, workVars, sectionVars, upVars>>
-----------------------------------------------------------------------------
(***************************************************************************)
(* _dispatch_training_queue.  The scan reconciles every indexed job that   *)
(* is not QUEUED; Waiting is the queue re-read after it.                   *)
(***************************************************************************)
\* mutant
ScannedNothing == {}
Scanned == {j \in Jobs : index[j] \in Pending /\ manifest[j].st # "QUEUED"}
ScannedManifest(b) ==
  [j \in Jobs |-> IF j \in Scanned THEN ReconciledManifest(b, j, Load(j)) ELSE manifest[j]]
ScannedIndex(b) ==
  [j \in Jobs |-> IF j \in Scanned THEN ReconciledIndex(b, j, Load(j)) ELSE index[j]]
Waiting == {j \in Jobs : index[j] \in Pending /\ manifest[j].st = "QUEUED"}
\* mutant
NewestFirst(S) == {j \in S : \A k \in S : arrival[j] >= arrival[k]}
First(S) == {j \in S : \A k \in S : arrival[j] <= arrival[k]}

(* has_active_gpu_job, evaluated on what the scan leaves.                  *)
ActiveJob(b) ==
  \E j \in Jobs : ScannedIndex(b)[j] \in Active /\ ScannedManifest(b)[j].st \in Active

CanDispatch(b) == up[b] = "up" /\ DispatchLockFree

(* Nothing waits, or _prepare_launch or the lease refuses (an active job,  *)
(* a held lease, a running simulation, a controller calibrating or armed): *)
(* only the scan's repairs remain.                                         *)
Scan(b) ==
  /\ CanDispatch(b)
  /\ manifest' = ScannedManifest(b)
  /\ index' = ScannedIndex(b)
  /\ UNCHANGED <<launcher, arrivalVars, late, workVars, sectionVars, upVars>>

(* LOCK_EX | LOCK_NB on the lease file.                                    *)
\* mutant
LeaseIgnored == TRUE
LeaseFree == lease = {}

(* The head of the queue is selected and the lease taken.                  *)
Select(b) ==
  /\ CanDispatch(b)
  /\ ~ActiveJob(b) /\ LeaseFree
  /\ \E j \in First(Waiting) :
       section' = [section EXCEPT ![b] = [at |-> "selected", job |-> j, seen |-> Load(j)]]
  /\ lease' = lease \cup {Dispatcher(b)}
  /\ manifest' = ScannedManifest(b)
  /\ index' = ScannedIndex(b)
  /\ UNCHANGED <<launcher, arrivalVars, late, tasks, callback, runner, poll, upVars>>

(* STARTING is published, first in job.json and then in the index.         *)

PublishStarting(b) ==
  /\ section[b].at = "selected"
  /\ section' = [section EXCEPT ![b].at = "published"]
  /\ manifest' = [manifest EXCEPT ![section[b].job] = [section[b].seen EXCEPT !.st = "STARTING"]]
  /\ UNCHANGED <<launcher, index, arrivalVars, late, workVars, poll, upVars>>

IndexStarting(b) ==
  /\ section[b].at = "published"
  /\ section' = [section EXCEPT ![b].at = "indexed"]
  /\ index' = [index EXCEPT ![section[b].job] = "STARTING"]
  /\ UNCHANGED <<manifest, launcher, arrivalVars, late, workVars, poll, upVars>>

(* A local task goes on to RUNNING and its thread takes over the lease.    *)
StartLocal(b) ==
  LET j == section[b].job IN
  /\ section[b].at = "indexed" /\ j \in tasks[b]
  /\ manifest' = [manifest EXCEPT ![j] = [section[b].seen EXCEPT !.st = "RUNNING"]]
  /\ index' = [index EXCEPT ![j] = "RUNNING"]
  /\ callback' = [callback EXCEPT ![j] = "running"]
  /\ lease' = (lease \ {Dispatcher(b)}) \cup {LocalThread(j)}
  /\ section' = [section EXCEPT ![b] = Free]
  /\ UNCHANGED <<launcher, arrivalVars, late, tasks, runner, poll, upVars>>

(* Any failure before Popen, Popen's own included, and a local task that   *)
(* this backend does not own: FAILED, the task is dropped, the lease goes. *)
LaunchFails(b) ==
  LET j == section[b].job IN
  /\ section[b].at \in {"selected", "published", "indexed"}
  /\ manifest' = [manifest EXCEPT ![j] = [section[b].seen EXCEPT !.st = "FAILED"]]
  /\ index' = [index EXCEPT ![j] = "FAILED"]
  /\ tasks' = [tasks EXCEPT ![b] = @ \ {j}]
  /\ lease' = lease \ {Dispatcher(b)}
  /\ section' = [section EXCEPT ![b] = Free]
  /\ UNCHANGED <<launcher, arrivalVars, late, callback, runner, poll, upVars>>

(* The handler itself raises, its FAILED record unwritten: the pop of the  *)
(* task that follows it is skipped, the finally clause is not.             *)
LaunchFailsUnrecorded(b) ==
  /\ DiskFaults
  /\ section[b].at \in {"selected", "published", "indexed"}
  /\ lease' = lease \ {Dispatcher(b)}
  /\ section' = [section EXCEPT ![b] = Free]
  /\ UNCHANGED <<fileVars, arrivalVars, late, tasks, callback, runner, poll, upVars>>

(* _spawn_job: the runner inherits the locked file description.            *)
Spawn(b) ==
  LET j == section[b].job IN
  /\ section[b].at = "indexed" /\ j \in DetachedJobs
  /\ runner' = [runner EXCEPT ![j] = "booting"]
  /\ lease' = lease \cup {Runner(j)}
  /\ section' = [section EXCEPT ![b].at = "spawned"]
  /\ UNCHANGED <<fileVars, arrivalVars, late, tasks, callback, poll, upVars>>

(* launcher.json is written, or writing it fails; job.json is left to the  *)
(* runner either way and the parent's copy of the lease is closed.         *)
\* mutant
FinishSpawnKeepingLease(b) ==
  /\ section[b].at = "spawned"
  /\ launcher' \in {launcher, launcher \cup {section[b].job}}
  /\ section' = [section EXCEPT ![b] = Free]
  /\ UNCHANGED <<manifest, index, arrivalVars, late, workVars, poll, upVars>>

FinishSpawn(b) ==
  /\ section[b].at = "spawned"
  /\ launcher' \in {launcher, launcher \cup {section[b].job}}
  /\ lease' = lease \ {Dispatcher(b)}
  /\ section' = [section EXCEPT ![b] = Free]
  /\ UNCHANGED <<manifest, index, arrivalVars, late, tasks, callback, runner, poll, upVars>>
-----------------------------------------------------------------------------
(***************************************************************************)
(* _run_local: the final save under the lock (or its failure, which leaves *)
(* job.json as it is), then the lease is closed and the task popped.       *)
(***************************************************************************)
LocalSave(b, j) ==
  /\ callback[j] = "running" /\ j \in tasks[b] /\ LockFree(b)
  /\ \E st \in IF manifest[j].st \in {"STOPPING", "CANCELED"} THEN {"CANCELED"}
                                                            ELSE {"COMPLETED", "FAILED"} :
       /\ manifest' = [manifest EXCEPT ![j].st = st]
       /\ index' = [index EXCEPT ![j] = st]
  /\ callback' = [callback EXCEPT ![j] = "saved"]
  /\ UNCHANGED <<launcher, arrivalVars, late, tasks, runner, lease, sectionVars, upVars>>

LocalSaveFails(b, j) ==
  /\ callback[j] = "running" /\ j \in tasks[b] /\ LockFree(b)
  /\ callback' = [callback EXCEPT ![j] = "saved"]
  /\ UNCHANGED <<fileVars, arrivalVars, late, tasks, runner, lease, sectionVars, upVars>>

\* mutant
LocalReleaseKeepingTask(b, j) ==
  /\ callback[j] = "saved" /\ j \in tasks[b] /\ LockFree(b)
  /\ callback' = [callback EXCEPT ![j] = "done"]
  /\ lease' = lease \ {LocalThread(j)}
  /\ UNCHANGED <<fileVars, arrivalVars, late, tasks, runner, sectionVars, upVars>>

LocalRelease(b, j) ==
  /\ callback[j] = "saved" /\ j \in tasks[b] /\ LockFree(b)
  /\ callback' = [callback EXCEPT ![j] = "done"]
  /\ tasks' = [tasks EXCEPT ![b] = @ \ {j}]
  /\ lease' = lease \ {LocalThread(j)}
  /\ UNCHANGED <<fileVars, arrivalVars, late, runner, sectionVars, upVars>>
-----------------------------------------------------------------------------
(***************************************************************************)
(* The detached runner.  It read job.json once, so each of its writes      *)
(* replaces the whole file by what it holds in memory.                     *)
(***************************************************************************)
RunnerRegister(j) ==
  /\ runner[j] = "booting"
  /\ runner' = [runner EXCEPT ![j] = "running"]
  /\ manifest' = [manifest EXCEPT ![j] = [st |-> "RUNNING", pid |-> TRUE]]
  /\ UNCHANGED <<launcher, index, arrivalVars, late, tasks, callback, lease, sectionVars,
                 upVars>>

RunnerHeartbeat(j) ==
  /\ runner[j] = "running"
  /\ manifest' = [manifest EXCEPT ![j] = [st |-> "RUNNING", pid |-> TRUE]]
  /\ UNCHANGED <<launcher, index, arrivalVars, late, workVars, sectionVars, upVars>>

(* Which outcome the stages and the stop event lead to is the subject of   *)
(* module OfflineJobRunner; here any of the three.                         *)
RunnerFinish(j) ==
  /\ runner[j] = "running"
  /\ \E st \in Terminal :
       /\ runner' = [runner EXCEPT ![j] = st]
       /\ manifest' = [manifest EXCEPT ![j] = [st |-> st, pid |-> TRUE]]
  /\ UNCHANGED <<launcher, index, arrivalVars, late, tasks, callback, lease, sectionVars,
                 upVars>>

(* The last persist of the finally clause, then unlock and exit.           *)
RunnerExit(j) ==
  /\ runner[j] \in Terminal
  /\ manifest' = [manifest EXCEPT ![j] = [st |-> runner[j], pid |-> TRUE]]
  /\ runner' = [runner EXCEPT ![j] = "exited"]
  /\ lease' = lease \ {Runner(j)}
  /\ UNCHANGED <<launcher, index, arrivalVars, late, tasks, callback, sectionVars, upVars>>

(* Killed, or refused by the storage lease before it wrote anything.       *)
RunnerDies(j) ==
  /\ runner[j] \in RunnerAlive
  /\ runner' = [runner EXCEPT ![j] = "exited"]
  /\ lease' = lease \ {Runner(j)}
  /\ UNCHANGED <<fileVars, arrivalVars, late, tasks, callback, sectionVars, upVars>>

(* More than five seconds have passed since dispatched_at.                 *)
FiveSecondsPass(j) ==
  /\ j \notin late /\ manifest[j].st \in Active
  /\ late' = late \cup {j}
  /\ UNCHANGED <<fileVars, arrivalVars, workVars, sectionVars, upVars>>
-----------------------------------------------------------------------------
(***************************************************************************)
(* stop() on a job that waits, on a local job and on a detached one.       *)
(***************************************************************************)
\* mutant
CanStopUnlocked(b, j) == up[b] = "up" /\ Registered(j)
CanStop(b, j) == up[b] = "up" /\ DispatchLockFree /\ Registered(j)

StopQueued(b, j) ==
  /\ CanStop(b, j) /\ manifest[j].st = "QUEUED"
  /\ manifest' = [manifest EXCEPT ![j].st = "CANCELED"]
  /\ index' = [index EXCEPT ![j] = "CANCELED"]
  /\ tasks' = [tasks EXCEPT ![b] = @ \ {j}]
  /\ UNCHANGED <<launcher, arrivalVars, late, callback, runner, lease, sectionVars, upVars>>

StopLocal(b, j) ==
  /\ CanStop(b, j) /\ manifest[j].st \in Active
  /\ j \in tasks[b] \cap Cancelable
  /\ manifest' = [manifest EXCEPT ![j].st = "STOPPING"]
  /\ index' = [index EXCEPT ![j] = "STOPPING"]
  /\ UNCHANGED <<launcher, arrivalVars, late, workVars, sectionVars, upVars>>

StopRead(b, j) ==
  /\ CanStop(b, j) /\ j \in DetachedJobs /\ manifest[j].st \in Active
  /\ section' = [section EXCEPT ![b] = [at |-> "stopping", job |-> j, seen |-> Load(j)]]
  /\ UNCHANGED <<fileVars, arrivalVars, late, workVars, poll, upVars>>

(* STOPPING is written over whatever job.json holds by now and SIGTERM is  *)
(* sent to a known pid: it kills a runner that has no handler yet and only *)
(* sets the stop event of one that has.                                    *)
StopWrite(b) ==
  LET j == section[b].job IN
  /\ section[b].at = "stopping"
  /\ manifest' = [manifest EXCEPT ![j] = [section[b].seen EXCEPT !.st = "STOPPING"]]
  /\ index' = [index EXCEPT ![j] = "STOPPING"]
  /\ section' = [section EXCEPT ![b] = Free]
  /\ \/ UNCHANGED <<runner, lease>>
     \/ /\ section[b].seen.pid /\ runner[j] = "booting"
        /\ runner' = [runner EXCEPT ![j] = "exited"]
        /\ lease' = lease \ {Runner(j)}
  /\ UNCHANGED <<launcher, arrivalVars, late, tasks, callback, poll, upVars>>
-----------------------------------------------------------------------------
(***************************************************************************)
(* list(), get(): _reconcile without the lock.                             *)
(***************************************************************************)
PollRead(b, j) ==
  /\ j \in PolledJobs
  /\ up[b] = "up" /\ poll[b].job = NoJob /\ Registered(j)
  /\ poll' = [poll EXCEPT ![b] = [job |-> j, seen |-> Load(j)]]
  /\ UNCHANGED <<fileVars, arrivalVars, late, workVars, section, upVars>>

PollWrite(b) ==
  LET j == poll[b].job IN
  /\ j # NoJob
  /\ manifest' = [manifest EXCEPT ![j] = ReconciledManifest(b, j, poll[b].seen)]
  /\ index' = [index EXCEPT ![j] = ReconciledIndex(b, j, poll[b].seen)]
  /\ poll' = [poll EXCEPT ![b] = NoPoll]
  /\ UNCHANGED <<launcher, arrivalVars, late, workVars, section, upVars>>
-----------------------------------------------------------------------------
(***************************************************************************)
(* immediate_lease: manual takeover never queues.                          *)
(***************************************************************************)
ManualStart(b) ==
  /\ up[b] = "up" /\ LockFree(b)
  /\ \A j \in Jobs : index[j] \notin Pending
  /\ LeaseFree
  /\ lease' = lease \cup {ManualSession(b)}
  /\ UNCHANGED <<fileVars, arrivalVars, late, tasks, callback, runner, sectionVars, upVars>>

ManualEnd(b) ==
  /\ ManualSession(b) \in lease
  /\ lease' = lease \ {ManualSession(b)}
  /\ UNCHANGED <<fileVars, arrivalVars, late, tasks, callback, runner, sectionVars, upVars>>
-----------------------------------------------------------------------------
(***************************************************************************)
(* close(): the dispatcher is stopped, queued local tasks are canceled,    *)
(* running ones are awaited.  A crash can come at any point; a restart     *)
(* reconciles every manifest before the queue starts.                      *)
(***************************************************************************)
CloseBegin(b) ==
  /\ up[b] = "up"
  /\ up' = [up EXCEPT ![b] = "closing"]
  /\ UNCHANGED <<fileVars, arrivalVars, late, workVars, sectionVars, restarts>>

CloseCancel(b, j) ==
  /\ up[b] = "closing" /\ LockFree(b)
  /\ j \in tasks[b] /\ manifest[j].st = "QUEUED"
  /\ manifest' = [manifest EXCEPT ![j].st = "CANCELED"]
  /\ index' = [index EXCEPT ![j] = "CANCELED"]
  /\ tasks' = [tasks EXCEPT ![b] = @ \ {j}]
  /\ UNCHANGED <<launcher, arrivalVars, late, callback, runner, lease, sectionVars, upVars>>

(* Everything that lives in the process of b goes with it.                 *)
ProcessEnds(b) ==
  /\ up' = [up EXCEPT ![b] = "down"]
  /\ tasks' = [tasks EXCEPT ![b] = {}]
  /\ callback' = [j \in LocalJobs |-> IF j \in tasks[b] /\ callback[j] \in CallbackBusy
                                        THEN "done" ELSE callback[j]]
  /\ lease' = lease \ ({Dispatcher(b), ManualSession(b)} \cup {LocalThread(j) : j \in tasks[b]})
  /\ section' = [section EXCEPT ![b] = Free]
  /\ poll' = [poll EXCEPT ![b] = NoPoll]
  /\ UNCHANGED <<fileVars, arrivalVars, late, runner, restarts>>

CloseExit(b) ==
  /\ up[b] = "closing" /\ LockFree(b) /\ tasks[b] = {}
  /\ ProcessEnds(b)

Crash(b) ==
  /\ up[b] # "down" /\ restarts < MaxRestarts
  /\ ProcessEnds(b)

Restart(b) ==
  /\ up[b] = "down" /\ restarts < MaxRestarts
  /\ restarts' = restarts + 1
  /\ up' = [up EXCEPT ![b] = "up"]
  /\ manifest' = [j \in Jobs |-> IF Registered(j) THEN ReconciledManifest(b, j, Load(j))
                                                  ELSE manifest[j]]
  /\ index' = [j \in Jobs |-> IF Registered(j) THEN ReconciledIndex(b, j, Load(j))
                                               ELSE index[j]]
  /\ UNCHANGED <<launcher, arrivalVars, late, workVars, sectionVars>>
-----------------------------------------------------------------------------
Init ==
  /\ manifest = [j \in Jobs |-> NoManifest]
  /\ index = [j \in Jobs |-> "absent"]
  /\ clock = 0
  /\ arrival = [j \in Jobs |-> 0]
  /\ launcher = {} /\ refused = {} /\ late = {}
  /\ tasks = [b \in Backends |-> {}]
  /\ callback = [j \in LocalJobs |-> "none"]
  /\ runner = [j \in DetachedJobs |-> "none"]
  /\ lease = {}
  /\ section = [b \in Backends |-> Free]
  /\ poll = [b \in Backends |-> NoPoll]
  /\ up = [b \in Backends |-> "up"]
  /\ restarts = 0

DispatchStep(b) ==
  \/ Scan(b) \/ Select(b) \/ PublishStarting(b) \/ IndexStarting(b)
  \/ StartLocal(b) \/ LaunchFails(b) \/ LaunchFailsUnrecorded(b)
  \/ Spawn(b) \/ FinishSpawn(b)

LocalStep(b, j) == LocalSave(b, j) \/ LocalSaveFails(b, j) \/ LocalRelease(b, j)

RunnerStep(j) ==
  \/ RunnerRegister(j) \/ RunnerHeartbeat(j) \/ RunnerFinish(j)
  \/ RunnerExit(j) \/ RunnerDies(j)

UserStep(b, j) ==
  \/ Submit(b, j) \/ SubmitRefused(b, j)
  \/ StopQueued(b, j) \/ StopRead(b, j) \/ PollRead(b, j)

ProcessStep(b) ==
  \/ StopWrite(b) \/ PollWrite(b) \/ ManualStart(b) \/ ManualEnd(b)
  \/ CloseBegin(b) \/ CloseExit(b) \/ Crash(b) \/ Restart(b)

Next ==
  \/ \E b \in Backends : DispatchStep(b) \/ ProcessStep(b)
  \/ \E b \in Backends, j \in Jobs : UserStep(b, j)
  \/ \E b \in Backends, j \in LocalJobs :
       LocalStep(b, j) \/ StopLocal(b, j) \/ CloseCancel(b, j)
  \/ \E j \in DetachedJobs : RunnerStep(j)
  \/ \E j \in Jobs : FiveSecondsPass(j)

Spec == Init /\ [][Next]_vars
-----------------------------------------------------------------------------
(***************************************************************************)
(* Fairness of what the program itself schedules; users, crashes and       *)
(* restarts have none.  The dispatcher wakes at least every two seconds    *)
(* for ever, a callback and a stage end, a manual session is ended.  A     *)
(* step that must take a lock others keep taking is strongly fair: every   *)
(* holder of the lock leaves it after a few file writes.                   *)
(***************************************************************************)
Launch(b) ==
  PublishStarting(b) \/ IndexStarting(b) \/ StartLocal(b) \/ LaunchFails(b)
    \/ Spawn(b) \/ FinishSpawn(b)

Fairness ==
  /\ \A b \in Backends :
       /\ SF_vars(Scan(b)) /\ SF_vars(Select(b)) /\ WF_vars(Launch(b))
       /\ WF_vars(StopWrite(b)) /\ WF_vars(PollWrite(b)) /\ WF_vars(ManualEnd(b))
       /\ SF_vars(CloseExit(b))
       /\ \A j \in LocalJobs :
            /\ SF_vars(LocalSave(b, j) \/ LocalSaveFails(b, j))
            /\ SF_vars(LocalRelease(b, j)) /\ SF_vars(CloseCancel(b, j))
  /\ \A j \in DetachedJobs :
       WF_vars(RunnerRegister(j) \/ RunnerFinish(j) \/ RunnerExit(j))
  /\ \A j \in Jobs : WF_vars(FiveSecondsPass(j))

FairSpec == Spec /\ Fairness
-----------------------------------------------------------------------------
TypeOK ==
  /\ manifest \in [Jobs -> Manifest]
  /\ launcher \subseteq DetachedJobs
  /\ index \in [Jobs -> Status]
  /\ clock \in Nat
  /\ arrival \in [Jobs -> 0..clock]
  /\ refused \subseteq Jobs /\ late \subseteq Jobs
  /\ tasks \in [Backends -> SUBSET LocalJobs]
  /\ callback \in [LocalJobs -> CallbackState]
  /\ runner \in [DetachedJobs -> RunnerState]
  /\ lease \subseteq Holders
  /\ section \in [Backends -> Section]
  /\ poll \in [Backends -> PollState]
  /\ up \in [Backends -> {"up", "closing", "down"}]
  /\ restarts \in Nat

(* Work in progress: callbacks, runners and manual sessions.               *)
Started(j) == IF j \in LocalJobs THEN callback[j] # "none" ELSE runner[j] # "none"
Busy(j) == IF j \in LocalJobs THEN callback[j] \in CallbackBusy ELSE runner[j] \in RunnerAlive
InUse == {j \in Jobs : Busy(j)} \cup {b \in Backends : ManualSession(b) \in lease}

(* A single callback, runner or manual session is at work at any time,     *)
(* whatever backends, crashes, restarts and stops do: the lease travels    *)
(* from the dispatcher to the thread or into the spawned process without   *)
(* a gap (ResourceLease, pass_fds).                                        *)
OneWorkAtATime == \A x, y \in InUse : x = y

(* The lease is never leaked: whoever holds it is at work or is a          *)
(* dispatcher about to hand it over, and whoever works holds it.           *)
LeaseHeldByWork ==
  /\ \A j \in LocalJobs : LocalThread(j) \in lease <=> Busy(j)
  /\ \A j \in DetachedJobs : Runner(j) \in lease <=> Busy(j)
  /\ \A b \in Backends : Dispatcher(b) \in lease <=> section[b].at \in Dispatching

(* The lease is held by one process or thread, or by a dispatcher and the  *)
(* runner it has just spawned, who share one open file description.        *)
LeaseShape ==
  \/ lease = {}
  \/ \E h \in Holders : lease \subseteq {h}
  \/ \E b \in Backends : /\ section[b].at = "spawned"
                         /\ lease = {Dispatcher(b), Runner(section[b].job)}

(* The inductive strengthening of OneWorkAtATime.                          *)
LeaseInv == TypeOK /\ LeaseHeldByWork /\ LeaseShape

(* FIFO: no job starts while one registered before it still waits.  Only a *)
(* job whose registration raised can be overtaken.                         *)
NoOvertaking ==
  \A j, k \in Jobs :
    Started(j) /\ manifest[k].st = "QUEUED" /\ k \notin refused => arrival[j] < arrival[k]

(* What waits in job.json waits in the index, the only place the           *)
(* dispatcher looks: stale upserts of polls never hide a queued job.       *)
QueuedIsIndexed ==
  \A j \in Jobs : manifest[j].st = "QUEUED" /\ j \notin refused => index[j] = "QUEUED"

(* A local task a live backend still lists and job.json calls active has   *)
(* its thread, or is in the dispatcher's hands: a job without one would    *)
(* block the queue until a restart.                                        *)
NoStrandedTask ==
  \A b \in Backends : \A j \in tasks[b] :
    manifest[j].st \in Active => Busy(j) \/ (section[b].at \in Dispatching /\ section[b].job = j)

(* A job canceled before it started never comes back to life, whatever a   *)
(* dispatcher or a stop had already read of it.                            *)
CanceledNeverStarts ==
  [][\A j \in Jobs : manifest[j].st = "CANCELED" /\ ~Started(j)
                     => manifest'[j].st \in {"CANCELED", "FAILED", "STOPPING"} /\ ~Started(j)']_vars

AllDown == \A b \in Backends : up[b] = "down"

(* Every indexed job reaches a terminal status, through lost stops, stale  *)
(* polls, failed saves, dead runners and crashes, while a backend runs.    *)
QueueDrains ==
  \A j \in Jobs : index[j] \in Pending ~> manifest[j].st \in Terminal \/ AllDown

(* The index follows job.json: an outcome the runner wrote unseen by any   *)
(* backend is found by the two-second scan.                                *)
IndexSettles ==
  \A j \in Jobs : manifest[j].st \in Terminal ~> index[j] \notin Pending \/ AllDown

(* close() ends: it never waits for a task nobody will finish.             *)
ShutdownEnds == \A b \in Backends : up[b] = "closing" ~> up[b] = "down"

(* "Backend restarted; register this local task again"                     *)
(* (offline_job_service.py:401) is said of a task only when its backend    *)
(* did restart: a local job that completed stays completed.                *)
LocalOutcomeKept ==
  [][\A j \in LocalJobs : manifest[j].st = "COMPLETED" => manifest'[j].st = "COMPLETED"]_vars
=============================================================================
