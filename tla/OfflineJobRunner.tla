--------------------------- MODULE OfflineJobRunner ---------------------------
(***************************************************************************)
(* One detached job seen from both of its writers: the runner process      *)
(* (workers/offline_job_runner.py) with its main thread, heartbeat thread, *)
(* signal handler and stage processes, and the backend that stops it and   *)
(* reconciles it (services/offline_job_service.py), at the grain of single *)
(* reads and writes of job.json.  The two share no lock: each replaces the *)
(* whole file by what it read or holds in memory.                          *)
(*                                                                         *)
(* The model starts when Popen has returned.  launcher.json is written     *)
(* some time later, or never if the backend crashed in between.  The       *)
(* branch in which the runner takes the lease itself (no inherited         *)
(* descriptor) is left out: every launch passes one.                       *)
(***************************************************************************)
EXTENDS Naturals

CONSTANTS
  Stages,      \* number of stages of the job
  Killable,    \* whether the runner may be killed outright (SIGKILL, OOM)
  MaxStops,    \* bound: stop requests
  MaxPolls     \* bound: reconciliations by list(), get() or the dispatcher

ASSUME RunnerAssumption ==
  /\ Stages \in Nat \ {0}
  /\ Killable \in BOOLEAN
  /\ MaxStops \in Nat /\ MaxPolls \in Nat

Active   == {"STARTING", "RUNNING", "STOPPING"}
Terminal == {"COMPLETED", "FAILED", "CANCELED"}

(***************************************************************************)
(* How a reader of job.json can reach the process: not at all, by the pid  *)
(* of launcher.json, or by the process group the runner recorded itself.   *)
(***************************************************************************)
Reach == {"none", "pid", "group"}
File == [st : Active \cup Terminal, reach : Reach]

VARIABLES
  file,      \* job.json
  launcher,  \* launcher.json exists
  mem,       \* status in the runner's memory
  pc,        \* main thread of the runner
  stage,     \* stages that ended with code 0
  child,     \* stage process: "none", "alive", "ok" or "bad" (exited)
  stop,      \* the runner's stop event
  signaled,  \* SIGTERM reached the handler
  extra,     \* stages started since then
  beat,      \* heartbeat thread: "off", "waiting", "due", "ended"
  lease,     \* the inherited lock is held
  killed,    \* the runner was killed outright
  late,      \* more than five seconds since dispatched_at
  cmd,       \* stop(): "idle", "read", "written", and what it read
  poll,      \* _reconcile: "idle", "read", "dead", and what it read
  stops, polls

threadVars == <<stop, signaled, extra, beat>>
leaseVars == <<lease, killed>>
runnerVars == <<mem, pc, stage, child, threadVars, leaseVars>>
backendVars == <<launcher, late, cmd, poll, stops, polls>>
vars == <<file, runnerVars, backendVars>>

Exited == pc = "exited"
Load == IF file.reach = "none" /\ launcher THEN [file EXCEPT !.reach = "pid"] ELSE file

(* persist(): the whole payload, pid and process group included.           *)
Persist(st) == file' = [st |-> st, reach |-> "group"]
-----------------------------------------------------------------------------
(***************************************************************************)
(* Main thread.                                                            *)
(***************************************************************************)
(* main() entered the storage lease, read job.json, installed the handler. *)
Boot ==
  /\ pc = "boot" /\ pc' = "ready"
  /\ UNCHANGED <<file, mem, stage, child, threadVars, leaseVars, backendVars>>

BootFails ==
  /\ pc = "boot" /\ pc' = "exited"
  /\ lease' = FALSE
  /\ UNCHANGED <<file, mem, stage, child, threadVars, killed, backendVars>>

Register ==
  /\ pc = "ready" /\ pc' = "check"
  /\ mem' = "RUNNING" /\ Persist("RUNNING")
  /\ beat' = "waiting"
  /\ UNCHANGED <<stage, child, stop, signaled, extra, leaseVars, backendVars>>

(* Top of the stage loop: leave it, or publish the next stage.             *)
\* mutant
StopForgotten == FALSE
StopRequested == stop

NoMoreStages == StopRequested \/ stage = Stages

LeaveLoop ==
  /\ pc = "check" /\ NoMoreStages
  /\ pc' = "decide"
  /\ UNCHANGED <<file, mem, stage, child, threadVars, leaseVars, backendVars>>

EnterStage ==
  /\ pc = "check" /\ ~NoMoreStages
  /\ pc' = "popen" /\ Persist(mem)
  /\ UNCHANGED <<mem, stage, child, threadVars, leaseVars, backendVars>>

(* The stage runs before self.child names it.                              *)
StartStage ==
  /\ pc = "popen" /\ pc' = "started"
  /\ child' = "alive"
  /\ extra' = IF signaled THEN extra + 1 ELSE extra
  /\ UNCHANGED <<file, mem, stage, stop, signaled, beat, leaseVars, backendVars>>

StartStageFails ==
  /\ pc = "popen" /\ pc' = "settled"
  /\ mem' = "FAILED" /\ Persist("FAILED")
  /\ UNCHANGED <<stage, child, threadVars, leaseVars, backendVars>>

AssignChild ==
  /\ pc = "started" /\ pc' = "wait"
  /\ UNCHANGED <<file, mem, stage, child, threadVars, leaseVars, backendVars>>

(* wait() has returned.                                                    *)
Reapable == child \in {"ok", "bad"}

Reap ==
  /\ pc = "wait" /\ Reapable
  /\ child' = IF child = "alive" THEN child ELSE "none"
  /\ \/ /\ StopRequested /\ pc' = "decide"
        /\ UNCHANGED <<file, mem, stage>>
     \/ /\ ~StopRequested /\ child = "bad" /\ pc' = "settled"
        /\ mem' = "FAILED" /\ Persist("FAILED")
        /\ UNCHANGED stage
     \/ /\ ~StopRequested /\ child = "ok" /\ pc' = "check"
        /\ stage' = stage + 1
        /\ UNCHANGED <<file, mem>>
  /\ UNCHANGED <<threadVars, leaseVars, backendVars>>

Outcome == IF StopRequested THEN "CANCELED" ELSE "COMPLETED"

Decide ==
  /\ pc = "decide" /\ pc' = "settled"
  /\ mem' = Outcome
  /\ Persist(mem')
  /\ UNCHANGED <<stage, child, threadVars, leaseVars, backendVars>>

(* The finally clause: stop.set(), heartbeat.join(), persist, unlock.      *)
\* mutant
StopHeartbeatUnset ==
  /\ pc = "settled" /\ pc' = "join"
  /\ UNCHANGED <<file, mem, stage, child, threadVars, leaseVars, backendVars>>

StopHeartbeat ==
  /\ pc = "settled" /\ pc' = "join"
  /\ stop' = TRUE
  /\ UNCHANGED <<file, mem, stage, child, signaled, extra, beat, leaseVars, backendVars>>

\* mutant
LastPersistUnjoined ==
  /\ pc = "join" /\ pc' = "unlock"
  /\ Persist(mem)
  /\ UNCHANGED <<mem, stage, child, threadVars, leaseVars, backendVars>>

LastPersist ==
  /\ pc = "join" /\ beat = "ended" /\ pc' = "unlock"
  /\ Persist(mem)
  /\ UNCHANGED <<mem, stage, child, threadVars, leaseVars, backendVars>>

Unlock ==
  /\ pc = "unlock" /\ pc' = "exited"
  /\ lease' = FALSE
  /\ UNCHANGED <<file, mem, stage, child, threadVars, killed, backendVars>>

(* Everything of the process ends but the stage it had started.            *)
Killed ==
  /\ Killable /\ ~Exited
  /\ pc' = "exited" /\ lease' = FALSE /\ beat' = "ended"
  /\ killed' = TRUE
  /\ UNCHANGED <<file, mem, stage, child, stop, signaled, extra, backendVars>>
-----------------------------------------------------------------------------
(***************************************************************************)
(* Heartbeat thread and stage process.                                     *)
(***************************************************************************)
BeatDue ==
  /\ beat = "waiting" /\ ~stop
  /\ beat' = "due"
  /\ UNCHANGED <<file, mem, pc, stage, child, stop, signaled, extra, leaseVars, backendVars>>

BeatPersist ==
  /\ beat = "due" /\ beat' = "waiting"
  /\ Persist(mem)
  /\ UNCHANGED <<mem, pc, stage, child, stop, signaled, extra, leaseVars, backendVars>>

BeatEnds ==
  /\ beat = "waiting" /\ stop
  /\ beat' = "ended"
  /\ UNCHANGED <<file, mem, pc, stage, child, stop, signaled, extra, leaseVars, backendVars>>

StageEnds ==
  /\ child = "alive"
  /\ child' \in {"ok", "bad"}
  /\ UNCHANGED <<file, mem, pc, stage, threadVars, leaseVars, backendVars>>
-----------------------------------------------------------------------------
(***************************************************************************)
(* The backend.  stop() reads, writes STOPPING and signals whatever the    *)
(* manifest it read let it reach.                                          *)
(***************************************************************************)
WriteLauncher ==
  /\ ~launcher /\ launcher' = TRUE
  /\ UNCHANGED <<file, runnerVars, late, cmd, poll, stops, polls>>

FiveSecondsPass ==
  /\ ~late /\ late' = TRUE
  /\ UNCHANGED <<file, runnerVars, launcher, cmd, poll, stops, polls>>

StopRead ==
  /\ cmd.at = "idle" /\ stops < MaxStops
  /\ file.st \in Active
  /\ cmd' = [at |-> "read", seen |-> Load]
  /\ stops' = stops + 1
  /\ UNCHANGED <<file, runnerVars, launcher, late, poll, polls>>

StopWrite ==
  /\ cmd.at = "read"
  /\ file' = [cmd.seen EXCEPT !.st = "STOPPING"]
  /\ cmd' = [cmd EXCEPT !.at = "written"]
  /\ UNCHANGED <<runnerVars, launcher, late, poll, stops, polls>>

(* SIGTERM before the handler is installed ends the process; the handler   *)
(* sets the stop event and terminates the stage self.child names; killpg   *)
(* reaches the stage by itself.                                            *)
Terminate ==
  /\ child' = IF child = "alive" /\ (pc = "wait" \/ cmd.seen.reach = "group") THEN "bad"
                                                                              ELSE child
  /\ IF pc = "boot"
       THEN /\ pc' = "exited" /\ lease' = FALSE
            /\ UNCHANGED <<stop, signaled>>
       ELSE /\ stop' = TRUE /\ signaled' = TRUE
            /\ UNCHANGED <<pc, lease>>

StopSignal ==
  /\ cmd.at = "written"
  /\ cmd' = [cmd EXCEPT !.at = "idle"]
  /\ IF cmd.seen.reach = "none" \/ Exited
       THEN UNCHANGED <<pc, child, stop, signaled, lease>>
       ELSE Terminate
  /\ UNCHANGED <<file, mem, stage, extra, beat, killed, launcher, late, poll, stops, polls>>

(* _reconcile: read, look for the process, write what that implies.        *)
PollRead ==
  /\ poll.at = "idle" /\ polls < MaxPolls
  /\ poll' = [at |-> "read", seen |-> Load]
  /\ polls' = polls + 1
  /\ UNCHANGED <<file, runnerVars, launcher, late, cmd, stops>>

PollCheck ==
  /\ poll.at = "read"
  /\ poll' = [poll EXCEPT !.at =
       IF /\ poll.seen.st \in Active
          /\ IF poll.seen.reach = "none" THEN late ELSE Exited
       THEN "dead" ELSE "idle"]
  /\ UNCHANGED <<file, runnerVars, launcher, late, cmd, stops, polls>>

Verdict(st) == IF st = "STOPPING" THEN "CANCELED" ELSE "FAILED"

PollWrite ==
  /\ poll.at = "dead"
  /\ file' = [poll.seen EXCEPT !.st = Verdict(@)]
  /\ poll' = [poll EXCEPT !.at = "idle"]
  /\ UNCHANGED <<runnerVars, launcher, late, cmd, stops, polls>>
-----------------------------------------------------------------------------
Init ==
  /\ file = [st |-> "STARTING", reach |-> "none"]
  /\ launcher = FALSE /\ late = FALSE
  /\ mem = "STARTING" /\ pc = "boot" /\ stage = 0 /\ child = "none"
  /\ stop = FALSE /\ signaled = FALSE /\ extra = 0
  /\ beat = "off" /\ lease = TRUE /\ killed = FALSE
  /\ cmd = [at |-> "idle", seen |-> file] /\ poll = [at |-> "idle", seen |-> file]
  /\ stops = 0 /\ polls = 0

MainStep ==
  \/ Boot \/ BootFails \/ Register \/ LeaveLoop \/ EnterStage \/ StartStage
  \/ StartStageFails \/ AssignChild \/ Reap \/ Decide \/ StopHeartbeat
  \/ LastPersist \/ Unlock

BackendStep ==
  \/ WriteLauncher \/ FiveSecondsPass \/ StopRead \/ StopWrite \/ StopSignal
  \/ PollRead \/ PollCheck \/ PollWrite

Next ==
  \/ MainStep \/ Killed
  \/ BeatDue \/ BeatPersist \/ BeatEnds \/ StageEnds
  \/ BackendStep

Spec == Init /\ [][Next]_vars

(***************************************************************************)
(* Threads of the runner run, stages end (the code sets them no time       *)
(* limit), a handler of the backend that has begun goes on.                *)
(***************************************************************************)
Fairness ==
  /\ WF_vars(MainStep) /\ WF_vars(StageEnds)
  /\ WF_vars(BeatPersist) /\ WF_vars(BeatEnds)
  /\ WF_vars(StopWrite) /\ WF_vars(StopSignal)
  /\ WF_vars(PollCheck) /\ WF_vars(PollWrite)

FairSpec == Spec /\ Fairness
-----------------------------------------------------------------------------
TypeOK ==
  /\ file \in File
  /\ launcher \in BOOLEAN /\ late \in BOOLEAN
  /\ mem \in Active \cup Terminal
  /\ pc \in {"boot", "ready", "check", "popen", "started", "wait", "decide", "settled",
             "join", "unlock", "exited"}
  /\ stage \in 0..Stages
  /\ child \in {"none", "alive", "ok", "bad"}
  /\ stop \in BOOLEAN /\ signaled \in BOOLEAN /\ extra \in Nat
  /\ beat \in {"off", "waiting", "due", "ended"}
  /\ lease \in BOOLEAN /\ killed \in BOOLEAN
  /\ cmd \in [at : {"idle", "read", "written"}, seen : File]
  /\ poll \in [at : {"idle", "read", "dead"}, seen : File]
  /\ stops \in Nat /\ polls \in Nat

BackendMoves == cmd' # cmd \/ poll' # poll

(* A stop that reached the runner lets at most one more stage start: the   *)
(* one between its check of the event and its Popen, which the handler     *)
(* cannot terminate because self.child is not set yet.                     *)
StopBoundsStages == extra <= 1

(* The recorded outcome is the true one: COMPLETED only when every stage   *)
(* returned 0, CANCELED only when a SIGTERM was handled.                   *)
OutcomeHonest ==
  /\ mem = "COMPLETED" => stage = Stages /\ child = "none"
  /\ mem = "CANCELED" => signaled
  /\ mem = "FAILED" => stage < Stages

(* The runner never takes back an outcome it wrote: a heartbeat due when   *)
(* the main thread settles writes that outcome, not RUNNING.               *)
RunnerNeverRetracts ==
  file.st \in Terminal /\ file.st = mem /\ file'.st # file.st => BackendMoves

(* The runner writes job.json only while it holds the lease, so a result   *)
(* published by the next holder of the lease is never undone by it.        *)
WritesUnderLease == ~lease /\ file' # file => BackendMoves

(* A stage process outlives the hold on the platform lock only when the    *)
(* runner was killed outright: no stop, at whatever point, has that effect.*)
StageOutlivesLeaseOnlyIfKilled == child = "alive" => lease \/ killed

(* "Work is serialized by a shared queue and cross-process resource lease" *)
(* (README.md:58-60): a stage process runs only under the lease.           *)
StageUnderLease == child = "alive" => lease

(* Stopped, killed or left alone, the runner ends: its heartbeat thread is *)
(* joined, no stage is left behind for ever and the lease comes free.      *)
RunnerEnds == <>[](Exited /\ ~lease /\ child # "alive")

(* "never overwrite a newer RUNNING or terminal status with the parent's   *)
(* stale ... payload" (offline_job_service.py:752-753): job.json keeps the *)
(* outcome of a runner that exited having recorded COMPLETED.              *)
CompletedStays ==
  [][Exited /\ mem = "COMPLETED" /\ file.st = mem => file'.st = file.st]_vars
=============================================================================
