-------------------------- MODULE SimulationSession --------------------------
(***************************************************************************)
(* The life of a simulation session (workers/simulation_worker.py:         *)
(* SimulationManager): originals and policy branches registered with the   *)
(* work queue, manual takeovers that want the resource lease at once, the  *)
(* one active_session_id, the input controllers sessions arm, and the      *)
(* requests that stop, cancel, delete or calibrate meanwhile.              *)
(*                                                                         *)
(* Two locks are modelled by who holds them over several steps: the        *)
(* manager's (mgr), which the worker does not take for every write of      *)
(* record.status, and the work queue's (svc).  The queue itself, whose     *)
(* order and lease are the subject of WorkQueue, is reduced to the state   *)
(* of each session's job; the preview is the subject of PreviewService.    *)
(*                                                                         *)
(* A definition marked "mutant" is a plausible bug: it takes no part in    *)
(* the specification and stands before the definition it would replace.    *)
(***************************************************************************)
EXTENDS Naturals

CONSTANTS
  Originals,      \* sessions of create_original
  PolicyBranches, \* sessions of create_branch, run by a policy
  Takeovers,      \* sessions of create_branch, under manual control
  Controllers, Factr, \* the controllers that are configured; FACTR
  NoSession, NoController,
  Faulty,         \* bound: sessions whose registration, dispatch or claim may fail to be written
  MaxStops,       \* bound: calls of stop()
  MaxRestarts     \* bound: crashes and restarts

Queued == Originals \cup PolicyBranches
Branches == PolicyBranches \cup Takeovers
Sessions == Queued \cup Takeovers

ASSUME SessionAssumption ==
  /\ NoSession \notin Sessions
  /\ Originals \cap Branches = {} /\ PolicyBranches \cap Takeovers = {}
  /\ NoController \notin Controllers
  /\ Faulty \subseteq Sessions
  /\ MaxStops \in Nat /\ MaxRestarts \in Nat

Active == {"QUEUED", "LOADING", "READY", "RUNNING", "STOPPING", "POSTPROCESSING"}
Terminal == {"COMPLETED", "ERROR"}
Pending == {"QUEUED", "ACTIVE", "STOPPING"}

(* Where the thread of a session is, from its claim of the manager to the  *)
(* end of _run_session.                                                    *)
Running == {"claimed", "loading", "preparing", "countdown", "starting", "running", "ending",
            "saving", "settled", "persisting", "persisted"}
Working == Running \cup {"begun", "failing", "ran", "leaving", "releasing"}
Steps == Working \cup {"none", "requested", "leased", "queued", "refused", "stuck", "dropped",
                       "gone", "lost"}

VARIABLES
  up,       \* "open", "closing", "joining", "down"
  restarts, stops,
  mgr,      \* holder of the manager's lock: the session a stop() is about to write
  svc,      \* holder of the queue's lock: the session a cancel is about to mark
  known,    \* self.sessions and self.legacy_sessions
  status, error, stopped,  \* of the records: status, error # None, stop_event
  saved,    \* status in run.json, "none" without the file
  job,      \* the session's job in the work queue
  step,     \* progress of its request and of its thread
  writing,  \* the status its thread is about to write
  parent,   \* parent_session_id
  orphans,  \* history: branches registered when their parent was gone
  uses,     \* manual_source
  active,   \* active_session_id
  lease,    \* holder of the resource lease
  ctl       \* of each controller its state and armed_session_id

backend == <<up, restarts, stops>>
locks == <<mgr, svc>>
record == <<status, error, stopped>>
request == <<parent, orphans, uses>>
vars == <<backend, locks, known, record, saved, job, step, writing, request, active, lease, ctl>>
-----------------------------------------------------------------------------
MgrFree == mgr = NoSession
SvcFree == svc = NoSession
Move(s, a, b) == step[s] = a /\ step' = [step EXCEPT ![s] = b]
SetStatus(s, v) == status' = [status EXCEPT ![s] = v]
Save(s, v) == saved' = [saved EXCEPT ![s] = v]
Fail(s) == error' = [error EXCEPT ![s] = TRUE]

Idle(state) == [state |-> state, by |-> NoSession]
Calibrating == \E c \in Controllers : ctl[c].state = "CALIBRATING"
PendingJob == \E s \in Sessions : job[s] \in Pending

(* _disable_factr_on_error                                                 *)
FactrOff(failed) ==
  [c \in Controllers |-> IF failed /\ c = Factr THEN Idle("DOWN") ELSE ctl[c]]
-----------------------------------------------------------------------------
(***************************************************************************)
(* Requests that create a session.                                         *)
(***************************************************************************)
(* The job and run.json are written under both locks.  If a write fails    *)
(* the caller removes the directory, but the record and perhaps the job    *)
(* stay behind.                                                            *)
Register(s, from) ==
  /\ up = "open" /\ MgrFree /\ SvcFree
  /\ known' = known \cup {s}
  /\ SetStatus(s, "QUEUED")
  /\ orphans' = IF parent'[s] \in known \cup {NoSession} THEN orphans ELSE orphans \cup {s}
  /\ \/ /\ job' = [job EXCEPT ![s] = "QUEUED"]
        /\ Save(s, "QUEUED")
        /\ Move(s, from, "queued")
     \/ /\ s \in Faulty
        /\ job' = [job EXCEPT ![s] = "QUEUED"]
        /\ Move(s, from, "queued")
        /\ UNCHANGED saved
     \/ /\ s \in Faulty
        /\ Move(s, from, "refused")
        /\ UNCHANGED <<job, saved>>
  /\ UNCHANGED <<backend, locks, error, stopped, writing, uses, active, lease, ctl>>

CreateOriginal(s) == s \in Originals /\ UNCHANGED parent /\ Register(s, "none")

(* create_branch reads its source and, for a takeover, the controller's    *)
(* state, without keeping a lock.                                          *)
RequestBranch(s, p, c) ==
  /\ up = "open" /\ MgrFree
  /\ p \in known /\ status[p] \in Terminal
  /\ s \in Takeovers => ctl[c].state = "READY"
  /\ Move(s, "none", "requested")
  /\ parent' = [parent EXCEPT ![s] = p]
  /\ uses' = [uses EXCEPT ![s] = c]
  /\ UNCHANGED <<backend, locks, known, record, saved, job, writing, orphans, active, lease, ctl>>

RegisterBranch(s) == s \in PolicyBranches /\ UNCHANGED parent /\ Register(s, "requested")

(* immediate_lease: no work is pending and the lease is free, or the       *)
(* request fails.                                                          *)
TakeLease(s) ==
  /\ s \in Takeovers /\ SvcFree
  /\ IF PendingJob \/ lease # NoSession
       THEN Move(s, "requested", "gone") /\ UNCHANGED lease
       ELSE Move(s, "requested", "leased") /\ lease' = s
  /\ UNCHANGED <<backend, locks, known, record, saved, job, writing, request, active, ctl>>

(* _claim: the manager is free for this session.                           *)
Claimable(s) ==
  /\ ~Calibrating
  /\ active # NoSession => status[active] \notin Active

(* A claim that cannot write run.json leaves active_session_id behind.     *)
ClaimTakeover(s) ==
  /\ MgrFree
  /\ \/ /\ Claimable(s)
        /\ Move(s, "leased", "claimed")
        /\ Save(s, "LOADING")
        /\ UNCHANGED lease
     \/ /\ Claimable(s) /\ s \in Faulty
        /\ Move(s, "leased", "stuck")
        /\ lease' = NoSession
        /\ UNCHANGED saved
     \/ /\ ~Claimable(s)
        /\ Move(s, "leased", "gone")
        /\ lease' = NoSession
        /\ UNCHANGED saved
  /\ IF Claimable(s)
       THEN known' = known \cup {s} /\ active' = s /\ SetStatus(s, "LOADING")
       ELSE UNCHANGED <<known, active, status>>
  /\ UNCHANGED <<backend, locks, error, stopped, job, writing, request, ctl>>
-----------------------------------------------------------------------------
(***************************************************************************)
(* The work queue and execute().                                           *)
(***************************************************************************)
Dispatch(s) ==
  /\ up = "open" /\ SvcFree /\ lease = NoSession /\ job[s] = "QUEUED"
  /\ Move(s, "queued", "begun")
  /\ job' = [job EXCEPT ![s] = "ACTIVE"]
  /\ lease' = s
  /\ UNCHANGED <<backend, locks, known, record, saved, writing, request, active, ctl>>

(* The dispatcher fails the job without telling the session.               *)
DispatchFails(s) ==
  /\ up = "open" /\ SvcFree /\ lease = NoSession /\ job[s] = "QUEUED" /\ s \in Faulty
  /\ Move(s, "queued", "dropped")
  /\ job' = [job EXCEPT ![s] = "ENDED"]
  /\ UNCHANGED <<backend, locks, known, record, saved, writing, request, active, lease, ctl>>

Claim(s) ==
  /\ MgrFree
  /\ IF Claimable(s)
       THEN /\ known' = known \cup {s} /\ active' = s
            /\ \/ Move(s, "begun", "claimed") /\ Save(s, status[s]) /\ UNCHANGED error
               \/ s \in Faulty /\ Move(s, "begun", "failing") /\ Fail(s) /\ UNCHANGED saved
       ELSE /\ Move(s, "begun", "failing") /\ Fail(s)
            /\ UNCHANGED <<known, active, saved>>
  /\ UNCHANGED <<backend, locks, status, stopped, job, writing, request, lease, ctl>>

(* record.status = "LOADING", whatever a cancel has written meanwhile.     *)
StartLoading(s) ==
  /\ Move(s, "claimed", "loading")
  /\ SetStatus(s, "LOADING")
  /\ UNCHANGED <<backend, locks, known, error, stopped, saved, job, writing, request, active,
                 lease, ctl>>

CopySource(s) ==
  /\ MgrFree
  /\ IF parent[s] \in known \cup {NoSession}
       THEN Move(s, "loading", "preparing") /\ UNCHANGED error
       ELSE Move(s, "loading", "failing") /\ Fail(s)
  /\ UNCHANGED <<backend, locks, known, status, stopped, saved, job, writing, request, active,
                 lease, ctl>>
-----------------------------------------------------------------------------
(***************************************************************************)
(* _run_session.                                                           *)
(***************************************************************************)
(* Every phase of the preparation saves run.json.  A takeover becomes      *)
(* READY before its countdown, unless the alignment of the arm is given up.*)
Prepare(s) ==
  /\ MgrFree
  /\ \/ /\ s \in Queued
        /\ Move(s, "preparing", "starting")
        /\ writing' = [writing EXCEPT ![s] = IF s \in stopped THEN "STOPPING" ELSE "RUNNING"]
        /\ Save(s, status[s]) /\ UNCHANGED status
     \/ /\ s \in Takeovers
        /\ Move(s, "preparing", "countdown")
        /\ SetStatus(s, "READY") /\ Save(s, "READY") /\ UNCHANGED writing
     \/ /\ uses[s] = Factr /\ s \in stopped
        /\ Move(s, "preparing", "ending")
        /\ Save(s, status[s]) /\ UNCHANGED <<status, writing>>
  /\ UNCHANGED <<backend, locks, known, error, stopped, job, request, active, lease, ctl>>

(* Arming fails without a calibrated controller; a takeover with FACTR is  *)
(* given up when its gravity compensation is switched off.                 *)
Countdown(s) ==
  /\ MgrFree /\ step[s] = "countdown"
  /\ \/ /\ s \in stopped
        /\ Move(s, "countdown", "starting")
        /\ writing' = [writing EXCEPT ![s] = "STOPPING"]
        /\ UNCHANGED <<error, ctl>>
     \/ /\ s \notin stopped /\ ctl[uses[s]].state = "READY"
        /\ Move(s, "countdown", "starting")
        /\ ctl' = [ctl EXCEPT ![uses[s]] = [state |-> "ARMED", by |-> s]]
        /\ writing' = [writing EXCEPT ![s] = "RUNNING"]
        /\ UNCHANGED error
     \/ /\ s \notin stopped /\ ctl[uses[s]].state # "READY"
        /\ Move(s, "countdown", "ending")
        /\ Fail(s) /\ UNCHANGED <<ctl, writing>>
     \/ /\ uses[s] = Factr
        /\ Move(s, "countdown", "ending")
        /\ UNCHANGED <<error, ctl, writing>>
  /\ UNCHANGED <<backend, locks, known, status, stopped, saved, job, request, active, lease>>

Start(s) ==
  /\ MgrFree
  /\ Move(s, "starting", "running")
  /\ SetStatus(s, writing[s]) /\ Save(s, writing[s])
  /\ writing' = [writing EXCEPT ![s] = "none"]
  /\ UNCHANGED <<backend, locks, known, error, stopped, job, request, active, lease, ctl>>

RunEnds(s) ==
  /\ MgrFree
  /\ Move(s, "running", "ending")
  /\ SetStatus(s, "POSTPROCESSING") /\ Save(s, "POSTPROCESSING")
  /\ UNCHANGED <<backend, locks, known, error, stopped, job, writing, request, active, lease, ctl>>

(* An exception anywhere between the phases and the end of the loop.       *)
RunFails(s) ==
  /\ \/ Move(s, "preparing", "ending") \/ Move(s, "countdown", "ending")
     \/ Move(s, "starting", "ending") \/ Move(s, "running", "ending")
  /\ Fail(s)
  /\ writing' = [writing EXCEPT ![s] = "none"]
  /\ UNCHANGED <<backend, locks, known, status, stopped, saved, job, request, active, lease, ctl>>

(* Physical output is taken away first, then the controller disarmed,      *)
(* which fails if the device is gone.                                      *)
Disarmed(s, failed) ==
  [c \in Controllers |->
     IF ctl[c].by = s /\ ~(failed /\ c = Factr) THEN Idle("READY") ELSE FactrOff(failed)[c]]

Cleanup(s) ==
  /\ Move(s, "ending", "saving")
  /\ \/ ctl' = Disarmed(s, error[s]) /\ UNCHANGED error
     \/ s \in Takeovers /\ Fail(s) /\ ctl' = Disarmed(s, TRUE)
  /\ UNCHANGED <<backend, locks, known, status, stopped, saved, job, writing, request, active,
                 lease>>

(* Videos and trajectory are saved, or that fails; the outcome is written  *)
(* to the record without the lock.                                         *)
\* mutant
OutcomeBeforeSaving(failed, saves) == IF failed THEN "ERROR" ELSE "COMPLETED"
Outcome(failed, saves) == IF failed \/ ~saves THEN "ERROR" ELSE "COMPLETED"

Settle(s) ==
  /\ Move(s, "saving", "settled")
  /\ \E saves \in BOOLEAN :
       /\ error' = [error EXCEPT ![s] = @ \/ ~saves]
       /\ SetStatus(s, Outcome(error[s], saves))
       /\ ctl' = FactrOff(error[s] \/ ~saves)
  /\ UNCHANGED <<backend, locks, known, stopped, saved, job, writing, request, active, lease>>

(* summary.json is written or not, then run.json with the status of then.  *)
Summarise(s) ==
  /\ Move(s, "settled", "persisting")
  /\ \/ /\ writing' = [writing EXCEPT ![s] = status[s]]
        /\ UNCHANGED <<status, error>>
     \/ /\ Fail(s) /\ SetStatus(s, "ERROR")
        /\ writing' = [writing EXCEPT ![s] = "ERROR"]
  /\ UNCHANGED <<backend, locks, known, stopped, saved, job, request, active, lease, ctl>>

Persist(s) ==
  /\ Move(s, "persisting", "persisted")
  /\ \/ Save(s, writing[s]) /\ UNCHANGED <<status, error>>
     \/ Fail(s) /\ SetStatus(s, "ERROR") /\ UNCHANGED saved
  /\ writing' = [writing EXCEPT ![s] = "none"]
  /\ UNCHANGED <<backend, locks, known, stopped, job, request, active, lease, ctl>>

Deactivate(s) ==
  /\ MgrFree
  /\ Move(s, "persisted", "ran")
  /\ active' = IF active = s THEN NoSession ELSE active
  /\ UNCHANGED <<backend, locks, known, record, saved, job, writing, request, lease, ctl>>

(* Back in execute(): a session that failed says so once more.             *)
SettleFailure(s) ==
  IF error[s] THEN SetStatus(s, "ERROR") /\ Save(s, "ERROR") ELSE UNCHANGED <<status, saved>>

Conclude(s) ==
  /\ Move(s, "ran", "leaving") \/ Move(s, "failing", "leaving")
  /\ SettleFailure(s)
  /\ UNCHANGED <<backend, locks, known, error, stopped, job, writing, request, active, lease, ctl>>

\* mutant
LeaveReleased(s) ==
  /\ MgrFree
  /\ Move(s, "leaving", "releasing")
  /\ lease' = NoSession
  /\ UNCHANGED <<backend, locks, known, record, saved, job, writing, request, active, ctl>>

Leave(s) ==
  /\ MgrFree
  /\ Move(s, "leaving", "releasing")
  /\ active' = IF active = s THEN NoSession ELSE active
  /\ UNCHANGED <<backend, locks, known, record, saved, job, writing, request, lease, ctl>>

(* The queue records the job's outcome and gives the lease back.           *)
Release(s) ==
  /\ SvcFree
  /\ Move(s, "releasing", "gone")
  /\ job' = [job EXCEPT ![s] = IF @ \in Pending THEN "ENDED" ELSE @]
  /\ lease' = NoSession
  /\ UNCHANGED <<backend, locks, known, record, saved, writing, request, active, ctl>>
-----------------------------------------------------------------------------
(***************************************************************************)
(* Requests about a session that exists.                                   *)
(***************************************************************************)
(* stop() sends a QUEUED session with a job to the queue (Cancel); others  *)
(* it marks, the check and the write under the manager's lock.             *)
Stop(s) ==
  /\ up = "open" /\ MgrFree /\ stops < MaxStops
  /\ s \in known /\ status[s] \notin Terminal
  /\ ~(status[s] = "QUEUED" /\ job[s] # "none")
  /\ stops' = stops + 1
  /\ stopped' = stopped \cup {s}
  /\ mgr' = s
  /\ UNCHANGED <<up, restarts, svc, known, status, error, saved, job, step, writing, request,
                 active, lease, ctl>>

MarkStopping(s) ==
  /\ mgr = s
  /\ SetStatus(s, "STOPPING") /\ Save(s, "STOPPING")
  /\ mgr' = NoSession
  /\ UNCHANGED <<backend, svc, known, error, stopped, job, step, writing, request, active, lease,
                 ctl>>

(* The queue's stop and close(): cancel_record under the queue's lock, not *)
(* the manager's; it marks a session it has read as QUEUED.  (To cancel    *)
(* what runs and was stopped before changes nothing that is kept here.)    *)
\* mutant
CancelKeepingTask(s) ==
  /\ up \in {"open", "closing"} /\ SvcFree
  /\ job[s] \in Pending /\ step[s] \in Working \cup {"queued"} /\ s \notin stopped
  /\ stopped' = stopped \cup {s}
  /\ job' = [job EXCEPT ![s] = IF step[s] = "queued" THEN "ENDED" ELSE "STOPPING"]
  /\ svc' = IF status[s] = "QUEUED" THEN s ELSE NoSession
  /\ UNCHANGED <<backend, mgr, known, status, error, saved, step, writing, request, active, lease,
                 ctl>>

Cancel(s) ==
  /\ up \in {"open", "closing"} /\ SvcFree
  /\ job[s] \in Pending /\ step[s] \in Working \cup {"queued"}
  /\ s \in stopped => step[s] = "queued"
  /\ stopped' = stopped \cup {s}
  /\ IF step[s] = "queued"
       THEN Move(s, "queued", "gone") /\ job' = [job EXCEPT ![s] = "ENDED"]
       ELSE job' = [job EXCEPT ![s] = "STOPPING"] /\ UNCHANGED step
  /\ svc' = IF status[s] = "QUEUED" THEN s ELSE NoSession
  /\ UNCHANGED <<backend, mgr, known, status, error, saved, writing, request, active, lease, ctl>>

MarkCanceled(s) ==
  /\ svc = s
  /\ SetStatus(s, "ERROR") /\ Save(s, "ERROR") /\ Fail(s)
  /\ svc' = NoSession
  /\ UNCHANGED <<backend, mgr, known, stopped, job, step, writing, request, active, lease, ctl>>

ManualDisconnect(s) ==
  /\ up = "open" /\ s \in Takeovers \cap known /\ status[s] \in Active /\ s \notin stopped
  /\ stopped' = stopped \cup {s}
  /\ UNCHANGED <<backend, locks, known, status, error, saved, job, step, writing, request, active,
                 lease, ctl>>

(* delete_session: no pending job names the session as its source, nothing *)
(* is active, no controller is in use, the session is over.                *)
\* mutant
ReferencedByQueuedOnly(s) == \E b \in PolicyBranches : job[b] = "QUEUED" /\ parent[b] = s
Referenced(s) == \E b \in PolicyBranches : job[b] \in Pending /\ parent[b] = s

Delete(s) ==
  /\ up = "open" /\ SvcFree /\ MgrFree
  /\ ~Referenced(s) /\ active = NoSession
  /\ \A c \in Controllers : ctl[c].state \notin {"CALIBRATING", "ARMED"}
  /\ s \in known /\ status[s] \in Terminal /\ saved[s] # "none"
  /\ known' = known \ {s}
  /\ Save(s, "none")
  /\ UNCHANGED <<backend, locks, record, job, step, writing, request, active, lease, ctl>>
-----------------------------------------------------------------------------
(***************************************************************************)
(* Controllers.  READY: connected and calibrated; DOWN: anything before.   *)
(***************************************************************************)
Calibrate(c) ==
  /\ up = "open" /\ MgrFree /\ active = NoSession
  /\ \A other \in Controllers : ctl[other].state \notin {"CALIBRATING", "ARMED"}
  /\ ctl' = [ctl EXCEPT ![c] = Idle("CALIBRATING")]
  /\ UNCHANGED <<backend, locks, known, record, saved, job, step, writing, request, active, lease>>

CalibrationEnds(c) ==
  /\ ctl[c].state = "CALIBRATING"
  /\ \E state \in {"READY", "DOWN"} : ctl' = [ctl EXCEPT ![c] = Idle(state)]
  /\ UNCHANGED <<backend, locks, known, record, saved, job, step, writing, request, active, lease>>

Unplug(c) ==
  /\ ctl[c].state \in {"READY", "ARMED"}
  /\ ctl' = [ctl EXCEPT ![c] = Idle("DOWN")]
  /\ UNCHANGED <<backend, locks, known, record, saved, job, step, writing, request, active, lease>>
-----------------------------------------------------------------------------
(***************************************************************************)
(* The backend ends and comes back.                                        *)
(***************************************************************************)
(* The lifespan ends: no request is under way, FACTR goes first, then the  *)
(* queue cancels its jobs and waits for them, then a takeover is stopped   *)
(* and joined.                                                             *)
Close ==
  /\ up = "open" /\ MgrFree /\ SvcFree
  /\ \A s \in Sessions : step[s] \notin {"requested", "leased"}
  /\ up' = "closing"
  /\ ctl' = FactrOff(TRUE)
  /\ UNCHANGED <<restarts, stops, locks, known, record, saved, job, step, writing, request,
                 active, lease>>

StopTakeover ==
  /\ up = "closing" /\ SvcFree
  /\ \A s \in Queued : step[s] \notin Working \cup {"queued"}
  /\ up' = "joining"
  /\ stopped' = stopped \cup ({active} \ {NoSession})
  /\ UNCHANGED <<restarts, stops, locks, known, status, error, saved, job, step, writing, request,
                 active, lease, ctl>>

(* What dies with the process, and what its successor makes of the rest:   *)
(* an active run.json becomes an ERROR.                                    *)
Forget ==
  /\ known' = {} /\ active' = NoSession /\ lease' = NoSession
  /\ mgr' = NoSession /\ svc' = NoSession
  /\ stopped' = {} /\ orphans' = {}
  /\ status' = [s \in Sessions |-> "none"] /\ writing' = [s \in Sessions |-> "none"]
  /\ error' = [s \in Sessions |-> FALSE]
  /\ uses' = [s \in Sessions |-> NoController] /\ parent' = [s \in Sessions |-> NoSession]
  /\ ctl' = [c \in Controllers |-> Idle("DOWN")]
  /\ step' = [s \in Sessions |-> IF step[s] = "none" THEN "none"
                                 ELSE IF job[s] \in Pending THEN "lost" ELSE "gone"]

Exit ==
  /\ up = "joining" /\ \A s \in Takeovers : step[s] \notin Working
  /\ up' = "down"
  /\ Forget
  /\ UNCHANGED <<restarts, stops, saved, job>>

Crash ==
  /\ up # "down"
  /\ up' = "down"
  /\ Forget
  /\ UNCHANGED <<restarts, stops, saved, job>>

Recovered(v) == IF v \in Active THEN "ERROR" ELSE v

Restart ==
  /\ up = "down" /\ restarts < MaxRestarts
  /\ restarts' = restarts + 1
  /\ up' = "open"
  /\ known' = {s \in Sessions : saved[s] # "none"}
  /\ saved' = [s \in Sessions |-> Recovered(saved[s])]
  /\ status' = saved'
  /\ error' = [s \in Sessions |-> saved'[s] = "ERROR"]
  /\ UNCHANGED <<stops, locks, stopped, job, step, writing, request, active, lease, ctl>>

(* "Backend restarted; register this local task again"                     *)
FailLostJob(s) ==
  /\ up = "open" /\ SvcFree
  /\ Move(s, "lost", "gone")
  /\ job' = [job EXCEPT ![s] = "ENDED"]
  /\ UNCHANGED <<backend, locks, known, record, saved, writing, request, active, lease, ctl>>
-----------------------------------------------------------------------------
Init ==
  /\ up = "open" /\ restarts = 0 /\ stops = 0
  /\ mgr = NoSession /\ svc = NoSession
  /\ known = {} /\ stopped = {} /\ orphans = {}
  /\ status = [s \in Sessions |-> "none"] /\ saved = [s \in Sessions |-> "none"]
  /\ error = [s \in Sessions |-> FALSE]
  /\ job = [s \in Sessions |-> "none"] /\ step = [s \in Sessions |-> "none"]
  /\ writing = [s \in Sessions |-> "none"]
  /\ parent = [s \in Sessions |-> NoSession]
  /\ uses = [s \in Sessions |-> NoController]
  /\ active = NoSession /\ lease = NoSession
  /\ ctl = [c \in Controllers |-> Idle("DOWN")]

Creation(s) ==
  \/ CreateOriginal(s) \/ RegisterBranch(s)
  \/ \E p \in Originals :
       \/ s \in PolicyBranches /\ RequestBranch(s, p, NoController)
       \/ s \in Takeovers /\ \E c \in Controllers : RequestBranch(s, p, c)

Thread(s) ==
  \/ TakeLease(s) \/ ClaimTakeover(s) \/ Claim(s) \/ StartLoading(s) \/ CopySource(s)
  \/ Prepare(s) \/ Countdown(s) \/ Start(s) \/ RunEnds(s) \/ RunFails(s) \/ Cleanup(s)
  \/ Settle(s) \/ Summarise(s) \/ Persist(s) \/ Deactivate(s) \/ Conclude(s) \/ Leave(s)
  \/ Release(s)

Request(s) == Stop(s) \/ Cancel(s) \/ ManualDisconnect(s) \/ Delete(s)

Next ==
  \/ \E s \in Sessions :
       \/ Creation(s) \/ Dispatch(s) \/ DispatchFails(s) \/ Thread(s) \/ Request(s)
       \/ MarkStopping(s) \/ MarkCanceled(s) \/ FailLostJob(s)
  \/ \E c \in Controllers : Calibrate(c) \/ CalibrationEnds(c) \/ Unplug(c)
  \/ Close \/ StopTakeover \/ Exit \/ Crash \/ Restart

Spec == Init /\ [][Next]_vars

(* As long as a thread, the dispatcher or a shutdown can go on, one of     *)
(* them does; users do as they please.  Each has finitely much to do: a    *)
(* run ends at max_steps or when it sees stop_event.                       *)
Progress ==
  \/ \E s \in Sessions :
       \/ Thread(s) \/ MarkStopping(s) \/ MarkCanceled(s) \/ Dispatch(s) \/ FailLostJob(s)
       \/ up = "closing" /\ Cancel(s)
  \/ StopTakeover \/ Exit

Fairness == WF_vars(Progress)
-----------------------------------------------------------------------------
TypeOK ==
  /\ up \in {"open", "closing", "joining", "down"}
  /\ restarts \in 0..MaxRestarts /\ stops \in 0..MaxStops
  /\ mgr \in Sessions \cup {NoSession} /\ svc \in Sessions \cup {NoSession}
  /\ known \subseteq Sessions /\ stopped \subseteq Sessions /\ orphans \subseteq Branches
  /\ status \in [Sessions -> Active \cup Terminal \cup {"none"}]
  /\ saved \in [Sessions -> Active \cup Terminal \cup {"none"}]
  /\ error \in [Sessions -> BOOLEAN]
  /\ job \in [Sessions -> Pending \cup {"none", "ENDED"}]
  /\ step \in [Sessions -> Steps]
  /\ writing \in [Sessions -> Active \cup Terminal \cup {"none"}]
  /\ parent \in [Sessions -> Originals \cup {NoSession}]
  /\ uses \in [Sessions -> Controllers \cup {NoController}]
  /\ active \in Sessions \cup {NoSession} /\ lease \in Sessions \cup {NoSession}
  /\ ctl \in [Controllers -> [state : {"READY", "DOWN", "CALIBRATING", "ARMED"},
                              by : Sessions \cup {NoSession}]]

(* Whoever prepares, runs or saves a session is the active session and     *)
(* holds the resource lease, through every stop, cancel and failure.       *)
RunsAlone ==
  \A s \in Sessions :
    /\ step[s] \in Running => active = s
    /\ step[s] \in Working => lease = s

(* A controller is never calibrated under a session, and an armed one      *)
(* belongs to the session that runs and to no finished one.                *)
ControllerFollowsSession ==
  \A c \in Controllers :
    /\ ctl[c].state = "CALIBRATING" => active = NoSession
    /\ ctl[c].state = "ARMED" => step[ctl[c].by] \in {"starting", "running", "ending"}

(* run.json says COMPLETED only of a session in which nothing failed, the  *)
(* saving of its trajectory, of its summary and of run.json included; what *)
(* a late cancel adds to the record, execute() catches up with.            *)
OutcomeHonest ==
  \A s \in Sessions :
    saved[s] = "COMPLETED" =>
      ~error[s] \/ (job[s] = "STOPPING" /\ step[s] \in {"persisted", "ran"})

(* When its thread is gone the session is over in memory and on disk       *)
(* alike; the one exception is a stop() that overtakes the outcome and     *)
(* leaves the session STOPPING until the backend is restarted.             *)
Overtaken(s) == s \in stopped /\ "STOPPING" \in {status[s], saved[s]}
ThreadGoneSessionOver ==
  \A s \in known :
    step[s] \in {"releasing", "gone", "lost"} /\ mgr # s /\ svc # s =>
      (status[s] \in Terminal /\ saved[s] = status[s]) \/ Overtaken(s)

(* "The trajectory is referenced by pending work and cannot be deleted":   *)
(* the source of a branch is kept from its registration until its job has  *)
(* ended, a branch that lost its source before that excepted.              *)
SourceKept ==
  \A b \in PolicyBranches :
    up # "down" /\ job[b] \in Pending /\ step[b] # "lost" => parent[b] \in known \/ b \in orphans

(* A registered session ends, whatever is stopped, deleted, calibrated or  *)
(* unplugged meanwhile, unless the dispatcher dropped its job.             *)
SessionEnds ==
  \A s \in Sessions : step[s] \in {"queued", "begun"} ~> step[s] \in {"gone", "dropped", "lost"}

(* The manager comes free again, so that drafts, calibrations and          *)
(* deletions do, except for a takeover whose claim could not be written:   *)
(* that one keeps the manager until the backend is restarted.              *)
ManagerComesFree ==
  active # NoSession ~> active = NoSession \/ step[active] = "stuck"

(* A shutdown that has begun ends.                                         *)
ShutdownEnds == up = "closing" ~> up = "down"

(* All three: nothing in a session waits for ever.                         *)
SessionsComeToAnEnd == SessionEnds /\ ManagerComesFree /\ ShutdownEnds
=============================================================================
