----------------------- MODULE SimulationSessionProofs -----------------------
(***************************************************************************)
(* Theorems about simulation sessions, for any number of sessions,         *)
(* controllers, stops and restarts.                                        *)
(***************************************************************************)
EXTENDS MCSessions, TLAPS

(* The lease travels with the request or the thread; whoever runs has it,  *)
(* so nobody else can claim the manager.                                   *)
HasLease == Working \cup {"leased"}
ApartInv ==
  /\ \A s \in Sessions : /\ step[s] \in Running => active = s
                         /\ step[s] \in HasLease => lease = s
  /\ \A c \in Controllers :
       /\ ctl[c].state = "CALIBRATING" => active = NoSession
       /\ ctl[c].state = "ARMED" => ctl[c].by \in Sessions
                                    /\ step[ctl[c].by] \in {"starting", "running", "ending"}

(* A job outlives its thread only as one that was lost.                    *)
LifeInv ==
  /\ up = "down" => \A s \in Sessions : step[s] \in {"none", "lost", "gone"}
                                        /\ (job[s] \in Pending => step[s] = "lost")
  /\ \A s \in Sessions :
       /\ step[s] = "none" => job[s] \notin Pending
       /\ step[s] = "requested" /\ s \in PolicyBranches => parent[s] \in Originals
       /\ s \in Originals => parent[s] = NoSession

(* What the record and run.json say at each point of the thread, and what  *)
(* a stop or a cancel in progress may still write.                         *)
Unborn == {"none", "requested", "leased"}
Unsaved == Steps \ {"persisted", "ran", "leaving", "releasing", "gone", "lost"}
Unsettled == Unsaved \ {"settled", "persisting"}
Over(s) == status[s] \in Terminal /\ saved[s] = status[s]
StoppedSo(s) == s \in stopped /\ status[s] = "STOPPING"

BeforeInv(s) ==
  /\ step[s] \in Unborn => s \notin known /\ saved[s] = "none"
  /\ step[s] = "queued" => status[s] = "QUEUED" /\ job[s] = "QUEUED"
  /\ step[s] \in Unsettled => status[s] # "COMPLETED"
  /\ step[s] \in Unsaved => saved[s] # "COMPLETED"
LocksInv(s) ==
  /\ mgr = s => s \in stopped /\ step[s] \notin Unborn \cup {"queued"}
  /\ svc = s => step[s] = "gone" \/ (step[s] \in Working /\ job[s] = "STOPPING")
OutcomeInv(s) ==
  /\ saved[s] = "COMPLETED" => ~error[s] \/ (job[s] = "STOPPING" /\ step[s] \in {"persisted", "ran"})
  /\ writing[s] = "COMPLETED" => step[s] = "persisting" /\ (~error[s] \/ job[s] = "STOPPING")
  /\ step[s] = "settled" => (status[s] = "COMPLETED" => ~error[s])
  /\ step[s] = "failing" => error[s]
EndInv(s) ==
  /\ step[s] = "settled" => error[s] \/ status[s] = "COMPLETED" \/ StoppedSo(s)
  /\ step[s] = "persisting" =>
       error[s] \/ (status[s] = "COMPLETED" /\ writing[s] = "COMPLETED") \/ StoppedSo(s)
  /\ s \in known /\ step[s] \in {"persisted", "ran"} =>
       error[s] \/ (status[s] = "COMPLETED" /\ saved[s] = "COMPLETED") \/ Overtaken(s)
  /\ s \in known /\ step[s] \in {"leaving", "releasing", "gone", "lost"} /\ mgr # s /\ svc # s =>
       Over(s) \/ Overtaken(s)
SettledInv(s) == BeforeInv(s) /\ LocksInv(s) /\ OutcomeInv(s) /\ EndInv(s)
RecordInv == \A s \in Sessions : SettledInv(s)

SessionIInv == TypeOK /\ ApartInv /\ LifeInv /\ SourceKept /\ RecordInv
-----------------------------------------------------------------------------
(***************************************************************************)
(* Types; the flags apart from the rest, for the provers' sake.            *)
(***************************************************************************)
ShapeOK ==
  /\ up \in {"open", "closing", "joining", "down"}
  /\ restarts \in 0..MaxRestarts /\ stops \in 0..MaxStops
  /\ mgr \in Sessions \cup {NoSession} /\ svc \in Sessions \cup {NoSession}
  /\ known \subseteq Sessions /\ stopped \subseteq Sessions
  /\ status \in [Sessions -> Active \cup Terminal \cup {"none"}]
  /\ saved \in [Sessions -> Active \cup Terminal \cup {"none"}]
  /\ job \in [Sessions -> Pending \cup {"none", "ENDED"}]
  /\ step \in [Sessions -> Steps]
  /\ writing \in [Sessions -> Active \cup Terminal \cup {"none"}]
  /\ parent \in [Sessions -> Originals \cup {NoSession}]
  /\ uses \in [Sessions -> Controllers \cup {NoController}]
  /\ active \in Sessions \cup {NoSession} /\ lease \in Sessions \cup {NoSession}
CtlOK == ctl \in [Controllers -> [state : {"READY", "DOWN", "CALIBRATING", "ARMED"},
                                   by : Sessions \cup {NoSession}]]
FlagsOK == error \in [Sessions -> BOOLEAN]

(* The type invariant, the parts the provers like to have apart.           *)
LEMMA TypeParts == TypeOK <=> ShapeOK /\ CtlOK /\ FlagsOK /\ orphans \subseteq Branches
BY DEF TypeOK, ShapeOK, CtlOK, FlagsOK

(* A session that moves goes from one step to another, and no other        *)
(* session moves.                                                          *)
LEMMA Moved ==
  ASSUME ShapeOK, NEW s \in Sessions, NEW a, NEW b, Move(s, a, b)
  PROVE  /\ step[s] = a /\ step'[s] = b
         /\ \A t \in Sessions \ {s} : step'[t] = step[t]
         /\ b \in Steps => step' \in [Sessions -> Steps]
BY DEF ShapeOK, Move

(* The steps outside a thread's work, and inside it, are steps.            *)
LEMMA StepNames ==
  /\ Running \subseteq Working /\ Working \subseteq Steps
  /\ {"none", "requested", "leased", "queued", "refused", "stuck", "dropped", "gone", "lost"} \subseteq Steps
BY DEF Running, Working, Steps

(* Creating, queueing and dispatching a session keeps the types.           *)
LEMMA CreationShape ==
  ASSUME ShapeOK, NEW s \in Sessions, Creation(s) \/ Dispatch(s) \/ DispatchFails(s) \/ FailLostJob(s)
  PROVE  ShapeOK'
<1> USE SessionAssumption DEF backend, locks, record, request
<1>a. {"none", "QUEUED"} \subseteq Active \cup Terminal \cup {"none"} /\ {"QUEUED", "ACTIVE"} \subseteq Pending
  BY DEF Active, Pending
<1>1. CASE CreateOriginal(s) \/ RegisterBranch(s)
  <2>1. \E from : Register(s, from) /\ UNCHANGED parent
    BY <1>1 DEF CreateOriginal, RegisterBranch
  <2>2. PICK from : Register(s, from) /\ UNCHANGED parent
    BY <2>1
  <2>3. step' \in [Sessions -> Steps]
    BY <2>2, Moved, StepNames DEF Register
  <2>4. saved' \in [Sessions -> Active \cup Terminal \cup {"none"}] /\ job' \in [Sessions -> Pending \cup {"none", "ENDED"}]
    BY <2>2, <1>a DEF Register, Save, ShapeOK
  <2> QED
    BY <2>2, <2>3, <2>4, <1>a DEF Register, SetStatus, ShapeOK
<1>2. CASE \E p \in Originals : \E c \in Controllers \cup {NoController} : RequestBranch(s, p, c)
  BY <1>2, Moved, StepNames DEF RequestBranch, ShapeOK
<1>3. CASE Dispatch(s)
  BY <1>3, <1>a, Moved, StepNames DEF Dispatch, ShapeOK, Working
<1>4. CASE DispatchFails(s) \/ FailLostJob(s)
  BY <1>4, Moved, StepNames DEF DispatchFails, FailLostJob, ShapeOK
<1> QED
  BY <1>1, <1>2, <1>3, <1>4 DEF Creation

(* So does its thread.                                                     *)
LEMMA ThreadShape ==
  ASSUME ShapeOK, NEW s \in Sessions, Thread(s)
  PROVE  ShapeOK'
<1> USE SessionAssumption DEF backend, locks, record, request
<1>a. {"LOADING", "READY", "RUNNING", "STOPPING", "POSTPROCESSING", "COMPLETED", "ERROR", "none"}
        \subseteq Active \cup Terminal \cup {"none"}
  BY DEF Active, Terminal
<1>b. Running \cup {"begun", "failing", "ran", "leaving", "releasing", "gone", "leased", "stuck"} \subseteq Steps
  BY DEF Steps, Working
<1>1. CASE TakeLease(s)
  BY <1>1, <1>b, Moved DEF TakeLease, ShapeOK
<1>2. CASE ClaimTakeover(s)
  <2>1. step' \in [Sessions -> Steps]
    BY <1>2, <1>b, Moved DEF ClaimTakeover, Running
  <2>2. saved' \in [Sessions -> Active \cup Terminal \cup {"none"}]
    BY <1>2, <1>a DEF ClaimTakeover, Save, ShapeOK
  <2> QED
    BY <1>2, <2>1, <2>2, <1>a DEF ClaimTakeover, SetStatus, ShapeOK
<1>3. CASE Claim(s)
  <2>1. step' \in [Sessions -> Steps]
    BY <1>3, <1>b, Moved DEF Claim, Running
  <2> QED
    BY <1>3, <2>1 DEF Claim, Save, ShapeOK
<1>4. CASE StartLoading(s) \/ CopySource(s)
  <2>1. step' \in [Sessions -> Steps]
    BY <1>4, <1>b, Moved DEF StartLoading, CopySource, Running
  <2> QED
    BY <1>4, <2>1, <1>a DEF StartLoading, CopySource, SetStatus, ShapeOK
<1>5. CASE Prepare(s)
  <2>1. step' \in [Sessions -> Steps]
    BY <1>5, <1>b, Moved DEF Prepare, Running
  <2> QED
    BY <1>5, <2>1, <1>a DEF Prepare, SetStatus, Save, ShapeOK
<1>6. CASE Countdown(s)
  <2>1. step' \in [Sessions -> Steps]
    BY <1>6, <1>b, Moved DEF Countdown, Running
  <2> QED
    BY <1>6, <2>1, <1>a DEF Countdown, ShapeOK
<1>7. CASE Start(s) \/ RunEnds(s) \/ RunFails(s)
  <2>1. step' \in [Sessions -> Steps]
    BY <1>7, <1>b, Moved DEF Start, RunEnds, RunFails, Running
  <2> QED
    BY <1>7, <2>1, <1>a DEF Start, RunEnds, RunFails, SetStatus, Save, ShapeOK
<1>8. CASE Cleanup(s)
  BY <1>8, <1>b, Moved DEF Cleanup, Running, ShapeOK
<1>9. CASE Settle(s)
  <2>1. step' \in [Sessions -> Steps]
    BY <1>9, <1>b, Moved DEF Settle, Running
  <2>2. \E v \in {"ERROR", "COMPLETED"} : SetStatus(s, v)
    BY <1>9 DEF Settle, Outcome
  <2>3. UNCHANGED <<backend, locks, known, stopped, saved, job, writing, request, active, lease>>
    BY <1>9 DEF Settle
  <2> QED
    BY <2>1, <2>2, <2>3, <1>a DEF SetStatus, ShapeOK
<1>10. CASE Summarise(s) \/ Persist(s)
  <2>1. step' \in [Sessions -> Steps]
    BY <1>10, <1>b, Moved DEF Summarise, Persist, Running
  <2> QED
    BY <1>10, <2>1, <1>a DEF Summarise, Persist, SetStatus, Save, ShapeOK
<1>11. CASE Deactivate(s) \/ Leave(s) \/ Release(s)
  <2>1. step' \in [Sessions -> Steps]
    BY <1>11, <1>b, Moved DEF Deactivate, Leave, Release
  <2> QED
    BY <1>11, <2>1 DEF Deactivate, Leave, Release, ShapeOK
<1>12. CASE Conclude(s)
  <2>1. step' \in [Sessions -> Steps]
    BY <1>12, <1>b, Moved DEF Conclude
  <2> QED
    BY <1>12, <2>1, <1>a DEF Conclude, SettleFailure, SetStatus, Save, ShapeOK
<1> QED
  BY <1>1, <1>2, <1>3, <1>4, <1>5, <1>6, <1>7, <1>8, <1>9, <1>10, <1>11, <1>12 DEF Thread

(* So do the requests for it.                                              *)
LEMMA RequestShape ==
  ASSUME ShapeOK, NEW s \in Sessions, Request(s) \/ MarkStopping(s) \/ MarkCanceled(s)
  PROVE  ShapeOK'
<1> USE SessionAssumption DEF backend, locks, record, request
<1>a. {"STOPPING", "ERROR", "none"} \subseteq Active \cup Terminal \cup {"none"} /\ "STOPPING" \in Pending
  BY DEF Active, Terminal, Pending
<1>1. CASE Stop(s) \/ ManualDisconnect(s) \/ Delete(s)
  BY <1>1, <1>a DEF Stop, ManualDisconnect, Delete, Save, ShapeOK
<1>2. CASE Cancel(s)
  <2>1. step' \in [Sessions -> Steps]
    BY <1>2, Moved, StepNames DEF Cancel, ShapeOK
  <2> QED
    BY <1>2, <2>1, <1>a DEF Cancel, ShapeOK
<1>3. CASE MarkStopping(s) \/ MarkCanceled(s)
  BY <1>3, <1>a DEF MarkStopping, MarkCanceled, SetStatus, Save, ShapeOK
<1> QED
  BY <1>1, <1>2, <1>3 DEF Request

(* So do controllers, close(), crashes and restarts.                       *)
LEMMA BackendShape ==
  ASSUME ShapeOK, \/ \E c \in Controllers : Calibrate(c) \/ CalibrationEnds(c) \/ Unplug(c)
                  \/ Close \/ StopTakeover \/ Exit \/ Crash \/ Restart
  PROVE  ShapeOK'
<1> USE SessionAssumption DEF backend, locks, record, request
<1>1. CASE \E c \in Controllers : Calibrate(c) \/ CalibrationEnds(c) \/ Unplug(c)
  BY <1>1 DEF Calibrate, CalibrationEnds, Unplug, ShapeOK
<1>2. CASE Close \/ StopTakeover
  BY <1>2 DEF Close, StopTakeover, ShapeOK
<1>3. CASE Exit \/ Crash
  <2>1. step' \in [Sessions -> Steps]
    BY <1>3, StepNames DEF Exit, Crash, Forget, ShapeOK
  <2> QED
    BY <1>3, <2>1 DEF Exit, Crash, Forget, ShapeOK
<1>4. CASE Restart
  <2>1. saved' \in [Sessions -> Active \cup Terminal \cup {"none"}]
    BY <1>4 DEF Restart, Recovered, Terminal, ShapeOK
  <2> QED
    BY <1>4, <2>1 DEF Restart, ShapeOK
<1> QED
  BY <1>1, <1>2, <1>3, <1>4

(* Every step keeps the types.                                             *)
LEMMA ShapeStep ==
  ASSUME ShapeOK, [Next]_vars
  PROVE  ShapeOK'
<1>1. CASE UNCHANGED vars
  BY <1>1 DEF vars, backend, locks, record, request, ShapeOK
<1> QED
  BY <1>1, CreationShape, ThreadShape, RequestShape, BackendShape DEF Next

(* Every step keeps the flags Booleans.                                    *)
LEMMA FlagsStep ==
  ASSUME FlagsOK, [Next]_vars
  PROVE  FlagsOK'
<1> USE DEF FlagsOK
<1>k. error' = error => FlagsOK'
  OBVIOUS
<1>f. ASSUME NEW s \in Sessions, Fail(s) PROVE FlagsOK'
  BY <1>f DEF Fail
<1>1. ASSUME NEW s \in Sessions, Creation(s) \/ Dispatch(s) \/ DispatchFails(s) \/ FailLostJob(s)
      PROVE  FlagsOK'
  BY <1>1, <1>k DEF Creation, CreateOriginal, RegisterBranch, Register, RequestBranch, Dispatch,
                    DispatchFails, FailLostJob, record
<1>2. ASSUME NEW s \in Sessions, Thread(s) PROVE FlagsOK'
  <2>1. CASE Settle(s)
    <3>1. PICK saves \in BOOLEAN : error' = [error EXCEPT ![s] = @ \/ ~saves]
      BY <2>1 DEF Settle
    <3>2. (error[s] \/ ~saves) \in BOOLEAN
      BY Zenon
    <3> QED
      BY <3>1, <3>2
  <2>2. CASE Claim(s) \/ CopySource(s) \/ Countdown(s)
    BY <2>2, <1>k, <1>f DEF Claim, CopySource, Countdown
  <2>3. CASE RunFails(s) \/ Cleanup(s) \/ Summarise(s) \/ Persist(s)
    BY <2>3, <1>k, <1>f DEF RunFails, Cleanup, Summarise, Persist
  <2>4. CASE TakeLease(s) \/ ClaimTakeover(s) \/ StartLoading(s) \/ Prepare(s) \/ Start(s) \/ RunEnds(s)
    BY <2>4, <1>k DEF TakeLease, ClaimTakeover, StartLoading, Prepare, Start, RunEnds, record
  <2>5. CASE Deactivate(s) \/ Conclude(s) \/ Leave(s) \/ Release(s)
    BY <2>5, <1>k DEF Deactivate, Conclude, Leave, Release, record
  <2> QED
    BY <1>2, <2>1, <2>2, <2>3, <2>4, <2>5 DEF Thread
<1>3. ASSUME NEW s \in Sessions, Request(s) \/ MarkStopping(s) \/ MarkCanceled(s) PROVE FlagsOK'
  BY <1>3, <1>k, <1>f DEF Request, Stop, Cancel, ManualDisconnect, Delete, MarkStopping, MarkCanceled, record
<1>4. CASE \/ \E c \in Controllers : Calibrate(c) \/ CalibrationEnds(c) \/ Unplug(c)
           \/ Close \/ StopTakeover \/ UNCHANGED vars
  BY <1>4, <1>k DEF Calibrate, CalibrationEnds, Unplug, Close, StopTakeover, vars, record
<1>5. CASE Exit \/ Crash \/ Restart
  BY <1>5 DEF Exit, Crash, Forget, Restart
<1> QED
  BY <1>1, <1>2, <1>3, <1>4, <1>5 DEF Next

(* Controllers: what a step may do to them.                                *)
CtlKept == \A c \in Controllers : ctl'[c] = ctl[c] \/ ctl'[c] = Idle("READY") \/ ctl'[c] = Idle("DOWN")

(* A controller is armed by the countdown of its session, taken by a       *)
(* calibration, and otherwise kept or freed.                               *)
LEMMA CtlStep ==
  ASSUME ShapeOK, CtlOK, [Next]_vars
  PROVE  /\ CtlOK'
         /\ \/ CtlKept
            \/ \E s \in Sessions : /\ Countdown(s) /\ step'[s] = "starting"
                                 /\ ctl' = [ctl EXCEPT ![uses[s]] = [state |-> "ARMED", by |-> s]]
            \/ \E c \in Controllers : Calibrate(c)
<1> USE SessionAssumption DEF CtlOK, CtlKept
<1>d. \A v \in {"READY", "DOWN", "CALIBRATING"} :
        Idle(v) \in [state : {"READY", "DOWN", "CALIBRATING", "ARMED"}, by : Sessions \cup {NoSession}]
  BY DEF Idle
<1>k. ctl' = ctl => CtlOK' /\ CtlKept
  OBVIOUS
<1>f. \A failed : ctl' = FactrOff(failed) => CtlOK' /\ CtlKept
  BY <1>d DEF FactrOff
<1>1. ASSUME NEW s \in Sessions, Creation(s) \/ Dispatch(s) \/ DispatchFails(s) \/ FailLostJob(s)
      PROVE  CtlOK' /\ CtlKept
  BY <1>1, <1>k DEF Creation, CreateOriginal, RegisterBranch, Register, RequestBranch, Dispatch,
                    DispatchFails, FailLostJob
<1>2. ASSUME NEW s \in Sessions, Thread(s), ~Countdown(s) PROVE CtlOK' /\ CtlKept
  <2>1. CASE Settle(s)
    BY <2>1, <1>f DEF Settle
  <2>2. CASE Cleanup(s)
    <3>1. \E failed : ctl' = Disarmed(s, failed)
      BY <2>2 DEF Cleanup
    <3> QED
      BY <3>1, <1>d DEF Disarmed, FactrOff
  <2>3. CASE Claim(s) \/ CopySource(s) \/ RunFails(s) \/ Summarise(s) \/ Persist(s)
    BY <2>3, <1>k DEF Claim, CopySource, RunFails, Summarise, Persist
  <2>4. CASE TakeLease(s) \/ ClaimTakeover(s) \/ StartLoading(s) \/ Prepare(s) \/ Start(s) \/ RunEnds(s)
    BY <2>4, <1>k DEF TakeLease, ClaimTakeover, StartLoading, Prepare, Start, RunEnds
  <2>5. CASE Deactivate(s) \/ Conclude(s) \/ Leave(s) \/ Release(s)
    BY <2>5, <1>k DEF Deactivate, Conclude, Leave, Release
  <2> QED
    BY <1>2, <2>1, <2>2, <2>3, <2>4, <2>5 DEF Thread
<1>3. ASSUME NEW s \in Sessions, Countdown(s)
      PROVE  /\ CtlOK'
             /\ CtlKept \/ /\ step'[s] = "starting"
                            /\ ctl' = [ctl EXCEPT ![uses[s]] = [state |-> "ARMED", by |-> s]]
  <2>1. CASE ctl' = ctl
    BY <2>1, <1>k
  <2>2. CASE ctl' # ctl
    <3>1. Move(s, "countdown", "starting") /\ ctl' = [ctl EXCEPT ![uses[s]] = [state |-> "ARMED", by |-> s]]
      BY <1>3, <2>2 DEF Countdown
    <3> QED
      BY <3>1, Moved
  <2> QED
    BY <2>1, <2>2
<1>4. ASSUME NEW s \in Sessions, Request(s) \/ MarkStopping(s) \/ MarkCanceled(s) PROVE CtlOK' /\ CtlKept
  BY <1>4, <1>k DEF Request, Stop, Cancel, ManualDisconnect, Delete, MarkStopping, MarkCanceled
<1>5. ASSUME NEW c \in Controllers, Calibrate(c) PROVE CtlOK'
  BY <1>5, <1>d DEF Calibrate
<1>6. ASSUME NEW c \in Controllers, CalibrationEnds(c) \/ Unplug(c) PROVE CtlOK' /\ CtlKept
  BY <1>6, <1>d DEF CalibrationEnds, Unplug
<1>7. CASE Close \/ StopTakeover \/ UNCHANGED vars
  BY <1>7, <1>k, <1>f DEF Close, StopTakeover, vars
<1>8. CASE Exit \/ Crash
  BY <1>8, <1>d DEF Exit, Crash, Forget
<1>9. CASE Restart
  BY <1>9, <1>k DEF Restart
<1> QED
  BY <1>1, <1>2, <1>3, <1>4, <1>5, <1>6, <1>7, <1>8, <1>9 DEF Next

(***************************************************************************)
(* The lease, the manager and the controllers.                             *)
(***************************************************************************)
Driving == {"starting", "running", "ending"}

(* Who drives the robot runs, and who runs has the lease.                  *)
LEMMA DriversRun == Driving \subseteq Running /\ Running \subseteq HasLease
BY DEF Driving, Running, HasLease, Working

(* A step of the session with the lease that leaves the lease and the      *)
(* manager to it, or a step of others.                                     *)
LEMMA ApartKept ==
  ASSUME ShapeOK, CtlOK, ApartInv, CtlKept, UNCHANGED lease,
         UNCHANGED active \/ (active' = NoSession /\ \E s \in Sessions : step[s] \in HasLease /\ step'[s] \notin Running),
         \A s \in Sessions :
           /\ step'[s] \in HasLease => step[s] \in HasLease
           /\ step'[s] \in Running => step[s] \in Running
           /\ step[s] \in Driving =>
                \/ step'[s] \in Driving
                \/ \A c \in Controllers : ctl[c].by = s => ctl'[c].state \in {"READY", "DOWN"}
  PROVE  ApartInv'
<1>1. ASSUME NEW s \in Sessions
      PROVE  /\ step'[s] \in Running => active' = s
             /\ step'[s] \in HasLease => lease' = s
  BY <1>1, DriversRun DEF ApartInv
<1>2. ASSUME NEW c \in Controllers
      PROVE  /\ ctl'[c].state = "CALIBRATING" => active' = NoSession
             /\ ctl'[c].state = "ARMED" => ctl'[c].by \in Sessions /\ step'[ctl'[c].by] \in Driving
  BY <1>2 DEF ApartInv, CtlKept, Idle, Driving
<1>3. \A s \in Sessions :
        /\ step'[s] \in Running => active' = s
        /\ step'[s] \in HasLease => lease' = s
  BY <1>1
<1>4. \A c \in Controllers :
        /\ ctl'[c].state = "CALIBRATING" => active' = NoSession
        /\ ctl'[c].state = "ARMED" => ctl'[c].by \in Sessions
                                      /\ step'[ctl'[c].by] \in {"starting", "running", "ending"}
  BY <1>2 DEF Driving
<1> QED
  BY <1>3, <1>4 DEF ApartInv, Running, HasLease, Working

(* A step of one session that neither takes nor gives the lease.           *)
LEMMA ApartMoved ==
  ASSUME ShapeOK, CtlOK, ApartInv, CtlKept, UNCHANGED <<lease, active>>,
         NEW s \in Sessions, NEW a, NEW b, Move(s, a, b),
         b \in HasLease => a \in HasLease, b \in Running => a \in Running, a \in Driving => b \in Driving
  PROVE  ApartInv'
<1>1. step[s] = a /\ step'[s] = b /\ \A t \in Sessions \ {s} : step'[t] = step[t]
  BY Moved
<1> QED
  BY <1>1, ApartKept

(* A step that moves no session leaves the sessions apart.                 *)
LEMMA ApartStill ==
  ASSUME ShapeOK, CtlOK, ApartInv, CtlKept, UNCHANGED <<step, lease, active>>
  PROVE  ApartInv'
BY ApartKept

(* Nobody else has it while one has it, and nobody has it when it is free. *)
LEMMA LeaseIsOnes ==
  ASSUME ShapeOK, ApartInv
  PROVE  /\ \A s, t \in Sessions : step[s] \in HasLease /\ step[t] \in HasLease => s = t
         /\ lease = NoSession => \A s \in Sessions : step[s] \notin HasLease
BY SessionAssumption DEF ApartInv

(* So does one that arms or calibrates a controller.                       *)
LEMMA ApartController ==
  ASSUME ApartInv, ShapeOK, CtlOK, [Next]_vars, ~CtlKept
  PROVE  ApartInv'
<1> USE DEF ApartInv
<1>1. ASSUME NEW c \in Controllers, Calibrate(c) PROVE ApartInv'
  <2>1. UNCHANGED <<step, lease, active>> /\ active = NoSession
    BY <1>1 DEF Calibrate
  <2>2. \A d \in Controllers : ctl'[d] = ctl[d] \/ ctl'[d] = Idle("CALIBRATING")
    BY <1>1 DEF Calibrate, CtlOK
  <2> QED
    BY <2>1, <2>2 DEF Idle, Running, HasLease, Working
<1>2. ASSUME NEW s \in Sessions, Countdown(s), step'[s] = "starting",
             ctl' = [ctl EXCEPT ![uses[s]] = [state |-> "ARMED", by |-> s]]
      PROVE  ApartInv'
  <2>1. step[s] = "countdown" /\ \A t \in Sessions \ {s} : step'[t] = step[t]
    BY <1>2 DEF Countdown, Move, ShapeOK
  <2>2. UNCHANGED <<active, lease>>
    BY <1>2 DEF Countdown
  <2>3. \A c \in Controllers : ctl'[c] = ctl[c] \/ ctl'[c] = [state |-> "ARMED", by |-> s]
    BY <1>2 DEF CtlOK
  <2>4. "countdown" \in Running /\ Running \subseteq HasLease
    BY DriversRun DEF Running
  <2>5. \A t \in Sessions : /\ step'[t] \in Running => active' = t
                            /\ step'[t] \in HasLease => lease' = t
    BY <1>2, <2>1, <2>2, <2>4
  <2>6. \A c \in Controllers :
          /\ ctl'[c].state = "CALIBRATING" => active' = NoSession
          /\ ctl'[c].state = "ARMED" => ctl'[c].by \in Sessions
                                        /\ step'[ctl'[c].by] \in {"starting", "running", "ending"}
    BY <1>2, <2>1, <2>2, <2>3
  <2> QED
    BY <2>5, <2>6 DEF Running, HasLease, Working
<1> QED
  BY <1>1, <1>2, CtlStep

(* So does the creation or dispatch of a session.                          *)
LEMMA ApartCreation ==
  ASSUME ShapeOK, CtlOK, ApartInv, CtlKept, NEW s \in Sessions,
         Creation(s) \/ Dispatch(s) \/ DispatchFails(s) \/ FailLostJob(s)
  PROVE  ApartInv'
<1>a. {"queued", "refused", "requested", "dropped", "gone", "none", "lost"} \cap HasLease = {}
      /\ Running \subseteq HasLease /\ Driving \subseteq HasLease
  BY DriversRun DEF HasLease, Working, Running, Driving
<1>1. CASE CreateOriginal(s) \/ RegisterBranch(s)
  <2>1. \E from \in {"none", "requested"} : Register(s, from)
    BY <1>1 DEF CreateOriginal, RegisterBranch
  <2>2. PICK from \in {"none", "requested"} : Register(s, from)
    BY <2>1
  <2> QED
    BY <2>2, <1>a, ApartMoved DEF Register
<1>2. CASE \E p \in Originals : \E c \in Controllers \cup {NoController} : RequestBranch(s, p, c)
  BY <1>2, <1>a, ApartMoved DEF RequestBranch
<1>3. CASE Dispatch(s)
  <2>1. /\ lease = NoSession /\ lease' = s /\ UNCHANGED <<active, ctl>>
        /\ step'[s] = "begun" /\ \A t \in Sessions \ {s} : step'[t] = step[t]
    BY <1>3, Moved DEF Dispatch
  <2>2. \A t \in Sessions : step[t] \notin HasLease
    BY <2>1, LeaseIsOnes
  <2>3. "begun" \notin Running
    BY DEF Running
  <2>4. \A t \in Sessions : /\ step'[t] \in Running => active' = t
                            /\ step'[t] \in HasLease => lease' = t
    BY <2>1, <2>2, <2>3, <1>a
  <2>5. \A c \in Controllers :
          /\ ctl'[c].state = "CALIBRATING" => active' = NoSession
          /\ ctl'[c].state = "ARMED" => ctl'[c].by \in Sessions
                                        /\ step'[ctl'[c].by] \in {"starting", "running", "ending"}
    BY <2>1, <2>2, <1>a DEF ApartInv, Driving
  <2> QED
    BY <2>4, <2>5 DEF ApartInv, Running, HasLease, Working
<1>4. CASE DispatchFails(s) \/ FailLostJob(s)
  BY <1>4, <1>a, ApartMoved DEF DispatchFails, FailLostJob
<1> QED
  BY <1>1, <1>2, <1>3, <1>4 DEF Creation

(* So does a step of a session's thread.                                   *)
LEMMA ApartThread ==
  ASSUME ShapeOK, CtlOK, ApartInv, CtlKept, NEW s \in Sessions, Thread(s)
  PROVE  ApartInv'
<1>a. /\ {"gone", "stuck", "requested"} \cap HasLease = {} /\ Running \subseteq HasLease
      /\ Driving \subseteq Running
      /\ {"begun", "failing", "ran", "leaving", "releasing", "leased"} \subseteq HasLease \ Running
  BY DriversRun DEF HasLease, Working, Running, Driving
<1>b. Running = {"claimed", "loading", "preparing", "countdown"} \cup Driving
                  \cup {"saving", "settled", "persisting", "persisted"}
  BY DEF Running, Driving
<1>c. Driving = {"starting", "running", "ending"}
  BY DEF Driving
<1>1. CASE TakeLease(s)
  <2>1. CASE lease' = lease /\ Move(s, "requested", "gone")
    BY <1>1, <2>1, <1>a, <1>c, ApartMoved DEF TakeLease
  <2>2. CASE ~(lease' = lease /\ Move(s, "requested", "gone"))
    <3>1. /\ lease = NoSession /\ lease' = s /\ UNCHANGED <<active, ctl>>
          /\ step'[s] = "leased" /\ \A t \in Sessions \ {s} : step'[t] = step[t]
      BY <1>1, <2>2, Moved DEF TakeLease
    <3>2. \A t \in Sessions : step[t] \notin HasLease
      BY <3>1, LeaseIsOnes
    <3>3. \A t \in Sessions : /\ step'[t] \in Running => active' = t
                              /\ step'[t] \in HasLease => lease' = t
      BY <3>1, <3>2, <1>a
    <3>4. \A c \in Controllers :
            /\ ctl'[c].state = "CALIBRATING" => active' = NoSession
            /\ ctl'[c].state = "ARMED" => ctl'[c].by \in Sessions
                                          /\ step'[ctl'[c].by] \in {"starting", "running", "ending"}
      BY <3>1, <3>2, <1>a, <1>c DEF ApartInv
    <3> QED
      BY <3>3, <3>4 DEF ApartInv, Running, HasLease, Working
  <2> QED
    BY <2>1, <2>2
<1>2. CASE ClaimTakeover(s)
  <2>1. step[s] = "leased" /\ \A t \in Sessions \ {s} : step'[t] = step[t]
    BY <1>2, Moved DEF ClaimTakeover
  <2>2. /\ \A t \in Sessions \ {s} : step'[t] \notin HasLease
        /\ lease = s
    BY <2>1, <1>a, LeaseIsOnes DEF ApartInv
  <2>3. \/ step'[s] = "claimed" /\ active' = s /\ lease' = lease /\ Claimable(s)
        \/ step'[s] = "stuck" /\ active' = s /\ Claimable(s)
        \/ step'[s] = "gone" /\ active' = active
    BY <1>2, Moved DEF ClaimTakeover
  <2>4. ctl' = ctl
    BY <1>2 DEF ClaimTakeover
  <2>5. \A c \in Controllers :
          /\ ctl'[c].state = "CALIBRATING" => active' = NoSession
          /\ ctl'[c].state # "ARMED"
    BY <2>1, <2>2, <2>3, <2>4, <1>a, <1>c DEF ApartInv, Claimable, Calibrating
  <2>6. \A t \in Sessions : /\ step'[t] \in Running => active' = t
                            /\ step'[t] \in HasLease => lease' = t
    BY <2>2, <2>3, <1>a
  <2> QED
    BY <2>5, <2>6 DEF ApartInv, Running, HasLease, Working
<1>3. CASE Claim(s)
  <2>1. step[s] = "begun" /\ \A t \in Sessions \ {s} : step'[t] = step[t]
    BY <1>3, Moved DEF Claim
  <2>2. /\ \A t \in Sessions \ {s} : step'[t] \notin HasLease
        /\ lease = s /\ UNCHANGED <<lease, ctl>>
    BY <1>3, <2>1, <1>a, LeaseIsOnes DEF ApartInv, Claim
  <2>3. \/ step'[s] = "claimed" /\ active' = s /\ Claimable(s)
        \/ step'[s] = "failing" /\ active' = s /\ Claimable(s)
        \/ step'[s] = "failing" /\ active' = active
    BY <1>3, Moved DEF Claim
  <2>5. \A c \in Controllers :
          /\ ctl'[c].state = "CALIBRATING" => active' = NoSession
          /\ ctl'[c].state # "ARMED"
    BY <2>1, <2>2, <2>3, <1>a, <1>c DEF ApartInv, Claimable, Calibrating
  <2>6. \A t \in Sessions : /\ step'[t] \in Running => active' = t
                            /\ step'[t] \in HasLease => lease' = t
    BY <2>2, <2>3, <1>a
  <2> QED
    BY <2>5, <2>6 DEF ApartInv, Running, HasLease, Working
<1>4. CASE StartLoading(s) \/ CopySource(s)
  BY <1>4, <1>a, <1>b, <1>c, ApartMoved DEF StartLoading, CopySource
<1>5. CASE Prepare(s) \/ Countdown(s)
  BY <1>5, <1>a, <1>b, <1>c, ApartMoved DEF Prepare, Countdown
<1>6. CASE Start(s) \/ RunEnds(s) \/ RunFails(s)
  BY <1>6, <1>a, <1>b, <1>c, ApartMoved DEF Start, RunEnds, RunFails
<1>7. CASE Cleanup(s)
  <2>1. step[s] = "ending" /\ step'[s] = "saving" /\ UNCHANGED <<lease, active>>
        /\ \A t \in Sessions \ {s} : step'[t] = step[t]
    BY <1>7, Moved DEF Cleanup
  <2>2. \E failed : ctl' = Disarmed(s, failed)
    BY <1>7 DEF Cleanup
  <2>3. \A c \in Controllers : ctl[c].by = s => ctl'[c].state \in {"READY", "DOWN"}
    BY <2>2 DEF Disarmed, FactrOff, Idle
  <2>4. "ending" \in Running /\ "saving" \in Running
    BY DEF Running
  <2> QED
    BY <2>1, <2>3, <2>4, <1>a, ApartKept
<1>8. CASE Settle(s) \/ Summarise(s) \/ Persist(s) \/ Conclude(s)
  BY <1>8, <1>a, <1>b, <1>c, ApartMoved DEF Settle, Summarise, Persist, Conclude
<1>9. CASE Deactivate(s) \/ Leave(s)
  <2>1. \/ step[s] = "persisted" /\ step'[s] = "ran"
        \/ step[s] = "leaving" /\ step'[s] = "releasing"
    BY <1>9, Moved DEF Deactivate, Leave
  <2>2. \A t \in Sessions \ {s} : step'[t] = step[t]
    BY <1>9, Moved DEF Deactivate, Leave
  <2>3. UNCHANGED lease /\ active' \in {active, NoSession}
    BY <1>9 DEF Deactivate, Leave
  <2>4. step[s] \in HasLease /\ step'[s] \in HasLease \ Running /\ step[s] \notin Driving
    BY <2>1, <1>a, <1>b, <1>c
  <2> QED
    BY <2>2, <2>3, <2>4, ApartKept
<1>10. CASE Release(s)
  <2>1. step[s] = "releasing" /\ step'[s] = "gone" /\ \A t \in Sessions \ {s} : step'[t] = step[t]
    BY <1>10, Moved DEF Release
  <2>2. UNCHANGED <<active, ctl>>
    BY <1>10 DEF Release
  <2>3. \A t \in Sessions : step'[t] \notin HasLease
    BY <2>1, <1>a, LeaseIsOnes
  <2>4. \A c \in Controllers :
          /\ ctl'[c].state = "CALIBRATING" => active' = NoSession
          /\ ctl'[c].state # "ARMED"
    BY <2>1, <2>2, <2>3, <1>a, <1>c DEF ApartInv
  <2>5. \A t \in Sessions : /\ step'[t] \in Running => active' = t
                            /\ step'[t] \in HasLease => lease' = t
    BY <2>3, <1>a
  <2> QED
    BY <2>4, <2>5 DEF ApartInv, Running, HasLease, Working
<1> QED
  BY <1>1, <1>2, <1>3, <1>4, <1>5, <1>6, <1>7, <1>8, <1>9, <1>10 DEF Thread

(* So every step leaves the sessions apart.                                *)
LEMMA ApartStep ==
  ASSUME ShapeOK, CtlOK, ApartInv, [Next]_vars
  PROVE  ApartInv'
<1>1. CASE ~CtlKept
  BY <1>1, ApartController
<1>2. CASE CtlKept
  <2>1. CASE UNCHANGED vars
    BY <1>2, <2>1, ApartStill DEF vars
  <2>2. ASSUME NEW s \in Sessions, Stop(s) \/ ManualDisconnect(s) \/ Delete(s) \/ MarkStopping(s) \/ MarkCanceled(s)
        PROVE  ApartInv'
    BY <1>2, <2>2, ApartStill DEF Stop, ManualDisconnect, Delete, MarkStopping, MarkCanceled
  <2>3. ASSUME NEW s \in Sessions, Cancel(s) PROVE ApartInv'
    <3>1. UNCHANGED <<lease, active>> /\ (Move(s, "queued", "gone") \/ UNCHANGED step)
      BY <2>3 DEF Cancel
    <3>2. "gone" \notin HasLease /\ "gone" \notin Running /\ "queued" \notin Driving
      BY DEF HasLease, Working, Running, Driving
    <3> QED
      BY <1>2, <3>1, <3>2, ApartStill, ApartMoved
  <2>4. ASSUME NEW c \in Controllers, Calibrate(c) \/ CalibrationEnds(c) \/ Unplug(c) PROVE ApartInv'
    BY <1>2, <2>4, ApartStill DEF Calibrate, CalibrationEnds, Unplug
  <2>5. CASE Close \/ StopTakeover \/ Restart
    BY <1>2, <2>5, ApartStill DEF Close, StopTakeover, Restart
  <2>6. CASE Exit \/ Crash
    <3>1. /\ \A s \in Sessions : step'[s] \in {"none", "lost", "gone"}
          /\ \A c \in Controllers : ctl'[c].state = "DOWN"
      BY <2>6 DEF Exit, Crash, Forget, Idle
    <3> QED
      BY <3>1 DEF ApartInv, HasLease, Working, Running
  <2> QED
    BY <1>2, <2>1, <2>2, <2>3, <2>4, <2>5, <2>6, ApartCreation, ApartThread DEF Next, Request
<1> QED
  BY <1>1, <1>2

(***************************************************************************)
(* Jobs, and the sources of branches.                                      *)
(***************************************************************************)
LEMMA LifeKept ==
  ASSUME ShapeOK, LifeInv, SourceKept,
         up' = "down" <=> up = "down", UNCHANGED <<parent, orphans>>, known \subseteq known',
         \A t \in Sessions :
           /\ job'[t] \in Pending => job[t] \in Pending
           /\ step'[t] # step[t] => /\ step[t] \notin {"none", "gone"} /\ up # "down"
                                    /\ step'[t] \notin {"none", "requested", "lost"}
                                    /\ step[t] = "lost" => job'[t] \notin Pending
  PROVE  LifeInv' /\ SourceKept'
<1>1. LifeInv'
  BY DEF LifeInv, ShapeOK, Pending
<1>2. SourceKept'
  BY SessionAssumption DEF SourceKept, Pending, Sessions, Queued
<1> QED
  BY <1>1, <1>2

(* One session moves on.                                                   *)
LEMMA LifeMoved ==
  ASSUME ShapeOK, LifeInv, SourceKept, UNCHANGED <<up, parent, orphans>>, known \subseteq known',
         NEW s \in Sessions, NEW a, NEW b, Move(s, a, b),
         a \notin {"none", "gone", "lost"}, b \notin {"none", "requested", "lost"},
         \A t \in Sessions : job'[t] \in Pending => job[t] \in Pending
  PROVE  LifeInv' /\ SourceKept'
<1>1. step[s] = a /\ step'[s] = b /\ \A t \in Sessions \ {s} : step'[t] = step[t]
  BY Moved
<1>2. up # "down"
  BY <1>1 DEF LifeInv
<1> QED
  BY <1>1, <1>2, LifeKept

(* Steps that make and delete no session keep the tree of sources.         *)
LEMMA LifeStill ==
  ASSUME ShapeOK, LifeInv, SourceKept, up' = "down" <=> up = "down",
         UNCHANGED <<parent, orphans, step>>, known \subseteq known',
         \A t \in Sessions : job'[t] \in Pending => job[t] \in Pending
  PROVE  LifeInv' /\ SourceKept'
BY LifeKept

(* So does the registration of an original or of a branch.                 *)
LEMMA LifeRegister ==
  ASSUME ShapeOK, LifeInv, SourceKept, orphans \subseteq Branches, NEW s \in Sessions,
         CreateOriginal(s) \/ RegisterBranch(s)
  PROVE  LifeInv' /\ SourceKept' /\ orphans' \subseteq Branches
<1> USE SessionAssumption DEF LifeInv, SourceKept, Sessions, Queued, Branches
<1>1. CASE CreateOriginal(s)
  <2>1. /\ s \in Originals /\ UNCHANGED parent /\ Register(s, "none")
        /\ up = "open" /\ known' = known \cup {s} /\ UNCHANGED up
    BY <1>1 DEF CreateOriginal, Register, backend
  <2>2. UNCHANGED orphans
    BY <2>1 DEF Register
  <2>3. step'[s] \in {"queued", "refused"} /\ \A t \in Sessions \ {s} : step'[t] = step[t]
    BY <2>1, Moved DEF Register
  <2>4. \A t \in Sessions \ {s} : job'[t] = job[t]
    BY <2>1 DEF Register, ShapeOK
  <2> QED
    BY <2>1, <2>2, <2>3, <2>4 DEF Pending
<1>2. CASE RegisterBranch(s)
  <2>1. /\ s \in PolicyBranches /\ UNCHANGED parent /\ Register(s, "requested")
        /\ up = "open" /\ known' = known \cup {s} /\ UNCHANGED up
    BY <1>2 DEF RegisterBranch, Register, backend
  <2>2. step[s] = "requested" /\ step'[s] \in {"queued", "refused"} /\ \A t \in Sessions \ {s} : step'[t] = step[t]
    BY <2>1, Moved DEF Register
  <2>3. parent[s] \in known \/ orphans' = orphans \cup {s}
    BY <2>1, <2>2 DEF Register
  <2>4. orphans \subseteq orphans' /\ orphans' \subseteq orphans \cup {s}
    BY <2>1 DEF Register
  <2>5. \A t \in Sessions \ {s} : job'[t] = job[t]
    BY <2>1 DEF Register, ShapeOK
  <2> QED
    BY <2>1, <2>2, <2>3, <2>4, <2>5 DEF Pending
<1> QED
  BY <1>1, <1>2

(* So does a request for a branch, which checks its source.                *)
LEMMA LifeRequest ==
  ASSUME ShapeOK, LifeInv, SourceKept, orphans \subseteq Branches, NEW s \in Branches,
         NEW p \in Originals, NEW c, RequestBranch(s, p, c)
  PROVE  LifeInv' /\ SourceKept' /\ orphans' \subseteq Branches
<1> USE SessionAssumption DEF LifeInv, SourceKept, Sessions, Queued, Branches
<1>1. /\ up = "open" /\ UNCHANGED <<up, job, known, orphans>>
      /\ parent'[s] = p /\ \A t \in Sessions \ {s} : parent'[t] = parent[t]
  BY DEF RequestBranch, backend, ShapeOK
<1>2. step[s] = "none" /\ step'[s] = "requested" /\ \A t \in Sessions \ {s} : step'[t] = step[t]
  BY Moved DEF RequestBranch
<1> QED
  BY <1>1, <1>2 DEF Pending

(* So does a session's thread.                                             *)
LEMMA LifeThread ==
  ASSUME ShapeOK, LifeInv, SourceKept, NEW s \in Sessions, Thread(s)
  PROVE  LifeInv' /\ SourceKept' /\ UNCHANGED orphans
<1> USE DEF backend, request
<1>1. CASE TakeLease(s) \/ ClaimTakeover(s) \/ StartLoading(s) \/ CopySource(s)
  <2>1. UNCHANGED <<up, parent, orphans, job>> /\ known \subseteq known'
    BY <1>1 DEF TakeLease, ClaimTakeover, StartLoading, CopySource
  <2> QED
    BY <1>1, <2>1, LifeMoved DEF TakeLease, ClaimTakeover, StartLoading, CopySource
<1>2. CASE Claim(s)
  <2>1. UNCHANGED <<up, parent, orphans, job>> /\ known \subseteq known'
    BY <1>2 DEF Claim
  <2> QED
    BY <1>2, <2>1, LifeMoved DEF Claim
<1>3. CASE Prepare(s) \/ Countdown(s) \/ Start(s) \/ RunEnds(s) \/ RunFails(s)
  <2>1. UNCHANGED <<up, parent, orphans, job, known>>
    BY <1>3 DEF Prepare, Countdown, Start, RunEnds, RunFails
  <2> QED
    BY <1>3, <2>1, LifeMoved DEF Prepare, Countdown, Start, RunEnds, RunFails
<1>4. CASE Cleanup(s) \/ Settle(s) \/ Summarise(s) \/ Persist(s)
  <2>1. UNCHANGED <<up, parent, orphans, job, known>>
    BY <1>4 DEF Cleanup, Settle, Summarise, Persist
  <2> QED
    BY <1>4, <2>1, LifeMoved DEF Cleanup, Settle, Summarise, Persist
<1>5. CASE Deactivate(s) \/ Conclude(s) \/ Leave(s)
  <2>1. UNCHANGED <<up, parent, orphans, job, known>>
    BY <1>5 DEF Deactivate, Conclude, Leave
  <2> QED
    BY <1>5, <2>1, LifeMoved DEF Deactivate, Conclude, Leave
<1>6. CASE Release(s)
  <2>1. UNCHANGED <<up, parent, orphans, known>>
    BY <1>6 DEF Release
  <2>2. \A t \in Sessions : job'[t] \in Pending => job[t] \in Pending
    BY <1>6 DEF Release, ShapeOK, Pending
  <2> QED
    BY <1>6, <2>1, <2>2, LifeMoved DEF Release
<1> QED
  BY <1>1, <1>2, <1>3, <1>4, <1>5, <1>6 DEF Thread

(* So every step keeps the source of each branch.                          *)
LEMMA LifeStep ==
  ASSUME ShapeOK, LifeInv, SourceKept, orphans \subseteq Branches, [Next]_vars
  PROVE  LifeInv' /\ SourceKept' /\ orphans' \subseteq Branches
<1> USE DEF backend, request
<1>1. ASSUME NEW s \in Sessions, Creation(s) PROVE LifeInv' /\ SourceKept' /\ orphans' \subseteq Branches
  BY <1>1, LifeRegister, LifeRequest DEF Creation, Branches
<1>2. ASSUME NEW s \in Sessions, Dispatch(s) \/ DispatchFails(s) \/ Cancel(s)
      PROVE  LifeInv' /\ SourceKept' /\ UNCHANGED orphans
  <2>1. UNCHANGED <<up, parent, orphans, known>>
    BY <1>2 DEF Dispatch, DispatchFails, Cancel
  <2>2. \A t \in Sessions : job'[t] \in Pending => job[t] \in Pending
    BY <1>2 DEF Dispatch, DispatchFails, Cancel, ShapeOK, Pending
  <2> QED
    BY <1>2, <2>1, <2>2, LifeMoved, LifeStill DEF Dispatch, DispatchFails, Cancel
<1>3. ASSUME NEW s \in Sessions, FailLostJob(s) PROVE LifeInv' /\ SourceKept' /\ UNCHANGED orphans
  <2>1. UNCHANGED <<up, parent, orphans, known>> /\ up = "open"
    BY <1>3 DEF FailLostJob
  <2>2. job'[s] = "ENDED" /\ \A t \in Sessions \ {s} : job'[t] = job[t]
    BY <1>3 DEF FailLostJob, ShapeOK
  <2>3. step[s] = "lost" /\ step'[s] = "gone" /\ \A t \in Sessions \ {s} : step'[t] = step[t]
    BY <1>3, Moved DEF FailLostJob
  <2> QED
    BY <2>1, <2>2, <2>3, LifeKept DEF Pending
<1>4. ASSUME NEW s \in Sessions, Stop(s) \/ ManualDisconnect(s) \/ MarkStopping(s) \/ MarkCanceled(s)
      PROVE  LifeInv' /\ SourceKept' /\ UNCHANGED orphans
  BY <1>4, LifeStill DEF Stop, ManualDisconnect, MarkStopping, MarkCanceled
<1>5. ASSUME NEW s \in Sessions, Delete(s) PROVE LifeInv' /\ SourceKept' /\ UNCHANGED orphans
  <2>1. UNCHANGED <<up, step, job, parent, orphans>> /\ known' = known \ {s} /\ ~Referenced(s)
    BY <1>5 DEF Delete
  <2>2. LifeInv'
    BY <2>1 DEF LifeInv, Pending
  <2>3. SourceKept'
    BY <2>1 DEF SourceKept, Referenced, Pending
  <2> QED
    BY <2>1, <2>2, <2>3
<1>6. ASSUME NEW c \in Controllers, Calibrate(c) \/ CalibrationEnds(c) \/ Unplug(c)
      PROVE  LifeInv' /\ SourceKept' /\ UNCHANGED orphans
  BY <1>6, LifeStill DEF Calibrate, CalibrationEnds, Unplug
<1>7. CASE Close \/ StopTakeover \/ UNCHANGED vars
  BY <1>7, LifeStill DEF Close, StopTakeover, vars
<1>8. CASE Exit \/ Crash
  BY <1>8 DEF Exit, Crash, Forget, LifeInv, SourceKept, Sessions, Queued, Pending
<1>9. CASE Restart
  BY <1>9 DEF Restart, LifeInv, SourceKept, Sessions, Queued, Pending
<1> QED
  BY <1>1, <1>2, <1>3, <1>4, <1>5, <1>6, <1>7, <1>8, <1>9, LifeThread DEF Next, Request

(***************************************************************************)
(* The record and run.json.                                                *)
(***************************************************************************)
(* What a step of one session leaves to the others.                        *)
Same(t) ==
  /\ step'[t] = step[t] /\ status'[t] = status[t] /\ saved'[t] = saved[t]
  /\ error'[t] = error[t] /\ writing'[t] = writing[t] /\ job'[t] = job[t]
  /\ t \in known' => t \in known
  /\ t \in stopped => t \in stopped'
  /\ mgr' = t <=> mgr = t
  /\ svc' = t <=> svc = t
Only(s) == \A t \in Sessions \ {s} : Same(t)

(* A session that a step leaves alone stays settled.                       *)
LEMMA RecordSame ==
  ASSUME NEW t \in Sessions, SettledInv(t), Same(t)
  PROVE  SettledInv(t)'
BY DEF SettledInv, BeforeInv, LocksInv, OutcomeInv, EndInv, Same, Unborn, Unsaved, Unsettled, Steps,
       Working, Running, Over, StoppedSo, Overtaken, Terminal

(* A step that changes one session has to be looked at for that one only.  *)
LEMMA RecordOnly ==
  ASSUME RecordInv, NEW s \in Sessions, Only(s), SettledInv(s)'
  PROVE  RecordInv'
<1>1. ASSUME NEW t \in Sessions PROVE SettledInv(t)'
  <2>1. CASE t = s
    BY <2>1
  <2>2. CASE t # s
    BY <2>2, RecordSame DEF Only, RecordInv
  <2> QED
    BY <2>1, <2>2
<1> QED
  BY <1>1 DEF RecordInv

(* A step that changes none has not to be looked at.                       *)
LEMMA RecordStill ==
  ASSUME RecordInv, \A t \in Sessions : Same(t)
  PROVE  RecordInv'
<1>1. ASSUME NEW t \in Sessions PROVE SettledInv(t)'
  BY RecordSame DEF RecordInv
<1> QED
  BY <1>1 DEF RecordInv

(* What writing one session's status, record, error or job leaves of the   *)
(* others'.                                                                *)
LEMMA Updates ==
  ASSUME ShapeOK, FlagsOK, NEW s \in Sessions
  PROVE  /\ \A v : SetStatus(s, v) => status'[s] = v /\ \A t \in Sessions \ {s} : status'[t] = status[t]
         /\ \A v : Save(s, v) => saved'[s] = v /\ \A t \in Sessions \ {s} : saved'[t] = saved[t]
         /\ Fail(s) => error'[s] /\ \A t \in Sessions \ {s} : error'[t] = error[t]
         /\ \A v : writing' = [writing EXCEPT ![s] = v] =>
              writing'[s] = v /\ \A t \in Sessions \ {s} : writing'[t] = writing[t]
         /\ \A v : job' = [job EXCEPT ![s] = v] =>
              job'[s] = v /\ \A t \in Sessions \ {s} : job'[t] = job[t]
BY DEF ShapeOK, FlagsOK, SetStatus, Save, Fail

(* Creating, queueing and dispatching keeps the records settled.           *)
LEMMA RecordCreation ==
  ASSUME ShapeOK, FlagsOK, RecordInv, NEW s \in Sessions,
         Creation(s) \/ Dispatch(s) \/ DispatchFails(s) \/ FailLostJob(s)
  PROVE  RecordInv'
<1> USE SessionAssumption DEF record, locks
<1>s. SettledInv(s)
  BY DEF RecordInv
<1> USE DEF SettledInv, BeforeInv, LocksInv, OutcomeInv, EndInv, Unborn, Unsaved, Unsettled, Steps,
            Working, Running, Over, StoppedSo, Overtaken, Terminal
<1>1. CASE CreateOriginal(s) \/ RegisterBranch(s)
  <2>1. \E from \in {"none", "requested"} : Register(s, from)
    BY <1>1 DEF CreateOriginal, RegisterBranch
  <2>2. PICK from \in {"none", "requested"} : Register(s, from)
    BY <2>1
  <2>3. /\ step[s] \in {"none", "requested"} /\ status'[s] = "QUEUED"
        /\ UNCHANGED <<error, stopped, writing, mgr, svc>> /\ mgr = NoSession /\ svc = NoSession
        /\ known' = known \cup {s}
    BY <2>2, Moved, Updates DEF Register, MgrFree, SvcFree
  <2>4. \/ step'[s] = "queued" /\ job'[s] = "QUEUED" /\ saved'[s] \in {saved[s], "QUEUED"}
        \/ step'[s] = "refused" /\ saved'[s] = saved[s]
    BY <2>2, Moved, Updates DEF Register
  <2>5. \A t \in Sessions \ {s} : /\ step'[t] = step[t] /\ status'[t] = status[t]
                                  /\ saved'[t] = saved[t] /\ job'[t] = job[t]
    BY <2>2, Moved, Updates DEF Register
  <2>6. Only(s)
    BY <2>3, <2>5 DEF Only, Same
  <2>7. SettledInv(s)'
    BY <2>3, <2>4, <1>s
  <2> QED
    BY <2>6, <2>7, RecordOnly
<1>2. CASE \E p \in Originals : \E c \in Controllers \cup {NoController} : RequestBranch(s, p, c)
  <2>1. /\ UNCHANGED <<error, stopped, writing, mgr, svc, known, status, saved, job>>
        /\ step[s] = "none" /\ step'[s] = "requested" /\ \A t \in Sessions \ {s} : step'[t] = step[t]
    BY <1>2, Moved DEF RequestBranch
  <2>2. Only(s)
    BY <2>1 DEF Only, Same
  <2>3. SettledInv(s)'
    BY <2>1, <1>s
  <2> QED
    BY <2>2, <2>3, RecordOnly
<1>3. CASE Dispatch(s)
  <2>1. /\ UNCHANGED <<error, stopped, writing, mgr, svc, known, status, saved>> /\ svc = NoSession
        /\ step[s] = "queued" /\ step'[s] = "begun"
    BY <1>3, Moved DEF Dispatch, SvcFree
  <2>2. Only(s)
    BY <1>3, <2>1, Moved, Updates DEF Only, Same, Dispatch
  <2>3. SettledInv(s)'
    BY <2>1, <1>s
  <2> QED
    BY <2>2, <2>3, RecordOnly
<1>4. CASE DispatchFails(s)
  <2>1. /\ UNCHANGED <<error, stopped, writing, mgr, svc, known, status, saved>> /\ svc = NoSession
        /\ step[s] = "queued" /\ step'[s] = "dropped"
    BY <1>4, Moved, Updates DEF DispatchFails, SvcFree
  <2>2. Only(s)
    BY <1>4, <2>1, Moved, Updates DEF Only, Same, DispatchFails
  <2>3. SettledInv(s)'
    BY <2>1, <1>s
  <2> QED
    BY <2>2, <2>3, RecordOnly
<1>5. CASE FailLostJob(s)
  <2>1. /\ UNCHANGED <<error, stopped, writing, mgr, svc, known, status, saved>> /\ svc = NoSession
        /\ step[s] = "lost" /\ step'[s] = "gone"
    BY <1>5, Moved, Updates DEF FailLostJob, SvcFree
  <2>2. Only(s)
    BY <1>5, <2>1, Moved, Updates DEF Only, Same, FailLostJob
  <2>3. SettledInv(s)'
    BY <2>1, <1>s
  <2> QED
    BY <2>2, <2>3, RecordOnly
<1> QED
  BY <1>1, <1>2, <1>3, <1>4, <1>5 DEF Creation

(* So does the beginning of a thread.                                      *)
LEMMA RecordThreadBegins ==
  ASSUME ShapeOK, FlagsOK, RecordInv, NEW s \in Sessions,
         TakeLease(s) \/ ClaimTakeover(s) \/ Claim(s) \/ StartLoading(s) \/ CopySource(s)
  PROVE  RecordInv'
<1> USE SessionAssumption DEF record, locks
<1>s. SettledInv(s)
  BY DEF RecordInv
<1> USE DEF SettledInv, BeforeInv, LocksInv, OutcomeInv, EndInv, Unborn, Unsaved, Unsettled, Steps,
            Working, Running, Over, StoppedSo, Overtaken, Terminal
<1>1. CASE TakeLease(s)
  <2>1. /\ UNCHANGED <<error, stopped, writing, mgr, svc, known, status, saved, job>> /\ svc = NoSession
        /\ step[s] = "requested" /\ step'[s] \in {"gone", "leased"}
    BY <1>1, Moved DEF TakeLease, SvcFree
  <2>2. Only(s)
    BY <1>1, <2>1, Moved DEF Only, Same, TakeLease
  <2>3. SettledInv(s)'
    BY <2>1, <1>s
  <2> QED
    BY <2>2, <2>3, RecordOnly
<1>2. CASE ClaimTakeover(s)
  <2>1. /\ UNCHANGED <<error, stopped, writing, mgr, svc, job>> /\ mgr = NoSession
        /\ step[s] = "leased" /\ known' \in {known, known \cup {s}}
    BY <1>2, Moved DEF ClaimTakeover, MgrFree
  <2>2. \/ step'[s] = "claimed" /\ status'[s] = "LOADING" /\ saved'[s] = "LOADING"
        \/ step'[s] = "stuck" /\ status'[s] = "LOADING" /\ saved'[s] = saved[s]
        \/ step'[s] = "gone" /\ UNCHANGED <<known, saved, status>>
    BY <1>2, Moved, Updates DEF ClaimTakeover
  <2>3. \A t \in Sessions \ {s} : step'[t] = step[t] /\ status'[t] = status[t] /\ saved'[t] = saved[t]
    BY <1>2, Moved, Updates DEF ClaimTakeover
  <2>4. Only(s)
    BY <2>1, <2>3 DEF Only, Same
  <2>5. SettledInv(s)'
    BY <2>1, <2>2, <1>s
  <2> QED
    BY <2>4, <2>5, RecordOnly
<1>3. CASE Claim(s)
  <2>1. /\ UNCHANGED <<stopped, status, writing, mgr, svc, job>> /\ mgr = NoSession
        /\ step[s] = "begun" /\ known' \in {known, known \cup {s}}
    BY <1>3, Moved DEF Claim, MgrFree
  <2>2. \/ step'[s] = "claimed" /\ saved'[s] = status[s] /\ error' = error
        \/ step'[s] = "failing" /\ error'[s] /\ saved' = saved
    BY <1>3, Moved, Updates DEF Claim
  <2>3. \A t \in Sessions \ {s} : step'[t] = step[t] /\ error'[t] = error[t] /\ saved'[t] = saved[t]
    BY <1>3, Moved, Updates DEF Claim
  <2>4. Only(s)
    BY <2>1, <2>3 DEF Only, Same
  <2>5. SettledInv(s)'
    BY <2>1, <2>2, <1>s
  <2> QED
    BY <2>4, <2>5, RecordOnly
<1>4. CASE StartLoading(s)
  <2>1. /\ UNCHANGED <<error, stopped, writing, mgr, svc, known, saved, job>>
        /\ step[s] = "claimed" /\ step'[s] = "loading" /\ status'[s] = "LOADING"
    BY <1>4, Moved, Updates DEF StartLoading
  <2>2. Only(s)
    BY <1>4, <2>1, Moved, Updates DEF Only, Same, StartLoading
  <2>3. SettledInv(s)'
    BY <2>1, <1>s
  <2> QED
    BY <2>2, <2>3, RecordOnly
<1>5. CASE CopySource(s)
  <2>1. /\ UNCHANGED <<status, stopped, writing, mgr, svc, known, saved, job>> /\ step[s] = "loading"
        /\ \/ step'[s] = "preparing" /\ error' = error
           \/ step'[s] = "failing" /\ error'[s]
    BY <1>5, Moved, Updates DEF CopySource
  <2>2. \A t \in Sessions \ {s} : step'[t] = step[t] /\ error'[t] = error[t]
    BY <1>5, Moved, Updates DEF CopySource
  <2>3. Only(s)
    BY <2>1, <2>2 DEF Only, Same
  <2>4. SettledInv(s)'
    BY <2>1, <1>s
  <2> QED
    BY <2>3, <2>4, RecordOnly
<1> QED
  BY <1>1, <1>2, <1>3, <1>4, <1>5

(* So does its run.                                                        *)
LEMMA RecordThreadRuns ==
  ASSUME ShapeOK, FlagsOK, RecordInv, NEW s \in Sessions,
         Prepare(s) \/ Countdown(s) \/ Start(s) \/ RunEnds(s) \/ RunFails(s) \/ Cleanup(s)
  PROVE  RecordInv'
<1> USE SessionAssumption DEF record, locks
<1>s. SettledInv(s)
  BY DEF RecordInv
<1> USE DEF SettledInv, BeforeInv, LocksInv, OutcomeInv, EndInv, Unborn, Unsaved, Unsettled, Steps,
            Working, Running, Over, StoppedSo, Overtaken, Terminal
<1> DEFINE Stages == {"preparing", "countdown", "starting", "running", "ending"}
<1>m. ASSUME UNCHANGED <<stopped, mgr, svc, known, job>>,
             step[s] \in Stages, step'[s] \in Stages \cup {"saving"},
             status'[s] # "COMPLETED", saved'[s] # "COMPLETED", writing'[s] # "COMPLETED",
             \A t \in Sessions \ {s} : /\ step'[t] = step[t] /\ status'[t] = status[t]
                                       /\ saved'[t] = saved[t] /\ writing'[t] = writing[t]
                                       /\ error'[t] = error[t]
      PROVE  RecordInv'
  <2>1. Only(s)
    BY <1>m DEF Only, Same
  <2>2. SettledInv(s)'
    BY <1>m, <1>s
  <2> QED
    BY <2>1, <2>2, RecordOnly
<1>n. step[s] \in Stages => status[s] # "COMPLETED" /\ saved[s] # "COMPLETED" /\ writing[s] # "COMPLETED"
  BY <1>s
<1>1. CASE Prepare(s)
  <2>1. UNCHANGED <<error, stopped, mgr, svc, known, job>> /\ step[s] = "preparing"
        /\ step'[s] \in Stages
    BY <1>1, Moved DEF Prepare
  <2>2. /\ status'[s] \in {status[s], "READY"} /\ saved'[s] \in {status[s], "READY"}
        /\ writing'[s] \in {writing[s], "STOPPING", "RUNNING"}
    BY <1>1, Updates DEF Prepare
  <2>3. \A t \in Sessions \ {s} : /\ step'[t] = step[t] /\ status'[t] = status[t]
                                  /\ saved'[t] = saved[t] /\ writing'[t] = writing[t]
    BY <1>1, Moved, Updates DEF Prepare
  <2> QED
    BY <2>1, <2>2, <2>3, <1>m, <1>n
<1>2. CASE Countdown(s)
  <2>1. UNCHANGED <<status, saved, stopped, mgr, svc, known, job>> /\ step[s] = "countdown"
        /\ step'[s] \in Stages
    BY <1>2, Moved DEF Countdown
  <2>2. writing'[s] \in {writing[s], "STOPPING", "RUNNING"}
    BY <1>2, Updates DEF Countdown
  <2>3. \A t \in Sessions \ {s} : step'[t] = step[t] /\ writing'[t] = writing[t] /\ error'[t] = error[t]
    BY <1>2, Moved, Updates DEF Countdown
  <2> QED
    BY <2>1, <2>2, <2>3, <1>m, <1>n
<1>3. CASE Start(s)
  <2>1. UNCHANGED <<error, stopped, mgr, svc, known, job>> /\ step[s] = "starting" /\ step'[s] \in Stages
    BY <1>3, Moved DEF Start
  <2>2. status'[s] = writing[s] /\ saved'[s] = writing[s] /\ writing'[s] = "none"
    BY <1>3 DEF Start, SetStatus, Save, ShapeOK
  <2>3. \A t \in Sessions \ {s} : /\ step'[t] = step[t] /\ status'[t] = status[t]
                                  /\ saved'[t] = saved[t] /\ writing'[t] = writing[t]
    BY <1>3, Moved, Updates DEF Start
  <2> QED
    BY <2>1, <2>2, <2>3, <1>m, <1>n
<1>4. CASE RunEnds(s)
  <2>1. UNCHANGED <<error, stopped, mgr, svc, known, job, writing>> /\ step[s] = "running" /\ step'[s] \in Stages
    BY <1>4, Moved DEF RunEnds
  <2>2. status'[s] = "POSTPROCESSING" /\ saved'[s] = "POSTPROCESSING"
    BY <1>4, Updates DEF RunEnds
  <2>3. \A t \in Sessions \ {s} : /\ step'[t] = step[t] /\ status'[t] = status[t]
                                  /\ saved'[t] = saved[t]
    BY <1>4, Moved, Updates DEF RunEnds
  <2> QED
    BY <2>1, <2>2, <2>3, <1>m, <1>n
<1>5. CASE RunFails(s)
  <2>1. UNCHANGED <<status, saved, stopped, mgr, svc, known, job>> /\ step[s] \in Stages /\ step'[s] \in Stages
    BY <1>5, Moved DEF RunFails
  <2>2. writing'[s] = "none"
    BY <1>5 DEF RunFails, ShapeOK
  <2>3. \A t \in Sessions \ {s} : step'[t] = step[t] /\ writing'[t] = writing[t] /\ error'[t] = error[t]
    BY <1>5, Moved, Updates DEF RunFails
  <2> QED
    BY <2>1, <2>2, <2>3, <1>m, <1>n
<1>6. CASE Cleanup(s)
  <2>1. UNCHANGED <<status, saved, writing, stopped, mgr, svc, known, job>>
        /\ step[s] = "ending" /\ step'[s] = "saving"
    BY <1>6, Moved DEF Cleanup
  <2>2. \A t \in Sessions \ {s} : step'[t] = step[t] /\ error'[t] = error[t]
    BY ZenonT(40), <1>6, Moved DEF Cleanup, Fail, FlagsOK
  <2> QED
    BY <2>1, <2>2, <1>m, <1>n
<1> QED
  BY <1>1, <1>2, <1>3, <1>4, <1>5, <1>6

(* So does its end, whose writes are apart.                                *)
LEMMA RecordThreadEnds ==
  ASSUME ShapeOK, FlagsOK, RecordInv, NEW s \in Sessions,
         Settle(s) \/ Summarise(s) \/ Persist(s) \/ Deactivate(s) \/ Conclude(s) \/ Leave(s) \/ Release(s)
  PROVE  RecordInv'
<1> USE SessionAssumption DEF record, locks
<1>s. SettledInv(s)
  BY DEF RecordInv
<1> USE DEF SettledInv, BeforeInv, LocksInv, OutcomeInv, EndInv, Unborn, Unsaved, Unsettled, Steps,
            Working, Running, Over, StoppedSo, Overtaken, Terminal
<1>1. CASE Settle(s)
  <2>1. PICK saves \in BOOLEAN :
          /\ error' = [error EXCEPT ![s] = @ \/ ~saves]
          /\ SetStatus(s, Outcome(error[s], saves))
    BY <1>1 DEF Settle
  <2>2. UNCHANGED <<saved, writing, stopped, mgr, svc, known, job>>
        /\ step[s] = "saving" /\ step'[s] = "settled"
    BY <1>1, Moved DEF Settle
  <2>3. error'[s] <=> error[s] \/ ~saves
    BY <2>1, Zenon DEF FlagsOK
  <2>4. status'[s] = Outcome(error[s], saves) /\ \A t \in Sessions \ {s} : status'[t] = status[t]
    BY <2>1 DEF SetStatus, ShapeOK
  <2>5. \/ status'[s] = "ERROR" /\ error'[s]
        \/ status'[s] = "COMPLETED" /\ ~error'[s]
    BY <2>3, <2>4 DEF Outcome
  <2>6. \A t \in Sessions \ {s} : step'[t] = step[t] /\ error'[t] = error[t]
    BY <1>1, <2>1, Moved DEF Settle, FlagsOK
  <2>7. Only(s)
    BY <2>2, <2>4, <2>6 DEF Only, Same
  <2>8. SettledInv(s)'
    BY <2>2, <2>5, <1>s
  <2> QED
    BY <2>7, <2>8, RecordOnly
<1>2. CASE Summarise(s)
  <2>1. UNCHANGED <<saved, stopped, mgr, svc, known, job>> /\ step[s] = "settled" /\ step'[s] = "persisting"
    BY <1>2, Moved DEF Summarise
  <2>2. \/ writing'[s] = status[s] /\ UNCHANGED <<status, error>>
        \/ error'[s] /\ status'[s] = "ERROR" /\ writing'[s] = "ERROR"
    BY <1>2 DEF Summarise, Fail, SetStatus, ShapeOK, FlagsOK
  <2>3. \A t \in Sessions \ {s} : /\ step'[t] = step[t] /\ status'[t] = status[t]
                                  /\ writing'[t] = writing[t] /\ error'[t] = error[t]
    BY <1>2, Moved DEF Summarise, Fail, SetStatus, ShapeOK, FlagsOK
  <2>4. Only(s)
    BY <2>1, <2>3 DEF Only, Same
  <2>5. SettledInv(s)'
    BY <2>1, <2>2, <1>s
  <2> QED
    BY <2>4, <2>5, RecordOnly
<1>3. CASE Persist(s)
  <2>1. UNCHANGED <<stopped, mgr, svc, known, job>> /\ step[s] = "persisting" /\ step'[s] = "persisted"
    BY <1>3, Moved DEF Persist
  <2>2. /\ \/ saved'[s] = writing[s] /\ UNCHANGED <<status, error>>
           \/ error'[s] /\ status'[s] = "ERROR" /\ UNCHANGED saved
        /\ writing'[s] = "none"
    BY <1>3 DEF Persist, Fail, SetStatus, Save, ShapeOK, FlagsOK
  <2>3. \A t \in Sessions \ {s} : /\ step'[t] = step[t] /\ status'[t] = status[t] /\ saved'[t] = saved[t]
                                  /\ writing'[t] = writing[t] /\ error'[t] = error[t]
    BY <1>3, Moved DEF Persist, Fail, SetStatus, Save, ShapeOK, FlagsOK
  <2>4. Only(s)
    BY <2>1, <2>3 DEF Only, Same
  <2>5. SettledInv(s)'
    BY <2>1, <2>2, <1>s
  <2> QED
    BY <2>4, <2>5, RecordOnly
<1>4. CASE Deactivate(s) \/ Leave(s)
  <2>1. UNCHANGED <<error, status, saved, writing, stopped, mgr, svc, known, job>>
    BY <1>4 DEF Deactivate, Leave
  <2>2. \/ step[s] = "persisted" /\ step'[s] = "ran"
        \/ step[s] = "leaving" /\ step'[s] = "releasing"
    BY <1>4, Moved DEF Deactivate, Leave
  <2>3. \A t \in Sessions \ {s} : step'[t] = step[t]
    BY <1>4, Moved DEF Deactivate, Leave
  <2>4. Only(s)
    BY <2>1, <2>3 DEF Only, Same
  <2>5. SettledInv(s)'
    BY <2>1, <2>2, <1>s
  <2> QED
    BY <2>4, <2>5, RecordOnly
<1>5. CASE Conclude(s)
  <2>1. UNCHANGED <<error, writing, stopped, mgr, svc, known, job>>
    BY <1>5 DEF Conclude
  <2>2. step[s] \in {"ran", "failing"} /\ step'[s] = "leaving"
    BY <1>5, Moved DEF Conclude
  <2>3. \/ error[s] /\ status'[s] = "ERROR" /\ saved'[s] = "ERROR"
        \/ ~error[s] /\ UNCHANGED <<status, saved>>
    BY <1>5 DEF Conclude, SettleFailure, SetStatus, Save, ShapeOK
  <2>4. \A t \in Sessions \ {s} : step'[t] = step[t] /\ status'[t] = status[t] /\ saved'[t] = saved[t]
    BY <1>5, Moved DEF Conclude, SettleFailure, SetStatus, Save, ShapeOK
  <2>5. Only(s)
    BY <2>1, <2>4 DEF Only, Same
  <2>6. SettledInv(s)'
    BY <2>1, <2>2, <2>3, <1>s
  <2> QED
    BY <2>5, <2>6, RecordOnly
<1>6. CASE Release(s)
  <2>1. UNCHANGED <<error, status, saved, writing, stopped, mgr, svc, known>> /\ svc = NoSession
        /\ step[s] = "releasing" /\ step'[s] = "gone"
    BY <1>6, Moved DEF Release, SvcFree
  <2>2. \A t \in Sessions \ {s} : step'[t] = step[t] /\ job'[t] = job[t]
    BY <1>6, Moved DEF Release, ShapeOK
  <2>3. Only(s)
    BY <2>1, <2>2 DEF Only, Same
  <2>4. SettledInv(s)'
    BY <2>1, <1>s
  <2> QED
    BY <2>3, <2>4, RecordOnly
<1> QED
  BY <1>1, <1>2, <1>3, <1>4, <1>5, <1>6

(* So do requests: they mark what the thread will conclude.                *)
LEMMA RecordRequest ==
  ASSUME ShapeOK, FlagsOK, RecordInv, NEW s \in Sessions,
         Request(s) \/ MarkStopping(s) \/ MarkCanceled(s)
  PROVE  RecordInv'
<1> USE SessionAssumption DEF record, locks
<1>s. SettledInv(s)
  BY DEF RecordInv
<1> USE DEF SettledInv, BeforeInv, LocksInv, OutcomeInv, EndInv, Unborn, Unsaved, Unsettled, Steps,
            Working, Running, Over, StoppedSo, Overtaken, Terminal
<1>1. CASE Stop(s)
  <2>1. /\ UNCHANGED <<svc, known, status, error, saved, job, step, writing>>
        /\ mgr = NoSession /\ mgr' = s /\ stopped' = stopped \cup {s}
        /\ s \in known /\ ~(status[s] = "QUEUED" /\ job[s] # "none")
    BY <1>1 DEF Stop, MgrFree
  <2>2. Only(s)
    BY <2>1 DEF Only, Same
  <2>3. SettledInv(s)'
    BY <2>1, <1>s
  <2> QED
    BY <2>2, <2>3, RecordOnly
<1>2. CASE Cancel(s)
  <2>1. /\ UNCHANGED <<mgr, known, status, error, saved, writing>> /\ svc = NoSession
        /\ stopped' = stopped \cup {s} /\ svc' = IF status[s] = "QUEUED" THEN s ELSE NoSession
    BY <1>2 DEF Cancel, SvcFree
  <2>2. \/ step[s] = "queued" /\ step'[s] = "gone"
        \/ step[s] \in Working /\ step' = step /\ job'[s] = "STOPPING"
    BY <1>2, Moved DEF Cancel, ShapeOK
  <2>3. \A t \in Sessions \ {s} : step'[t] = step[t] /\ job'[t] = job[t]
    BY <1>2, Moved DEF Cancel, ShapeOK
  <2>4. Only(s)
    BY <2>1, <2>3 DEF Only, Same
  <2>5. SettledInv(s)'
    BY <2>1, <2>2, <1>s
  <2> QED
    BY <2>4, <2>5, RecordOnly
<1>3. CASE ManualDisconnect(s)
  <2>1. UNCHANGED <<mgr, svc, known, status, error, saved, writing, step, job>> /\ stopped \subseteq stopped'
    BY <1>3 DEF ManualDisconnect
  <2> QED
    BY <2>1, RecordStill DEF Same
<1>4. CASE Delete(s)
  <2>1. UNCHANGED <<mgr, svc, stopped, status, error, writing, step, job>>
        /\ known' = known \ {s} /\ saved'[s] = "none" /\ \A t \in Sessions \ {s} : saved'[t] = saved[t]
    BY <1>4 DEF Delete, Save, ShapeOK
  <2>2. Only(s)
    BY <2>1 DEF Only, Same
  <2>3. SettledInv(s)'
    BY <2>1, <1>s
  <2> QED
    BY <2>2, <2>3, RecordOnly
<1>5. CASE MarkStopping(s)
  <2>1. /\ UNCHANGED <<svc, known, error, stopped, job, step, writing>> /\ mgr = s /\ mgr' = NoSession
        /\ status'[s] = "STOPPING" /\ saved'[s] = "STOPPING"
        /\ \A t \in Sessions \ {s} : status'[t] = status[t] /\ saved'[t] = saved[t]
    BY <1>5 DEF MarkStopping, SetStatus, Save, ShapeOK
  <2>2. Only(s)
    BY <2>1 DEF Only, Same
  <2>3. SettledInv(s)'
    BY <2>1, <1>s
  <2> QED
    BY <2>2, <2>3, RecordOnly
<1>6. CASE MarkCanceled(s)
  <2>1. /\ UNCHANGED <<mgr, known, stopped, job, step, writing>> /\ svc = s /\ svc' = NoSession
        /\ status'[s] = "ERROR" /\ saved'[s] = "ERROR" /\ error'[s]
        /\ \A t \in Sessions \ {s} : status'[t] = status[t] /\ saved'[t] = saved[t] /\ error'[t] = error[t]
    BY <1>6 DEF MarkCanceled, SetStatus, Save, Fail, ShapeOK, FlagsOK
  <2>2. Only(s)
    BY <2>1 DEF Only, Same
  <2>3. SettledInv(s)'
    BY <2>1, <1>s
  <2> QED
    BY <2>2, <2>3, RecordOnly
<1> QED
  BY <1>1, <1>2, <1>3, <1>4, <1>5, <1>6 DEF Request

(* So do crashes and restarts: what was live is recorded as failed.        *)
LEMMA RecordBackend ==
  ASSUME ShapeOK, FlagsOK, RecordInv, LifeInv,
         \/ \E c \in Controllers : Calibrate(c) \/ CalibrationEnds(c) \/ Unplug(c)
         \/ Close \/ StopTakeover \/ Exit \/ Crash \/ Restart \/ UNCHANGED vars
  PROVE  RecordInv'
<1> USE SessionAssumption DEF record, locks
<1>1. CASE \E c \in Controllers : Calibrate(c) \/ CalibrationEnds(c) \/ Unplug(c)
  BY <1>1, RecordStill DEF Same, Calibrate, CalibrationEnds, Unplug
<1>2. CASE Close \/ StopTakeover \/ UNCHANGED vars
  BY <1>2, RecordStill DEF Same, Close, StopTakeover, vars
<1> USE DEF SettledInv, BeforeInv, LocksInv, OutcomeInv, EndInv, Unborn, Unsaved, Unsettled, Steps,
            Working, Running, Over, StoppedSo, Overtaken, Terminal
<1>3. CASE Exit \/ Crash
  <2>1. /\ saved' = saved /\ known' = {} /\ mgr' = NoSession /\ svc' = NoSession
        /\ \A s \in Sessions : /\ status'[s] = "none" /\ writing'[s] = "none" /\ ~error'[s]
                               /\ step'[s] \in {"lost", "gone"} \/ (step'[s] = "none" /\ step[s] = "none")
    BY <1>3 DEF Exit, Crash, Forget
  <2>2. ASSUME NEW s \in Sessions PROVE SettledInv(s)'
    <3>1. SettledInv(s)
      BY DEF RecordInv
    <3> QED
      BY <2>1, <3>1
  <2> QED
    BY <2>2 DEF RecordInv
<1>4. CASE Restart
  <2>1. UNCHANGED <<mgr, svc, stopped, job, step, writing>> /\ up = "down"
    BY <1>4 DEF Restart
  <2>2. ASSUME NEW s \in Sessions PROVE SettledInv(s)'
    <3>1. SettledInv(s) /\ step[s] \in {"none", "lost", "gone"}
      BY <2>1 DEF RecordInv, LifeInv
    <3>2. /\ s \in known' <=> saved[s] # "none"
          /\ saved'[s] = Recovered(saved[s]) /\ status'[s] = saved'[s]
          /\ error'[s] <=> saved'[s] = "ERROR"
      BY <1>4 DEF Restart
    <3>3. saved[s] \in Active \cup Terminal \cup {"none"}
      BY DEF ShapeOK
    <3>4. \/ saved'[s] \in Terminal /\ saved[s] # "none"
          \/ saved'[s] = "none" /\ saved[s] = "none"
      BY <3>2, <3>3 DEF Recovered, Active
    <3>5. BeforeInv(s)' /\ LocksInv(s)'
      BY <2>1, <3>1, <3>2, <3>4
    <3>6. OutcomeInv(s)'
      BY <2>1, <3>1, <3>2, <3>4
    <3>7. EndInv(s)'
      BY <2>1, <3>1, <3>2, <3>4
    <3> QED
      BY <3>5, <3>6, <3>7
  <2> QED
    BY <2>2 DEF RecordInv
<1> QED
  BY <1>1, <1>2, <1>3, <1>4

(* So every step keeps the records settled.                                *)
LEMMA RecordStep ==
  ASSUME ShapeOK, FlagsOK, RecordInv, LifeInv, [Next]_vars
  PROVE  RecordInv'
<1>1. ASSUME NEW s \in Sessions, Thread(s) PROVE RecordInv'
  BY <1>1, RecordThreadBegins, RecordThreadRuns, RecordThreadEnds DEF Thread
<1> QED
  BY <1>1, RecordCreation, RecordRequest, RecordBackend DEF Next

(***************************************************************************)
(* The theorems.                                                           *)
(***************************************************************************)
THEOREM SessionInvariant == PartsSpec => [](part = "sessions" => SessionIInv)
<1>1. Init => SessionIInv
  <2> SUFFICES ASSUME Init PROVE SessionIInv
    OBVIOUS
  <2> USE SessionAssumption DEF Init
  <2>1. ShapeOK
    BY DEF ShapeOK, Steps
  <2>2. CtlOK
    BY DEF CtlOK, Idle
  <2>3. FlagsOK /\ orphans \subseteq Branches
    BY DEF FlagsOK
  <2>4. ApartInv
    BY DEF ApartInv, HasLease, Working, Running, Idle
  <2>5. LifeInv /\ SourceKept
    BY DEF LifeInv, SourceKept, Pending, Sessions, Queued
  <2>6. RecordInv
    BY DEF RecordInv, SettledInv, BeforeInv, LocksInv, OutcomeInv, EndInv, Unborn, Unsaved, Unsettled,
           Working, Running
  <2> QED
    BY <2>1, <2>2, <2>3, <2>4, <2>5, <2>6, TypeParts DEF SessionIInv
<1>2. SessionIInv /\ [Next]_vars => SessionIInv'
  <2> SUFFICES ASSUME SessionIInv, [Next]_vars PROVE SessionIInv'
    OBVIOUS
  <2>1. ShapeOK /\ CtlOK /\ FlagsOK /\ orphans \subseteq Branches
    BY TypeParts DEF SessionIInv
  <2>2. ShapeOK' /\ CtlOK' /\ FlagsOK'
    BY <2>1, ShapeStep, CtlStep, FlagsStep
  <2>3. ApartInv'
    BY <2>1, ApartStep DEF SessionIInv
  <2>4. LifeInv' /\ SourceKept' /\ orphans' \subseteq Branches
    BY <2>1, LifeStep DEF SessionIInv
  <2>5. RecordInv'
    BY <2>1, RecordStep DEF SessionIInv
  <2>6. TypeOK'
    BY <2>2, <2>4 DEF TypeOK, ShapeOK, CtlOK, FlagsOK, Branches
  <2> QED
    BY <2>3, <2>4, <2>5, <2>6 DEF SessionIInv
<1>3. PartsInit => (part = "sessions" => SessionIInv)
  BY <1>1 DEF PartsInit, SessionsInit
<1>4. (part = "sessions" => SessionIInv) /\ [PartsNext]_parts => (part = "sessions" => SessionIInv)'
  <2> SUFFICES ASSUME part = "sessions" => SessionIInv, [PartsNext]_parts, part' = "sessions"
               PROVE  SessionIInv'
    OBVIOUS
  <2>1. part = "sessions" /\ [Next]_vars
    BY DEF PartsNext, parts, vars, backend, locks, record, request
  <2> QED
    BY <1>2, <2>1
<1> QED
  BY <1>3, <1>4, PTL DEF PartsSpec

(* Whoever prepares, runs or saves a session is the one active session and *)
(* holds the resource lease; no controller is calibrated under it, and an  *)
(* armed one is its own.                                                   *)
THEOREM OneSessionAtATime == PartsSpec => []SessionsApart
<1>1. (part = "sessions" => SessionIInv) => SessionsApart
  BY DEF SessionIInv, ApartInv, HasLease, SessionsApart, RunsAlone, ControllerFollowsSession
<1> QED
  BY <1>1, SessionInvariant, PTL

(* The source of a policy branch outlives every deletion until the job of  *)
(* the branch has ended, unless it was gone when the branch was registered.*)
THEOREM SourceOutlivesBranch == PartsSpec => []BranchSourceKept
<1>1. (part = "sessions" => SessionIInv) => BranchSourceKept
  BY DEF SessionIInv, BranchSourceKept
<1> QED
  BY <1>1, SessionInvariant, PTL

(* run.json says COMPLETED only of a session in which nothing failed, and  *)
(* a session whose thread is gone is over in memory and on disk alike,     *)
(* unless a stop() overtook its outcome.                                   *)
THEOREM RecordTellsTheOutcome == PartsSpec => []RecordSettled
<1>1. ASSUME SessionIInv PROVE OutcomeHonest /\ ThreadGoneSessionOver
  <2>1. \A s \in Sessions : SettledInv(s) /\ known \subseteq Sessions
    BY <1>1, TypeParts DEF SessionIInv, RecordInv, ShapeOK
  <2>2. OutcomeHonest
    BY <2>1 DEF OutcomeHonest, SettledInv, OutcomeInv
  <2>3. ThreadGoneSessionOver
    BY <1>1, <2>1, TypeParts DEF ThreadGoneSessionOver, SettledInv, EndInv, Over, SessionIInv, ShapeOK
  <2> QED
    BY <2>2, <2>3
<1>2. (part = "sessions" => SessionIInv) => RecordSettled
  BY <1>1 DEF RecordSettled
<1> QED
  BY <1>2, SessionInvariant, PTL

-----------------------------------------------------------------------------
(***************************************************************************)
(* The preview that draws the sessions and the drafts.  What it has in     *)
(* common with the sessions bears the same name.                           *)
(***************************************************************************)
previewVars == View!vars

(* What DrawsUnderLease and LeaseAccounted need to be inductive: a session *)
(* owns the resource until it disowns it, which is before it gives up the  *)
(* lease and never while its frame is being drawn.                         *)
Owning == {"preparing", "awaiting", "running", "ending", "disowning"}
OwnedMatchesPhase == \A s \in Shown : s \in owned <=> phase[s] \in Owning
DrawnIsOwned == renderer.pc = "drawing" /\ renderer.item \in Shown => renderer.item \in owned
RendererHasItem ==
  /\ renderer.pc \in {"taken", "drawing"} => renderer.item \in View!Targets
  /\ renderer.pc = "refused" => renderer.item \in View!Revisions
LeaseIInv ==
  /\ View!TypeOK /\ View!DrawsUnderLease /\ View!LeaseAccounted
  /\ OwnedMatchesPhase /\ DrawnIsOwned /\ RendererHasItem

(* What the renderer can be asked for: the revisions of a draft and the    *)
(* stored sessions, never no item.                                         *)
LEMMA RevisionsAreTargets ==
  ASSUME Configured
  PROVE
  /\ \A d \in View!Drafts, r \in 1..MaxRevisions : <<d, r>> \in View!Revisions
  /\ View!Revisions \subseteq View!Targets /\ Shown \subseteq View!Targets
  /\ NoItem \notin View!Targets
BY DEF Configured, View!PreviewAssumption, View!TargetsApart, View!Revisions, View!Targets

(* The service starts with values of its types.                            *)
LEMMA TypeInit == Configured /\ View!Init => View!TypeOK
BY DEF Configured, View!PreviewAssumption, View!Init, View!TypeOK, View!Idle, View!PreviewStatus,
       View!SubmitPc, View!Phase, View!RendererPc, View!Drafts

(* Every step keeps the types, if the renderer has an item when it works.  *)
LEMMA TypeStep ==
  ASSUME Configured, View!TypeOK, RendererHasItem, [View!Next]_previewVars
  PROVE  View!TypeOK'
<1> USE Configured, RevisionsAreTargets DEF Configured, View!PreviewAssumption,
           View!TypeOK, View!draftVars, View!queueVars, View!sessionVars
<1>0. /\ {"PREPARING", "RENDERING", "READY", "ERROR"} \subseteq View!PreviewStatus
      /\ {"reading", "put", "evict", "retake", "done"} \subseteq View!SubmitPc
      /\ {"idle", "taken", "drawing", "refused", "stopped"} \subseteq View!RendererPc
      /\ {"queued", "preparing", "awaiting", "running", "ending", "disowning",
          "releasing", "done"} \subseteq View!Phase
      /\ View!Idle \in [pc : View!RendererPc, item : View!Targets \cup {NoItem}]
  BY DEF View!PreviewStatus, View!SubmitPc, View!RendererPc, View!Phase, View!Idle
<1>d. draft \in View!Drafts \/ draft = 0
  BY DEF View!Drafts
<1>1. CASE UNCHANGED previewVars
  BY <1>1 DEF previewVars, View!vars
<1>2. CASE View!DraftOperation
  <2>1. CASE View!CreateDraft
    <3>1. created + 1 \in View!Drafts /\ 1 \in 1..MaxRevisions
      BY <2>1 DEF View!CreateDraft, View!Drafts
    <3>2. created' = created + 1 /\ draft' = created + 1
      BY <2>1 DEF View!CreateDraft
    <3> QED
      BY <1>0, <2>1, <3>1, <3>2 DEF View!CreateDraft, View!Drafts
  <2>2. CASE View!UpdateDraft
    <3>1. draft \in View!Drafts /\ revision[draft] + 1 \in 1..MaxRevisions
      BY <1>d, <2>2 DEF View!UpdateDraft
    <3> QED
      <4>1. revision' \in [View!Drafts -> 0..MaxRevisions] /\ status' \in [View!Drafts -> View!PreviewStatus]
        BY <1>0, <2>2, <3>1 DEF View!UpdateDraft, View!Drafts
      <4>2. <<draft, revision[draft] + 1>> \in View!Targets
        BY <3>1
      <4>3. submit' \in [View!Targets -> View!SubmitPc]
        BY <1>0, <2>2, <4>2 DEF View!UpdateDraft
      <4> QED
        BY <2>2, <3>1, <4>1, <4>3 DEF View!UpdateDraft, View!Drafts
  <2>3. CASE View!DiscardDraft
    BY <2>3 DEF View!DiscardDraft
  <2>4. CASE View!StartDraft
    BY <1>d, <2>4 DEF View!StartDraft
  <2>5. ASSUME NEW d \in View!Drafts, View!StartFailed(d) PROVE View!TypeOK'
    BY SMTT(30), <2>5 DEF View!StartFailed, View!Drafts
  <2>6. ASSUME NEW d \in View!Drafts, NEW s \in Shown, View!DraftStarted(d, s) PROVE View!TypeOK'
    BY <1>0, <2>6 DEF View!DraftStarted
  <2> QED
    BY <1>2, <2>1, <2>2, <2>3, <2>4, <2>5, <2>6 DEF View!DraftOperation
<1>3. ASSUME NEW d \in View!Drafts, NEW r \in 1..MaxRevisions, View!Preparation(d, r)
      PROVE View!TypeOK'
  <2>1. <<d, r>> \in View!Targets
    OBVIOUS
  <2>2. CASE View!Prepare(d, r)
    <3>1. status' \in [View!Drafts -> View!PreviewStatus]
      BY <1>0, <2>2 DEF View!Prepare
    <3>2. submit' \in [View!Targets -> View!SubmitPc]
      <4>1. \E v \in View!SubmitPc : submit' = [submit EXCEPT ![<<d, r>>] = v]
        BY <1>0, <2>2 DEF View!Prepare
      <4> QED
        BY <2>1, <4>1
    <3>3. wasted' \subseteq View!Targets
      BY <2>1, <2>2 DEF View!Prepare
    <3> QED
      BY <2>2, <3>1, <3>2, <3>3 DEF View!Prepare
  <2>3. CASE View!PrepareFails(d, r)
    BY <1>0, <2>1, <2>3 DEF View!PrepareFails
  <2> QED
    BY <1>3, <2>2, <2>3 DEF View!Preparation
<1>4. ASSUME NEW x \in View!Targets, View!Submission(x) PROVE View!TypeOK'
  <2>1. CASE View!Put(x)
    BY <1>0, <2>1 DEF View!Put
  <2>2. CASE View!Evict(x)
    BY <1>0, <2>2 DEF View!Evict
  <2>3. CASE View!Retake(x)
    BY <1>0, <2>3 DEF View!Retake
  <2> QED
    BY <1>4, <2>1, <2>2, <2>3 DEF View!Submission
<1>5. CASE View!Rendering
  <2>1. CASE View!Take
    BY <1>0, <2>1 DEF View!Take
  <2>2. CASE View!Drain
    BY <1>0, <2>2 DEF View!Drain, RendererHasItem
  <2>3. CASE View!BeginSession
    BY <1>0, <2>3 DEF View!BeginSession
  <2>4. CASE View!BeginDraft
    BY <1>0, <2>4 DEF View!BeginDraft
  <2>5. CASE View!RefuseDraft
    BY <1>0, <2>5 DEF View!RefuseDraft
  <2>6. CASE View!Retry
    BY <1>0, <2>6 DEF View!Retry, RendererHasItem
  <2>7. ASSUME NEW d \in View!Drafts, NEW r \in 1..MaxRevisions, View!DrawDraft(d,
       r) PROVE View!TypeOK'
    <3>1. <<d, r>> \in View!Targets /\ r \in 0..MaxRevisions
      OBVIOUS
    <3> QED
      BY <1>0, <2>7, <3>1 DEF View!DrawDraft
  <2>8. ASSUME NEW s \in Shown, View!DrawSession(s) PROVE View!TypeOK'
    BY <1>0, <2>8 DEF View!DrawSession
  <2>9. CASE View!Stop
    BY <1>0, <2>9 DEF View!Stop
  <2> QED
    BY <1>5, <2>1, <2>2, <2>3, <2>4, <2>5, <2>6, <2>7, <2>8, <2>9 DEF View!Rendering, View!Drawing
<1>6. CASE View!Close
  BY <1>6 DEF View!Close
<1>7. ASSUME NEW s \in Shown, View!SessionStep(s) PROVE View!TypeOK'
  <2>1. CASE View!CreateSession(s)
    BY <1>0, <2>1 DEF View!CreateSession
  <2>2. CASE View!Acquire(s)
    BY <1>0, <2>2 DEF View!Acquire
  <2>3. CASE View!SubmitFirst(s)
    BY <1>0, <2>3 DEF View!SubmitFirst
  <2>4. CASE View!FirstShown(s) \/ View!FirstTimesOut(s) \/ View!RunEnds(s)
    BY <1>0, <2>4 DEF View!FirstShown, View!FirstTimesOut, View!RunEnds
  <2>5. CASE View!Transition(s)
    BY <1>0, <2>5 DEF View!Transition
  <2>6. CASE View!Deactivate(s)
    BY <1>0, <2>6 DEF View!Deactivate
  <2>7. CASE View!Disown(s)
    BY <1>0, <2>7 DEF View!Disown
  <2>8. CASE View!Release(s)
    BY <1>0, <2>8 DEF View!Release
  <2> QED
    BY <1>7, <2>1, <2>2, <2>3, <2>4, <2>5, <2>6, <2>7, <2>8 DEF View!SessionStep
<1>8. CASE View!ReplayBegins \/ View!OtherBegins \/ View!WorkEnds
  BY <1>8 DEF View!ReplayBegins, View!OtherBegins, View!WorkEnds
<1> QED
  BY <1>1, <1>2, <1>3, <1>4, <1>5, <1>6, <1>7, <1>8 DEF View!Next

(* It starts drawing nothing and holding nothing.                          *)
LEMMA LeaseInit == Configured /\ View!Init => LeaseIInv
<1> SUFFICES ASSUME Configured, View!Init PROVE LeaseIInv
  OBVIOUS
<1>1. View!TypeOK
  BY TypeInit
<1>2. renderer.pc = "idle" /\ lease = Nobody
  BY DEF View!Init, View!Idle
<1>3. View!LeaseAccounted
  BY <1>2 DEF Configured, View!PreviewAssumption, View!Init, View!LeaseAccounted
<1>4. OwnedMatchesPhase
  BY DEF View!Init, OwnedMatchesPhase, Owning
<1> QED
  BY <1>1, <1>2, <1>3, <1>4 DEF LeaseIInv, View!DrawsUnderLease, DrawnIsOwned, RendererHasItem

(* The renderer takes the lease for a draft, or draws under a session's;   *)
(* a session takes its item back only while nothing is being drawn.        *)
LEMMA LeaseStep ==
  ASSUME Configured, LeaseIInv, View!TypeOK', [View!Next]_previewVars
  PROVE  LeaseIInv'
<1> USE Configured, RevisionsAreTargets
    DEF Configured, View!PreviewAssumption, View!TargetsApart, View!draftVars, View!queueVars,
        View!sessionVars
<1> DEFINE Rest == /\ View!DrawsUnderLease /\ View!LeaseAccounted /\ OwnedMatchesPhase
                   /\ DrawnIsOwned /\ RendererHasItem
<1> SUFFICES Rest'
  BY DEF LeaseIInv
<1>r. View!TypeOK /\ Rest
  BY DEF LeaseIInv
<1>p. renderer.pc = "idle" \/ renderer.pc # "drawing" \/ renderer.item \in View!Targets
  BY <1>r DEF RendererHasItem
(* Steps that leave the lease, the renderer and the sessions as they are.  *)
<1>u. ASSUME UNCHANGED <<renderer, phase, owned, lease>> PROVE Rest'
  BY <1>r, <1>u DEF View!DrawsUnderLease, View!LeaseAccounted, OwnedMatchesPhase, DrawnIsOwned,
                    RendererHasItem
<1>1. CASE UNCHANGED previewVars
  BY <1>1, <1>u DEF previewVars, View!vars
(* A session moves on among the phases in which it holds the lease, or     *)
(* among those in which it does not.                                       *)
<1>m. ASSUME NEW s \in Shown, NEW to \in View!Phase, phase' = [phase EXCEPT ![s] = to],
             phase[s] \in Owning <=> to \in Owning,
             phase[s] # "releasing", to # "releasing",
             UNCHANGED <<renderer, owned, lease>>
      PROVE  Rest'
  <2>1. View!LeaseAccounted' /\ OwnedMatchesPhase'
    BY <1>r, <1>m DEF View!TypeOK, View!LeaseAccounted, OwnedMatchesPhase, Owning
  <2> QED
    BY <1>r, <1>m, <2>1 DEF View!DrawsUnderLease, DrawnIsOwned, RendererHasItem
<1>2. CASE View!DraftOperation
  <2>1. CASE View!CreateDraft \/ View!UpdateDraft \/ View!DiscardDraft \/ View!StartDraft
    BY <2>1, <1>u DEF View!CreateDraft, View!UpdateDraft, View!DiscardDraft, View!StartDraft
  <2>2. ASSUME NEW d \in View!Drafts, View!StartFailed(d) PROVE Rest'
    BY <2>2, <1>u DEF View!StartFailed
  <2>3. ASSUME NEW d \in View!Drafts, NEW s \in Shown, View!DraftStarted(d, s) PROVE Rest'
    <3>1. "queued" \in View!Phase
      BY DEF View!Phase
    <3> QED
      BY <2>3, <3>1, <1>m DEF View!DraftStarted, Owning
  <2> QED
    BY <1>2, <2>1, <2>2, <2>3 DEF View!DraftOperation
<1>3. ASSUME NEW d \in View!Drafts, NEW r \in 1..MaxRevisions, View!Preparation(d, r) PROVE Rest'
  BY <1>3, <1>u DEF View!Preparation, View!Prepare, View!PrepareFails
<1>4. ASSUME NEW x \in View!Targets, View!Submission(x) PROVE Rest'
  BY <1>4, <1>u DEF View!Submission, View!Put, View!Evict, View!Retake
(* The renderer does not draw before or after the step.                    *)
<1>n. ASSUME UNCHANGED <<phase, owned, lease>>,
             renderer.pc # "drawing", renderer'.pc # "drawing", RendererHasItem'
      PROVE  Rest'
  BY <1>r, <1>n DEF View!DrawsUnderLease, View!LeaseAccounted, OwnedMatchesPhase, DrawnIsOwned
<1>5. CASE View!Rendering
  <2>t. renderer.pc \in View!RendererPc /\ \A pc \in View!RendererPc :
          [renderer EXCEPT !.pc = pc].pc = pc /\ [renderer EXCEPT !.pc = pc].item = renderer.item
    BY <1>r DEF View!TypeOK
  <2>i. \A x : [renderer EXCEPT !.item = x].pc = renderer.pc /\ [renderer EXCEPT !.item = x].item = x
    BY <1>r DEF View!TypeOK
  <2>0. {"drawing", "refused"} \subseteq View!RendererPc
    BY DEF View!RendererPc
  <2>1. CASE View!Take \/ View!Stop
    BY <2>1, <1>r, <1>n DEF View!Take, View!Stop, RendererHasItem, View!TypeOK
  <2>2. CASE View!Drain
    BY <2>2, <1>r, <2>i, <1>n DEF View!Drain, RendererHasItem, View!TypeOK
  <2>3. CASE View!BeginSession
    <3>1. CASE renderer.item \in owned
      <4>1. renderer'.pc = "drawing" /\ renderer'.item = renderer.item
        BY <2>0, <2>t, <2>3, <3>1 DEF View!BeginSession
      <4>2. lease = renderer.item /\ UNCHANGED <<phase, owned, lease>>
        BY <1>r, <2>3, <3>1 DEF View!BeginSession, OwnedMatchesPhase, View!LeaseAccounted, Owning
      <4>3. View!LeaseAccounted'
        BY <1>r, <2>3, <4>1, <4>2 DEF View!BeginSession, View!LeaseAccounted
      <4> QED
        BY <1>r, <2>3, <3>1, <4>1, <4>2, <4>3
           DEF View!BeginSession, View!DrawsUnderLease, OwnedMatchesPhase, DrawnIsOwned,
               RendererHasItem
    <3>2. CASE renderer.item \notin owned
      BY <2>3, <3>2, <1>n DEF View!BeginSession, View!Idle, RendererHasItem
    <3> QED
      BY <3>1, <3>2
  <2>4. CASE View!BeginDraft
    <3>1. renderer'.pc = "drawing" /\ renderer'.item = renderer.item
      BY <2>0, <2>t, <2>4 DEF View!BeginDraft
    <3>2. View!LeaseAccounted'
      BY <1>r, <2>4, <3>1 DEF View!BeginDraft, View!LeaseAccounted
    <3> QED
      BY <1>r, <2>4, <3>1, <3>2
         DEF View!BeginDraft, View!DrawsUnderLease, OwnedMatchesPhase, DrawnIsOwned, RendererHasItem
  <2>5. CASE View!RefuseDraft
    <3>1. CASE renderer' = View!Idle
      BY <2>5, <3>1, <1>n DEF View!RefuseDraft, View!Idle, RendererHasItem
    <3>2. CASE renderer' = [renderer EXCEPT !.pc = "refused"]
      <4>1. renderer'.pc = "refused" /\ renderer'.item = renderer.item
        BY <2>0, <2>t, <3>2
      <4> QED
        BY <2>5, <4>1, <1>n DEF View!RefuseDraft, RendererHasItem
    <3> QED
      BY <2>5, <3>1, <3>2 DEF View!RefuseDraft
  <2>6. CASE View!Retry
    BY <2>6, <1>n DEF View!Retry, View!Idle, RendererHasItem
  <2>7. ASSUME NEW d \in View!Drafts, NEW r \in 1..MaxRevisions, View!DrawDraft(d, r) PROVE Rest'
    <3>1. lease = Preview /\ lease' = Nobody /\ renderer'.pc = "idle"
      BY <1>r, <2>7 DEF View!DrawDraft, View!LeaseAccounted, View!Idle
    <3>2. View!LeaseAccounted'
      BY <1>r, <2>7, <3>1 DEF View!DrawDraft, View!LeaseAccounted
    <3> QED
      BY <1>r, <2>7, <3>1, <3>2
         DEF View!DrawDraft, View!DrawsUnderLease, OwnedMatchesPhase, DrawnIsOwned, RendererHasItem
  <2>8. ASSUME NEW s \in Shown, View!DrawSession(s) PROVE Rest'
    <3>0. renderer.item = s /\ renderer'.pc = "idle"
      BY <2>8 DEF View!DrawSession, View!Idle
    <3>1. renderer.item \notin View!Revisions
      BY <3>0
    <3>2. View!LeaseAccounted'
      BY <1>r, <2>8, <3>0, <3>1 DEF View!DrawSession, View!LeaseAccounted
    <3> QED
      BY <1>r, <2>8, <3>0, <3>1, <3>2
         DEF View!DrawSession, View!DrawsUnderLease, OwnedMatchesPhase, DrawnIsOwned,
             RendererHasItem
  <2> QED
    BY <1>5, <2>1, <2>2, <2>3, <2>4, <2>5, <2>6, <2>7, <2>8 DEF View!Rendering, View!Drawing
<1>6. CASE View!Close
  BY <1>6, <1>u DEF View!Close
<1>7. ASSUME NEW s \in Shown, View!SessionStep(s) PROVE Rest'
  <2>0. {"queued", "awaiting", "running", "ending", "disowning"} \subseteq View!Phase
    BY DEF View!Phase
  <2>1. CASE View!CreateSession(s)
    BY <2>0, <2>1, <1>m DEF View!CreateSession, Owning
  <2>2. CASE View!Acquire(s)
    <3>1. View!LeaseAccounted'
      BY <1>r, <2>2 DEF View!Acquire, View!LeaseAccounted, View!TypeOK
    <3>2. OwnedMatchesPhase'
      BY <1>r, <2>2 DEF View!Acquire, OwnedMatchesPhase, Owning, View!TypeOK
    <3>3. renderer.pc # "drawing"
      BY <1>r, <2>2, <1>p DEF View!Acquire, View!DrawsUnderLease, View!LeaseAccounted, View!Targets
    <3> QED
      BY <1>r, <2>2, <3>1, <3>2, <3>3 DEF View!Acquire, View!DrawsUnderLease, DrawnIsOwned,
                                          RendererHasItem
  <2>3. CASE View!SubmitFirst(s)
    BY <2>0, <2>3, <1>m DEF View!SubmitFirst, Owning
  <2>4. CASE View!FirstShown(s) \/ View!FirstTimesOut(s) \/ View!RunEnds(s)
    BY <2>0, <2>4, <1>m DEF View!FirstShown, View!FirstTimesOut, View!RunEnds, Owning
  <2>5. CASE View!Transition(s)
    BY <2>5, <1>u DEF View!Transition
  <2>6. CASE View!Deactivate(s)
    BY <2>0, <2>6, <1>m DEF View!Deactivate, Owning
  <2>7. CASE View!Disown(s)
    <3>1. renderer.pc # "drawing"
      BY <2>7 DEF View!Disown, View!FrameLockFree
    <3>2. View!LeaseAccounted' /\ OwnedMatchesPhase'
      BY <1>r, <2>7 DEF View!Disown, View!LeaseAccounted, OwnedMatchesPhase, Owning, View!TypeOK
    <3> QED
      BY <1>r, <2>7, <3>1, <3>2 DEF View!Disown, View!DrawsUnderLease, DrawnIsOwned, RendererHasItem
  <2>8. CASE View!Release(s)
    <3>1. lease = s /\ s \notin owned
      BY <1>r, <2>8 DEF View!Release, View!LeaseAccounted, OwnedMatchesPhase, Owning
    <3>2. renderer.pc # "drawing"
      BY <1>r, <3>1, <1>p DEF View!DrawsUnderLease, DrawnIsOwned, View!Targets
    <3>3. View!LeaseAccounted' /\ OwnedMatchesPhase'
      BY <1>r, <2>8, <3>1, <3>2 DEF View!Release, View!LeaseAccounted, OwnedMatchesPhase, Owning,
                                    View!TypeOK
    <3> QED
      BY <1>r, <2>8, <3>2, <3>3 DEF View!Release, View!DrawsUnderLease, DrawnIsOwned,
                                    RendererHasItem
  <2> QED
    BY <1>7, <2>1, <2>2, <2>3, <2>4, <2>5, <2>6, <2>7, <2>8 DEF View!SessionStep
<1>8. CASE View!ReplayBegins \/ View!OtherBegins \/ View!WorkEnds
  <2>1. /\ lease \in {Nobody, Replay, Other} /\ lease' \in {Nobody, Replay, Other}
        /\ UNCHANGED <<renderer, phase, owned>>
    BY <1>8 DEF View!ReplayBegins, View!OtherBegins, View!WorkEnds
  <2>2. renderer.pc # "drawing"
    BY <1>r, <2>1, <1>p DEF View!DrawsUnderLease
  <2>3. View!LeaseAccounted'
    BY <1>r, <2>1, <2>2 DEF View!LeaseAccounted
  <2> QED
    BY <1>r, <2>1, <2>2, <2>3 DEF View!DrawsUnderLease, OwnedMatchesPhase, DrawnIsOwned,
                                  RendererHasItem
<1> QED
  BY <1>1, <1>2, <1>3, <1>4, <1>5, <1>6, <1>7, <1>8 DEF View!Next

(* In the run of both, the preview takes its own steps or none.            *)
LEMMA PreviewSteps ==
  ASSUME [PartsNext]_parts, part' = "preview"
  PROVE  part = "preview" /\ [View!Next]_previewVars
BY DEF PartsNext, parts, previewVars, View!vars, View!draftVars, View!queueVars, View!sessionVars

(* What the lease needs is an invariant of the preview.                    *)
THEOREM PreviewInvariant == PartsSpec => [](part = "preview" => LeaseIInv)
<1> USE SessionsAssumption
<1>1. PartsInit => (part = "preview" => LeaseIInv)
  BY LeaseInit DEF PartsInit, SessionsInit
<1>2. LeaseIInv /\ [View!Next]_previewVars => LeaseIInv'
  <2> SUFFICES ASSUME LeaseIInv, [View!Next]_previewVars PROVE LeaseIInv'
    OBVIOUS
  <2>1. View!TypeOK'
    BY TypeStep DEF LeaseIInv
  <2> QED
    BY <2>1, LeaseStep
<1>3. (part = "preview" => LeaseIInv) /\ [PartsNext]_parts => (part = "preview" => LeaseIInv)'
  <2> SUFFICES ASSUME part = "preview" => LeaseIInv, [PartsNext]_parts, part' = "preview"
               PROVE  LeaseIInv'
    OBVIOUS
  <2> QED
    BY <1>2, PreviewSteps
<1> QED
  BY <1>1, <1>3, PTL DEF PartsSpec

(* The preview draws only under the lease that covers what it shows, and   *)
(* the lease belongs to whoever draws or runs: it is never left behind.    *)
THEOREM DrawingCovered == PartsSpec => []LeaseMatchesDrawing
<1>1. (part = "preview" => LeaseIInv) => LeaseMatchesDrawing
  BY DEF LeaseIInv, LeaseMatchesDrawing, View!LeaseMatchesDrawing
<1> QED
  BY <1>1, PreviewInvariant, PTL

(* A draft whose preview is READY shows its latest revision: every change  *)
(* leaves READY, and only a picture of the current revision brings it back.*)
THEOREM ReadyIsLatest == PartsSpec => []ReadyShowsLatest
<1>1. PartsInit => ReadyShowsLatest
  BY DEF PartsInit, SessionsInit, View!Init, ReadyShowsLatest, View!ReadyShowsLatest
<1>2. View!TypeOK /\ View!ReadyShowsLatest /\ [View!Next]_previewVars => View!ReadyShowsLatest'
  <2> SUFFICES ASSUME View!TypeOK, View!ReadyShowsLatest, [View!Next]_previewVars,
                      NEW d \in View!Drafts, status'[d] = "READY"
               PROVE  frame'[d] = revision'[d]
    BY DEF View!ReadyShowsLatest
  <2> USE DEF View!draftVars, View!queueVars, View!sessionVars
  <2>u. ASSUME UNCHANGED <<revision, frame>>, status'[d] = status[d]
        PROVE  frame'[d] = revision'[d]
    BY <2>u DEF View!ReadyShowsLatest
  <2>1. CASE View!CreateDraft
    BY <2>1 DEF View!CreateDraft, View!ReadyShowsLatest, View!TypeOK
  <2>2. CASE View!UpdateDraft
    BY <2>2 DEF View!UpdateDraft, View!ReadyShowsLatest, View!TypeOK
  <2>3. ASSUME NEW c \in View!Drafts, NEW r \in 1..MaxRevisions, View!Preparation(c, r)
        PROVE  frame'[d] = revision'[d]
    BY <2>3 DEF View!Preparation, View!Prepare, View!PrepareFails, View!ReadyShowsLatest,
                View!TypeOK
  <2>4. ASSUME NEW c \in View!Drafts, NEW r \in 1..MaxRevisions, View!DrawDraft(c, r)
        PROVE  frame'[d] = revision'[d]
    BY <2>4 DEF View!DrawDraft, View!IsCurrent, View!ReadyShowsLatest, View!TypeOK
  <2>5. CASE UNCHANGED <<revision, frame, status>>
    BY <2>5, <2>u
  <2>6. ASSUME NEW s \in Shown, View!SessionStep(s) \/ View!DrawSession(s)
        PROVE  UNCHANGED <<revision, frame, status>>
    BY <2>6 DEF View!SessionStep, View!CreateSession, View!Acquire, View!SubmitFirst,
                View!FirstShown, View!FirstTimesOut,
                View!Transition, View!RunEnds, View!Deactivate, View!Disown, View!Release,
                     View!DrawSession
  <2>7. ASSUME NEW x \in View!Targets, View!Submission(x) PROVE UNCHANGED <<revision, frame,
       status>>
    BY <2>7 DEF View!Submission, View!Put, View!Evict, View!Retake
  <2>8. ASSUME View!Take \/ View!Drain \/ View!BeginSession \/ View!BeginDraft \/ View!RefuseDraft \/ View!Retry \/ View!Stop
        PROVE  UNCHANGED <<revision, frame, status>>
    BY <2>8 DEF View!Take, View!Drain, View!BeginSession, View!BeginDraft, View!RefuseDraft,
                View!Retry, View!Stop
  <2>9. ASSUME \/ UNCHANGED previewVars \/ View!DiscardDraft \/ View!StartDraft \/ View!Close
               \/ View!ReplayBegins \/ View!OtherBegins \/ View!WorkEnds
               \/ \E c \in View!Drafts : View!StartFailed(c) \/ (\E s \in Shown : View!DraftStarted(c, s))
        PROVE  UNCHANGED <<revision, frame, status>>
    BY <2>9 DEF previewVars, View!vars, View!DiscardDraft, View!StartDraft, View!Close, View!ReplayBegins,
                View!OtherBegins, View!WorkEnds,
                View!StartFailed, View!DraftStarted
  <2> QED
    BY <2>1, <2>2, <2>3, <2>4, <2>5, <2>6, <2>7, <2>8, <2>9
       DEF View!Next, View!DraftOperation, View!Rendering, View!Drawing
<1>3. (part = "preview" => LeaseIInv) /\ ReadyShowsLatest /\ [PartsNext]_parts => ReadyShowsLatest'
  <2> SUFFICES ASSUME part = "preview" => LeaseIInv, ReadyShowsLatest, [PartsNext]_parts,
                      part' = "preview"
               PROVE  View!ReadyShowsLatest'
    BY DEF ReadyShowsLatest
  <2> QED
    BY <1>2, PreviewSteps DEF LeaseIInv, ReadyShowsLatest
<1> QED
  BY <1>1, <1>3, PreviewInvariant, PTL DEF PartsSpec

=============================================================================
