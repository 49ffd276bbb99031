----------------------- MODULE OfflineJobRunnerProofs -----------------------
(***************************************************************************)
(* Theorems about one detached job and its two writers, for any number of  *)
(* stages, stop requests and reconciliations.  The queue that MCJobs runs  *)
(* beside it plays no part in them.                                        *)
(***************************************************************************)
EXTENDS MCJobs, TLAPS

(* The program points at which the outcome is known, and those of a stage. *)
Settled == {"settled", "join", "unlock", "exited"}
InStage == {"popen", "started", "wait"}

(* The runner holds the lease as long as it lives; its stage process is    *)
(* waited for unless it was killed; its heartbeat begins with Register and *)
(* has ended when the lease is given up.                                   *)
LifeInv ==
  /\ lease <=> ~Exited
  /\ killed => Exited
  /\ child # "none" => pc \in {"started", "wait"} \/ killed
  /\ pc \in {"boot", "ready"} => beat = "off"
  /\ pc \in {"unlock", "exited"} => beat \in {"off", "ended"}

(* The stop event is set by the handler until the outcome is settled; a    *)
(* stage that starts after that is the last one.                           *)
StopInv ==
  /\ signaled => stop
  /\ stop => signaled \/ pc \in {"join", "unlock", "exited"}
  /\ extra = 0 \/ (extra = 1 /\ signaled /\ pc # "popen")

(* No outcome before it is known, and then the true one.                   *)
OutcomeInv ==
  /\ mem \in Terminal => pc \in Settled
  /\ pc \in InStage => stage < Stages
  /\ pc = "decide" => stop \/ stage = Stages
  /\ OutcomeHonest

RunnerIInv == TypeOK /\ LifeInv /\ StopInv /\ OutcomeInv

Flags ==
  /\ launcher \in BOOLEAN /\ late \in BOOLEAN /\ stop \in BOOLEAN
  /\ signaled \in BOOLEAN /\ lease \in BOOLEAN /\ killed \in BOOLEAN

(* A runner that is not launched yet satisfies the invariant.              *)
LEMMA RunnerInit == Init => RunnerIInv
<1> SUFFICES ASSUME Init PROVE RunnerIInv
  OBVIOUS
<1>1. Flags
  BY DEF Init, Flags
<1>2. TypeOK
  BY RunnerAssumption, <1>1 DEF Init, TypeOK, Flags, File, Reach, Active, Terminal
<1>3. LifeInv /\ StopInv
  BY DEF Init, LifeInv, StopInv, Exited
<1>4. OutcomeInv
  BY DEF Init, OutcomeInv, OutcomeHonest, Terminal, Settled, InStage
<1> QED
  BY <1>2, <1>3, <1>4 DEF RunnerIInv

(* The Boolean variables stay Boolean.                                     *)
LEMMA FlagsStep ==
  ASSUME Flags, [Next]_vars
  PROVE  Flags'
<1> USE DEF Flags, threadVars, leaseVars, runnerVars, backendVars
<1>1. CASE UNCHANGED vars
  BY <1>1 DEF vars
<1>2. CASE MainStep
  BY <1>2 DEF MainStep, Boot, BootFails, Register, LeaveLoop, EnterStage, StartStage,
              StartStageFails, AssignChild, Reap, Decide, StopHeartbeat, LastPersist, Unlock
<1>3. CASE Killed \/ BeatDue \/ BeatPersist \/ BeatEnds \/ StageEnds
  BY <1>3 DEF Killed, BeatDue, BeatPersist, BeatEnds, StageEnds
<1>4. CASE StopSignal
  BY <1>4 DEF StopSignal, Terminate
<1>5. CASE BackendStep /\ ~StopSignal
  BY <1>5 DEF BackendStep, WriteLauncher, FiveSecondsPass, StopRead, StopWrite, PollRead,
              PollCheck, PollWrite
<1> QED
  BY <1>1, <1>2, <1>3, <1>4, <1>5 DEF Next

(* What is written to job.json is a whole manifest.                        *)
LEMMA ManifestTypes ==
  /\ \A st \in Active \cup Terminal : [st |-> st, reach |-> "group"] \in File
  /\ \A f \in File, st \in Active \cup Terminal : [f EXCEPT !.st = st] \in File
  /\ TypeOK => Load \in File
BY DEF File, Reach, Load, TypeOK

(* Every step keeps the types.                                             *)
LEMMA RunnerTypeStep ==
  ASSUME RunnerIInv, [Next]_vars
  PROVE  TypeOK'
<1> USE RunnerAssumption, ManifestTypes DEF threadVars, leaseVars, runnerVars, backendVars
<1>t. TypeOK
  BY DEF RunnerIInv
<1>f. Flags'
  BY <1>t, FlagsStep DEF TypeOK, Flags
<1>0. /\ {"STARTING", "RUNNING", "STOPPING"} \subseteq Active
      /\ {"COMPLETED", "FAILED", "CANCELED"} \subseteq Terminal
  BY DEF Active, Terminal
<1>1. CASE UNCHANGED vars
  BY <1>t, <1>f, <1>1 DEF vars, TypeOK, Flags
<1>2. CASE MainStep
  <2>1. CASE Boot \/ BootFails \/ LeaveLoop \/ AssignChild \/ StopHeartbeat \/ Unlock
    BY <1>t, <1>f, <2>1 DEF Boot, BootFails, LeaveLoop, AssignChild, StopHeartbeat, Unlock, TypeOK, Flags
  <2>2. CASE Register
    BY <1>t, <1>f, <1>0, <2>2 DEF Register, Persist, TypeOK, Flags
  <2>3. CASE EnterStage
    BY <1>t, <1>f, <2>3 DEF EnterStage, Persist, TypeOK, Flags
  <2>4. CASE StartStage
    BY <1>t, <1>f, <2>4 DEF StartStage, TypeOK, Flags
  <2>5. CASE StartStageFails
    BY <1>t, <1>f, <1>0, <2>5 DEF StartStageFails, Persist, TypeOK, Flags
  <2>6. CASE Reap
    <3>1. stage < Stages
      BY <2>6 DEF RunnerIInv, OutcomeInv, InStage, Reap
    <3>2. stage + 1 \in 0..Stages
      BY <1>t, <1>f, <3>1 DEF TypeOK
    <3> QED
      BY <1>t, <1>f, <1>0, <2>6, <3>2 DEF Reap, Persist, TypeOK, Flags
  <2>7. CASE Decide
    BY <1>t, <1>f, <1>0, <2>7 DEF Decide, Outcome, Persist, TypeOK, Flags
  <2>8. CASE LastPersist
    BY <1>t, <1>f, <2>8 DEF LastPersist, Persist, TypeOK, Flags
  <2> QED
    BY <1>2, <2>1, <2>2, <2>3, <2>4, <2>5, <2>6, <2>7, <2>8 DEF MainStep
<1>3. CASE Killed \/ BeatDue \/ BeatEnds \/ StageEnds
  BY <1>t, <1>f, <1>3 DEF Killed, BeatDue, BeatEnds, StageEnds, TypeOK, Flags
<1>4. CASE BeatPersist
  BY <1>t, <1>f, <1>4 DEF BeatPersist, Persist, TypeOK, Flags
<1>5. CASE BackendStep
  <2>1. CASE WriteLauncher \/ FiveSecondsPass
    BY <1>t, <1>f, <2>1 DEF WriteLauncher, FiveSecondsPass, TypeOK, Flags
  <2>2. CASE StopRead \/ PollRead
    BY <1>t, <1>f, <2>2 DEF StopRead, PollRead, TypeOK, Flags
  <2>3. CASE StopWrite
    BY <1>t, <1>f, <1>0, <2>3 DEF StopWrite, TypeOK, Flags
  <2>4. CASE StopSignal
    BY <1>t, <1>f, <2>4 DEF StopSignal, Terminate, TypeOK, Flags
  <2>5. CASE PollCheck
    BY <1>t, <1>f, <2>5 DEF PollCheck, TypeOK, Flags
  <2>6. CASE PollWrite
    <3>1. Verdict(poll.seen.st) \in Terminal
      BY DEF Verdict, Terminal
    <3> QED
      BY <1>t, <1>f, <2>6, <3>1 DEF PollWrite, TypeOK, Flags
  <2> QED
    BY <1>5, <2>1, <2>2, <2>3, <2>4, <2>5, <2>6 DEF BackendStep
<1> QED
  BY <1>1, <1>2, <1>3, <1>4, <1>5 DEF Next

(* Every step of the runner, of its heartbeat, of a stage or of the        *)
(* backend keeps the invariant.                                            *)
LEMMA RunnerStep ==
  ASSUME RunnerIInv, [Next]_vars
  PROVE  RunnerIInv'
<1> USE RunnerAssumption DEF threadVars, leaseVars, runnerVars, backendVars
<1> DEFINE Rest == LifeInv /\ StopInv /\ OutcomeInv
<1>r. TypeOK /\ Rest
  BY DEF RunnerIInv
<1>t. TypeOK'
  BY RunnerTypeStep
<1> SUFFICES Rest'
  BY <1>t DEF RunnerIInv
<1> USE DEF Exited, Settled, InStage, Terminal, OutcomeHonest, LifeInv, StopInv, OutcomeInv
(* Steps that touch job.json and the backend's memory only.                *)
<1>u. ASSUME UNCHANGED runnerVars PROVE Rest'
  BY <1>r, <1>u
<1>1. CASE UNCHANGED vars
  BY <1>1, <1>u DEF vars
<1>2. CASE MainStep
  <2>1. CASE Boot \/ BootFails
    BY <1>r, <2>1 DEF Boot, BootFails
  <2>2. CASE Register
    BY <1>r, <2>2 DEF Register
  <2>3. CASE LeaveLoop \/ EnterStage
    BY <1>r, <2>3 DEF LeaveLoop, EnterStage, NoMoreStages, StopRequested, TypeOK
  <2>4. CASE StartStage
    BY <1>r, <2>4 DEF StartStage
  <2>5. CASE StartStageFails
    BY <1>r, <2>5 DEF StartStageFails
  <2>6. CASE AssignChild
    BY <1>r, <2>6 DEF AssignChild
  <2>7. CASE Reap
    BY <1>r, <2>7 DEF Reap, Reapable, StopRequested, TypeOK
  <2>8. CASE Decide
    BY <1>r, <2>8 DEF Decide, Outcome, StopRequested
  <2>9. CASE StopHeartbeat \/ LastPersist \/ Unlock
    BY <1>r, <2>9 DEF StopHeartbeat, LastPersist, Unlock
  <2> QED
    BY <1>2, <2>1, <2>2, <2>3, <2>4, <2>5, <2>6, <2>7, <2>8, <2>9 DEF MainStep
<1>3. CASE Killed
  BY <1>r, <1>3 DEF Killed
<1>4. CASE BeatDue \/ BeatPersist \/ BeatEnds
  BY <1>r, <1>4 DEF BeatDue, BeatPersist, BeatEnds
<1>5. CASE StageEnds
  BY <1>r, <1>5 DEF StageEnds
<1>6. CASE BackendStep
  <2>1. CASE StopSignal
    BY <1>r, <2>1 DEF StopSignal, Terminate
  <2>2. CASE UNCHANGED runnerVars
    BY <2>2, <1>u
  <2> QED
    BY <1>6, <2>1, <2>2
       DEF BackendStep, WriteLauncher, FiveSecondsPass, StopRead, StopWrite, PollRead, PollCheck,
           PollWrite
<1> QED
  BY <1>1, <1>2, <1>3, <1>4, <1>5, <1>6 DEF Next

(* A handler of the backend that writes has nothing in hand afterwards, so *)
(* that its step is never a stutter.                                       *)
LEMMA HandlersMove ==
  ASSUME TypeOK
  PROVE  (StopWrite => cmd' # cmd) /\ (PollWrite => poll' # poll)
BY DEF TypeOK, StopWrite, PollWrite

(* Only the runner's threads write the file between the backend's steps,   *)
(* they do it under the lease, and once the outcome is in memory they      *)
(* write nothing else.                                                     *)
LEMMA RunnerWrites ==
  ASSUME RunnerIInv, [Next]_vars
  PROVE  RunnerNeverRetracts /\ WritesUnderLease
<1> USE DEF threadVars, leaseVars, runnerVars, backendVars
<1>t. TypeOK /\ LifeInv /\ OutcomeInv
  BY DEF RunnerIInv
<1>1. CASE file' = file
  BY <1>1 DEF RunnerNeverRetracts, WritesUnderLease
<1>2. CASE StopWrite \/ PollWrite
  BY <1>2, <1>t, HandlersMove DEF BackendMoves, RunnerNeverRetracts, WritesUnderLease
(* A write under the lease, of the outcome in memory if there is one.      *)
<1>3. ASSUME lease, mem \notin Terminal \/ file' = [st |-> mem, reach |-> "group"]
      PROVE  RunnerNeverRetracts /\ WritesUnderLease
  BY <1>3 DEF RunnerNeverRetracts, WritesUnderLease
<1>4. CASE Register \/ EnterStage \/ StartStageFails \/ Reap \/ Decide \/ LastPersist
  <2>1. lease
    BY <1>4, <1>t DEF LifeInv, Exited, Register, EnterStage, StartStageFails, Reap, Decide,
                      LastPersist
  <2>2. mem \notin Terminal \/ LastPersist
    BY <1>4, <1>t DEF OutcomeInv, Settled, Register, EnterStage, StartStageFails, Reap, Decide
  <2>3. LastPersist => file' = [st |-> mem, reach |-> "group"]
    BY DEF LastPersist, Persist
  <2> QED
    BY <2>1, <2>2, <2>3, <1>3
<1>5. CASE BeatPersist
  <2>1. lease
    BY <1>5, <1>t DEF LifeInv, Exited, BeatPersist
  <2>2. file' = [st |-> mem, reach |-> "group"]
    BY <1>5 DEF BeatPersist, Persist
  <2> QED
    BY <2>1, <2>2, <1>3
<1>6. CASE \/ Boot \/ BootFails \/ LeaveLoop \/ StartStage \/ AssignChild \/ StopHeartbeat \/ Unlock
           \/ Killed \/ BeatDue \/ BeatEnds \/ StageEnds \/ UNCHANGED vars
  <2>1. file' = file
    BY <1>6 DEF Boot, BootFails, LeaveLoop, StartStage, AssignChild, StopHeartbeat, Unlock,
                Killed, BeatDue, BeatEnds, StageEnds, vars
  <2> QED
    BY <2>1, <1>1
<1>7. CASE WriteLauncher \/ FiveSecondsPass \/ StopRead \/ StopSignal \/ PollRead \/ PollCheck
  <2>1. file' = file
    BY <1>7 DEF WriteLauncher, FiveSecondsPass, StopRead, StopSignal, PollRead, PollCheck
  <2> QED
    BY <2>1, <1>1
<1> QED
  BY <1>2, <1>4, <1>5, <1>6, <1>7 DEF Next, MainStep, BackendStep
-----------------------------------------------------------------------------
(* Of the two parts of MCJobs the runner's is the one that moves here.     *)
PartIInv == part = "runner" => RunnerIInv

(* The part that is there stays, and the runner's steps are Next's.        *)
LEMMA PartStep ==
  ASSUME [PartsNext]_parts
  PROVE  /\ part' = part
         /\ part = "runner" => [Next]_vars
<1> USE DEF parts
<1>1. CASE part = "runner" /\ Next /\ part' = part
  BY <1>1
<1>2. CASE part = "queue" /\ part' = part
  BY <1>2
<1>3. CASE UNCHANGED parts
  BY <1>3 DEF vars, threadVars, leaseVars, runnerVars, backendVars
<1> QED
  BY <1>1, <1>2, <1>3 DEF PartsNext

(* So the invariant holds whenever the runner is the part that is there.   *)
LEMMA PartInvariant == PartsInit /\ [][PartsNext]_parts => []PartIInv
<1>1. PartsInit => PartIInv
  BY RunnerInit DEF PartsInit, PartIInv
<1>2. PartIInv /\ [PartsNext]_parts => PartIInv'
  BY PartStep, RunnerStep DEF PartIInv
<1> QED
  BY <1>1, <1>2, PTL

(* A stop lets at most one more stage start, the recorded outcome is the   *)
(* true one, and a stage process outlives the lease only if the runner was *)
(* killed outright, whatever the order of stops, reads and heartbeats.     *)
THEOREM RunnerHonest == PartsSpec => []RunnerIsHonest
<1>1. PartIInv => RunnerIsHonest
  <2>1. StopInv => StopBoundsStages
    BY DEF StopInv, StopBoundsStages
  <2>2. LifeInv => StageOutlivesLeaseOnlyIfKilled
    BY DEF LifeInv, Exited, StageOutlivesLeaseOnlyIfKilled
  <2> QED
    BY <2>1, <2>2 DEF PartIInv, RunnerIInv, OutcomeInv, RunnerIsHonest
<1>2. PartsSpec => PartsInit /\ [][PartsNext]_parts
  BY PTL DEF PartsSpec
<1> QED
  BY <1>1, <1>2, PartInvariant, PTL

(* No step of the runner takes back an outcome it recorded, and none       *)
(* writes job.json once the lease may be another's.                        *)
THEOREM RunnerKeepsItsWord == PartsSpec => RunnerWritesItsOwn
<1>1. PartIInv /\ [PartsNext]_parts
        => [part = "runner" => RunnerNeverRetracts /\ WritesUnderLease]_parts
  BY PartStep, RunnerWrites DEF PartIInv
<1>2. PartsSpec => PartsInit /\ [][PartsNext]_parts
  BY PTL DEF PartsSpec
<1> QED
  BY <1>1, <1>2, PartInvariant, PTL DEF RunnerWritesItsOwn
=============================================================================
