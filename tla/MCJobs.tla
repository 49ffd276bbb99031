-------------------------- MODULE MCJobs --------------------------
(***************************************************************************)
(* The life of a job, in one run: the processes of one detached job at the *)
(* grain of single reads and writes, and the queue with its dispatcher.    *)
(* They share no state here, so one of them is there at a time (`part`);   *)
(* the variables of the other are NotHere, and variables of one name are one*)
(* variable.                                                               *)
(***************************************************************************)
EXTENDS OfflineJobRunner

CONSTANTS Backends, LocalJobs, DetachedJobs, Cancelable, NoJob, DiskFaults,
          RefusedJobs, PolledJobs, MaxRestarts, NotHere

VARIABLES part, manifest, index, clock, arrival, refused, tasks, callback,
          runner, section, up, restarts

Queue == INSTANCE WorkQueue

OnlyRunner ==
  /\ manifest = NotHere /\ index = NotHere /\ clock = NotHere
  /\ arrival = NotHere /\ refused = NotHere /\ tasks = NotHere
  /\ callback = NotHere /\ runner = NotHere /\ section = NotHere
  /\ up = NotHere /\ restarts = NotHere
OnlyQueue ==
  /\ file = NotHere /\ mem = NotHere /\ pc = NotHere /\ stage = NotHere
  /\ child = NotHere /\ stop = NotHere /\ signaled = NotHere
  /\ extra = NotHere /\ beat = NotHere /\ killed = NotHere /\ cmd = NotHere
  /\ stops = NotHere /\ polls = NotHere

PartsInit ==
  \/ part = "runner" /\ Init /\ OnlyRunner
  \/ part = "queue" /\ Queue!Init /\ OnlyQueue

PartsNext ==
  \/ /\ part = "runner" /\ Next
     /\ UNCHANGED <<part, manifest, index, clock, arrival, refused, tasks,
                    callback, runner, section, up, restarts>>
  \/ /\ part = "queue" /\ Queue!Next
     /\ UNCHANGED <<part, file, mem, pc, stage, child, stop, signaled, extra,
                    beat, killed, cmd, stops, polls>>

parts == <<part, file, launcher, mem, pc, stage, child, stop, signaled, extra,
           beat, lease, killed, late, cmd, poll, stops, polls, manifest,
           index, clock, arrival, refused, tasks, callback, runner, section,
           up, restarts>>
queueVars == Queue!vars
PartsSpec ==
  /\ PartsInit /\ [][PartsNext]_parts
  /\ WF_vars(part = "runner" /\ MainStep) /\ WF_vars(part = "runner" /\ StageEnds)
  /\ WF_vars(part = "runner" /\ BeatPersist) /\ WF_vars(part = "runner" /\ BeatEnds)
  /\ WF_vars(part = "runner" /\ StopWrite) /\ WF_vars(part = "runner" /\ StopSignal)
  /\ WF_vars(part = "runner" /\ PollCheck) /\ WF_vars(part = "runner" /\ PollWrite)
  /\ \A b \in Backends :
       /\ SF_queueVars(part = "queue" /\ Queue!Scan(b))
       /\ SF_queueVars(part = "queue" /\ Queue!Select(b))
       /\ WF_queueVars(part = "queue" /\ Queue!Launch(b))
       /\ WF_queueVars(part = "queue" /\ Queue!StopWrite(b))
       /\ WF_queueVars(part = "queue" /\ Queue!PollWrite(b))
       /\ WF_queueVars(part = "queue" /\ Queue!ManualEnd(b))
       /\ SF_queueVars(part = "queue" /\ Queue!CloseExit(b))
       /\ \A j \in LocalJobs :
            /\ SF_queueVars(part = "queue" /\ (Queue!LocalSave(b, j) \/ Queue!LocalSaveFails(b, j)))
            /\ SF_queueVars(part = "queue" /\ Queue!LocalRelease(b, j))
            /\ SF_queueVars(part = "queue" /\ Queue!CloseCancel(b, j))
  /\ \A j \in DetachedJobs :
       WF_queueVars(part = "queue"
                    /\ (Queue!RunnerRegister(j) \/ Queue!RunnerFinish(j) \/ Queue!RunnerExit(j)))
  /\ \A j \in Queue!Jobs : WF_queueVars(part = "queue" /\ Queue!FiveSecondsPass(j))
-----------------------------------------------------------------------------
(* StopBoundsStages, OutcomeHonest and StageOutlivesLeaseOnlyIfKilled of   *)
(* OfflineJobRunner.                                                       *)
RunnerIsHonest ==
  part = "runner" => TypeOK /\ StopBoundsStages /\ OutcomeHonest /\ StageOutlivesLeaseOnlyIfKilled

(* RunnerNeverRetracts and WritesUnderLease of OfflineJobRunner.           *)
RunnerWritesItsOwn == [][part = "runner" => RunnerNeverRetracts /\ WritesUnderLease]_parts

(* RunnerEnds of OfflineJobRunner.                                         *)
RunnerComesToAnEnd == <>[](part = "runner" => Exited /\ ~lease /\ child # "alive")

(* QueueDrains and IndexSettles of WorkQueue, of all its jobs at once, and *)
(* ShutdownEnds.                                                           *)
QueueComesToAnEnd ==
  /\ part = "queue" /\ (\E j \in Queue!Jobs : index[j] \in Queue!Pending)
     ~> /\ part = "queue"
        /\ (\A j \in Queue!Jobs : index[j] \notin Queue!Pending) \/ Queue!AllDown
  /\ \A b \in Backends :
       part = "queue" /\ up[b] = "closing" ~> part = "queue" /\ up[b] = "down"
=============================================================================
