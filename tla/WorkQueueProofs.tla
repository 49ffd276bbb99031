-------------------------- MODULE WorkQueueProofs --------------------------
(***************************************************************************)
(* Theorems about the work queue, for any number of backends, jobs and     *)
(* restarts.  First the lease: one work at a time, and a lease that nobody *)
(* leaks.  Then the order: what waits is found and served in its turn, and *)
(* the queue implements FifoServer.                                        *)
(***************************************************************************)
EXTENDS MCQueue, TLAPS

(* One record field of a function of records is replaced.                  *)
LEMMA StatusUpdate ==
  ASSUME manifest \in [Jobs -> Manifest], NEW j \in Jobs, NEW st \in Status
  PROVE  [manifest EXCEPT ![j].st = st] \in [Jobs -> Manifest]
BY DEF Manifest

(* _load_job and _reconcile read and write well-formed manifests.          *)
LEMMA ReconcileType ==
  ASSUME TypeOK, NEW b \in Backends, NEW j \in Jobs, NEW seen \in Manifest
  PROVE  /\ Load(j) \in Manifest
         /\ Reconciled(b, j, seen) \in Status
         /\ ReconciledManifest(b, j, seen) \in Manifest
         /\ ReconciledIndex(b, j, seen) \in Status
<1>1. Load(j) \in Manifest
  BY DEF TypeOK, Load, Manifest
<1>2. Reconciled(b, j, seen) \in Status
  BY DEF Reconciled, Verdict, Status, Pending, Active, Terminal, Manifest
<1>3. ReconciledManifest(b, j, seen) \in Manifest
  BY <1>2 DEF TypeOK, ReconciledManifest, Manifest
<1>4. ReconciledIndex(b, j, seen) \in Status
  BY <1>2 DEF TypeOK, ReconciledIndex
<1> QED
  BY <1>1, <1>2, <1>3, <1>4

(* A scan gives records, and entries of the index, of their types.         *)
LEMMA ScanType ==
  ASSUME TypeOK, NEW b \in Backends
  PROVE  /\ ScannedManifest(b) \in [Jobs -> Manifest]
         /\ ScannedIndex(b) \in [Jobs -> Status]
<1>1. \A j \in Jobs : Load(j) \in Manifest
  BY ReconcileType DEF TypeOK, Load, Manifest
<1>2. \A j \in Jobs : /\ ReconciledManifest(b, j, Load(j)) \in Manifest
                      /\ ReconciledIndex(b, j, Load(j)) \in Status
  BY <1>1, ReconcileType
<1> QED
  BY <1>2 DEF ScannedManifest, ScannedIndex, TypeOK

(* What a section record holds, and the program points it may move to.     *)
LEMMA SectionFields ==
  ASSUME NEW s \in Section
  PROVE  /\ s.at \in Dispatching \cup {"free", "stopping"}
         /\ s.seen \in Manifest
         /\ s.at # "free" => s.job \in Jobs
         /\ s.at \in {"spawned", "stopping"} => s.job \in DetachedJobs
         /\ \A at \in {"published", "indexed"} : s.at # "free" => [s EXCEPT !.at = at] \in Section
         /\ \A at \in {"published", "indexed"} : [s EXCEPT !.at = at].at = at
         /\ s.job \in DetachedJobs => [s EXCEPT !.at = "spawned"] \in Section
<1>1. CASE s = Free
  BY <1>1, JobsAssumption DEF Free, NoManifest, Manifest, Status, Jobs
<1>2. CASE s \in [at : {"selected", "published", "indexed"}, job : Jobs, seen : Manifest]
  BY <1>2, JobsAssumption DEF Section, Dispatching
<1>3. CASE s \in [at : {"spawned", "stopping"}, job : DetachedJobs, seen : Manifest]
  BY <1>3, JobsAssumption DEF Section, Dispatching, Jobs
<1> QED
  BY <1>1, <1>2, <1>3 DEF Section

(* Type correctness.                                                       *)
THEOREM TypeCorrect == Spec => []TypeOK
<1>1. Init => TypeOK
  <2> SUFFICES ASSUME Init PROVE TypeOK
    OBVIOUS
  <2> USE DEF Init
  <2>1. manifest \in [Jobs -> Manifest] /\ index \in [Jobs -> Status]
    BY DEF Manifest, NoManifest, Status
  <2>2. launcher \subseteq DetachedJobs /\ refused \subseteq Jobs /\ late \subseteq Jobs
    OBVIOUS
  <2>3. clock \in Nat /\ arrival \in [Jobs -> 0..clock] /\ restarts \in Nat
    OBVIOUS
  <2>4. /\ tasks \in [Backends -> SUBSET LocalJobs]
        /\ callback \in [LocalJobs -> CallbackState]
        /\ runner \in [DetachedJobs -> RunnerState]
        /\ lease \subseteq Holders
        /\ up \in [Backends -> {"up", "closing", "down"}]
    BY DEF CallbackState, RunnerState
  <2>5. section \in [Backends -> Section] /\ poll \in [Backends -> PollState]
    BY DEF Free, NoPoll, Section, PollState, NoManifest, Manifest, Status
  <2> QED
    BY <2>1, <2>2, <2>3, <2>4, <2>5 DEF TypeOK
<1>2. TypeOK /\ [Next]_vars => TypeOK'
  <2> SUFFICES ASSUME TypeOK, [Next]_vars PROVE TypeOK'
    OBVIOUS
  <2> USE JobsAssumption DEF fileVars, arrivalVars, workVars, sectionVars, upVars
  <2>0. /\ Pending \cup Terminal \subseteq Status /\ "absent" \in Status
        /\ {"QUEUED", "STARTING", "RUNNING", "STOPPING"} \subseteq Pending
        /\ Terminal = {"COMPLETED", "FAILED", "CANCELED"}
        /\ Free \in Section /\ NoPoll \in PollState
    BY DEF Status, Pending, Active, Terminal, Free, Section, NoPoll, PollState, NoManifest, Manifest
  <2>1. CASE UNCHANGED vars
    BY <2>1 DEF TypeOK, vars
  <2>2. ASSUME NEW b \in Backends, DispatchStep(b) PROVE TypeOK'
    <3>0. /\ ScannedManifest(b) \in [Jobs -> Manifest]
          /\ ScannedIndex(b) \in [Jobs -> Status]
      BY ScanType
    <3>1. CASE Scan(b)
      BY <3>0, <3>1 DEF Scan, TypeOK
    <3>2. CASE Select(b)
      <4>1. PICK j \in First(Waiting) :
              section' = [section EXCEPT ![b] = [at |-> "selected", job |-> j, seen |-> Load(j)]]
        BY <3>2 DEF Select
      <4>2. j \in Jobs
        BY DEF First, Waiting
      <4>3. Load(j) \in Manifest
        BY <4>2, ReconcileType DEF TypeOK, Load, Manifest
      <4>4. section' \in [Backends -> Section]
        BY <4>1, <4>2, <4>3 DEF TypeOK, Section, Dispatching
      <4>5. lease' \subseteq Holders
        BY <3>2 DEF Select, TypeOK, Holders
      <4> QED
        BY <3>0, <3>2, <4>4, <4>5 DEF Select, TypeOK
    <3>s. section[b] \in Section
      BY DEF TypeOK
    <3>n. section[b].seen \in Manifest
      BY <3>s, SectionFields
    <3>m. \A st \in Status : [section[b].seen EXCEPT !.st = st] \in Manifest
      BY <3>n DEF Manifest
    <3>3. CASE PublishStarting(b)
      <4>1. section' \in [Backends -> Section]
        BY <3>s, <3>3, SectionFields DEF PublishStarting, TypeOK
      <4>2. manifest' \in [Jobs -> Manifest]
        BY <2>0, <3>3, <3>m DEF PublishStarting, TypeOK
      <4> QED
        BY <3>3, <4>1, <4>2 DEF PublishStarting, TypeOK
    <3>4. CASE IndexStarting(b)
      <4>1. section' \in [Backends -> Section]
        BY <3>s, <3>4, SectionFields DEF IndexStarting, TypeOK
      <4> QED
        BY <2>0, <3>4, <4>1 DEF IndexStarting, TypeOK
    <3>5. CASE StartLocal(b)
      <4>1. section[b].job \in LocalJobs
        BY <3>5 DEF StartLocal, TypeOK
      <4>2. lease' \subseteq Holders
        BY <3>5, <4>1 DEF StartLocal, TypeOK, Holders
      <4>3. callback' \in [LocalJobs -> CallbackState]
        BY <3>5, <4>1 DEF StartLocal, TypeOK, CallbackState, CallbackBusy
      <4>4. manifest' \in [Jobs -> Manifest]
        BY <2>0, <3>5, <3>m DEF StartLocal, TypeOK
      <4> QED
        BY <2>0, <3>5, <4>2, <4>3, <4>4 DEF StartLocal, TypeOK
    <3>6. CASE LaunchFails(b)
      BY <2>0, <3>6, <3>m DEF LaunchFails, TypeOK
    <3>7. CASE LaunchFailsUnrecorded(b)
      BY <2>0, <3>7 DEF LaunchFailsUnrecorded, TypeOK
    <3>8. CASE Spawn(b)
      <4>1. section' \in [Backends -> Section]
        BY <3>s, <3>8, SectionFields DEF Spawn, TypeOK
      <4>2. lease' \subseteq Holders
        BY <3>8 DEF Spawn, TypeOK, Holders
      <4>3. runner' \in [DetachedJobs -> RunnerState]
        BY <3>8 DEF Spawn, TypeOK, RunnerState, RunnerAlive
      <4> QED
        BY <3>8, <4>1, <4>2, <4>3 DEF Spawn, TypeOK
    <3>9. CASE FinishSpawn(b)
      <4>1. section[b].job \in DetachedJobs
        BY <3>s, <3>9, SectionFields DEF FinishSpawn
      <4> QED
        BY <2>0, <3>9, <4>1 DEF FinishSpawn, TypeOK
    <3> QED
      BY <2>2, <3>1, <3>2, <3>3, <3>4, <3>5, <3>6, <3>7, <3>8, <3>9 DEF DispatchStep
  <2>3. ASSUME NEW b \in Backends, NEW j \in LocalJobs, LocalStep(b, j) PROVE TypeOK'
    <3>1. CASE LocalSave(b, j)
      <4>1. PICK st \in {"CANCELED", "COMPLETED", "FAILED"} :
              /\ manifest' = [manifest EXCEPT ![j].st = st]
              /\ index' = [index EXCEPT ![j] = st]
        BY <3>1 DEF LocalSave
      <4>2. manifest' \in [Jobs -> Manifest]
        BY <2>0, <4>1, StatusUpdate DEF TypeOK, Jobs
      <4> QED
        BY <2>0, <3>1, <4>1, <4>2 DEF LocalSave, TypeOK, CallbackState, CallbackBusy
    <3>2. CASE LocalSaveFails(b, j)
      BY <3>2 DEF LocalSaveFails, TypeOK, CallbackState, CallbackBusy
    <3>3. CASE LocalRelease(b, j)
      BY <3>3 DEF LocalRelease, TypeOK, CallbackState
    <3> QED
      BY <2>3, <3>1, <3>2, <3>3 DEF LocalStep
  <2>4. ASSUME NEW j \in DetachedJobs, RunnerStep(j) PROVE TypeOK'
    <3>m. \A st \in Status : [st |-> st, pid |-> TRUE] \in Manifest
      BY DEF Manifest
    <3>1. CASE RunnerRegister(j)
      BY <2>0, <2>4, <3>1, <3>m DEF RunnerRegister, TypeOK, RunnerState, RunnerAlive
    <3>2. CASE RunnerHeartbeat(j)
      BY <2>0, <3>2, <3>m DEF RunnerHeartbeat, TypeOK
    <3>3. CASE RunnerFinish(j)
      <4>1. PICK st \in Terminal :
              /\ runner' = [runner EXCEPT ![j] = st]
              /\ manifest' = [manifest EXCEPT ![j] = [st |-> st, pid |-> TRUE]]
        BY <3>3 DEF RunnerFinish
      <4>2. runner' \in [DetachedJobs -> RunnerState]
        BY <4>1 DEF TypeOK, RunnerState, RunnerAlive
      <4>3. manifest' \in [Jobs -> Manifest]
        BY <2>0, <3>m, <4>1 DEF TypeOK
      <4> QED
        BY <3>3, <4>2, <4>3 DEF RunnerFinish, TypeOK
    <3>4. CASE RunnerExit(j)
      BY <2>0, <3>4, <3>m DEF RunnerExit, TypeOK, RunnerState
    <3>5. CASE RunnerDies(j)
      BY <3>5 DEF RunnerDies, TypeOK, RunnerState
    <3> QED
      BY <2>4, <3>1, <3>2, <3>3, <3>4, <3>5 DEF RunnerStep
  <2>5. ASSUME NEW j \in Jobs, FiveSecondsPass(j) PROVE TypeOK'
    BY <2>5 DEF FiveSecondsPass, TypeOK
  <2>6. ASSUME NEW b \in Backends, NEW j \in Jobs, UserStep(b, j) PROVE TypeOK'
    <3>l. Load(j) \in Manifest
      BY DEF TypeOK, Load, Manifest
    <3>m. \A st \in Status : [manifest EXCEPT ![j].st = st] \in [Jobs -> Manifest]
      BY StatusUpdate DEF TypeOK
    <3>c. /\ clock + 1 \in Nat
          /\ [arrival EXCEPT ![j] = clock + 1] \in [Jobs -> 0..(clock + 1)]
      BY DEF TypeOK
    <3>1. CASE Submit(b, j)
      BY <2>0, <3>1, <3>m, <3>c DEF Submit, TypeOK
    <3>2. CASE SubmitRefused(b, j)
      BY <2>0, <3>2, <3>m, <3>c DEF SubmitRefused, TypeOK
    <3>3. CASE StopQueued(b, j)
      BY <2>0, <3>3, <3>m DEF StopQueued, TypeOK
    <3>4. CASE StopRead(b, j)
      <4>1. section' \in [Backends -> Section]
        BY <3>4, <3>l DEF StopRead, TypeOK, Section
      <4> QED
        BY <3>4, <4>1 DEF StopRead, TypeOK
    <3>5. CASE PollRead(b, j)
      <4>1. poll' \in [Backends -> PollState]
        BY <3>5, <3>l DEF PollRead, TypeOK, PollState
      <4> QED
        BY <3>5, <4>1 DEF PollRead, TypeOK
    <3> QED
      BY <2>6, <3>1, <3>2, <3>3, <3>4, <3>5 DEF UserStep
  <2>7. ASSUME NEW b \in Backends, NEW j \in LocalJobs, StopLocal(b, j) \/ CloseCancel(b, j)
        PROVE  TypeOK'
    <3>m. \A st \in Status : [manifest EXCEPT ![j].st = st] \in [Jobs -> Manifest]
      BY StatusUpdate DEF TypeOK, Jobs
    <3>1. CASE StopLocal(b, j)
      BY <2>0, <3>1, <3>m DEF StopLocal, TypeOK
    <3>2. CASE CloseCancel(b, j)
      BY <2>0, <3>2, <3>m DEF CloseCancel, TypeOK
    <3> QED
      BY <2>7, <3>1, <3>2
  <2>8. ASSUME NEW b \in Backends, ProcessStep(b) PROVE TypeOK'
    <3>s. section[b] \in Section /\ poll[b] \in PollState
      BY DEF TypeOK
    <3>e. ASSUME ProcessEnds(b) PROVE TypeOK'
      <4>1. callback' \in [LocalJobs -> CallbackState]
        BY <3>e DEF ProcessEnds, TypeOK, CallbackState
      <4> QED
        BY <2>0, <3>e, <4>1 DEF ProcessEnds, TypeOK
    <3>1. CASE StopWrite(b)
      <4>1. section[b].seen \in Manifest /\ section[b].job \in DetachedJobs
        BY <3>s, <3>1, SectionFields DEF StopWrite
      <4>2. [section[b].seen EXCEPT !.st = "STOPPING"] \in Manifest
        BY <2>0, <4>1 DEF Manifest
      <4>3. runner' \in [DetachedJobs -> RunnerState] /\ lease' \subseteq Holders
        BY <3>1 DEF StopWrite, TypeOK, RunnerState
      <4> QED
        BY <2>0, <3>1, <4>1, <4>2, <4>3 DEF StopWrite, TypeOK
    <3>2. CASE PollWrite(b)
      <4> DEFINE j == poll[b].job
      <4>1. j \in Jobs /\ poll[b].seen \in Manifest
        BY <3>s, <3>2 DEF PollWrite, PollState
      <4>2. /\ ReconciledManifest(b, j, poll[b].seen) \in Manifest
            /\ ReconciledIndex(b, j, poll[b].seen) \in Status
        BY <4>1, ReconcileType
      <4> QED
        BY <2>0, <3>2, <4>1, <4>2 DEF PollWrite, TypeOK
    <3>3. CASE ManualStart(b)
      BY <3>3 DEF ManualStart, TypeOK, Holders
    <3>4. CASE ManualEnd(b)
      BY <3>4 DEF ManualEnd, TypeOK
    <3>5. CASE CloseBegin(b)
      BY <3>5 DEF CloseBegin, TypeOK
    <3>6. CASE CloseExit(b)
      BY <3>6, <3>e DEF CloseExit
    <3>7. CASE Crash(b)
      BY <3>7, <3>e DEF Crash
    <3>8. CASE Restart(b)
      <4>1. \A j \in Jobs : Load(j) \in Manifest
        BY DEF TypeOK, Load, Manifest
      <4>2. \A j \in Jobs : /\ ReconciledManifest(b, j, Load(j)) \in Manifest
                            /\ ReconciledIndex(b, j, Load(j)) \in Status
        BY <4>1, ReconcileType
      <4>3. manifest' \in [Jobs -> Manifest] /\ index' \in [Jobs -> Status]
        BY <3>8, <4>2 DEF Restart, TypeOK
      <4> QED
        BY <3>8, <4>3 DEF Restart, TypeOK
    <3> QED
      BY <2>8, <3>1, <3>2, <3>3, <3>4, <3>5, <3>6, <3>7, <3>8 DEF ProcessStep
  <2> QED
    BY <2>1, <2>2, <2>3, <2>4, <2>5, <2>6, <2>7, <2>8 DEF Next
<1> QED
  BY <1>1, <1>2, PTL DEF Spec
-----------------------------------------------------------------------------
(* Different threads and processes are different holders.                  *)
LEMMA HoldersDiffer ==
  /\ \A x, y : /\ Dispatcher(x) = Dispatcher(y) => x = y
               /\ LocalThread(x) = LocalThread(y) => x = y
               /\ Runner(x) = Runner(y) => x = y
               /\ ManualSession(x) = ManualSession(y) => x = y
  /\ \A x, y : /\ Dispatcher(x) # LocalThread(y) /\ Dispatcher(x) # Runner(y)
               /\ Dispatcher(x) # ManualSession(y) /\ LocalThread(x) # Runner(y)
               /\ LocalThread(x) # ManualSession(y) /\ Runner(x) # ManualSession(y)
BY DEF Dispatcher, LocalThread, Runner, ManualSession

(* A hold on the lease that only shrinks keeps its shape.                  *)
LEMMA ShapeShrinks ==
  ASSUME TypeOK, LeaseShape, lease' \subseteq lease,
         \A c \in Backends : /\ section[c].at = "spawned" /\ Dispatcher(c) \in lease'
                             => section'[c] = section[c]
  PROVE  LeaseShape'
<1>1. CASE lease = {} \/ \E h \in Holders : lease \subseteq {h}
  BY <1>1 DEF LeaseShape
<1>2. ASSUME NEW b \in Backends, section[b].at = "spawned",
             lease = {Dispatcher(b), Runner(section[b].job)}
      PROVE  LeaseShape'
  <2>1. section[b].job \in DetachedJobs
    BY ZenonT(40), <1>2, SectionFields DEF TypeOK
  <2>2. Dispatcher(b) \in Holders /\ Runner(section[b].job) \in Holders
    BY <2>1 DEF Holders
  <2>3. CASE Dispatcher(b) \notin lease'
    <3>1. lease' \subseteq {Runner(section[b].job)}
      BY <1>2, <2>3
    <3> QED
      BY <2>2, <3>1 DEF LeaseShape
  <2>4. CASE Runner(section[b].job) \notin lease'
    <3>1. lease' \subseteq {Dispatcher(b)}
      BY <1>2, <2>4
    <3> QED
      BY <2>2, <3>1 DEF LeaseShape
  <2>5. CASE Dispatcher(b) \in lease' /\ Runner(section[b].job) \in lease'
    <3>1. section'[b] = section[b] /\ lease' = lease
      BY <1>2, <2>5
    <3> QED
      BY <1>2, <3>1 DEF LeaseShape
  <2> QED
    BY <2>3, <2>4, <2>5
<1> QED
  BY <1>1, <1>2 DEF LeaseShape

(* A dispatcher that has spawned nothing yet holds the lease alone.        *)
LEMMA DispatcherAlone ==
  ASSUME TypeOK, LeaseShape, LeaseHeldByWork, NEW b \in Backends,
         section[b].at \in {"selected", "published", "indexed"}
  PROVE  lease = {Dispatcher(b)}
<1>1. Dispatcher(b) \in lease
  BY DEF LeaseHeldByWork, Dispatching
<1>2. CASE \E h \in Holders : lease \subseteq {h}
  BY <1>1, <1>2
<1>3. ASSUME NEW c \in Backends, section[c].at = "spawned",
             lease = {Dispatcher(c), Runner(section[c].job)}
      PROVE  FALSE
  BY <1>1, <1>3, HoldersDiffer
<1> QED
  BY <1>1, <1>2, <1>3 DEF LeaseShape

(* Whatever else a step does, a single holder is a well-shaped lease.      *)
LEMMA ShapeOfOne ==
  ASSUME NEW h \in Holders, lease' \subseteq {h}
  PROVE  LeaseShape'
BY DEF LeaseShape

(* One lease, one work.                                                    *)
LEMMA LeaseInvImpliesOne == LeaseInv => OneWorkAtATime
<1> SUFFICES ASSUME LeaseInv, NEW x \in InUse, NEW y \in InUse PROVE x = y
  BY DEF OneWorkAtATime
<1> DEFINE Holds(z) == \/ z \in LocalJobs /\ LocalThread(z) \in lease
                       \/ z \in DetachedJobs /\ Runner(z) \in lease
                       \/ z \in Backends /\ ManualSession(z) \in lease
<1>1. \A z \in InUse : Holds(z)
  BY DEF InUse, Jobs, LeaseInv, LeaseHeldByWork
<1>2. Holds(x) /\ Holds(y)
  BY <1>1
<1>0. lease # {}
  BY <1>2
<1>3. CASE \E h \in Holders : lease \subseteq {h}
  <2> PICK h : lease \subseteq {h}
    BY <1>3
  <2> QED
    BY <1>2, HoldersDiffer
<1>4. CASE \E b \in Backends : lease = {Dispatcher(b), Runner(section[b].job)}
  <2> PICK b : lease = {Dispatcher(b), Runner(section[b].job)}
    BY <1>4
  <2> QED
    BY <1>2, HoldersDiffer
<1> QED
  BY <1>0, <1>3, <1>4 DEF LeaseInv, LeaseShape

(* Nobody works or holds a lease at the start.                             *)
LEMMA LeaseInvInit == Init => LeaseHeldByWork /\ LeaseShape
<1> SUFFICES ASSUME Init PROVE LeaseHeldByWork /\ LeaseShape
  OBVIOUS
<1>1. LeaseHeldByWork
  BY DEF Init, LeaseHeldByWork, Busy, CallbackBusy, RunnerAlive, Terminal, Free, Dispatching, Jobs
<1>2. LeaseShape
  BY DEF Init, LeaseShape, Holders
<1> QED
  BY <1>1, <1>2

(* Every step keeps each work under a lease of its own backend.            *)
LEMMA LeaseInvStep ==
  ASSUME TypeOK, TypeOK', LeaseHeldByWork, LeaseShape, [Next]_vars
  PROVE  LeaseHeldByWork' /\ LeaseShape'
<1> USE JobsAssumption, HoldersDiffer DEF fileVars, arrivalVars, workVars, sectionVars, upVars
<1>h. /\ \A j \in LocalJobs : LocalThread(j) \in lease <=> callback[j] \in CallbackBusy
      /\ \A j \in DetachedJobs : Runner(j) \in lease <=> runner[j] \in RunnerAlive
      /\ \A c \in Backends : Dispatcher(c) \in lease <=> section[c].at \in Dispatching
  BY DEF LeaseHeldByWork, Busy
(* Steps that leave the lease, the sections and the work as they are.      *)
<1>u. ASSUME UNCHANGED <<callback, runner, lease, section>> PROVE LeaseHeldByWork' /\ LeaseShape'
  BY <1>u, <1>h, ShapeShrinks DEF LeaseHeldByWork, Busy
<1>1. CASE UNCHANGED vars
  <2>1. UNCHANGED <<callback, runner, lease, section>>
    BY <1>1 DEF vars
  <2> QED
    BY <2>1, <1>u
<1>2. ASSUME NEW b \in Backends, DispatchStep(b) PROVE LeaseHeldByWork' /\ LeaseShape'
  <2>1. CASE Scan(b)
    BY <2>1, <1>u DEF Scan
  <2>2. CASE Select(b)
    <3>1. lease = {} /\ lease' = {Dispatcher(b)} /\ Dispatcher(b) \in Holders
      BY <2>2 DEF Select, LeaseFree, Holders
    <3>2. section'[b].at = "selected" /\ \A c \in Backends \ {b} : section'[c] = section[c]
      BY <2>2 DEF Select, TypeOK
    <3>3. UNCHANGED <<callback, runner>>
      BY <2>2 DEF Select
    <3> QED
      BY <1>h, <3>1, <3>2, <3>3, ShapeOfOne DEF Dispatching, LeaseHeldByWork, Busy
  <2>3. CASE PublishStarting(b) \/ IndexStarting(b)
    <3>1. lease = {Dispatcher(b)} /\ Dispatcher(b) \in Holders
      BY <2>3, DispatcherAlone DEF PublishStarting, IndexStarting, Holders
    <3>2. /\ section[b].at \in Dispatching /\ section'[b].at \in Dispatching
          /\ \A c \in Backends \ {b} : section'[c] = section[c]
      <4>1. section[b] \in Section
        BY DEF TypeOK
      <4>2. CASE PublishStarting(b)
        BY <4>1, <4>2, SectionFields DEF PublishStarting, TypeOK, Dispatching
      <4>3. CASE IndexStarting(b)
        BY <4>1, <4>3, SectionFields DEF IndexStarting, TypeOK, Dispatching
      <4> QED
        BY <2>3, <4>2, <4>3
    <3>3. UNCHANGED <<callback, runner, lease>>
      BY <2>3 DEF PublishStarting, IndexStarting
    <3> QED
      BY <1>h, <3>1, <3>2, <3>3, ShapeOfOne DEF LeaseHeldByWork, Busy
  <2>4. CASE StartLocal(b)
    <3> DEFINE j == section[b].job
    <3>1. lease = {Dispatcher(b)} /\ j \in LocalJobs
      BY <2>4, DispatcherAlone DEF StartLocal, TypeOK
    <3>2. lease' = {LocalThread(j)} /\ LocalThread(j) \in Holders
      BY <2>4, <3>1 DEF StartLocal, Holders
    <3>3. section'[b].at = "free" /\ \A c \in Backends \ {b} : section'[c] = section[c]
      BY <2>4 DEF StartLocal, TypeOK, Free
    <3>4. /\ callback'[j] \in CallbackBusy
          /\ \A k \in LocalJobs \ {j} : callback'[k] = callback[k]
          /\ runner' = runner
      BY <2>4 DEF StartLocal, TypeOK, CallbackBusy
    <3>5. \A k \in LocalJobs : LocalThread(k) \in lease' <=> callback'[k] \in CallbackBusy
      BY <1>h, <3>1, <3>2, <3>4
    <3>6. \A k \in DetachedJobs : Runner(k) \in lease' <=> runner'[k] \in RunnerAlive
      BY <1>h, <3>1, <3>2, <3>4
    <3>7. \A c \in Backends : Dispatcher(c) \in lease' <=> section'[c].at \in Dispatching
      BY <1>h, <3>1, <3>2, <3>3 DEF Dispatching
    <3> QED
      BY <3>2, <3>5, <3>6, <3>7, ShapeOfOne DEF LeaseHeldByWork, Busy
  <2>5. CASE LaunchFails(b) \/ LaunchFailsUnrecorded(b) \/ FinishSpawn(b)
    <3>1. /\ lease' = lease \ {Dispatcher(b)}
          /\ section'[b].at = "free" /\ \A c \in Backends \ {b} : section'[c] = section[c]
          /\ UNCHANGED <<callback, runner>>
      BY <2>5 DEF LaunchFails, LaunchFailsUnrecorded, FinishSpawn, TypeOK, Free
    <3>2. LeaseShape'
      BY <3>1, ShapeShrinks
    <3> QED
      BY <1>h, <3>1, <3>2 DEF Dispatching, LeaseHeldByWork, Busy
  <2>6. CASE Spawn(b)
    <3> DEFINE j == section[b].job
    <3>1. lease = {Dispatcher(b)} /\ j \in DetachedJobs
      BY <2>6, DispatcherAlone DEF Spawn
    <3>2. lease' = {Dispatcher(b), Runner(j)}
      BY <2>6, <3>1 DEF Spawn
    <3>3. /\ section'[b].at = "spawned" /\ section'[b].job = j
          /\ \A c \in Backends \ {b} : section'[c] = section[c]
      BY <2>6, SectionFields DEF Spawn, TypeOK
    <3>4. /\ runner'[j] \in RunnerAlive
          /\ \A k \in DetachedJobs \ {j} : runner'[k] = runner[k]
          /\ callback' = callback
      BY <2>6 DEF Spawn, TypeOK, RunnerAlive
    <3>5. LeaseShape'
      BY <3>2, <3>3 DEF LeaseShape
    <3>6. \A k \in LocalJobs : LocalThread(k) \in lease' <=> callback'[k] \in CallbackBusy
      BY <1>h, <3>1, <3>2, <3>4
    <3>7. \A k \in DetachedJobs : Runner(k) \in lease' <=> runner'[k] \in RunnerAlive
      BY <1>h, <3>1, <3>2, <3>4
    <3>8. \A c \in Backends : Dispatcher(c) \in lease' <=> section'[c].at \in Dispatching
      BY ZenonT(40), <1>h, <3>1, <3>2, <3>3 DEF Dispatching
    <3> QED
      BY <3>5, <3>6, <3>7, <3>8 DEF LeaseHeldByWork, Busy
  <2> QED
    BY <1>2, <2>1, <2>2, <2>3, <2>4, <2>5, <2>6 DEF DispatchStep
<1>3. ASSUME NEW b \in Backends, NEW j \in LocalJobs, LocalStep(b, j)
      PROVE  LeaseHeldByWork' /\ LeaseShape'
  <2>1. CASE LocalSave(b, j) \/ LocalSaveFails(b, j)
    <3>1. /\ UNCHANGED <<runner, lease, section>>
          /\ callback[j] \in CallbackBusy /\ callback'[j] \in CallbackBusy
          /\ \A k \in LocalJobs \ {j} : callback'[k] = callback[k]
      BY <2>1 DEF LocalSave, LocalSaveFails, TypeOK, CallbackBusy
    <3>2. LeaseShape'
      BY <3>1, ShapeShrinks
    <3> QED
      BY <1>h, <3>1, <3>2 DEF LeaseHeldByWork, Busy
  <2>2. CASE LocalRelease(b, j)
    <3>1. /\ lease' = lease \ {LocalThread(j)} /\ UNCHANGED <<runner, section>>
          /\ callback'[j] \notin CallbackBusy
          /\ \A k \in LocalJobs \ {j} : callback'[k] = callback[k]
      BY <2>2 DEF LocalRelease, TypeOK, CallbackBusy
    <3>2. LeaseShape'
      BY <3>1, ShapeShrinks
    <3> QED
      BY <1>h, <3>1, <3>2 DEF LeaseHeldByWork, Busy
  <2> QED
    BY <1>3, <2>1, <2>2 DEF LocalStep
(* A runner that lives on, and one that ends.                              *)
<1>a. ASSUME NEW j \in DetachedJobs, UNCHANGED <<callback, lease, section>>,
             runner[j] \in RunnerAlive, runner'[j] \in RunnerAlive,
             \A k \in DetachedJobs \ {j} : runner'[k] = runner[k]
      PROVE  LeaseHeldByWork' /\ LeaseShape'
  <2>1. LeaseShape'
    BY <1>a, ShapeShrinks
  <2> QED
    BY <1>a, <1>h, <2>1 DEF LeaseHeldByWork, Busy
<1>e. ASSUME NEW j \in DetachedJobs, lease' = lease \ {Runner(j)}, callback' = callback,
             runner' = [runner EXCEPT ![j] = "exited"],
             \A c \in Backends : section'[c] = section[c] \/ section'[c].at \notin Dispatching,
             \A c \in Backends : section[c].at \in Dispatching => section'[c] = section[c]
      PROVE  LeaseHeldByWork' /\ LeaseShape'
  <2>1. LeaseShape'
    BY <1>e, ShapeShrinks DEF Dispatching
  <2>2. runner'[j] \notin RunnerAlive /\ \A k \in DetachedJobs \ {j} : runner'[k] = runner[k]
    BY <1>e DEF TypeOK, RunnerAlive, Terminal
  <2> QED
    BY <1>e, <1>h, <2>1, <2>2 DEF LeaseHeldByWork, Busy
<1>4. ASSUME NEW j \in DetachedJobs, RunnerStep(j) PROVE LeaseHeldByWork' /\ LeaseShape'
  <2>1. CASE RunnerRegister(j)
    BY <1>a, <2>1 DEF RunnerRegister, TypeOK, RunnerAlive
  <2>2. CASE RunnerHeartbeat(j)
    BY <1>u, <2>2 DEF RunnerHeartbeat
  <2>3. CASE RunnerFinish(j)
    <3>1. PICK st \in Terminal : runner' = [runner EXCEPT ![j] = st]
      BY <2>3 DEF RunnerFinish
    <3> QED
      BY <1>a, <2>3, <3>1 DEF RunnerFinish, TypeOK, RunnerAlive
  <2>4. CASE RunnerExit(j)
    BY <1>e, <2>4 DEF RunnerExit
  <2>5. CASE RunnerDies(j)
    BY <1>e, <2>5 DEF RunnerDies
  <2> QED
    BY <1>4, <2>1, <2>2, <2>3, <2>4, <2>5 DEF RunnerStep
<1>5. ASSUME NEW j \in Jobs, FiveSecondsPass(j) PROVE LeaseHeldByWork' /\ LeaseShape'
  BY <1>5, <1>u DEF FiveSecondsPass
(* Steps on which only sections that hold no lease differ.                 *)
<1>s. ASSUME UNCHANGED <<callback, runner, lease>>,
             \A c \in Backends : \/ section'[c] = section[c]
                                 \/ /\ section[c].at \notin Dispatching
                                    /\ section'[c].at \notin Dispatching
      PROVE  LeaseHeldByWork' /\ LeaseShape'
  <2>1. LeaseShape'
    BY <1>s, ShapeShrinks DEF Dispatching
  <2> QED
    BY <1>s, <1>h, <2>1 DEF LeaseHeldByWork, Busy
<1>6. ASSUME NEW b \in Backends, NEW j \in Jobs, UserStep(b, j)
      PROVE  LeaseHeldByWork' /\ LeaseShape'
  <2>1. CASE Submit(b, j) \/ SubmitRefused(b, j) \/ StopQueued(b, j) \/ PollRead(b, j)
    BY <1>u, <2>1 DEF Submit, SubmitRefused, StopQueued, PollRead
  <2>2. CASE StopRead(b, j)
    <3>1. section[b].at = "free" /\ section'[b].at = "stopping"
      BY <2>2 DEF StopRead, CanStop, DispatchLockFree, LockFree, TypeOK
    <3>2. \A c \in Backends \ {b} : section'[c] = section[c]
      BY <2>2 DEF StopRead, TypeOK
    <3> QED
      BY <1>s, <2>2, <3>1, <3>2 DEF StopRead, Dispatching
  <2> QED
    BY <1>6, <2>1, <2>2 DEF UserStep
<1>7. ASSUME NEW b \in Backends, NEW j \in LocalJobs, StopLocal(b, j) \/ CloseCancel(b, j)
      PROVE  LeaseHeldByWork' /\ LeaseShape'
  BY <1>7, <1>u DEF StopLocal, CloseCancel
<1>8. ASSUME NEW b \in Backends, ProcessStep(b) PROVE LeaseHeldByWork' /\ LeaseShape'
  <2>e. ASSUME ProcessEnds(b) PROVE LeaseHeldByWork' /\ LeaseShape'
    <3>1. /\ Dispatcher(b) \notin lease' /\ ManualSession(b) \notin lease'
          /\ \A c \in Backends \ {b} : Dispatcher(c) \in lease' <=> Dispatcher(c) \in lease
          /\ \A k \in DetachedJobs : Runner(k) \in lease' <=> Runner(k) \in lease
          /\ \A k \in LocalJobs : LocalThread(k) \in lease' <=>
                                    LocalThread(k) \in lease /\ k \notin tasks[b]
          /\ lease' \subseteq lease
      BY <2>e DEF ProcessEnds
    <3>2. section'[b].at = "free" /\ \A c \in Backends \ {b} : section'[c] = section[c]
      BY <2>e DEF ProcessEnds, TypeOK, Free
    <3>3. /\ runner' = runner
          /\ \A k \in LocalJobs : callback'[k] \in CallbackBusy <=>
                                    callback[k] \in CallbackBusy /\ k \notin tasks[b]
      BY <2>e DEF ProcessEnds, TypeOK, CallbackBusy
    <3>4. LeaseShape'
      BY <3>1, <3>2, ShapeShrinks
    <3> QED
      BY <1>h, <3>1, <3>2, <3>3, <3>4 DEF Dispatching, LeaseHeldByWork, Busy
  <2>1. CASE StopWrite(b)
    <3>1. /\ section[b].at = "stopping" /\ section'[b].at = "free"
          /\ \A c \in Backends \ {b} : section'[c] = section[c]
          /\ callback' = callback
      BY <2>1 DEF StopWrite, TypeOK, Free
    <3>j. section[b].job \in DetachedJobs
      BY <3>1, SectionFields DEF TypeOK
    <3>2. CASE UNCHANGED <<runner, lease>>
      BY <1>s, <3>1, <3>2 DEF Dispatching
    <3>3. CASE /\ runner' = [runner EXCEPT ![section[b].job] = "exited"]
               /\ lease' = lease \ {Runner(section[b].job)}
      BY <1>e, <3>1, <3>3, <3>j DEF Dispatching
    <3> QED
      BY <2>1, <3>2, <3>3 DEF StopWrite
  <2>2. CASE PollWrite(b) \/ CloseBegin(b) \/ Restart(b)
    BY <1>u, <2>2 DEF PollWrite, CloseBegin, Restart
  <2>3. CASE ManualStart(b)
    <3>1. lease = {} /\ lease' = {ManualSession(b)} /\ ManualSession(b) \in Holders
      BY <2>3 DEF ManualStart, LeaseFree, Holders
    <3> QED
      BY <1>h, <2>3, <3>1, ShapeOfOne DEF ManualStart, LeaseHeldByWork, Busy
  <2>4. CASE ManualEnd(b)
    <3>1. lease' = lease \ {ManualSession(b)} /\ UNCHANGED <<callback, runner, section>>
      BY <2>4 DEF ManualEnd
    <3>2. LeaseShape'
      BY <3>1, ShapeShrinks
    <3> QED
      BY <1>h, <3>1, <3>2 DEF LeaseHeldByWork, Busy
  <2>5. CASE CloseExit(b) \/ Crash(b)
    BY <2>5, <2>e DEF CloseExit, Crash
  <2> QED
    BY <1>8, <2>1, <2>2, <2>3, <2>4, <2>5 DEF ProcessStep
<1> QED
  BY <1>1, <1>2, <1>3, <1>4, <1>5, <1>6, <1>7, <1>8 DEF Next, LeaseHeldByWork, Busy

(* The lease is never leaked and never doubled: work holds it, only work   *)
(* and the dispatcher about to start it hold it.                           *)
THEOREM LeaseAccounted == Spec => []LeaseInv
<1>1. TypeOK /\ TypeOK' /\ LeaseHeldByWork /\ LeaseShape /\ [Next]_vars
        => (LeaseHeldByWork /\ LeaseShape)'
  BY LeaseInvStep
<1>2. Spec => [](LeaseHeldByWork /\ LeaseShape)
  BY <1>1, LeaseInvInit, TypeCorrect, PTL DEF Spec
<1>3. TypeOK /\ LeaseHeldByWork /\ LeaseShape => LeaseInv
  BY DEF LeaseInv
<1> QED
  BY <1>2, <1>3, TypeCorrect, PTL

(* A single callback, runner or manual session is at work at any time.     *)
THEOREM Exclusion == Spec => []OneWorkAtATime
BY LeaseAccounted, LeaseInvImpliesOne, PTL
-----------------------------------------------------------------------------
(* A job waits once: from its registration until it is selected, canceled  *)
(* or failed; no stale read brings it back.  What a dispatcher has         *)
(* selected came before everything that still waits.                       *)
InHand == {"selected", "published", "indexed"}
Waits(k) == manifest[k].st = "QUEUED"

ArrivalsDiffer == \A j, k \in Jobs : Registered(j) /\ arrival[j] = arrival[k] => j = k
WaitingAreRegistered == \A j \in Jobs : Waits(j) => Registered(j)
StartedWaitNoMore == \A j \in Jobs : Started(j) => Registered(j) /\ ~Waits(j)
SectionsInOrder ==
  \A b \in Backends : section[b].at # "free" =>
    LET j == section[b].job IN
    /\ j \in Jobs /\ Registered(j)
    /\ section[b].at # "selected" => ~Waits(j)
    /\ section[b].at \in InHand =>
         \A k \in Jobs : Waits(k) /\ k \notin refused /\ k # j => arrival[j] < arrival[k]
PollsInOrder ==
  \A b \in Backends : poll[b].job # NoJob =>
    /\ Registered(poll[b].job)
    /\ Waits(poll[b].job) => poll[b].seen.st = "QUEUED"
OrderInv ==
  /\ ArrivalsDiffer /\ WaitingAreRegistered /\ StartedWaitNoMore
  /\ SectionsInOrder /\ PollsInOrder /\ refused \subseteq RefusedJobs
  /\ QueuedIsIndexed /\ NoOvertaking

(***************************************************************************)
(* What a step may do to all that.                                         *)
(***************************************************************************)
NothingRequeued ==
  \A k \in Jobs : Waits(k)' => Waits(k) \/ (~Registered(k) /\ arrival'[k] = clock + 1)
ArrivalsStep ==
  \/ UNCHANGED <<clock, arrival, refused>>
  \/ \E j \in Jobs : /\ ~Registered(j)
                     /\ clock' = clock + 1 /\ arrival' = [arrival EXCEPT ![j] = clock + 1]
                     /\ refused' \in {refused, refused \cup {j}} /\ refused' \subseteq RefusedJobs
                     /\ UNCHANGED <<section, poll, callback, runner>>
StartsStep ==
  \A k \in Jobs : Started(k)' =>
    Started(k) \/ \E b \in Backends : section[b].at = "indexed" /\ section[b].job = k
SectionsStep ==
  \A b \in Backends :
    \/ section'[b] = section[b] \/ section'[b].at = "free"
    \/ /\ section[b].at \in InHand /\ section'[b].job = section[b].job
       /\ manifest'[section[b].job].st # "QUEUED"
    \/ /\ section'[b].at = "selected" /\ section'[b].job \in First(Waiting)
       /\ UNCHANGED <<clock, arrival, refused>>
    \/ /\ section'[b].at = "stopping" /\ section'[b].job \in Jobs
       /\ Registered(section'[b].job) /\ ~Waits(section'[b].job)
       /\ UNCHANGED <<clock, arrival, refused>>
PollsStep ==
  \A b \in Backends :
    \/ poll'[b] = poll[b] \/ poll'[b].job = NoJob
    \/ /\ poll'[b].job \in Jobs /\ Registered(poll'[b].job)
       /\ poll'[b].seen.st = manifest[poll'[b].job].st
       /\ UNCHANGED <<clock, arrival, refused>>
OrderStep == NothingRequeued /\ ArrivalsStep /\ StartsStep /\ SectionsStep /\ PollsStep

(* An empty queue has no order to break.                                   *)
LEMMA OrderInit == Init => OrderInv
<1> SUFFICES ASSUME Init PROVE OrderInv
  OBVIOUS
<1>1. \A j \in Jobs : ~Waits(j) /\ ~Started(j) /\ ~Registered(j)
  BY DEF Init, Waits, NoManifest, Started, Registered, Jobs
<1>2. \A b \in Backends : section[b].at = "free" /\ poll[b].job = NoJob
  BY DEF Init, Free, NoPoll
<1> QED
  BY <1>1, <1>2 DEF Init, OrderInv, ArrivalsDiffer, WaitingAreRegistered, StartedWaitNoMore,
                    SectionsInOrder, PollsInOrder, QueuedIsIndexed, NoOvertaking, Waits

(* Such a step keeps the order.                                            *)
LEMMA OrderKept ==
  ASSUME TypeOK, TypeOK', OrderInv, OrderStep, QueuedIsIndexed'
  PROVE  OrderInv'
<1>a. /\ \A k \in Jobs : arrival[k] \in Nat /\ arrival[k] <= clock /\ arrival'[k] \in Nat
      /\ clock \in Nat
  BY DEF TypeOK
<1>r. \A k \in Jobs : Registered(k) => Registered(k)' /\ arrival'[k] = arrival[k]
  BY <1>a DEF OrderStep, ArrivalsStep, Registered, TypeOK
<1>w. \A k \in Jobs : Waits(k)' => \/ Waits(k) /\ (k \in refused' <=> k \in refused)
                                   \/ ~Registered(k) /\ arrival'[k] = clock + 1
  BY DEF OrderStep, NothingRequeued, ArrivalsStep, OrderInv, WaitingAreRegistered
<1>1. ArrivalsDiffer'
  BY <1>a, <1>r DEF OrderStep, ArrivalsStep, OrderInv, ArrivalsDiffer, Registered, TypeOK
<1>2. WaitingAreRegistered'
  BY <1>a, <1>r, <1>w DEF OrderInv, WaitingAreRegistered, Registered
<1>3. StartedWaitNoMore'
  <2> SUFFICES ASSUME NEW j \in Jobs, Started(j)' PROVE Registered(j)' /\ ~Waits(j)'
    BY DEF StartedWaitNoMore
  <2>1. Registered(j) /\ ~Waits(j)
    BY DEF OrderStep, StartsStep, OrderInv, StartedWaitNoMore, SectionsInOrder
  <2> QED
    BY <2>1, <1>r, <1>w
<1>4. SectionsInOrder'
  <2> SUFFICES ASSUME NEW b \in Backends, section'[b].at # "free",
                      NEW j, j = section'[b].job
               PROVE  /\ j \in Jobs /\ Registered(j)'
                      /\ section'[b].at # "selected" => ~Waits(j)'
                      /\ section'[b].at \in InHand =>
                           \A k \in Jobs : Waits(k)' /\ k \notin refused' /\ k # j
                                             => arrival'[j] < arrival'[k]
    BY DEF SectionsInOrder, Registered, Waits
  <2> DEFINE Before == \A k \in Jobs : Waits(k) /\ k \notin refused /\ k # j
                                       => arrival[j] < arrival[k]
  <2>b. ASSUME j \in Jobs, Registered(j), Before,
               NEW k \in Jobs, Waits(k)', k \notin refused', k # j
        PROVE  arrival'[j] < arrival'[k]
    <3>1. CASE Waits(k) /\ k \notin refused
      <4>1. Registered(k)
        BY <3>1 DEF OrderInv, WaitingAreRegistered
      <4> QED
        BY <2>b, <3>1, <4>1, <1>r
    <3>2. CASE arrival'[k] = clock + 1
      BY <2>b, <3>2, <1>a, <1>r
    <3> QED
      BY <2>b, <3>1, <3>2, <1>w
  <2>1. CASE section'[b] = section[b]
    <3>1. /\ j \in Jobs /\ Registered(j)
          /\ section'[b].at # "selected" => ~Waits(j)
          /\ section'[b].at \in InHand => Before
      BY <2>1 DEF OrderInv, SectionsInOrder
    <3> QED
      BY <3>1, <2>b, <1>r, <1>w
  <2>2. CASE /\ section[b].at \in InHand /\ section'[b].job = section[b].job
             /\ manifest'[section[b].job].st # "QUEUED"
    <3>1. j \in Jobs /\ Registered(j) /\ Before
      BY <2>2 DEF OrderInv, SectionsInOrder, InHand
    <3>2. ~Waits(j)'
      BY <2>2 DEF Waits
    <3> QED
      BY <3>1, <3>2, <2>b, <1>r
  <2>3. CASE /\ section'[b].at = "selected" /\ section'[b].job \in First(Waiting)
             /\ UNCHANGED <<clock, arrival, refused>>
    <3>1. j \in Jobs /\ Waits(j) /\ Registered(j)
      BY <2>3 DEF First, Waiting, Waits, OrderInv, WaitingAreRegistered
    <3>2. \A k \in Jobs : Waits(k) /\ k \notin refused => arrival[j] <= arrival[k]
      BY <2>3 DEF First, Waiting, Waits, OrderInv, QueuedIsIndexed, Pending
    <3>3. \A k \in Jobs : k # j => arrival[j] # arrival[k]
      BY <3>1 DEF OrderInv, ArrivalsDiffer
    <3>4. Before
      BY <3>1, <3>2, <3>3, <1>a
    <3> QED
      BY <2>3, <3>1, <3>4, <2>b, <1>r
  <2>4. CASE /\ section'[b].at = "stopping" /\ section'[b].job \in Jobs
             /\ Registered(section'[b].job) /\ ~Waits(section'[b].job)
             /\ UNCHANGED <<clock, arrival, refused>>
    BY <2>4, <1>r, <1>w DEF InHand
  <2> QED
    BY <2>1, <2>2, <2>3, <2>4 DEF OrderStep, SectionsStep
<1>5. PollsInOrder'
  <2> SUFFICES ASSUME NEW b \in Backends, poll'[b].job # NoJob, NEW j, j = poll'[b].job
               PROVE  /\ Registered(j)'
                      /\ Waits(j)' => poll'[b].seen.st = "QUEUED"
    BY DEF PollsInOrder, Registered, Waits
  <2>1. j \in Jobs
    BY DEF TypeOK, PollState
  <2>2. Registered(j) /\ (Waits(j) => poll'[b].seen.st = "QUEUED")
    BY <2>1 DEF OrderStep, PollsStep, OrderInv, PollsInOrder, Waits
  <2> QED
    BY <2>1, <2>2, <1>r, <1>w
<1>6. (refused \subseteq RefusedJobs)'
  BY DEF OrderStep, ArrivalsStep, OrderInv
<1>7. NoOvertaking'
  <2> SUFFICES ASSUME NEW j \in Jobs, NEW k \in Jobs, Started(j)', Waits(k)', k \notin refused'
               PROVE  arrival'[j] < arrival'[k]
    BY DEF NoOvertaking, Waits
  <2>1. Registered(j) /\ ~Waits(j)
    BY DEF OrderStep, StartsStep, OrderInv, StartedWaitNoMore, SectionsInOrder
  <2>2. CASE ~Registered(k) /\ arrival'[k] = clock + 1
    BY <2>1, <2>2, <1>a, <1>r
  <2>3. CASE Waits(k) /\ k \notin refused
    <3>1. arrival[j] < arrival[k]
      <4>1. CASE Started(j)
        BY <2>3, <4>1 DEF OrderInv, NoOvertaking, Waits
      <4>2. CASE \E b \in Backends : section[b].at = "indexed" /\ section[b].job = j
        BY <2>1, <2>3, <4>2 DEF OrderInv, SectionsInOrder, InHand
      <4> QED
        BY <4>1, <4>2 DEF OrderStep, StartsStep
    <3>2. Registered(k)
      BY <2>3 DEF OrderInv, WaitingAreRegistered
    <3> QED
      BY <2>1, <3>1, <3>2, <1>r
  <2> QED
    BY <2>2, <2>3, <1>w
<1> QED
  BY <1>1, <1>2, <1>3, <1>4, <1>5, <1>6, <1>7 DEF OrderInv

(* A reconciliation takes no job back to QUEUED; a job that waits stays as *)
(* it is in job.json and in the index, or becomes FAILED in job.json.      *)
LEMMA ReconciledKeepsWaiting ==
  ASSUME TypeOK, NEW b \in Backends, NEW j \in Jobs, NEW seen \in Manifest,
         Waits(j) => seen.st = "QUEUED", ReconciledManifest(b, j, seen).st = "QUEUED"
  PROVE  Waits(j) /\ ReconciledIndex(b, j, seen) \in {"QUEUED", index[j]}
<1> DEFINE st == Reconciled(b, j, seen)
<1>1. st # seen.st => st \in {"FAILED", "CANCELED"}
  BY DEF Reconciled, Verdict
<1>2. st \in {"FAILED", "CANCELED"} => [seen EXCEPT !.st = st].st # "QUEUED"
  BY DEF Manifest
<1>3. st = seen.st
  BY <1>1, <1>2 DEF ReconciledManifest
<1>4. Waits(j)
  BY <1>3 DEF ReconciledManifest, Waits
<1> QED
  BY <1>3, <1>4 DEF ReconciledIndex

(* Reading a record gives the status of its manifest.                      *)
LEMMA LoadStatus == \A j \in Jobs : Load(j).st = manifest[j].st
BY DEF Load

(* The scan of the dispatcher leaves alone what waits.                     *)
LEMMA ScanKeepsWaiting ==
  ASSUME TypeOK, NEW b \in Backends, NEW k \in Jobs, ScannedManifest(b)[k].st = "QUEUED"
  PROVE  Waits(k) /\ ScannedIndex(b)[k] = index[k]
<1>1. CASE k \in Scanned
  <2>1. ~Waits(k) /\ ScannedManifest(b)[k] = ReconciledManifest(b, k, Load(k))
    BY <1>1 DEF Scanned, ScannedManifest, Waits
  <2>2. Load(k) \in Manifest
    BY ReconcileType DEF TypeOK, Load, Manifest
  <2> QED
    BY <2>1, <2>2, ReconciledKeepsWaiting
<1>2. CASE k \notin Scanned
  BY <1>2 DEF ScannedManifest, ScannedIndex, Waits
<1> QED
  BY <1>1, <1>2

(* Every step of the queue is such a step, and what waits in job.json      *)
(* waits in the index afterwards.                                          *)
LEMMA StepInOrder ==
  ASSUME TypeOK, OrderInv, [Next]_vars
  PROVE  OrderStep /\ QueuedIsIndexed'
<1> DEFINE Goal == OrderStep /\ QueuedIsIndexed'
<1> USE JobsAssumption DEF fileVars, arrivalVars, workVars, sectionVars, upVars
<1>i. QueuedIsIndexed /\ StartedWaitNoMore /\ refused \subseteq RefusedJobs
  BY DEF OrderInv
<1>m. manifest \in [Jobs -> Manifest] /\ index \in [Jobs -> Status]
  BY DEF TypeOK
<1>s. \A b \in Backends : /\ section[b] \in Section /\ section[b].seen \in Manifest
                          /\ section[b].at # "free" => section[b].job \in Jobs
  BY SectionFields DEF TypeOK
<1>n. \A sn \in Manifest, st \in Status : [sn EXCEPT !.st = st].st = st
  BY DEF Manifest
<1>e. \A st : Free.at = "free" /\ NoPoll.job = NoJob
  BY DEF Free, NoPoll
(* Nothing but the scan's repairs, the lease, the tables of a process.     *)
<1>u. ASSUME UNCHANGED <<manifest, index, clock, arrival, refused, section, poll>>,
             \A k \in Jobs : Started(k)' => Started(k)
      PROVE  Goal
  BY <1>i, <1>u DEF OrderStep, NothingRequeued, ArrivalsStep, StartsStep, SectionsStep, PollsStep,
                    QueuedIsIndexed, Waits
(* One job's files are replaced by what does not wait.                     *)
<1>w. ASSUME NEW j \in Jobs, NEW x, NEW y, x.st # "QUEUED",
             manifest' = [manifest EXCEPT ![j] = x],
             index' = [index EXCEPT ![j] = y] \/ index' = index,
             UNCHANGED <<clock, arrival, refused>>,
             StartsStep, SectionsStep, PollsStep
      PROVE  Goal
  <2>1. \A k \in Jobs : Waits(k)' => Waits(k) /\ index'[k] = index[k]
    BY <1>w, <1>m DEF Waits
  <2> QED
    BY <1>i, <1>w, <2>1 DEF OrderStep, NothingRequeued, ArrivalsStep, QueuedIsIndexed, Waits
(* Only the status is replaced.                                            *)
<1>v. ASSUME NEW j \in Jobs, NEW st \in Status, NEW y, st # "QUEUED",
             manifest' = [manifest EXCEPT ![j].st = st],
             index' = [index EXCEPT ![j] = y],
             UNCHANGED <<clock, arrival, refused, section, poll>>, StartsStep
      PROVE  Goal
  <2>1. manifest' = [manifest EXCEPT ![j] = [manifest[j] EXCEPT !.st = st]]
    BY <1>v
  <2>2. [manifest[j] EXCEPT !.st = st].st # "QUEUED"
    BY <1>v, <1>m, <1>n
  <2>3. SectionsStep /\ PollsStep
    BY <1>v DEF SectionsStep, PollsStep
  <2> QED
    BY <1>w, <1>v, <2>1, <2>2, <2>3
<1>k. ASSUME UNCHANGED <<callback, runner>> PROVE StartsStep
  BY <1>k DEF StartsStep, Started
<1>1. CASE UNCHANGED vars
  BY <1>1, <1>u DEF vars, Started
<1>2. ASSUME NEW b \in Backends, DispatchStep(b) PROVE Goal
  <2>c. ASSUME manifest' = ScannedManifest(b), index' = ScannedIndex(b),
               UNCHANGED <<clock, arrival, refused, callback, runner, poll>>, SectionsStep
        PROVE  Goal
    <3>1. \A k \in Jobs : Waits(k)' => Waits(k) /\ index'[k] = index[k]
      BY <2>c, ScanKeepsWaiting DEF Waits
    <3>2. StartsStep /\ PollsStep
      BY <2>c, <1>k DEF PollsStep
    <3> QED
      BY <1>i, <2>c, <3>1, <3>2 DEF OrderStep, NothingRequeued, ArrivalsStep, QueuedIsIndexed, Waits
  <2>1. CASE Scan(b)
    <3>1. SectionsStep
      BY <2>1 DEF Scan, SectionsStep
    <3> QED
      BY <2>1, <2>c, <3>1 DEF Scan
  <2>2. CASE Select(b)
    <3>1. SectionsStep
      BY <2>2 DEF Select, SectionsStep, TypeOK
    <3> QED
      BY <2>2, <2>c, <3>1 DEF Select
  <2>3. CASE PublishStarting(b)
    <3> DEFINE j == section[b].job
    <3>1. j \in Jobs /\ [section[b].seen EXCEPT !.st = "STARTING"].st = "STARTING"
      BY <2>3, <1>s, <1>n DEF PublishStarting, Status, Pending, Active
    <3>2. SectionsStep
      <4>1. manifest'[j].st # "QUEUED"
        BY <2>3, <3>1, <1>m DEF PublishStarting
      <4>2. section'[b].job = section[b].job
        BY <2>3, <1>s DEF PublishStarting, TypeOK
      <4> QED
        BY <2>3, <4>1, <4>2 DEF PublishStarting, SectionsStep, InHand
    <3>3. StartsStep /\ PollsStep
      BY <2>3, <1>k DEF PublishStarting, PollsStep
    <3> QED
      BY <2>3, <1>w, <3>1, <3>2, <3>3 DEF PublishStarting
  <2>4. CASE IndexStarting(b)
    <3> DEFINE j == section[b].job
    <3>1. j \in Jobs /\ ~Waits(j)
      BY <2>4, <1>s DEF IndexStarting, OrderInv, SectionsInOrder
    <3>2. SectionsStep
      <4>1. section'[b].job = section[b].job
        BY <2>4, <1>s DEF IndexStarting, TypeOK
      <4> QED
        BY <2>4, <3>1, <4>1 DEF IndexStarting, SectionsStep, InHand, Waits
    <3>3. StartsStep /\ PollsStep
      BY <2>4, <1>k DEF IndexStarting, PollsStep
    <3>4. QueuedIsIndexed'
      BY <2>4, <1>i, <3>1, <1>m DEF IndexStarting, QueuedIsIndexed, Waits
    <3> QED
      BY <2>4, <3>2, <3>3, <3>4 DEF IndexStarting, OrderStep, NothingRequeued, ArrivalsStep, Waits
  <2>5. CASE StartLocal(b)
    <3> DEFINE j == section[b].job
    <3>1. j \in Jobs /\ [section[b].seen EXCEPT !.st = "RUNNING"].st = "RUNNING"
      BY <2>5, <1>s, <1>n DEF StartLocal, Status, Pending, Active
    <3>2. SectionsStep /\ PollsStep
      BY <2>5, <1>e DEF StartLocal, SectionsStep, PollsStep, TypeOK
    <3>3. StartsStep
      BY <2>5 DEF StartLocal, StartsStep, Started, TypeOK
    <3> QED
      BY <2>5, <1>w, <3>1, <3>2, <3>3 DEF StartLocal
  <2>6. CASE LaunchFails(b)
    <3> DEFINE j == section[b].job
    <3>1. j \in Jobs /\ [section[b].seen EXCEPT !.st = "FAILED"].st = "FAILED"
      BY <2>6, <1>s, <1>n DEF LaunchFails, Status, Terminal
    <3>2. SectionsStep /\ PollsStep
      BY <2>6, <1>e DEF LaunchFails, SectionsStep, PollsStep, TypeOK
    <3>3. StartsStep
      BY <2>6, <1>k DEF LaunchFails
    <3> QED
      BY <2>6, <1>w, <3>1, <3>2, <3>3 DEF LaunchFails
(* Only this section changes, and the runner's beginning.                  *)
  <2>d. ASSUME UNCHANGED <<manifest, index, clock, arrival, refused, poll>>, StartsStep, SectionsStep
        PROVE  Goal
    BY <1>i, <2>d DEF OrderStep, NothingRequeued, ArrivalsStep, PollsStep, QueuedIsIndexed, Waits
  <2>7. CASE LaunchFailsUnrecorded(b) \/ FinishSpawn(b)
    <3>1. SectionsStep /\ StartsStep
      BY <2>7, <1>k, <1>e DEF LaunchFailsUnrecorded, FinishSpawn, SectionsStep, TypeOK
    <3> QED
      BY <2>7, <2>d, <3>1 DEF LaunchFailsUnrecorded, FinishSpawn
  <2>8. CASE Spawn(b)
    <3>1. section[b].job \in Jobs /\ ~Waits(section[b].job)
      BY <2>8, <1>s DEF Spawn, OrderInv, SectionsInOrder
    <3>2. section'[b].job = section[b].job
      BY <2>8, <1>s DEF Spawn, TypeOK
    <3>3. SectionsStep
      BY <2>8, <3>1, <3>2 DEF Spawn, SectionsStep, InHand, Waits
    <3>4. StartsStep
      BY <2>8 DEF Spawn, StartsStep, Started, TypeOK
    <3> QED
      BY <2>8, <2>d, <3>3, <3>4 DEF Spawn
  <2> QED
    BY <1>2, <2>1, <2>2, <2>3, <2>4, <2>5, <2>6, <2>7, <2>8 DEF DispatchStep
<1>t. {"RUNNING", "STOPPING", "CANCELED", "COMPLETED", "FAILED"} \subseteq Status /\ "QUEUED" \notin Terminal
  BY DEF Status, Pending, Active, Terminal
<1>3. ASSUME NEW b \in Backends, NEW j \in LocalJobs, LocalStep(b, j) PROVE Goal
  <2>0. Started(j) /\ j \in Jobs
    BY <1>3 DEF LocalStep, LocalSave, LocalSaveFails, LocalRelease, Started, Jobs
  <2>1. StartsStep
    BY <1>3, <2>0 DEF LocalStep, LocalSave, LocalSaveFails, LocalRelease, StartsStep, Started, TypeOK
  <2>2. CASE LocalSave(b, j)
    <3>1. PICK st \in {"CANCELED", "COMPLETED", "FAILED"} :
            manifest' = [manifest EXCEPT ![j].st = st] /\ index' = [index EXCEPT ![j] = st]
      BY <2>2 DEF LocalSave
    <3> QED
      BY <2>0, <2>1, <2>2, <3>1, <1>t, <1>v DEF LocalSave
  <2>3. CASE LocalSaveFails(b, j) \/ LocalRelease(b, j)
    <3>1. \A k \in Jobs : Started(k)' => Started(k)
      BY <2>0, <2>3 DEF LocalSaveFails, LocalRelease, Started, TypeOK
    <3> QED
      BY <2>3, <3>1, <1>u DEF LocalSaveFails, LocalRelease
  <2> QED
    BY <1>3, <2>2, <2>3 DEF LocalStep
<1>4. ASSUME NEW j \in DetachedJobs, RunnerStep(j) PROVE Goal
  <2>0. Started(j) /\ j \in Jobs
    BY <1>4 DEF RunnerStep, RunnerRegister, RunnerHeartbeat, RunnerFinish, RunnerExit, RunnerDies,
                Started, Jobs, RunnerAlive, Terminal
  <2>1. StartsStep
    <3>1. callback' = callback /\ \A k \in DetachedJobs \ {j} : runner'[k] = runner[k]
      BY <1>4 DEF RunnerStep, RunnerRegister, RunnerHeartbeat, RunnerFinish, RunnerExit,
                  RunnerDies, TypeOK
    <3> QED
      BY <2>0, <3>1 DEF StartsStep, Started, Jobs
  <2>2. CASE RunnerDies(j)
    <3>1. \A k \in Jobs : Started(k)' => Started(k)
      BY <2>0, <2>2 DEF RunnerDies, Started, TypeOK
    <3> QED
      BY <2>2, <3>1, <1>u DEF RunnerDies
  <2>3. CASE RunnerRegister(j) \/ RunnerHeartbeat(j) \/ RunnerFinish(j) \/ RunnerExit(j)
    <3>1. PICK st \in {"RUNNING"} \cup Terminal :
            manifest' = [manifest EXCEPT ![j] = [st |-> st, pid |-> TRUE]]
      BY <2>3 DEF RunnerRegister, RunnerHeartbeat, RunnerFinish, RunnerExit
    <3>2. UNCHANGED <<index, clock, arrival, refused, section, poll>>
      BY <2>3 DEF RunnerRegister, RunnerHeartbeat, RunnerFinish, RunnerExit
    <3>3. SectionsStep /\ PollsStep
      BY <3>2 DEF SectionsStep, PollsStep
    <3>4. [st |-> st, pid |-> TRUE].st # "QUEUED"
      BY <1>t
    <3> QED
      BY <2>0, <2>1, <3>1, <3>2, <3>3, <3>4, <1>w
  <2> QED
    BY <1>4, <2>2, <2>3 DEF RunnerStep
<1>5. ASSUME NEW j \in Jobs, FiveSecondsPass(j) PROVE Goal
  BY <1>5, <1>u DEF FiveSecondsPass, Started
<1>6. ASSUME NEW b \in Backends, NEW j \in Jobs, UserStep(b, j) PROVE Goal
  <2>1. CASE Submit(b, j) \/ SubmitRefused(b, j)
    <3>1. /\ manifest' = [manifest EXCEPT ![j].st = "QUEUED"] /\ ~Registered(j)
          /\ clock' = clock + 1 /\ arrival' = [arrival EXCEPT ![j] = clock + 1]
          /\ UNCHANGED <<section, poll, callback, runner>>
      BY <2>1 DEF Submit, SubmitRefused
    <3>2. /\ refused' \in {refused, refused \cup {j}} /\ refused' \subseteq RefusedJobs
          /\ j \notin refused' => index' = [index EXCEPT ![j] = "QUEUED"]
          /\ \A k \in Jobs \ {j} : index'[k] = index[k]
      BY <2>1, <1>i, <1>m DEF Submit, SubmitRefused
    <3>3. \A k \in Jobs \ {j} : manifest'[k] = manifest[k]
      BY <3>1, <1>m
    <3>4. NothingRequeued
      BY <3>1, <3>3 DEF NothingRequeued, Waits, TypeOK
    <3>5. ArrivalsStep
      BY <3>1, <3>2 DEF ArrivalsStep
    <3>6. StartsStep /\ SectionsStep /\ PollsStep
      BY <3>1, <1>k DEF SectionsStep, PollsStep
    <3>7. QueuedIsIndexed'
      BY <3>2, <3>3, <1>i, <1>m DEF QueuedIsIndexed
    <3> QED
      BY <3>4, <3>5, <3>6, <3>7 DEF OrderStep
  <2>2. CASE StopQueued(b, j)
    BY <2>2, <1>t, <1>k, <1>v DEF StopQueued
  <2>3. CASE StopRead(b, j)
    <3>1. Registered(j) /\ ~Waits(j)
      BY <2>3 DEF StopRead, CanStop, Waits, Active
    <3>2. SectionsStep
      BY <2>3, <3>1 DEF StopRead, SectionsStep, TypeOK
    <3>3. StartsStep
      BY <2>3, <1>k DEF StopRead
    <3> QED
      BY <2>3, <1>i, <3>2, <3>3
         DEF StopRead, OrderStep, NothingRequeued, ArrivalsStep, PollsStep, QueuedIsIndexed, Waits
  <2>4. CASE PollRead(b, j)
    <3>1. PollsStep
      BY <2>4, LoadStatus DEF PollRead, PollsStep, TypeOK
    <3>2. StartsStep
      BY <2>4, <1>k DEF PollRead
    <3> QED
      BY <2>4, <1>i, <3>1, <3>2
         DEF PollRead, OrderStep, NothingRequeued, ArrivalsStep, SectionsStep, QueuedIsIndexed, Waits
  <2> QED
    BY <1>6, <2>1, <2>2, <2>3, <2>4 DEF UserStep
<1>7. ASSUME NEW b \in Backends, NEW j \in LocalJobs, StopLocal(b, j) \/ CloseCancel(b, j) PROVE Goal
  BY <1>7, <1>t, <1>k, <1>v DEF StopLocal, CloseCancel, Jobs
<1>8. ASSUME NEW b \in Backends, ProcessStep(b) PROVE Goal
  <2>1. CASE StopWrite(b)
    <3> DEFINE j == section[b].job
    <3>1. j \in Jobs /\ [section[b].seen EXCEPT !.st = "STOPPING"].st = "STOPPING"
      BY <2>1, <1>s, <1>n, <1>t DEF StopWrite
    <3>2. SectionsStep /\ PollsStep
      BY <2>1, <1>e DEF StopWrite, SectionsStep, PollsStep, TypeOK
    <3>3. j \in DetachedJobs
      BY <2>1, SectionFields DEF StopWrite, TypeOK
    <3>4. StartsStep
      <4>1. CASE runner' = runner
        BY <2>1, <4>1, <1>k DEF StopWrite
      <4>2. CASE runner[j] = "booting" /\ runner' = [runner EXCEPT ![j] = "exited"]
        <5>1. Started(j) /\ \A k \in DetachedJobs \ {j} : runner'[k] = runner[k]
          BY <4>2, <3>3 DEF Started, TypeOK
        <5> QED
          BY <2>1, <5>1 DEF StopWrite, StartsStep, Started, Jobs
      <4> QED
        BY <2>1, <4>1, <4>2 DEF StopWrite
    <3> QED
      BY <2>1, <1>w, <3>1, <3>2, <3>4 DEF StopWrite
  <2>2. CASE PollWrite(b)
    <3> DEFINE j == poll[b].job
    <3>1. j \in Jobs /\ poll[b].seen \in Manifest
      BY <2>2 DEF PollWrite, TypeOK, PollState
    <3>2. Waits(j) => poll[b].seen.st = "QUEUED"
      BY <2>2 DEF PollWrite, OrderInv, PollsInOrder
    <3>3. ReconciledManifest(b, j, poll[b].seen).st = "QUEUED"
            => Waits(j) /\ ReconciledIndex(b, j, poll[b].seen) \in {"QUEUED", index[j]}
      BY <3>1, <3>2, ReconciledKeepsWaiting
    <3>4. \A k \in Jobs : Waits(k)' => Waits(k) /\ (index'[k] = index[k] \/ index'[k] = "QUEUED")
      BY <2>2, <3>1, <3>3, <1>m DEF PollWrite, Waits
    <3>5. StartsStep /\ SectionsStep /\ PollsStep
      BY <2>2, <1>k, <1>e DEF PollWrite, SectionsStep, PollsStep, TypeOK
    <3> QED
      BY <2>2, <3>4, <3>5, <1>i
         DEF PollWrite, OrderStep, NothingRequeued, ArrivalsStep, QueuedIsIndexed, Waits
  <2>3. CASE ManualStart(b) \/ ManualEnd(b) \/ CloseBegin(b)
    BY <2>3, <1>u DEF ManualStart, ManualEnd, CloseBegin, Started
  <2>4. CASE CloseExit(b) \/ Crash(b)
    <3>1. ProcessEnds(b)
      BY <2>4 DEF CloseExit, Crash
    <3>2. SectionsStep /\ PollsStep
      BY <3>1, <1>e DEF ProcessEnds, SectionsStep, PollsStep, TypeOK
    <3>3. StartsStep
      BY <3>1 DEF ProcessEnds, StartsStep, Started, CallbackBusy, TypeOK
    <3> QED
      BY <3>1, <3>2, <3>3, <1>i
         DEF ProcessEnds, OrderStep, NothingRequeued, ArrivalsStep, QueuedIsIndexed, Waits
  <2>5. CASE Restart(b)
    <3>1. \A k \in Jobs : Load(k) \in Manifest
      BY ReconcileType DEF TypeOK, Load, Manifest
    <3>2. \A k \in Jobs : ReconciledManifest(b, k, Load(k)).st = "QUEUED"
            => Waits(k) /\ ReconciledIndex(b, k, Load(k)) \in {"QUEUED", index[k]}
      BY <3>1, LoadStatus, ReconciledKeepsWaiting DEF Waits
    <3>3. \A k \in Jobs : Waits(k)' => Waits(k) /\ (index'[k] = index[k] \/ index'[k] = "QUEUED")
      BY <2>5, <3>2 DEF Restart, Waits
    <3>4. StartsStep /\ SectionsStep /\ PollsStep
      BY <2>5, <1>k DEF Restart, SectionsStep, PollsStep
    <3> QED
      BY <2>5, <3>3, <3>4, <1>i
         DEF Restart, OrderStep, NothingRequeued, ArrivalsStep, QueuedIsIndexed, Waits
  <2> QED
    BY <1>8, <2>1, <2>2, <2>3, <2>4, <2>5 DEF ProcessStep
<1> QED
  BY <1>1, <1>2, <1>3, <1>4, <1>5, <1>6, <1>7, <1>8 DEF Next

(* Numbers of arrival stay apart and below the clock, in every reachable   *)
(* state.                                                                  *)
LEMMA OrderInvariant == Spec => [](TypeOK /\ OrderInv)
<1>1. TypeOK /\ TypeOK' /\ OrderInv /\ [Next]_vars => OrderInv'
  BY StepInOrder, OrderKept
<1> QED
  BY <1>1, OrderInit, TypeCorrect, PTL DEF Spec
-----------------------------------------------------------------------------
(***************************************************************************)
(* The life of job.json: how its status may change in one step.            *)
(***************************************************************************)
UnregisteredIsAbsent == \A j \in Jobs : ~Registered(j) => manifest[j].st = "absent"

StatusMoves(k) ==
  \/ manifest'[k].st = manifest[k].st
  \/ ~Registered(k) /\ Registered(k)' /\ manifest'[k].st = "QUEUED"
  \/ /\ Registered(k)
     /\ \/ manifest'[k].st \in {"CANCELED", "FAILED"}
        \/ manifest'[k].st = "COMPLETED" /\ Started(k)
        \/ manifest'[k].st = "STOPPING" /\ (k \in DetachedJobs \/ manifest[k].st \in Active)
        \/ k \in DetachedJobs /\ Started(k)
        \/ \E b \in Backends : section[b].at \in InHand /\ section[b].job = k

(* A reconciliation fails or cancels, and only what is on disk.            *)
LEMMA ReconciledStatus ==
  ASSUME TypeOK, NEW b \in Backends, NEW j \in Jobs, NEW seen \in Manifest
  PROVE  \/ ReconciledManifest(b, j, seen) = manifest[j]
         \/ /\ ReconciledManifest(b, j, seen).st \in {"CANCELED", "FAILED"}
            /\ seen.st # "absent"
<1> DEFINE st == Reconciled(b, j, seen)
<1>1. st # seen.st => st \in {"FAILED", "CANCELED"} /\ seen.st # "absent"
  BY DEF Reconciled, Verdict, Pending, Active
<1>2. st \in {"FAILED", "CANCELED"} => [seen EXCEPT !.st = st].st = st
  BY DEF Manifest
<1> QED
  BY <1>1, <1>2 DEF ReconciledManifest

(* Whatever the step, the status of a record only moves the way            *)
(* StatusMoves says.                                                       *)
LEMMA StatusStep ==
  ASSUME TypeOK, OrderInv, UnregisteredIsAbsent, [Next]_vars
  PROVE  \A k \in Jobs : StatusMoves(k)
<1> USE JobsAssumption DEF fileVars, arrivalVars, workVars, sectionVars, upVars
<1>m. manifest \in [Jobs -> Manifest]
  BY DEF TypeOK
<1>s. \A b \in Backends : /\ section[b] \in Section /\ section[b].seen \in Manifest
                          /\ section[b].at # "free" => section[b].job \in Jobs /\ Registered(section[b].job)
  BY SectionFields DEF TypeOK, OrderInv, SectionsInOrder
<1>n. \A sn \in Manifest, st \in Status : [sn EXCEPT !.st = st].st = st
  BY DEF Manifest
<1>t. {"RUNNING", "STARTING", "STOPPING", "CANCELED", "COMPLETED", "FAILED", "QUEUED"} \subseteq Status
  BY DEF Status, Pending, Active, Terminal
<1>l. \A b \in Backends, k \in Jobs :
        \/ ReconciledManifest(b, k, Load(k)) = manifest[k]
        \/ Registered(k) /\ ReconciledManifest(b, k, Load(k)).st \in {"CANCELED", "FAILED"}
  <2> SUFFICES ASSUME NEW b \in Backends, NEW k \in Jobs
               PROVE  \/ ReconciledManifest(b, k, Load(k)) = manifest[k]
                      \/ /\ Registered(k)
                         /\ ReconciledManifest(b, k, Load(k)).st \in {"CANCELED", "FAILED"}
    OBVIOUS
  <2>1. Load(k) \in Manifest /\ Load(k).st = manifest[k].st
    BY <1>m, ReconcileType, LoadStatus DEF Load, Manifest
  <2> QED
    BY <2>1, ReconciledStatus DEF UnregisteredIsAbsent
<1>1. CASE manifest' = manifest
  BY <1>1 DEF StatusMoves
(* A single job's file is replaced, or its status is.                      *)
<1>o. ASSUME NEW j \in Jobs, NEW x, manifest' = [manifest EXCEPT ![j] = x], StatusMoves(j)
      PROVE  \A k \in Jobs : StatusMoves(k)
  BY <1>o, <1>m DEF StatusMoves
<1>p. ASSUME NEW j \in Jobs, NEW st \in Status, manifest' = [manifest EXCEPT ![j].st = st]
      PROVE  /\ manifest'[j].st = st
             /\ manifest' = [manifest EXCEPT ![j] = [manifest[j] EXCEPT !.st = st]]
  BY <1>p, <1>m, <1>n
<1>2. ASSUME NEW b \in Backends, DispatchStep(b) PROVE \A k \in Jobs : StatusMoves(k)
  <2>1. CASE Scan(b) \/ Select(b)
    BY <2>1, <1>l DEF Scan, Select, ScannedManifest, StatusMoves
  <2>2. CASE PublishStarting(b) \/ StartLocal(b) \/ LaunchFails(b)
    <3> DEFINE j == section[b].job
    <3>1. j \in Jobs /\ Registered(j) /\ section[b].at \in InHand
      BY <2>2, <1>s DEF PublishStarting, StartLocal, LaunchFails, InHand
    <3>2. StatusMoves(j)
      BY <3>1 DEF StatusMoves
    <3> QED
      BY <2>2, <3>1, <3>2, <1>o DEF PublishStarting, StartLocal, LaunchFails
  <2>3. CASE IndexStarting(b) \/ LaunchFailsUnrecorded(b) \/ Spawn(b) \/ FinishSpawn(b)
    BY <2>3, <1>1 DEF IndexStarting, LaunchFailsUnrecorded, Spawn, FinishSpawn
  <2> QED
    BY <1>2, <2>1, <2>2, <2>3 DEF DispatchStep
<1>3. ASSUME NEW b \in Backends, NEW j \in LocalJobs, LocalStep(b, j)
      PROVE  \A k \in Jobs : StatusMoves(k)
  <2>1. CASE LocalSave(b, j)
    <3>1. PICK st \in {"CANCELED", "COMPLETED", "FAILED"} : manifest' = [manifest EXCEPT ![j].st = st]
      BY <2>1 DEF LocalSave
    <3>2. j \in Jobs /\ Started(j) /\ Registered(j)
      BY <2>1 DEF LocalSave, Started, Jobs, OrderInv, StartedWaitNoMore
    <3>3. StatusMoves(j)
      BY <3>1, <3>2, <1>p, <1>t DEF StatusMoves
    <3> QED
      BY <3>1, <3>2, <3>3, <1>o, <1>p, <1>t
  <2>2. CASE LocalSaveFails(b, j) \/ LocalRelease(b, j)
    BY <2>2, <1>1 DEF LocalSaveFails, LocalRelease
  <2> QED
    BY <1>3, <2>1, <2>2 DEF LocalStep
<1>4. ASSUME NEW j \in DetachedJobs, RunnerStep(j) PROVE \A k \in Jobs : StatusMoves(k)
  <2>1. j \in Jobs /\ Started(j) /\ Registered(j)
    BY <1>4 DEF RunnerStep, RunnerRegister, RunnerHeartbeat, RunnerFinish, RunnerExit, RunnerDies,
                Started, Jobs, RunnerAlive, Terminal, OrderInv, StartedWaitNoMore
  <2>2. StatusMoves(j)
    BY <2>1 DEF StatusMoves
  <2>3. manifest' = manifest \/ \E x : manifest' = [manifest EXCEPT ![j] = x]
    BY <1>4 DEF RunnerStep, RunnerRegister, RunnerHeartbeat, RunnerFinish, RunnerExit, RunnerDies
  <2> QED
    BY <2>1, <2>2, <2>3, <1>1, <1>o
<1>5. ASSUME NEW b \in Backends, NEW j \in Jobs, UserStep(b, j) PROVE \A k \in Jobs : StatusMoves(k)
  <2>1. CASE Submit(b, j) \/ SubmitRefused(b, j)
    <3>1. /\ manifest' = [manifest EXCEPT ![j].st = "QUEUED"] /\ ~Registered(j)
          /\ arrival'[j] = clock + 1
      BY <2>1 DEF Submit, SubmitRefused, TypeOK
    <3>2. StatusMoves(j)
      BY <3>1, <1>p, <1>t DEF StatusMoves, Registered, TypeOK
    <3> QED
      BY <3>1, <3>2, <1>o, <1>p, <1>t
  <2>2. CASE StopQueued(b, j)
    <3>1. manifest' = [manifest EXCEPT ![j].st = "CANCELED"] /\ Registered(j)
      BY <2>2 DEF StopQueued, CanStop
    <3>2. StatusMoves(j)
      BY <3>1, <1>p, <1>t DEF StatusMoves
    <3> QED
      BY <3>1, <3>2, <1>o, <1>p, <1>t
  <2>3. CASE StopRead(b, j) \/ PollRead(b, j)
    BY <2>3, <1>1 DEF StopRead, PollRead
  <2> QED
    BY <1>5, <2>1, <2>2, <2>3 DEF UserStep
<1>6. ASSUME NEW b \in Backends, NEW j \in LocalJobs, StopLocal(b, j) \/ CloseCancel(b, j)
      PROVE  \A k \in Jobs : StatusMoves(k)
  <2>0. j \in Jobs
    BY DEF Jobs
  <2>1. CASE StopLocal(b, j)
    <3>1. manifest' = [manifest EXCEPT ![j].st = "STOPPING"] /\ Registered(j) /\ manifest[j].st \in Active
      BY <2>1 DEF StopLocal, CanStop
    <3>2. StatusMoves(j)
      BY <2>0, <3>1, <1>p, <1>t DEF StatusMoves
    <3> QED
      BY <2>0, <3>1, <3>2, <1>o, <1>p, <1>t
  <2>2. CASE CloseCancel(b, j)
    <3>1. manifest' = [manifest EXCEPT ![j].st = "CANCELED"] /\ Registered(j)
      BY <2>0, <2>2 DEF CloseCancel, OrderInv, WaitingAreRegistered, Waits
    <3>2. StatusMoves(j)
      BY <2>0, <3>1, <1>p, <1>t DEF StatusMoves
    <3> QED
      BY <2>0, <3>1, <3>2, <1>o, <1>p, <1>t
  <2> QED
    BY <1>6, <2>1, <2>2
<1>7. ASSUME NEW b \in Backends, ProcessStep(b) PROVE \A k \in Jobs : StatusMoves(k)
  <2>1. CASE StopWrite(b)
    <3> DEFINE j == section[b].job
    <3>1. j \in DetachedJobs /\ j \in Jobs /\ Registered(j)
      BY <2>1, <1>s, SectionFields DEF StopWrite
    <3>2. manifest'[j].st = "STOPPING"
      BY <2>1, <3>1, <1>m, <1>n, <1>s, <1>t DEF StopWrite
    <3>3. StatusMoves(j)
      BY <3>1, <3>2 DEF StatusMoves
    <3> QED
      BY <2>1, <3>1, <3>3, <1>o DEF StopWrite
  <2>2. CASE PollWrite(b)
    <3> DEFINE j == poll[b].job
    <3>1. j \in Jobs /\ Registered(j) /\ poll[b].seen \in Manifest
      BY <2>2 DEF PollWrite, TypeOK, PollState, OrderInv, PollsInOrder
    <3>2. StatusMoves(j)
      BY <2>2, <3>1, <1>m, ReconciledStatus DEF PollWrite, StatusMoves
    <3> QED
      BY <2>2, <3>1, <3>2, <1>o DEF PollWrite
  <2>3. CASE Restart(b)
    BY <2>3, <1>l DEF Restart, StatusMoves
  <2>4. CASE ManualStart(b) \/ ManualEnd(b) \/ CloseBegin(b) \/ CloseExit(b) \/ Crash(b)
    BY <2>4, <1>1 DEF ManualStart, ManualEnd, CloseBegin, CloseExit, Crash, ProcessEnds
  <2> QED
    BY <1>7, <2>1, <2>2, <2>3, <2>4 DEF ProcessStep
<1>8. CASE UNCHANGED vars \/ \E j \in Jobs : FiveSecondsPass(j)
  BY <1>8, <1>1 DEF vars, FiveSecondsPass
<1> QED
  BY <1>2, <1>3, <1>4, <1>5, <1>6, <1>7, <1>8 DEF Next

QueueIInv == TypeOK /\ LeaseInv /\ OrderInv /\ UnregisteredIsAbsent

(* The lease, the order and the registrations, in every reachable state.   *)
LEMMA QueueInvariant == Spec => []QueueIInv
<1>1. Init => UnregisteredIsAbsent
  BY DEF Init, UnregisteredIsAbsent, NoManifest
<1>2. TypeOK /\ OrderInv /\ OrderInv' /\ UnregisteredIsAbsent /\ [Next]_vars => UnregisteredIsAbsent'
  <2> SUFFICES ASSUME TypeOK, OrderInv, UnregisteredIsAbsent, [Next]_vars,
                      NEW k \in Jobs, ~Registered(k)'
               PROVE  manifest'[k].st = "absent"
    BY DEF UnregisteredIsAbsent
  <2>1. ~Registered(k)
    BY StepInOrder DEF OrderStep, ArrivalsStep, Registered, TypeOK
  <2> QED
    BY <2>1, StatusStep DEF StatusMoves, UnregisteredIsAbsent
<1>3. Spec => []UnregisteredIsAbsent
  BY <1>1, <1>2, OrderInvariant, PTL DEF Spec
<1> QED
  BY <1>3, OrderInvariant, LeaseAccounted, PTL DEF QueueIInv
-----------------------------------------------------------------------------
(***************************************************************************)
(* The settings of MCQueue.  Where one backend is at work, the job in its  *)
(* dispatcher's hands has not been started and was not canceled, nor does  *)
(* a status request that is under way believe so.                          *)
(***************************************************************************)
Fresh == {"QUEUED", "STARTING", "FAILED"}
OthersIdle ==
  \A b \in Backends \ {Working} : section[b] = Free /\ poll[b] = NoPoll /\ tasks[b] = {}
InHandIsFresh ==
  \A b \in Backends : section[b].at \in InHand =>
    LET j == section[b].job IN
    /\ ~Started(j) /\ manifest[j].st \in Fresh
    /\ \A c \in Backends : poll[c].job = j => poll[c].seen.st \in Fresh
RacesInv == OthersIdle /\ InHandIsFresh /\ NoStrandedTask

(* MCQueue's steps are steps of the queue, and in its setting of races     *)
(* nothing restarts.                                                       *)
LEMMA SettingsStep ==
  ASSUME [SettingsNext]_queue
  PROVE  /\ setting' = setting
         /\ [Next]_vars
         /\ setting = "races" => [Next /\ Races]_vars
BY DEF SettingsNext, queue, vars, fileVars, arrivalVars, workVars, sectionVars, upVars

(* Where nothing restarts, one backend does all the work.                  *)
LEMMA OthersStayIdle ==
  ASSUME OthersIdle, [Next /\ Races]_vars
  PROVE  OthersIdle'
BY DEF OthersIdle, Races, Idle, vars, workVars, sectionVars

(* Under one backend at work a section in hand keeps the others out.       *)
LEMMA RacesStep ==
  ASSUME QueueIInv, QueueIInv', OthersIdle, InHandIsFresh, Next /\ Races,
         NEW b \in Backends, section[b].at \in InHand
  PROVE  /\ b = Working
         /\ ~DispatchLockFree
         /\ section[b].job \in Jobs /\ Registered(section[b].job) /\ ~Started(section[b].job)
<1>1. b = Working
  BY DEF OthersIdle, Free, InHand
<1>2. ~DispatchLockFree
  BY DEF DispatchLockFree, LockFree, InHand
<1>3. section[b].job \in Jobs /\ Registered(section[b].job)
  BY DEF QueueIInv, OrderInv, SectionsInOrder, InHand
<1> QED
  BY <1>1, <1>2, <1>3 DEF InHandIsFresh

(* The job a dispatcher has in hand stays fresh: not started, not          *)
(* canceled.                                                               *)
LEMMA InHandStep ==
  ASSUME QueueIInv, QueueIInv', OthersIdle, OthersIdle', InHandIsFresh, Next /\ Races
  PROVE  InHandIsFresh'
<1> USE JobsAssumption DEF fileVars, arrivalVars, workVars, sectionVars, upVars
<1> SUFFICES ASSUME NEW b \in Backends, section'[b].at \in InHand, NEW j, j = section'[b].job
             PROVE  /\ ~Started(j)' /\ manifest'[j].st \in Fresh
                    /\ \A c \in Backends : poll'[c].job = j => poll'[c].seen.st \in Fresh
  BY DEF InHandIsFresh, Started
<1> DEFINE Goal == /\ ~Started(j)' /\ manifest'[j].st \in Fresh
                   /\ \A c \in Backends : poll'[c].job = j => poll'[c].seen.st \in Fresh
<1>q. TypeOK /\ OrderInv
  BY DEF QueueIInv
<1>m. manifest \in [Jobs -> Manifest]
  BY <1>q DEF TypeOK
<1>b. b = Working /\ \A c \in Backends : c # b => section[c].at = "free" /\ poll[c].job = NoJob
  BY DEF OthersIdle, Free, NoPoll, InHand
<1>n. NoJob \notin Jobs /\ \A sn \in Manifest, st \in Status : [sn EXCEPT !.st = st].st = st
  BY DEF Manifest
<1>s. /\ section[b] \in Section /\ section[b].seen \in Manifest
      /\ section[b].at # "free" => section[b].job \in Jobs
  BY <1>q, SectionFields DEF TypeOK
(* The selection.                                                          *)
<1>1. ASSUME Select(b), section[b].at = "free" PROVE Goal
  <2>1. j \in First(Waiting)
    BY <1>1 DEF Select, TypeOK, QueueIInv
  <2>2. j \in Jobs /\ Waits(j) /\ j \notin Scanned
    BY <2>1 DEF First, Waiting, Scanned, Waits
  <2>3. ~Started(j) /\ UNCHANGED <<callback, runner, poll>>
    BY <1>1, <1>q, <2>2 DEF Select, OrderInv, StartedWaitNoMore
  <2>4. manifest'[j] = manifest[j]
    BY <1>1, <2>2 DEF Select, ScannedManifest
  <2>5. \A c \in Backends : poll[c].job = j => poll[c].seen.st = "QUEUED"
    BY <1>q, <1>n, <2>2 DEF OrderInv, PollsInOrder
  <2> QED
    BY <2>2, <2>3, <2>4, <2>5 DEF Waits, Fresh, Started
(* The job in hand before and after the step.                              *)
<1>h. ASSUME section[b].at \in InHand, section'[b].job = section[b].job
      PROVE  /\ j \in Jobs /\ Registered(j) /\ ~Started(j) /\ manifest[j].st \in Fresh
             /\ \A c \in Backends : poll[c].job = j => poll[c].seen.st \in Fresh
             /\ ~DispatchLockFree
  BY <1>h, RacesStep DEF InHandIsFresh
<1>k. ASSUME section'[b] = section[b] \/ (section[b].at \in InHand /\ section'[b].job = section[b].job),
             ~Started(j)', manifest'[j] = manifest[j], poll' = poll
      PROVE  Goal
  BY <1>h, <1>k
<1>2. ASSUME NEW c \in Backends, DispatchStep(c) PROVE Goal
  <2>1. CASE Scan(c)
    BY <2>1, <1>h DEF Scan, CanDispatch
  <2>2. CASE Select(c)
    <3>1. \A d \in Backends : section[d].at = "free"
      BY <2>2 DEF Select, CanDispatch, DispatchLockFree, LockFree
    <3>2. \A d \in Backends : d # c => section'[d] = section[d]
      BY <2>2, <1>q DEF Select, TypeOK
    <3>3. c = b
      BY <3>1, <3>2 DEF InHand
    <3> QED
      BY <2>2, <3>1, <3>3, <1>1
  <2>3. CASE PublishStarting(c)
    <3>1. c = b /\ section[b].at \in InHand /\ section'[b].job = section[b].job
      BY <2>3, <1>b, <1>s, <1>q DEF PublishStarting, InHand, TypeOK
    <3>2. manifest'[j].st = "STARTING"
      BY <2>3, <3>1, <1>h, <1>m, <1>n, <1>s DEF PublishStarting, Status, Pending, Active
    <3> QED
      BY <2>3, <3>1, <3>2, <1>h DEF PublishStarting, Started, Fresh
  <2>4. CASE IndexStarting(c)
    <3>1. c = b /\ section[b].at \in InHand /\ section'[b].job = section[b].job
      BY <2>4, <1>b, <1>s, <1>q DEF IndexStarting, InHand, TypeOK
    <3> QED
      BY <2>4, <3>1, <1>h DEF IndexStarting, Started
  <2>5. CASE StartLocal(c) \/ LaunchFails(c) \/ LaunchFailsUnrecorded(c) \/ Spawn(c) \/ FinishSpawn(c)
    <3>1. c = b
      BY <2>5, <1>b DEF StartLocal, LaunchFails, LaunchFailsUnrecorded, Spawn, FinishSpawn
    <3>2. \/ section' = [section EXCEPT ![b] = Free]
          \/ section' = [section EXCEPT ![b].at = "spawned"]
      BY <2>5, <3>1 DEF StartLocal, LaunchFails, LaunchFailsUnrecorded, Spawn, FinishSpawn
    <3>r. \A r \in Section : [r EXCEPT !.at = "spawned"].at = "spawned"
      BY DEF Section, Free
    <3>3. section'[b].at \in {"free", "spawned"}
      <4>1. CASE section' = [section EXCEPT ![b] = Free]
        BY <4>1, <1>q DEF TypeOK, Free
      <4>2. CASE section' = [section EXCEPT ![b].at = "spawned"]
        <5>1. section'[b] = [section[b] EXCEPT !.at = "spawned"]
          BY <4>2, <1>q DEF TypeOK
        <5> QED
          BY <5>1, <3>r, <1>s
      <4> QED
        BY <3>2, <4>1, <4>2
    <3> QED
      BY <3>3 DEF InHand
  <2> QED
    BY <1>2, <2>1, <2>2, <2>3, <2>4, <2>5 DEF DispatchStep
<1>3. ASSUME NEW c \in Backends, NEW k \in LocalJobs, LocalStep(c, k) PROVE Goal
  <2>1. c = Working /\ LockFree(c) /\ section' = section
    BY <1>3 DEF LocalStep, LocalSave, LocalSaveFails, LocalRelease, OthersIdle
  <2> QED
    BY <1>b, <2>1 DEF LockFree, InHand
<1>4. ASSUME NEW k \in DetachedJobs, RunnerStep(k) PROVE Goal
  <2>1. section' = section /\ poll' = poll /\ callback' = callback
    BY <1>4 DEF RunnerStep, RunnerRegister, RunnerHeartbeat, RunnerFinish, RunnerExit, RunnerDies
  <2>2. Started(k) /\ k \in Jobs
    BY <1>4 DEF RunnerStep, RunnerRegister, RunnerHeartbeat, RunnerFinish, RunnerExit, RunnerDies,
                Started, Jobs, RunnerAlive, Terminal
  <2>3. k # j
    BY <2>1, <2>2, <1>h
  <2>4. manifest'[j] = manifest[j] /\ (j \in DetachedJobs => runner'[j] = runner[j])
    BY <1>4, <2>1, <2>3, <1>h, <1>m, <1>q
       DEF RunnerStep, RunnerRegister, RunnerHeartbeat, RunnerFinish, RunnerExit, RunnerDies, TypeOK
  <2> QED
    BY <2>1, <2>4, <1>h, <1>k DEF Started, Jobs
<1>5. ASSUME NEW c \in Backends, NEW k \in Jobs, UserStep(c, k) PROVE Goal
  <2>1. CASE Submit(c, k) \/ SubmitRefused(c, k)
    <3>1. section' = section /\ poll' = poll /\ UNCHANGED <<callback, runner>> /\ ~Registered(k)
      BY <2>1 DEF Submit, SubmitRefused
    <3>2. k # j
      BY <3>1, <1>h
    <3>3. manifest'[j] = manifest[j]
      BY <2>1, <3>1, <3>2, <1>h, <1>m DEF Submit, SubmitRefused
    <3> QED
      BY <3>1, <3>3, <1>h, <1>k DEF Started
  <2>2. CASE StopQueued(c, k)
    BY <2>2, <1>h DEF StopQueued, CanStop
  <2>3. CASE StopRead(c, k)
    <3>1. section'[b] = section[b]
      BY <2>3, <1>q DEF StopRead, TypeOK, InHand
    <3> QED
      BY <2>3, <3>1, <1>h DEF StopRead, CanStop
  <2>4. CASE PollRead(c, k)
    <3>1. section' = section /\ UNCHANGED <<manifest, callback, runner>>
      BY <2>4 DEF PollRead
    <3>2. \A d \in Backends : \/ poll'[d] = poll[d]
                              \/ poll'[d].seen.st = manifest[poll'[d].job].st
      BY <2>4, <1>q, LoadStatus DEF PollRead, TypeOK
    <3> QED
      BY <3>1, <3>2, <1>h DEF Started
  <2> QED
    BY <1>5, <2>1, <2>2, <2>3, <2>4 DEF UserStep
<1>6. ASSUME NEW c \in Backends, NEW k \in LocalJobs, StopLocal(c, k) \/ CloseCancel(c, k) PROVE Goal
  <2>1. CASE StopLocal(c, k)
    BY <2>1, <1>h DEF StopLocal, CanStop
  <2>2. CASE CloseCancel(c, k)
    <3>1. c = Working /\ LockFree(c) /\ section' = section
      BY <2>2 DEF CloseCancel, OthersIdle
    <3> QED
      BY <1>b, <3>1 DEF LockFree, InHand
  <2> QED
    BY <1>6, <2>1, <2>2
<1>7. ASSUME NEW c \in Backends, ProcessStep(c) PROVE Goal
  <2>1. CASE StopWrite(c)
    <3>1. c = b /\ section'[b].at = "free"
      BY <2>1, <1>b, <1>q DEF StopWrite, TypeOK, Free
    <3> QED
      BY <3>1 DEF InHand
  <2>2. CASE PollWrite(c)
    <3>1. c = b /\ section' = section /\ UNCHANGED <<callback, runner>>
      BY <2>2, <1>b DEF PollWrite
    <3> DEFINE k == poll[b].job
    <3>2. k \in Jobs /\ poll[b].seen \in Manifest
      BY <2>2, <3>1, <1>q DEF PollWrite, TypeOK, PollState
    <3>3. \A d \in Backends : poll'[d] = poll[d] \/ poll'[d].job = NoJob
      BY <2>2, <3>1, <1>q DEF PollWrite, NoPoll, TypeOK
    <3>4. manifest'[j].st \in Fresh
      <4>1. CASE k # j
        BY <2>2, <3>1, <4>1, <1>h, <1>m DEF PollWrite
      <4>2. CASE k = j
        <5>1. Reconciled(b, j, poll[b].seen) \in {"FAILED", poll[b].seen.st}
          BY <3>1, <4>2, <1>h DEF Reconciled, Verdict, Fresh, Active
        <5>2. ReconciledManifest(b, j, poll[b].seen).st \in {"FAILED", manifest[j].st}
          BY <3>2, <5>1, <1>n DEF ReconciledManifest, Status, Terminal
        <5> QED
          BY <2>2, <3>1, <3>2, <4>2, <5>2, <1>h, <1>m DEF PollWrite, Fresh
      <4> QED
        BY <4>1, <4>2
    <3> QED
      BY <3>1, <3>3, <3>4, <1>h, <1>n DEF Started
  <2>3. CASE ManualStart(c) \/ ManualEnd(c) \/ CloseBegin(c)
    BY <2>3, <1>h, <1>k DEF ManualStart, ManualEnd, CloseBegin, Started
  <2>4. CASE CloseExit(c) \/ Crash(c)
    <3>1. ProcessEnds(c)
      BY <2>4 DEF CloseExit, Crash
    <3>2. CASE c = b
      BY <3>1, <3>2, <1>q DEF ProcessEnds, TypeOK, Free, InHand
    <3>3. CASE c # b
      <4>1. tasks[c] = {}
        BY <3>3, <1>b DEF OthersIdle
      <4>2. section'[b] = section[b] /\ manifest' = manifest /\ runner' = runner
        BY <3>1, <3>3, <1>q DEF ProcessEnds, TypeOK
      <4>3. callback' = callback
        BY <3>1, <4>1, <1>q DEF ProcessEnds, TypeOK
      <4>4. \A d \in Backends : poll'[d] = poll[d] \/ poll'[d].job = NoJob
        BY <3>1, <1>q DEF ProcessEnds, NoPoll, TypeOK
      <4> QED
        BY <4>2, <4>3, <4>4, <1>h, <1>n DEF Started
    <3> QED
      BY <3>2, <3>3
  <2>5. CASE Restart(c)
    BY <2>5, <1>q DEF Restart, Races, TypeOK
  <2> QED
    BY <1>7, <2>1, <2>2, <2>3, <2>4, <2>5 DEF ProcessStep
<1>8. ASSUME NEW k \in Jobs, FiveSecondsPass(k) PROVE Goal
  BY <1>8, <1>h, <1>k DEF FiveSecondsPass, Started
<1> QED
  BY <1>2, <1>3, <1>4, <1>5, <1>6, <1>7, <1>8 DEF Next

(* What a step may do to a task of the backend at work.                    *)
Held(b, j) == section[b].at \in InHand /\ section[b].job = j

(* A local job among the tasks has just come in, or was there: then it     *)
(* stays busy, or held until it is busy.                                   *)
LEMMA TaskStep ==
  ASSUME QueueIInv, Next /\ Races, OthersIdle, NEW j \in LocalJobs, Working \in Backends,
         j \in tasks'[Working]
  PROVE  \/ j \notin tasks[Working] /\ manifest'[j].st = "QUEUED"
         \/ /\ j \in tasks[Working]
            /\ Busy(j) => Busy(j)'
            /\ Held(Working, j) => Held(Working, j)' \/ Busy(j)'
<1> USE JobsAssumption DEF fileVars, arrivalVars, workVars, sectionVars, upVars
<1> DEFINE b == Working
           Goal == \/ j \notin tasks[b] /\ manifest'[j].st = "QUEUED"
                   \/ /\ j \in tasks[b]
                      /\ Busy(j) => Busy(j)'
                      /\ Held(b, j) => Held(b, j)' \/ Busy(j)'
<1>t. TypeOK
  BY DEF QueueIInv
<1>m. manifest \in [Jobs -> Manifest] /\ j \in Jobs
  BY <1>t DEF TypeOK, Jobs
<1>n. \A sn \in Manifest, st \in Status : [sn EXCEPT !.st = st].st = st
  BY DEF Manifest
<1>o. \A c \in Backends : c # b => tasks[c] = {} /\ section[c].at = "free"
  BY DEF OthersIdle, Free
<1>u. (callback' = callback /\ section'[b] = section[b] /\ tasks' = tasks) => Goal
  BY DEF Busy, Held
<1>v. ASSUME callback' = callback, tasks' = tasks, ~Held(b, j) \/ Held(b, j)' PROVE Goal
  BY <1>v DEF Busy
<1>1. ASSUME NEW c \in Backends, DispatchStep(c) PROVE Goal
  <2>1. CASE Scan(c)
    BY <2>1, <1>u DEF Scan
  <2>2. CASE Select(c)
    <3>1. section[b].at = "free"
      BY <2>2 DEF Select, CanDispatch, DispatchLockFree, LockFree
    <3> QED
      BY <2>2, <3>1, <1>v DEF Select, Held, InHand
  <2>3. CASE PublishStarting(c) \/ IndexStarting(c)
    <3>1. c = b /\ section[b] \in Section /\ section[b].at \in InHand
      BY <2>3, <1>o, <1>t DEF PublishStarting, IndexStarting, TypeOK, InHand
    <3>2. \E x \in InHand : section' = [section EXCEPT ![b].at = x]
      BY <2>3, <3>1 DEF PublishStarting, IndexStarting, InHand
    <3>3. \A x \in InHand, r \in Section :
            [r EXCEPT !.at = x].at = x /\ [r EXCEPT !.at = x].job = r.job
      BY DEF Section, Free
    <3>4. section'[b].at \in InHand /\ section'[b].job = section[b].job
      BY <3>1, <3>2, <3>3, <1>t DEF TypeOK
    <3> QED
      BY <2>3, <3>4, <1>v DEF PublishStarting, IndexStarting, Held
  <2>4. CASE StartLocal(c)
    <3>1. c = b /\ section[b].job \in LocalJobs
      BY <2>4, <1>o, <1>t DEF StartLocal, TypeOK
    <3>2. \/ section[b].job = j /\ callback'[j] = "running"
          \/ section[b].job # j /\ callback'[j] = callback[j]
      BY <2>4, <3>1, <1>t DEF StartLocal, TypeOK
    <3> QED
      BY <2>4, <3>2 DEF StartLocal, Busy, CallbackBusy, Held
  <2>5. CASE LaunchFails(c)
    <3>1. c = b
      BY <2>5, <1>o DEF LaunchFails
    <3>2. section[b].job # j /\ j \in tasks[b]
      BY <2>5, <3>1, <1>t DEF LaunchFails, TypeOK
    <3> QED
      BY <2>5, <3>2 DEF LaunchFails, Busy, Held
  <2>6. CASE LaunchFailsUnrecorded(c)
    BY <2>6 DEF Races
  <2>7. CASE Spawn(c)
    BY <2>7, <1>o, <1>v DEF Spawn, Held
  <2>8. CASE FinishSpawn(c)
    BY <2>8, <1>o, <1>v DEF FinishSpawn, Held, InHand
  <2> QED
    BY <1>1, <2>1, <2>2, <2>3, <2>4, <2>5, <2>6, <2>7, <2>8 DEF DispatchStep
<1>2. ASSUME NEW c \in Backends, NEW k \in LocalJobs, LocalStep(c, k) PROVE Goal
  <2>1. section' = section /\ c = b
    BY <1>2, <1>o DEF LocalStep, LocalSave, LocalSaveFails, LocalRelease
  <2>2. CASE LocalSave(c, k) \/ LocalSaveFails(c, k)
    <3>1. callback'[j] \in {callback[j], "saved"} /\ tasks' = tasks
      BY <2>2, <1>t DEF LocalSave, LocalSaveFails, TypeOK
    <3> QED
      BY <2>1, <3>1 DEF Busy, CallbackBusy, Held
  <2>3. CASE LocalRelease(c, k)
    <3>1. k # j /\ j \in tasks[b] /\ callback'[j] = callback[j]
      BY <2>1, <2>3, <1>t DEF LocalRelease, TypeOK
    <3> QED
      BY <2>1, <3>1 DEF Busy, Held
  <2> QED
    BY <1>2, <2>2, <2>3 DEF LocalStep
<1>3. ASSUME NEW k \in DetachedJobs, RunnerStep(k) PROVE Goal
  BY <1>3, <1>u DEF RunnerStep, RunnerRegister, RunnerHeartbeat, RunnerFinish, RunnerExit, RunnerDies
<1>4. ASSUME NEW c \in Backends, NEW k \in Jobs, UserStep(c, k) PROVE Goal
  <2>1. CASE Submit(c, k)
    <3>1. CASE j \in tasks[b]
      BY <2>1, <3>1 DEF Submit, Busy, Held
    <3>2. CASE j \notin tasks[b]
      <4>1. k = j
        BY <2>1, <3>2, <1>t DEF Submit, TypeOK
      <4>2. manifest'[j].st = "QUEUED"
        BY <2>1, <4>1, <1>m, <1>n DEF Submit, Status, Pending
      <4> QED
        BY <3>2, <4>2
    <3> QED
      BY <3>1, <3>2
  <2>2. CASE SubmitRefused(c, k) \/ PollRead(c, k)
    BY <2>2, <1>u DEF SubmitRefused, PollRead
  <2>3. CASE StopQueued(c, k)
    <3>1. j \in tasks[b]
      BY <2>3, <1>t DEF StopQueued, TypeOK
    <3> QED
      BY <2>3, <3>1 DEF StopQueued, Busy, Held
  <2>4. CASE StopRead(c, k)
    <3>1. section[b].at = "free"
      BY <2>4 DEF StopRead, CanStop, DispatchLockFree, LockFree
    <3> QED
      BY <2>4, <3>1, <1>v DEF StopRead, Held, InHand
  <2> QED
    BY <1>4, <2>1, <2>2, <2>3, <2>4 DEF UserStep
<1>5. ASSUME NEW c \in Backends, NEW k \in LocalJobs, StopLocal(c, k) \/ CloseCancel(c, k) PROVE Goal
  <2>1. CASE StopLocal(c, k)
    BY <2>1, <1>u DEF StopLocal
  <2>2. CASE CloseCancel(c, k)
    <3>1. j \in tasks[b]
      BY <2>2, <1>t DEF CloseCancel, TypeOK
    <3> QED
      BY <2>2, <3>1 DEF CloseCancel, Busy, Held
  <2> QED
    BY <1>5, <2>1, <2>2
<1>6. ASSUME NEW c \in Backends, ProcessStep(c) PROVE Goal
  <2>1. CASE StopWrite(c)
    BY <2>1, <1>o, <1>v DEF StopWrite, Held, InHand
  <2>2. CASE PollWrite(c) \/ ManualStart(c) \/ ManualEnd(c) \/ CloseBegin(c) \/ Restart(c)
    BY <2>2, <1>u DEF PollWrite, ManualStart, ManualEnd, CloseBegin, Restart
  <2>3. CASE CloseExit(c) \/ Crash(c)
    <3>1. ProcessEnds(c)
      BY <2>3 DEF CloseExit, Crash
    <3>2. c # b
      BY <3>1, <1>t DEF ProcessEnds, TypeOK
    <3>3. tasks'[b] = tasks[b] /\ section'[b] = section[b] /\ tasks[c] = {}
      BY <3>1, <3>2, <1>t, <1>o DEF ProcessEnds, TypeOK
    <3>4. callback'[j] = callback[j]
      BY <3>1, <3>3 DEF ProcessEnds
    <3> QED
      BY <3>3, <3>4 DEF Busy, Held
  <2> QED
    BY <1>6, <2>1, <2>2, <2>3 DEF ProcessStep
<1>7. CASE \E k \in Jobs : FiveSecondsPass(k)
  BY <1>7, <1>u DEF FiveSecondsPass
<1> QED
  BY <1>1, <1>2, <1>3, <1>4, <1>5, <1>6, <1>7 DEF Next

(* A task is stranded by no step of the only backend at work.              *)
LEMMA StrandedStep ==
  ASSUME QueueIInv, TypeOK', OthersIdle, OthersIdle', NoStrandedTask, Next /\ Races
  PROVE  NoStrandedTask'
<1> USE JobsAssumption
<1> SUFFICES ASSUME NEW b \in Backends, NEW j \in tasks'[b], manifest'[j].st \in Active
             PROVE  Busy(j)' \/ (section'[b].at \in Dispatching /\ section'[b].job = j)
  BY DEF NoStrandedTask
<1>1. b = Working
  BY DEF OthersIdle
<1>2. j \in LocalJobs /\ j \in Jobs /\ j \notin DetachedJobs
  BY DEF TypeOK, Jobs
<1>3. j \in tasks[b] /\ (Busy(j) => Busy(j)') /\ (Held(b, j) => Held(b, j)' \/ Busy(j)')
  BY TaskStep, <1>1, <1>2 DEF Active
<1>4. Held(b, j)' => section'[b].at \in Dispatching /\ section'[b].job = j
  BY DEF Held, InHand, Dispatching
<1>5. CASE manifest[j].st \in Active
  <2>1. Busy(j) \/ (section[b].at \in Dispatching /\ section[b].job = j)
    BY <1>3, <1>5 DEF NoStrandedTask
  <2>2. section[b].at \in Dispatching /\ section[b].job = j => Held(b, j)
    BY <1>2 DEF QueueIInv, TypeOK, Section, Free, Dispatching, Held, InHand
  <2> QED
    BY <2>1, <2>2, <1>3, <1>4
<1>6. CASE manifest[j].st \notin Active
  <2>1. StatusMoves(j)
    BY <1>2, StatusStep DEF QueueIInv
  <2>2. \E c \in Backends : section[c].at \in InHand /\ section[c].job = j
    BY <2>1, <1>2, <1>6 DEF StatusMoves, Active
  <2>3. Held(b, j)
    BY <2>2, <1>1 DEF OthersIdle, Free, Held, InHand
  <2> QED
    BY <2>3, <1>3, <1>4
<1> QED
  BY <1>5, <1>6

(* What holds where requests race and nothing restarts, in every reachable *)
(* state.                                                                  *)
LEMMA RacesInvariant == SettingsSpec => [](QueueIInv /\ (setting = "races" => RacesInv))
<1> DEFINE RInv == setting = "races" => RacesInv
<1>1. SettingsInit => RInv
  BY DEF SettingsInit, Init, RacesInv, OthersIdle, InHandIsFresh, NoStrandedTask, Free, InHand
<1>2. QueueIInv /\ QueueIInv' /\ RInv /\ [SettingsNext]_queue => RInv'
  <2> SUFFICES ASSUME QueueIInv, QueueIInv', RInv, [SettingsNext]_queue, setting' = "races"
               PROVE  RacesInv'
    OBVIOUS
  <2>1. RacesInv /\ [Next /\ Races]_vars
    BY SettingsStep
  <2>2. OthersIdle'
    BY <2>1, OthersStayIdle DEF RacesInv
  <2>3. CASE Next /\ Races
    <3>1. InHandIsFresh'
      BY <2>1, <2>2, <2>3, InHandStep DEF RacesInv
    <3>2. NoStrandedTask'
      BY <2>1, <2>2, <2>3, StrandedStep DEF RacesInv, QueueIInv
    <3> QED
      BY <2>2, <3>1, <3>2 DEF RacesInv
  <2>4. CASE UNCHANGED vars
    BY <2>1, <2>4 DEF RacesInv, OthersIdle, InHandIsFresh, NoStrandedTask, Started, Busy, vars,
                      fileVars, workVars, sectionVars
  <2> QED
    BY <2>1, <2>3, <2>4
<1>3. SettingsInit => Init
  BY DEF SettingsInit
<1>4. [SettingsNext]_queue => [Next]_vars
  BY SettingsStep
<1>5. SettingsSpec => Spec
  BY <1>3, <1>4, PTL DEF SettingsSpec, Spec
<1> QED
  BY <1>1, <1>2, <1>5, QueueInvariant, PTL DEF SettingsSpec

(***************************************************************************)
(* What waits is found by the dispatcher, whatever stale answer a status   *)
(* request writes back; it is started in the order of registration; and    *)
(* with one backend at work no task is left that job.json calls active and *)
(* nobody works on (_dispatch_training_queue, _reconcile, submit_local).   *)
(***************************************************************************)
THEOREM WaitingServed == SettingsSpec => []WaitingIsServed
<1>1. QueueIInv /\ (setting = "races" => RacesInv) => WaitingIsServed
  BY DEF QueueIInv, OrderInv, RacesInv, WaitingIsServed
<1> QED
  BY <1>1, RacesInvariant, PTL

(***************************************************************************)
(* A job canceled before its start stays so: neither a dispatcher that has *)
(* selected it, nor a stop, nor a status answer read before the            *)
(* cancellation brings it back to life (stop, close, _reconcile).          *)
(***************************************************************************)
THEOREM CanceledStays == SettingsSpec => CanceledStaysCanceled
<1> DEFINE Stays == setting = "races" =>
             \A j \in Jobs : manifest[j].st = "CANCELED" /\ ~Started(j)
               => manifest'[j].st \in {"CANCELED", "FAILED", "STOPPING"} /\ ~Started(j)'
<1>1. ASSUME QueueIInv, setting = "races" => RacesInv, [SettingsNext]_queue
      PROVE  [Stays]_queue
  <2> SUFFICES ASSUME setting = "races", NEW j \in Jobs, manifest[j].st = "CANCELED", ~Started(j)
               PROVE  manifest'[j].st \in {"CANCELED", "FAILED", "STOPPING"} /\ ~Started(j)'
    OBVIOUS
  <2>1. [Next]_vars /\ RacesInv
    BY <1>1, SettingsStep
  <2>2. ~\E b \in Backends : section[b].at \in InHand /\ section[b].job = j
    BY <2>1 DEF RacesInv, InHandIsFresh, Fresh
  <2>3. StatusMoves(j) /\ Registered(j)
    BY <1>1, <2>1, StatusStep DEF QueueIInv, UnregisteredIsAbsent
  <2>4. manifest'[j].st \in {"CANCELED", "FAILED", "STOPPING"}
    BY <2>2, <2>3 DEF StatusMoves
  <2>5. StartsStep
    BY <1>1, <2>1, StepInOrder DEF QueueIInv, OrderStep
  <2> QED
    BY <2>2, <2>4, <2>5 DEF StartsStep, InHand
<1> QED
  BY <1>1, RacesInvariant, PTL DEF SettingsSpec, CanceledStaysCanceled
-----------------------------------------------------------------------------
(***************************************************************************)
(* The refinement.  The clients of the server that wait, and how a step of *)
(* the queue is a step of the server.                                      *)
(***************************************************************************)
InLine == {j \in Jobs : manifest[j].st = "QUEUED"} \cup InDispatch

(* Whoever leaves the line unserved withdraws; who is served was first.    *)
LEMMA ServerSteps ==
  ASSUME InUse' = InUse \/ InUse' = {} \/ InUse = {},
         InUse' = InUse =>
           \/ UNCHANGED <<clock, arrival>> /\ InLine' \subseteq InLine
           \/ \E j \in Jobs : /\ arrival[j] = 0 /\ clock' = clock + 1
                            /\ arrival' = [arrival EXCEPT ![j] = clock + 1]
                            /\ InLine' = InLine \cup {j},
         InUse' # InUse /\ InUse' = {} => UNCHANGED <<clock, arrival>> /\ InLine' = InLine,
         InUse' # InUse /\ InUse = {} =>
           /\ UNCHANGED <<clock, arrival>>
           /\ \/ \E j \in Jobs : /\ InUse' = {j} /\ j \in InLine /\ InLine' = InLine \ {j}
                               /\ \A k \in InLine \ RefusedJobs : arrival[j] <= arrival[k]
              \/ \E b \in Backends : /\ InUse' = {b} /\ InLine' = InLine
                                   /\ InLine \subseteq RefusedJobs
  PROVE  [Server!Next]_(Server!vars)
BY DEF InLine, Server!Next, Server!vars, Server!Arrive, Server!Serve, Server!ServeGuest,
       Server!Finish, Server!Withdraw

(* While nobody arrives, nobody comes into the line.                       *)
LEMMA LineStep ==
  ASSUME QueueIInv, [Next]_vars, UNCHANGED <<clock, arrival>>
  PROVE  InLine' \subseteq InLine
<1>1. NothingRequeued /\ SectionsStep
  BY StepInOrder DEF QueueIInv, OrderStep
<1>2. \A k \in Jobs : Waits(k)' => Waits(k)
  BY <1>1 DEF NothingRequeued, QueueIInv, TypeOK
<1>3. \A b \in Backends : section'[b].at \in InHand => section'[b].job \in InLine
  BY <1>1 DEF SectionsStep, InHand, InLine, InDispatch, First, Waiting
<1> QED
  BY <1>2, <1>3 DEF InLine, InDispatch, InHand, Waits

(* A dispatcher with a job in hand holds the lease: nobody works and no    *)
(* other dispatcher has one.                                               *)
LEMMA NobodyWorks ==
  ASSUME LeaseInv, lease = {} \/ \E b \in Backends : lease = {Dispatcher(b)}
  PROVE  InUse = {}
<1>1. \A j \in Jobs : ~Busy(j)
  BY HoldersDiffer DEF LeaseInv, LeaseHeldByWork, Jobs
<1>2. \A b \in Backends : ManualSession(b) \notin lease
  <2>1. CASE lease = {}
    BY <2>1
  <2>2. ASSUME NEW c \in Backends, lease = {Dispatcher(c)}
        PROVE  \A b \in Backends : ManualSession(b) \notin lease
    BY <2>2, HoldersDiffer, Zenon
  <2> QED
    BY <2>1, <2>2
<1> QED
  BY <1>1, <1>2 DEF InUse

(* While a dispatcher has a job in hand, it is the only work there is.     *)
LEMMA HandIsAlone ==
  ASSUME LeaseInv, NEW b \in Backends, section[b].at \in InHand
  PROVE  /\ InUse = {}
         /\ \A c \in Backends : section[c].at \in InHand => c = b
         /\ InDispatch = {section[b].job}
<1>1. lease = {Dispatcher(b)}
  BY DispatcherAlone DEF LeaseInv, InHand
<1>2. \A c \in Backends : section[c].at \in InHand => lease = {Dispatcher(c)}
  BY DispatcherAlone DEF LeaseInv, InHand
<1> QED
  BY <1>1, <1>2, HoldersDiffer, NobodyWorks DEF InDispatch, InHand

(* Every step of the queue is a step of the server or a stutter.           *)
LEMMA RefinementStep ==
  ASSUME QueueIInv, QueueIInv', [Next]_vars
  PROVE  [Server!Next]_(Server!vars)
<1> USE JobsAssumption DEF fileVars, arrivalVars, workVars, sectionVars, upVars
<1> DEFINE Goal == [Server!Next]_(Server!vars)
<1>t. TypeOK /\ TypeOK' /\ LeaseInv /\ LeaseInv' /\ OrderInv
  BY DEF QueueIInv
<1>m. manifest \in [Jobs -> Manifest] /\ arrival \in [Jobs -> Nat] /\ section \in [Backends -> Section]
  BY <1>t DEF TypeOK
<1>one. \A S : S \subseteq InUse => S = InUse \/ S = {}
  BY <1>t, LeaseInvImpliesOne DEF OneWorkAtATime
<1>n. \A sn \in Manifest, st \in Status : [sn EXCEPT !.st = st].st = st
  BY DEF Manifest
<1>q. ASSUME UNCHANGED <<clock, arrival>>, InUse' = InUse PROVE Goal
  BY <1>q, LineStep, ServerSteps
<1>f. ASSUME UNCHANGED <<clock, arrival>>, InUse' \subseteq InUse, InLine' = InLine PROVE Goal
  BY <1>f, <1>one, ServerSteps
<1>u. ASSUME UNCHANGED <<clock, arrival, callback, runner>>,
             \A c \in Backends : ManualSession(c) \in lease' <=> ManualSession(c) \in lease
      PROVE  Goal
  <2>1. InUse' = InUse
    BY <1>u DEF InUse, Busy
  <2> QED
    BY <1>u, <2>1, <1>q
<1>v. ASSUME UNCHANGED <<section, manifest>> PROVE InLine' = InLine
  BY <1>v DEF InLine, InDispatch
<1>1. ASSUME NEW b \in Backends, DispatchStep(b) PROVE Goal
  <2>1. CASE Scan(b)
    BY <2>1, <1>u DEF Scan
  <2>2. CASE Select(b)
    BY <2>2, <1>u, HoldersDiffer DEF Select
  <2>3. CASE PublishStarting(b) \/ IndexStarting(b) \/ LaunchFailsUnrecorded(b)
    BY <2>3, <1>u, HoldersDiffer DEF PublishStarting, IndexStarting, LaunchFailsUnrecorded
  <2>4. CASE LaunchFails(b) \/ FinishSpawn(b)
    BY <2>4, <1>u, HoldersDiffer DEF LaunchFails, FinishSpawn
  <2>5. CASE StartLocal(b) \/ Spawn(b)
    <3> PICK j : j = section[b].job
      OBVIOUS
    <3>1. /\ section[b].at = "indexed" /\ j \in Jobs /\ UNCHANGED <<clock, arrival>>
          /\ InUse = {} /\ InDispatch = {j} /\ \A c \in Backends : section[c].at \in InHand => c = b
      BY <2>5, <1>m, <1>t, SectionFields, HandIsAlone DEF StartLocal, Spawn, InHand
    <3>2. /\ ~Waits(j)
          /\ \A k \in Jobs : Waits(k) /\ k \notin RefusedJobs => arrival[j] <= arrival[k]
      BY <3>1, <1>m, <1>t DEF OrderInv, SectionsInOrder, InHand
    <3>3. j \in InLine /\ \A k \in InLine \ RefusedJobs : arrival[j] <= arrival[k]
      BY <3>1, <3>2, <1>m DEF InLine, Waits
    <3>4. /\ \A c \in Backends : c # b => section'[c] = section[c]
          /\ section'[b].at \notin InHand
      <4>1. CASE StartLocal(b)
        BY <4>1, <1>m DEF StartLocal, Free, InHand
      <4>2. CASE Spawn(b)
        <5>1. section' = [section EXCEPT ![b].at = "spawned"]
          BY <4>2 DEF Spawn
        <5>2. section'[b] = [section[b] EXCEPT !.at = "spawned"]
          BY <5>1, <1>m
        <5>3. \A r \in Section : [r EXCEPT !.at = "spawned"].at = "spawned"
          BY DEF Section, Free
        <5> QED
          BY <5>1, <5>2, <5>3, <1>m DEF InHand
      <4> QED
        BY <2>5, <4>1, <4>2
    <3>5. InDispatch' = {}
      BY <3>1, <3>4 DEF InDispatch, InHand
    <3>6. \A k \in Jobs : Waits(k)' <=> Waits(k)
      <4>1. CASE StartLocal(b)
        <5>1. manifest'[j].st = "RUNNING"
          BY <4>1, <3>1, <1>m, <1>n, SectionFields DEF StartLocal, Status, Pending, Active
        <5> QED
          BY <4>1, <5>1, <3>1, <3>2, <1>m DEF StartLocal, Waits
      <4>2. CASE Spawn(b)
        BY <4>2 DEF Spawn, Waits
      <4> QED
        BY <2>5, <4>1, <4>2
    <3>7. InLine' = InLine \ {j}
      BY <3>1, <3>2, <3>5, <3>6 DEF InLine, Waits
    <3>8. InUse' = {j}
      <4>e. InUse' = {k \in Jobs : Busy(k)'} \cup {c \in Backends : ManualSession(c) \in lease'}
        BY DEF InUse
      <4>0. (\A k \in Jobs : ~Busy(k)) /\ (\A c \in Backends : ManualSession(c) \notin lease)
        BY <3>1 DEF InUse
      <4>1. CASE StartLocal(b)
        <5>0. j \in LocalJobs /\ callback' = [callback EXCEPT ![j] = "running"] /\ UNCHANGED runner
          BY <4>1, <1>t DEF StartLocal, TypeOK
        <5>a. callback'[j] = "running" /\ \A k \in LocalJobs \ {j} : callback'[k] = callback[k]
          BY <5>0, <1>t DEF TypeOK
        <5>1. Busy(j)' /\ \A k \in Jobs \ {j} : Busy(k)' <=> Busy(k)
          BY <5>0, <5>a DEF Busy, CallbackBusy, Jobs
        <5>2. \A c \in Backends : ManualSession(c) \in lease' <=> ManualSession(c) \in lease
          BY <4>1, HoldersDiffer DEF StartLocal
        <5> QED
          BY <5>1, <5>2, <4>0, <3>1, <4>e, Zenon
      <4>2. CASE Spawn(b)
        <5>1. Busy(j)' /\ \A k \in Jobs \ {j} : Busy(k)' <=> Busy(k)
          BY <4>2, <3>1, <1>t DEF Spawn, Busy, RunnerAlive, TypeOK, Jobs
        <5>2. \A c \in Backends : ManualSession(c) \in lease' <=> ManualSession(c) \in lease
          BY <4>2, HoldersDiffer DEF Spawn
        <5> QED
          BY <5>1, <5>2, <4>0, <3>1, <4>e, Zenon
      <4> QED
        BY <2>5, <4>1, <4>2
    <3> QED
      BY <3>1, <3>3, <3>7, <3>8, ServerSteps
  <2> QED
    BY <1>1, <2>1, <2>2, <2>3, <2>4, <2>5 DEF DispatchStep
<1>2. ASSUME NEW b \in Backends, NEW j \in LocalJobs, LocalStep(b, j) PROVE Goal
  <2>1. CASE LocalSave(b, j) \/ LocalSaveFails(b, j)
    <3>1. \A k \in Jobs : Busy(k)' <=> Busy(k)
      BY <2>1, <1>t DEF LocalSave, LocalSaveFails, Busy, CallbackBusy, TypeOK, Jobs
    <3>2. InUse' = InUse /\ UNCHANGED <<clock, arrival>>
      BY <2>1, <3>1 DEF LocalSave, LocalSaveFails, InUse
    <3> QED
      BY <3>2, <1>q
  <2>2. CASE LocalRelease(b, j)
    <3>1. \A k \in Jobs : Busy(k)' => Busy(k)
      BY <2>2, <1>t DEF LocalRelease, Busy, CallbackBusy, TypeOK, Jobs
    <3>2. InUse' \subseteq InUse
      BY <2>2, <3>1 DEF LocalRelease, InUse
    <3> QED
      BY <2>2, <3>2, <1>f, <1>v DEF LocalRelease
  <2> QED
    BY <1>2, <2>1, <2>2 DEF LocalStep
<1>3. ASSUME NEW j \in DetachedJobs, RunnerStep(j) PROVE Goal
  <2>1. CASE RunnerRegister(j) \/ RunnerHeartbeat(j) \/ RunnerFinish(j)
    <3>1. \A k \in Jobs : Busy(k)' <=> Busy(k)
      BY <2>1, <1>t DEF RunnerRegister, RunnerHeartbeat, RunnerFinish, Busy, RunnerAlive, TypeOK, Jobs
    <3>2. InUse' = InUse /\ UNCHANGED <<clock, arrival>>
      BY <2>1, <3>1 DEF RunnerRegister, RunnerHeartbeat, RunnerFinish, InUse
    <3> QED
      BY <3>2, <1>q
  <2>2. CASE RunnerExit(j) \/ RunnerDies(j)
    <3>1. \A k \in Jobs : Busy(k)' => Busy(k)
      BY <2>2, <1>t DEF RunnerExit, RunnerDies, Busy, RunnerAlive, Terminal, TypeOK, Jobs
    <3>2. InUse' \subseteq InUse
      BY <2>2, <3>1 DEF RunnerExit, RunnerDies, InUse
    <3>3. ~Waits(j)
      BY <2>2, <1>t DEF RunnerExit, RunnerDies, RunnerAlive, Terminal, Started, Jobs, OrderInv,
                        StartedWaitNoMore
    <3>4. \A k \in Jobs : Waits(k)' <=> Waits(k)
      BY <2>2, <3>3, <1>m DEF RunnerExit, RunnerDies, Waits, Terminal
    <3>5. InLine' = InLine
      BY <2>2, <3>4 DEF RunnerExit, RunnerDies, InLine, InDispatch, Waits
    <3> QED
      BY <2>2, <3>2, <3>5, <1>f DEF RunnerExit, RunnerDies
  <2> QED
    BY <1>3, <2>1, <2>2 DEF RunnerStep
<1>4. ASSUME NEW b \in Backends, NEW j \in Jobs, UserStep(b, j) PROVE Goal
  <2>1. CASE Submit(b, j) \/ SubmitRefused(b, j)
    <3>1. /\ ~Registered(j) /\ clock' = clock + 1 /\ arrival' = [arrival EXCEPT ![j] = clock + 1]
          /\ UNCHANGED <<callback, runner, lease, section>>
          /\ manifest' = [manifest EXCEPT ![j].st = "QUEUED"]
      BY <2>1 DEF Submit, SubmitRefused
    <3>2. InUse' = InUse
      BY <3>1 DEF InUse, Busy
    <3>3. \A k \in Jobs : Waits(k)' <=> Waits(k) \/ k = j
      BY <3>1, <1>m, <1>n DEF Waits, Status, Pending
    <3>4. InLine' = InLine \cup {j}
      BY <3>1, <3>3 DEF InLine, InDispatch, Waits
    <3> QED
      BY <3>1, <3>2, <3>4, ServerSteps DEF Registered
  <2>2. CASE StopQueued(b, j) \/ StopRead(b, j) \/ PollRead(b, j)
    BY <2>2, <1>u DEF StopQueued, StopRead, PollRead
  <2> QED
    BY <1>4, <2>1, <2>2 DEF UserStep
<1>5. ASSUME NEW b \in Backends, NEW j \in LocalJobs, StopLocal(b, j) \/ CloseCancel(b, j) PROVE Goal
  BY <1>5, <1>u DEF StopLocal, CloseCancel
<1>6. ASSUME NEW b \in Backends, ProcessStep(b) PROVE Goal
  <2>1. CASE StopWrite(b)
    <3> PICK j : j = section[b].job
      OBVIOUS
    <3>1. CASE UNCHANGED <<runner, lease>>
      BY <2>1, <3>1, <1>u DEF StopWrite
    <3>2. CASE runner[j] = "booting" /\ runner' = [runner EXCEPT ![j] = "exited"]
               /\ lease' = lease \ {Runner(j)}
      <4>1. section[b].at = "stopping" /\ j \in DetachedJobs /\ j \in Jobs
        BY <2>1, <1>m, SectionFields DEF StopWrite
      <4>2. \A k \in Jobs : Busy(k)' => Busy(k)
        BY <2>1, <3>2, <4>1, <1>t DEF StopWrite, Busy, RunnerAlive, Terminal, TypeOK, Jobs
      <4>3. InUse' \subseteq InUse
        BY <3>2, <4>2 DEF InUse
      <4>4. ~Waits(j)
        BY <3>2, <4>1, <1>t DEF Started, OrderInv, StartedWaitNoMore
      <4>5. manifest'[j].st = "STOPPING"
        BY <2>1, <4>1, <1>m, <1>n, SectionFields DEF StopWrite, Status, Pending, Active
      <4>6. \A k \in Jobs : Waits(k)' <=> Waits(k)
        BY <2>1, <4>4, <4>5, <1>m DEF StopWrite, Waits
      <4>7. InDispatch' = InDispatch
        BY <2>1, <4>1, <1>m DEF StopWrite, InDispatch, Free
      <4> QED
        BY <2>1, <4>3, <4>6, <4>7, <1>f DEF StopWrite, InLine, Waits
    <3> QED
      BY <2>1, <3>1, <3>2 DEF StopWrite
  <2>2. CASE PollWrite(b) \/ CloseBegin(b) \/ Restart(b)
    BY <2>2, <1>u DEF PollWrite, CloseBegin, Restart
  <2>3. CASE ManualStart(b)
    <3>1. InUse = {} /\ UNCHANGED <<clock, arrival>>
      BY <2>3, <1>t, NobodyWorks DEF ManualStart, LeaseFree
    <3>2. InDispatch = {}
      BY <2>3, <1>t DEF ManualStart, LeaseFree, LeaseInv, LeaseHeldByWork, InDispatch, Dispatching
    <3>3. \A k \in Jobs : Waits(k) => k \in RefusedJobs
      BY <2>3, <1>t DEF ManualStart, OrderInv, QueuedIsIndexed, Waits, Pending
    <3>4. InLine \subseteq RefusedJobs /\ InLine' = InLine
      BY <2>3, <3>2, <3>3, <1>v DEF ManualStart, InLine, Waits
    <3>5. InUse' = {b}
      <4>1. \A k \in Jobs : Busy(k)' <=> Busy(k)
        BY <2>3 DEF ManualStart, Busy
      <4>2. \A c \in Backends : ManualSession(c) \in lease' <=> c = b
        BY <2>3, HoldersDiffer DEF ManualStart, LeaseFree
      <4> QED
        BY <3>1, <4>1, <4>2 DEF InUse
    <3> QED
      BY <3>1, <3>4, <3>5, ServerSteps
  <2>4. CASE ManualEnd(b)
    <3>1. InUse' \subseteq InUse
      BY <2>4 DEF ManualEnd, InUse, Busy
    <3> QED
      BY <2>4, <3>1, <1>f, <1>v DEF ManualEnd
  <2>5. CASE CloseExit(b) \/ Crash(b)
    <3>1. ProcessEnds(b)
      BY <2>5 DEF CloseExit, Crash
    <3>2. \A k \in Jobs : Busy(k)' => Busy(k)
      BY <3>1, <1>t DEF ProcessEnds, Busy, CallbackBusy, TypeOK, Jobs
    <3>3. InUse' \subseteq InUse /\ UNCHANGED <<clock, arrival>>
      BY <3>1, <3>2 DEF ProcessEnds, InUse
    <3>4. CASE section[b].at \in InHand
      BY <3>3, <3>4, <1>t, <1>q, HandIsAlone
    <3>5. CASE section[b].at \notin InHand
      <4>1. InDispatch' = InDispatch
        BY <3>1, <3>5, <1>m DEF ProcessEnds, InDispatch, InHand, Free
      <4> QED
        BY <3>1, <3>3, <4>1, <1>f DEF ProcessEnds, InLine
    <3> QED
      BY <3>4, <3>5
  <2> QED
    BY <1>6, <2>1, <2>2, <2>3, <2>4, <2>5 DEF ProcessStep
<1>7. CASE UNCHANGED vars \/ \E j \in Jobs : FiveSecondsPass(j)
  BY <1>7, <1>u DEF vars, FiveSecondsPass
<1> QED
  BY <1>1, <1>2, <1>3, <1>4, <1>5, <1>6, <1>7 DEF Next

(***************************************************************************)
(* The queue implements FifoServer: through crashes, restarts, stale       *)
(* writes, lost launches and stops it serves one job or manual session at  *)
(* a time, in the order of registration, and no guest before those who     *)
(* wait (work_queue.py, work_resources.py, offline_job_service.py).        *)
(***************************************************************************)
THEOREM Refinement == Spec => ServerSpec
<1>1. Init => Server!Init
  BY JobsAssumption DEF Init, Server!Init, NoManifest, InDispatch, Free, InUse, Busy, CallbackBusy,
     RunnerAlive, Terminal, Jobs
<1>2. QueueIInv /\ QueueIInv' /\ [Next]_vars => [Server!Next]_(Server!vars)
  BY RefinementStep
<1>3. Spec => Server!Spec
  BY <1>1, <1>2, QueueInvariant, PTL DEF Spec, Server!Spec
<1> QED
  BY <1>3 DEF ServerSpec
=============================================================================
