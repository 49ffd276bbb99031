-------------------------- MODULE ResultPublication --------------------------
(* How the results of evaluation jobs become the global results of the        *)
(* trajectories: the launch of reward versions and manual evaluations, their  *)
(* sealing by the detached runner, the reconciliation of a finished job by    *)
(* the dispatcher, by a lock-free HTTP poll or at start-up, and the           *)
(* publication task that copies the results next to the trajectories          *)
(* (services/dataset_reward_versions.py, trajectory_reward_snapshot.py,       *)
(* trajectory_evaluation_service.py, robometer_evaluation_service.py,         *)
(* training_dataset_service.py).                                              *)
(*                                                                            *)
(* Every dataset has the same member runs.  A result is named by the job that *)
(* computed it, so the content of an array file is a job.  A run has, for     *)
(* each source, a snapshot (a JSON pointer to content-addressed arrays) and a *)
(* native sidecar (arrays and JSON under fixed names).                        *)
EXTENDS Naturals, FiniteSets, Sequences, SequencesExt, TLC

CONSTANTS
    Runs,           \* the trajectories
    Jobs,           \* the evaluation jobs that may be registered
    JobSpecs,       \* what they may be: functions [dataset, sources, overwrite]
    NoDataset,      \* the dataset of a manual evaluation
    None,
    MaxEvents       \* bound on crashes, touched files and failures together

Snapshots == {"rynn", "final"}      \* sources with a reward snapshot
Natives   == {"rynn", "robo"}       \* sources with a sidecar of their own
Sources   == Snapshots \cup Natives

ASSUME JobSpecsAssumption ==
    \A spec \in JobSpecs : DOMAIN spec = Jobs
        /\ \A j \in Jobs : spec[j].sources \in Seq(Sources) /\ spec[j].overwrite \in BOOLEAN

(* A job is no trajectory, and a project root has finitely many of them.      *)
ASSUME NamesAssumption ==
    Jobs \cap Runs = {} /\ None \notin Jobs \cup Runs /\ IsFiniteSet(Runs)

(* A pointer that is there is told from one that is not.                      *)
ASSUME PointerAssumption == None \notin [by : Jobs, file : Jobs, fresh : BOOLEAN]

VARIABLES
    job,        \* the jobs' parameters, which never change
    up,         \* the backend runs
    created,    \* registration order of jobs and of snapshot tasks of runs
    status,     \* [Jobs -> status in job.json]
    pending,    \* jobs whose row of the SQLite index is not terminal
    work,       \* [Jobs -> pairs <<run, source>> the job evaluates]
    sealed,     \* [Jobs -> sources whose version.json is complete]
    versions,   \* [Jobs -> [Sources -> status of the version in dataset.json]]
    finished,   \* jobs in the order of completed_at
    binding,    \* [Jobs -> outcome of the publication in job.json]
    gone,       \* deleted datasets
    tasks,      \* publication tasks waiting in the queue, jobs and runs
    selected,   \* the dispatcher's choice; it holds jobs.lock while not None
    publisher,  \* the running publication task
    snapshot,   \* [Runs -> [Snapshots -> pointer or None]]
    arrays,     \* [Runs -> [Snapshots -> content of the array files]]
    native,     \* [Runs -> [Natives -> [values, meta]]]
    client,     \* an HTTP thread: a poll, a refresh or a training pin
    events,     \* crashes, touched files and failures so far
    torn,       \* the backend died between a version and its job
    stalled     \* a job started between the two halves of a poll

queue == <<job, created, status, pending, work, finished, tasks, selected, stalled>>
results == <<sealed, versions, binding, gone, torn>>
files == <<snapshot, arrays, native>>
threads == <<publisher, client>>
vars == <<up, queue, results, files, threads, events>>

DatasetOf(j) == job[j].dataset
Manual(j) == DatasetOf(j) = NoDataset
SourcesOf(j) == ToSet(job[j].sources)
Terminal(s) == s \in {"completed", "failed"}
LockFree == up /\ selected = None
RunOrder == SetToSeq(Runs)
Legacy == "legacy"
NoPub == [task |-> None, todo |-> <<>>, pick |-> None]
Idle == [kind |-> "idle"]

Init ==
    /\ job \in JobSpecs
    /\ up = TRUE
    /\ created = <<>>
    /\ status = [j \in Jobs |-> "none"]
    /\ pending = {}
    /\ work = [j \in Jobs |-> {}]
    /\ sealed = [j \in Jobs |-> {}]
    /\ versions = [j \in Jobs |-> [s \in Sources |-> "none"]]
    /\ finished = <<>>
    /\ binding = [j \in Jobs |-> "none"]
    /\ gone = {}
    /\ tasks = {}
    /\ selected = None
    /\ publisher = NoPub
    /\ snapshot = [r \in Runs |-> [s \in Snapshots |-> None]]
    /\ arrays = [r \in Runs |-> [s \in Snapshots |-> <<>>]]
    /\ \E old \in {None, Legacy} :     \* sidecars predate the snapshots
          native = [r \in Runs |-> [s \in Natives |->
                       IF s = "rynn" THEN [values |-> old, meta |-> old]
                       ELSE [values |-> None, meta |-> None]]]
    /\ client = Idle
    /\ events = 0
    /\ torn = FALSE
    /\ stalled = FALSE

------------------------------------------------------------------------------
(* What the files say *)

(* snapshot_path: the pointer of the source lies beside the trajectory. *)
HasSnapshot(r, s) == snapshot[r][s] # None

Readable(r, s) == /\ HasSnapshot(r, s)
                  /\ snapshot[r][s].fresh
                  /\ arrays[r][s][snapshot[r][s].file] = snapshot[r][s].by

(* A sidecar counts when its description fits its values. *)
Whole(pair) == pair.meta # None /\ pair.values = pair.meta
RobometerValid(r) == Whole(native[r]["robo"])
RynnValid(r) == Whole(native[r]["rynn"])
NativeValid(r, s) == (s = "rynn" /\ RynnValid(r)) \/ (s = "robo" /\ RobometerValid(r))

Before(seq, x, y) == \E i, k \in DOMAIN seq : i < k /\ seq[i] = x /\ seq[k] = y

(* get_version: what a dataset that is there says of a version. *)
HasVersion(j, s) == DatasetOf(j) \notin gone /\ versions[j][s] = "READY"

(* Packages with a published version of a source; the first by completion. *)
Candidates(s) == {j \in Jobs : HasVersion(j, s)}
FirstResult(s) == CHOOSE j \in Candidates(s) :
                     \A k \in Candidates(s) : k = j \/ Before(finished, j, k)

------------------------------------------------------------------------------
(* Registration, under jobs.lock *)

(* Selected trajectories of a manual evaluation: all, or those without a result. *)
Unevaluated(j) == {w \in Runs \X SourcesOf(j) :
                      job[j].overwrite \/ ~NativeValid(w[1], w[2])}

Enqueue(j, pairs) ==
    /\ created' = Append(created, j)
    /\ status' = [status EXCEPT ![j] = "queued"]
    /\ pending' = pending \cup {j}
    /\ work' = [work EXCEPT ![j] = pairs]

StartManual(j) ==
    /\ LockFree /\ status[j] = "none" /\ Manual(j)
    /\ Unevaluated(j) # {}
    /\ Enqueue(j, Unevaluated(j))
    /\ UNCHANGED <<job, up, finished, tasks, selected, stalled, results, files, threads, events>>

EvaluationRunning(d) ==
    \E k \in Jobs, s \in Sources : DatasetOf(k) = d /\ versions[k][s] = "RUNNING"

Launchable(j) == /\ LockFree /\ status[j] = "none" /\ ~Manual(j)
                 /\ DatasetOf(j) \notin gone
                 /\ ~EvaluationRunning(DatasetOf(j))

(* Each version is announced in dataset.json, then the job is registered. *)
StartRewardVersion(j) ==
    /\ Launchable(j)
    /\ Enqueue(j, Runs \X SourcesOf(j))
    /\ versions' = [versions EXCEPT ![j] = [s \in Sources |->
                        IF s \in SourcesOf(j) THEN "RUNNING" ELSE @[s]]]
    /\ UNCHANGED <<job, up, finished, tasks, selected, stalled, sealed, binding, gone,
                   torn, files, threads, events>>

(* The page of a trajectory shows the result of a package, or a snapshot it    *)
(* must validate again: it asks for the first snapshot to be saved.           *)
GlobalPending(r) ==
    \E s \in Snapshots :
        IF HasSnapshot(r, s) THEN ~snapshot[r][s].fresh
        ELSE ~NativeValid(r, s) /\ Candidates(s) # {}

ScheduleFirstSnapshot(r) ==
    /\ LockFree /\ GlobalPending(r)
    /\ r \notin ToSet(created)
    /\ tasks' = tasks \cup {r}
    /\ created' = Append(created, r)
    /\ UNCHANGED <<job, up, status, pending, work, finished, selected, stalled, results,
                   files, threads, events>>

------------------------------------------------------------------------------
(* The detached runner *)

SealVersion(j) ==
    /\ status[j] = "running"
    /\ Cardinality(sealed[j]) < Len(job[j].sources)
    /\ sealed' = [sealed EXCEPT ![j] = @ \cup {job[j].sources[Cardinality(@) + 1]}]
    /\ UNCHANGED <<up, queue, versions, binding, gone, torn, files, threads, events>>

EndJob(j, outcome) ==
    /\ status' = [status EXCEPT ![j] = outcome]
    /\ finished' = Append(finished, j)
    /\ UNCHANGED <<job, up, created, pending, work, tasks, selected, stalled, results,
                   files, threads>>

CompleteJob(j) ==
    /\ status[j] = "running" /\ sealed[j] = SourcesOf(j)
    /\ EndJob(j, "completed") /\ UNCHANGED events

FailJob(j) ==
    /\ status[j] = "running" \/ (status[j] = "queued" /\ LockFree)
    /\ events < MaxEvents
    /\ events' = events + 1
    /\ EndJob(j, "failed")

------------------------------------------------------------------------------
(* Reconciliation of a job with its recorded status *)

Summary(st) == CASE st = "completed" -> "READY" [] st = "failed" -> "ERROR"
                 [] OTHER -> "RUNNING"

(* update_versions: one write for all the versions of a job; READY stays. *)
Published(j, st) ==
    [s \in Sources |-> IF s \in SourcesOf(j) /\ ~Manual(j) /\ versions[j][s] # "READY"
                       THEN Summary(st) ELSE versions[j][s]]

Unbound(j, st) == st = "completed" /\ binding[j] = "none" /\ publisher.task # j

(* Every recorded status is followed: index, versions, publication task; the  *)
(* tasks in taken leave the queue.                                            *)
Reconciled(S, taken) ==
    /\ pending' = {j \in pending : ~(j \in S /\ Terminal(status[j]))}
    /\ versions' = [j \in Jobs |-> IF j \in S THEN Published(j, status[j]) ELSE versions[j]]
    /\ tasks' = (tasks \cup {j \in S : Unbound(j, status[j])}) \ taken

Overdue == {j \in pending : Terminal(status[j])}

(* _reconcile on an HTTP thread: it reads job.json, then writes the index,    *)
(* then the versions, and takes jobs.lock only to schedule the publication.   *)
PollRead(j) ==
    /\ up /\ client = Idle
    /\ status[j] \notin {"none", "lost"} /\ DatasetOf(j) \notin gone
    /\ client' = [kind |-> "poll", job |-> j, seen |-> status[j], step |-> "index"]
    /\ UNCHANGED <<up, queue, results, files, publisher, events>>

PollIndex ==
    /\ up /\ client.kind = "poll" /\ client.step = "index"
    /\ pending' = IF Terminal(client.seen) THEN pending \ {client.job}
                  ELSE pending \cup {client.job}
    /\ client' = [client EXCEPT !.step = "versions"]
    /\ UNCHANGED <<job, up, created, status, work, finished, tasks, selected, stalled,
                   results, files, publisher, events>>

PollVersions ==
    /\ up /\ client.kind = "poll" /\ client.step = "versions"
    /\ IF DatasetOf(client.job) \in gone
       THEN client' = Idle /\ UNCHANGED versions
       ELSE /\ versions' = [versions EXCEPT ![client.job] = Published(client.job, client.seen)]
            /\ client' = [client EXCEPT !.step = "schedule"]
    /\ UNCHANGED <<up, queue, sealed, binding, gone, torn, files, publisher, events>>

PollSchedule ==
    /\ LockFree /\ client.kind = "poll" /\ client.step = "schedule"
    /\ tasks' = IF Unbound(client.job, client.seen) THEN tasks \cup {client.job} ELSE tasks
    /\ client' = Idle
    /\ UNCHANGED <<job, up, created, status, pending, work, finished, selected, stalled,
                   results, files, publisher, events>>

------------------------------------------------------------------------------
(* The dispatcher: reconcile, choose the oldest entry, take the lease, start  *)

Waiting == {j \in pending : status[j] = "queued"}
Position(x) == CHOOSE i \in DOMAIN created : created[i] = x
Oldest(S) == CHOOSE x \in S : \A y \in S : Position(x) <= Position(y)

(* A publication has the created_at of its job: it precedes later jobs. *)
Select ==
    /\ LockFree
    /\ Reconciled(Overdue, {})
    /\ LET entries == (Waiting \ Overdue) \cup tasks' IN
       /\ entries # {}
       /\ selected' = Oldest(entries)
    /\ UNCHANGED <<job, up, created, status, work, finished, stalled, sealed, binding, gone,
                   torn, files, threads, events>>

(* The rest of a poll that has already taken a finished job off the index. *)
HalfPolled == /\ client.kind = "poll" /\ client.step # "index"
              /\ client.job \notin tasks /\ Unbound(client.job, client.seen)

LeaseFree == publisher = NoPub /\ \A j \in Jobs : status[j] # "running"

(* What a publication writes, in order: for each replacement the snapshots of *)
(* all runs, then their sidecars; otherwise, run by run, what is missing.     *)
FirstPlan(r) == <<<<"first", r, "rynn">>, <<"first", r, "final">>>>
Each(kind, s) == [i \in DOMAIN RunOrder |-> <<kind, RunOrder[i], s>>]
Replacements(s) == (IF s \in Snapshots THEN Each("snapshot", s) ELSE <<>>)
                   \o (IF s \in Natives THEN Each("native", s) ELSE <<>>)
Additions(s) == FlattenSeq([i \in DOMAIN RunOrder |->
                    (IF s \in Snapshots THEN FirstPlan(RunOrder[i]) ELSE <<>>)
                    \o (IF s \in Natives THEN <<<<"native", RunOrder[i], s>>>> ELSE <<>>)])

\* A replaced result is one the job evaluated; the first one is preserved anyway.
Assigned(task, steps) ==
    FlattenSeq([i \in DOMAIN steps |->
        IF steps[i][1] = "first" \/ <<steps[i][2], steps[i][3]>> \in work[task]
        THEN <<steps[i]>> ELSE <<>>])

MayReplace(task) == task \in Jobs /\ (Manual(task) \/ job[task].overwrite)

StepsOf(task, s) == IF MayReplace(task) THEN Replacements(s) ELSE Additions(s)

Plan(task) ==
    IF task \in Runs THEN FirstPlan(task)
    ELSE Assigned(task, FlattenSeq([i \in DOMAIN job[task].sources |->
                                       StepsOf(task, job[task].sources[i])]))

(* A busy machine makes the dispatcher give up its choice; otherwise the      *)
(* entry starts.  _prepare_launch reconciles once more, after the choice.     *)
GiveUp ==
    /\ up /\ selected # None /\ ~LeaseFree
    /\ selected' = None
    /\ UNCHANGED <<job, up, created, status, pending, work, finished, tasks, stalled,
                   results, files, threads, events>>

Dispatch ==
    /\ up /\ selected # None /\ LeaseFree
    /\ selected' = None
    /\ Reconciled(Overdue, {selected})
    /\ IF selected \in tasks
       THEN /\ publisher' = [task |-> selected, todo |-> Plan(selected), pick |-> None]
            /\ UNCHANGED <<status, stalled>>
       ELSE /\ status' = [status EXCEPT ![selected] = "running"]
            /\ stalled' = (stalled \/ HalfPolled)
            /\ UNCHANGED publisher
    /\ UNCHANGED <<job, up, created, work, finished, sealed, binding, gone, torn, files,
                   client, events>>

------------------------------------------------------------------------------
(* The publication task, outside jobs.lock *)

Step == Head(publisher.todo)
Overwrites == publisher.task \in Jobs /\ job[publisher.task].overwrite

\* mutant: sidecars are not looked at
TakenBySnapshot(r, s) == s \in Snapshots /\ Readable(r, s)

(* A valid sidecar counts as an earlier result of the same trajectory. *)
Taken(r, s) == (s \in Snapshots /\ Readable(r, s)) \/ NativeValid(r, s)

SkipStep(kind, r, s) ==
    CASE kind = "first"    -> HasSnapshot(r, s) \/ Taken(r, s) \/ Candidates(s) = {}
      [] kind = "snapshot" -> ~Overwrites /\ Taken(r, s)
      [] kind = "native"   -> ~Overwrites /\ NativeValid(r, s)

ResultFor(kind, s) ==
    IF \/ kind = "first"
       \/ kind = "native" /\ ~Overwrites /\ ~Manual(publisher.task) /\ Candidates(s) # {}
    THEN FirstResult(s) ELSE publisher.task

(* The arrays are content-addressed: a file is named by what it holds. *)
Destination(j) == j

Publishing == up /\ publisher # NoPub /\ publisher.todo # <<>>

(* Preserving the first result is all that is left to do for it: a snapshot   *)
(* whose observations were touched is validated again.                        *)
PublishSkip ==
    LET kind == Step[1]  r == Step[2]  s == Step[3] IN
    /\ Publishing /\ publisher.pick = None
    /\ SkipStep(kind, r, s)
    /\ snapshot' = IF kind = "first" /\ HasSnapshot(r, s)
                   THEN [snapshot EXCEPT ![r][s].fresh = TRUE] ELSE snapshot
    /\ publisher' = [publisher EXCEPT !.todo = Tail(@)]
    /\ UNCHANGED <<up, queue, results, arrays, native, client, events>>

Pick(kinds) ==
    LET j == ResultFor(Step[1], Step[3]) IN
    /\ Publishing /\ publisher.pick = None /\ Step[1] \in kinds
    /\ ~SkipStep(Step[1], Step[2], Step[3])
    /\ publisher' = [publisher EXCEPT !.pick = j]

Point(kinds) ==
    /\ Publishing /\ publisher.pick # None /\ Step[1] \in kinds
    /\ publisher' = [publisher EXCEPT !.todo = Tail(@), !.pick = None]

(* A snapshot: the arrays under their own name, then the pointer. *)
PublishArrays ==
    /\ Pick({"first", "snapshot"})
    /\ LET j == publisher'.pick IN
       arrays' = [arrays EXCEPT ![Step[2]][Step[3]] =
                     [f \in DOMAIN @ \cup {Destination(j)} |-> IF f = Destination(j) THEN j ELSE @[f]]]
    /\ UNCHANGED <<up, queue, results, snapshot, native, client, events>>

PublishPointer ==
    /\ Point({"first", "snapshot"})
    /\ snapshot' = [snapshot EXCEPT ![Step[2]][Step[3]] =
                       [by |-> publisher.pick, file |-> Destination(publisher.pick), fresh |-> TRUE]]
    /\ UNCHANGED <<up, queue, results, arrays, native, client, events>>

(* A native sidecar: the values replace the old ones, then the description. *)
PublishValues ==
    /\ Pick({"native"})
    /\ native' = [native EXCEPT ![Step[2]][Step[3]].values = publisher'.pick]
    /\ UNCHANGED <<up, queue, results, arrays, snapshot, client, events>>

\* The description names the values it goes with by their digest.
Describe(r, s) == native' = [native EXCEPT ![r][s].meta = publisher.pick]

PublishMeta ==
    /\ Point({"native"})
    /\ Describe(Step[2], Step[3])
    /\ UNCHANGED <<up, queue, results, arrays, snapshot, client, events>>

(* The outcome is recorded under the lock, then the lease is returned. *)
Bind(outcome) ==
    /\ LockFree /\ publisher # NoPub
    /\ binding' = IF publisher.task \in Jobs
                  THEN [binding EXCEPT ![publisher.task] = outcome] ELSE binding
    /\ publisher' = NoPub
    /\ UNCHANGED <<up, queue, sealed, versions, gone, torn, files, client>>

PublishEnd == publisher.todo = <<>> /\ Bind("READY") /\ UNCHANGED events

(* A source that changed or disappeared ends the publication where it is. *)
PublishFail ==
    /\ publisher.todo # <<>> /\ events < MaxEvents
    /\ Bind("ERROR")
    /\ events' = events + 1

------------------------------------------------------------------------------
(* Readers *)

(* A configuration page validates a touched snapshot again: it hashes the     *)
(* files, and writes under the module's lock unless the pointer has changed.  *)
RefreshRead(r, s) ==
    /\ up /\ client = Idle
    /\ HasSnapshot(r, s) /\ ~snapshot[r][s].fresh
    /\ client' = [kind |-> "refresh", run |-> r, source |-> s, original |-> snapshot[r][s]]
    /\ UNCHANGED <<up, queue, results, files, publisher, events>>

\* mutant
NotCompared(c) == TRUE

Unchanged(c) == snapshot[c.run][c.source] = c.original

RefreshWrite ==
    /\ up /\ client.kind = "refresh"
    /\ ~(publisher.pick # None /\ Step[1] # "native")
    /\ snapshot' = IF Unchanged(client)
                   THEN [snapshot EXCEPT ![client.run][client.source] =
                            [client.original EXCEPT !.fresh = TRUE]]
                   ELSE snapshot
    /\ client' = Idle
    /\ UNCHANGED <<up, queue, results, arrays, native, publisher, events>>

(* _first_saved_result: nothing lies beside the trajectory, but some dataset  *)
(* has a version that was not published there yet.                            *)
OnlyInPackage(r) ==
    ~HasSnapshot(r, "rynn") /\ native[r]["rynn"].meta = None /\ Candidates("rynn") # {}

(* Training pins a global result: its record first, then a copy of its arrays. *)
PinRecord(r) ==
    LET s == "rynn" IN
    /\ up /\ client = Idle
    /\ \/ Readable(r, s) /\ client' = [kind |-> "pin", run |-> r, file |-> snapshot[r][s].file,
                                       meta |-> snapshot[r][s].by]
       \/ /\ ~HasSnapshot(r, s) /\ RynnValid(r)
          /\ client' = [kind |-> "pin", run |-> r, file |-> None, meta |-> native[r][s].meta]
       \/ /\ OnlyInPackage(r)
          /\ client' = [kind |-> "package", run |-> r, meta |-> FirstResult(s)]
    /\ UNCHANGED <<up, queue, results, files, publisher, events>>

Accepts(meta, content) == content = meta

PinCopy ==
    LET content == IF client.file = None THEN native[client.run]["rynn"].values
                   ELSE arrays[client.run]["rynn"][client.file] IN
    /\ up /\ client.kind = "pin"
    /\ client' = IF Accepts(client.meta, content)
                 THEN [kind |-> "pinned", meta |-> client.meta, content |-> content]
                 ELSE Idle
    /\ UNCHANGED <<up, queue, results, files, publisher, events>>

(* The arrays of a version never change, but go with their dataset.           *)
PinPackage ==
    /\ up /\ client.kind = "package"
    /\ client' = IF DatasetOf(client.meta) \in gone THEN Idle
                 ELSE [kind |-> "pinned", meta |-> client.meta, content |-> client.meta]
    /\ UNCHANGED <<up, queue, results, files, publisher, events>>

PinDone ==
    /\ client.kind = "pinned"
    /\ client' = Idle
    /\ UNCHANGED <<job, up, queue, results, files, publisher, events>>

------------------------------------------------------------------------------
(* Deletion of a dataset, and the environment *)

(* A job whose results are being published still counts as running. *)
Busy(j) == \/ status[j] \in {"queued", "running"}
           \/ j \in tasks \/ publisher.task = j \/ Unbound(j, status[j])

\* mutant
OnlyActive == {j \in Jobs : status[j] \in {"queued", "running"} /\ DatasetOf(j) \notin gone}

(* The list of the jobs is made first, which reconciles every one of them. *)
Recorded == {j \in Jobs : status[j] \notin {"none", "lost"} /\ DatasetOf(j) \notin gone}

DeleteDataset(d) ==
    /\ LockFree /\ d \notin gone
    /\ Reconciled(Recorded, {})
    /\ \A j \in Jobs : DatasetOf(j) = d => ~Busy(j)
    /\ gone' = gone \cup {d}
    /\ UNCHANGED <<job, up, created, status, work, finished, selected, stalled, sealed,
                   binding, torn, files, threads, events>>

(* The observations of a run are touched: its fingerprints are out of date. *)
Touch(r) ==
    /\ events < MaxEvents
    /\ events' = events + 1
    /\ snapshot' = [snapshot EXCEPT ![r] = [s \in Snapshots |->
                        IF @[s] = None THEN None ELSE [@[s] EXCEPT !.fresh = FALSE]]]
    /\ UNCHANGED <<up, queue, results, arrays, native, threads>>

Died == /\ up' = FALSE
        /\ tasks' = {} /\ selected' = None
        /\ publisher' = NoPub /\ client' = Idle
        /\ events' = events + 1

Crash ==
    /\ up /\ events < MaxEvents /\ Died
    /\ UNCHANGED <<job, created, status, pending, work, finished, stalled, results, files>>

(* The backend dies after announcing some versions and before the job exists. *)
CrashInLaunch(j) ==
    /\ Launchable(j) /\ events < MaxEvents /\ Died
    /\ \E n \in 1..Len(job[j].sources) :
          versions' = [versions EXCEPT ![j] = [s \in Sources |->
                IF \E i \in 1..n : job[j].sources[i] = s THEN "RUNNING" ELSE @[s]]]
    /\ status' = [status EXCEPT ![j] = "lost"]
    /\ torn' = TRUE
    /\ UNCHANGED <<job, created, pending, work, finished, stalled, sealed, binding, gone,
                   files>>

(* Start-up reconciles every job with a manifest. *)
Restart ==
    /\ ~up /\ up' = TRUE
    /\ Reconciled(Recorded, {})
    /\ UNCHANGED <<job, created, status, work, finished, selected, stalled, sealed, binding,
                   gone, torn, files, threads, events>>

------------------------------------------------------------------------------
Runner(j) == SealVersion(j) \/ CompleteJob(j)
Publisher == PublishSkip \/ PublishArrays \/ PublishPointer \/ PublishValues \/ PublishMeta
             \/ PublishEnd
Client == PollIndex \/ PollVersions \/ PollSchedule \/ RefreshWrite \/ PinCopy \/ PinPackage
          \/ PinDone

Next ==
    \/ \E j \in Jobs : \/ StartManual(j) \/ StartRewardVersion(j) \/ Runner(j)
                       \/ FailJob(j) \/ PollRead(j) \/ CrashInLaunch(j)
    \/ \E r \in Runs : \/ ScheduleFirstSnapshot(r) \/ PinRecord(r) \/ Touch(r)
                       \/ \E s \in Snapshots : RefreshRead(r, s)
    \/ \E d \in {DatasetOf(j) : j \in Jobs} \ {NoDataset} : DeleteDataset(d)
    \/ Select \/ GiveUp \/ Dispatch \/ Publisher \/ PublishFail \/ Client
    \/ Crash \/ Restart

Spec == Init /\ [][Next]_vars

------------------------------------------------------------------------------
(* Properties *)

Versions == {"none", "RUNNING", "READY", "ERROR"}

TypeOK ==
    /\ up \in BOOLEAN /\ torn \in BOOLEAN /\ stalled \in BOOLEAN
    /\ ToSet(created) \subseteq Jobs \cup Runs
    /\ status \in [Jobs -> {"none", "queued", "running", "completed", "failed", "lost"}]
    /\ pending \subseteq Jobs
    /\ work \in [Jobs -> SUBSET (Runs \X Sources)]
    /\ sealed \in [Jobs -> SUBSET Sources]
    /\ versions \in [Jobs -> [Sources -> Versions]]
    /\ ToSet(finished) \subseteq Jobs
    /\ binding \in [Jobs -> {"none", "READY", "ERROR"}]
    /\ tasks \subseteq Jobs \cup Runs
    /\ selected \in Jobs \cup Runs \cup {None}
    /\ client.kind \in {"idle", "poll", "refresh", "pin", "package", "pinned"}

(* A published snapshot is never without the arrays it points to, also while  *)
(* another result replaces it: "content-addressed arrays plus an atomic JSON  *)
(* pointer keep readers and a previous successful snapshot safe".             *)
SnapshotSafe ==
    \A r \in Runs, s \in Snapshots : snapshot[r][s] # None =>
        LET p == snapshot[r][s] IN
        p.file \in DOMAIN arrays[r][s] /\ arrays[r][s][p.file] = p.by

(* What training pins is the arrays of the result whose recipe it records.    *)
PinHonest == client.kind = "pinned" => client.content = client.meta

(* The three results of a composite evaluation become selectable together:    *)
(* no reader of dataset.json sees one of them ready and another one not, and  *)
(* none is ready before the job has completed with all of them sealed.        *)
CompositeTogether ==
    \A j \in Jobs : (\E s \in Sources : versions[j][s] = "READY") =>
        /\ \A s \in SourcesOf(j) : versions[j][s] = "READY"
        /\ status[j] = "completed" /\ sealed[j] = SourcesOf(j)

(* Nothing publishes the results of a dataset that has been deleted. *)
PublicationHasDataset ==
    publisher.task \in Jobs => DatasetOf(publisher.task) \notin gone

Settled == /\ publisher = NoPub
           /\ \A j \in Jobs : status[j] = "completed" => binding[j] = "READY"

(* When every completed evaluation has been published without an error, the   *)
(* snapshot and the sidecar of a trajectory hold the same RynnValue result,   *)
(* whatever the order of jobs, page visits, touched files and restarts.       *)
(* Exempt is a poll that stood still while a later job started (stalled).     *)
GlobalResultsAgree ==
    Settled /\ ~stalled => \A r \in Runs :
        LET p == snapshot[r]["rynn"] IN
        p # None => native[r]["rynn"].meta = p.by /\ NativeValid(r, "rynn")

ResultsHonest == SnapshotSafe /\ PinHonest /\ CompositeTogether /\ PublicationHasDataset

(* "Automatic dataset evaluations fill this snapshot once.  Only an explicit  *)
(* manual evaluation may replace it": the result behind a published snapshot  *)
(* changes only by the publication of a manual or an overwriting evaluation.  *)
FirstResultKept ==
    \A r \in Runs, s \in Snapshots :
        snapshot[r][s] # None /\ snapshot'[r][s].by # snapshot[r][s].by
           => MayReplace(publisher.task)

(* The publication of a completed evaluation is never forgotten: its job is   *)
(* still to be reconciled by the dispatcher, or the task is queued or running,*)
(* or a poll has the job in hand, or the backend is down, whose start         *)
(* reconciles every job.  An announced version has a job behind it, unless    *)
(* the backend died before it had registered the job (torn).                  *)
PublicationRemembered ==
    /\ \A j \in Jobs :
          status[j] = "completed" /\ binding[j] = "none" /\ DatasetOf(j) \notin gone =>
              \/ ~up \/ j \in pending \cup tasks \/ selected = j \/ publisher.task = j
              \/ client.kind = "poll" /\ client.job = j
    /\ \A j \in Jobs, s \in Sources :
          versions[j][s] = "RUNNING" => torn \/ status[j] \notin {"none", "lost"}

==============================================================================
