--------------------------- MODULE LibraryProofs ---------------------------
(***************************************************************************)
(* Proofs about what jobs leave behind.                                    *)
(*                                                                         *)
(* Published results: a snapshot is never without its arrays and changes   *)
(* hands only by an evaluation that may replace it, the results of a job   *)
(* become selectable together, the publication of a completed evaluation   *)
(* is never forgotten, and when all of them have been published the        *)
(* snapshot and the sidecar of a trajectory agree, for any jobs,           *)
(* trajectories, polls, page visits and crashes.                           *)
(*                                                                         *)
(* The registry of models: whoever infers does it with the weights that    *)
(* were selected, live jobs keep what they were registered with and the    *)
(* link to the latest model stays usable, for any number of jobs, copies,  *)
(* deletions and crashes of the backend.                                   *)
(***************************************************************************)
EXTENDS MCLibrary, FiniteSetTheorems, SequenceTheorems, WellFoundedInduction, TLAPS

(* A set of numbers has a least one.                                       *)
LEMMA LeastOf ==
  ASSUME NEW T \in SUBSET Nat, T # {}
  PROVE  \E n \in T : \A m \in T : n <= m
<1> DEFINE F == {1..n : n \in T}
<1>1. F \subseteq FiniteSubsetsOf(Nat)
  <2>1. \A n \in T : IsFiniteSet(1..n)
    BY FS_Interval
  <2>2. \A n \in T : 1..n \in SUBSET Nat
    OBVIOUS
  <2> QED
    BY <2>1, <2>2 DEF FiniteSubsetsOf
<1>2. \E x \in F : \A y \in F : ~(<<y, x>> \in StrictSubsetOrdering(Nat))
  <2>1. F # {}
    OBVIOUS
  <2> QED
    BY <2>1, <1>1, WFMin, FS_StrictSubsetOrderingWellFounded
<1>3. PICK n \in T : \A m \in T : ~(<<1..m, 1..n>> \in StrictSubsetOrdering(Nat))
  BY <1>2
<1>4. ASSUME NEW m \in T, m < n PROVE <<1..m, 1..n>> \in StrictSubsetOrdering(Nat)
  <2>1. 1..m \in SUBSET Nat /\ 1..n \in SUBSET Nat
    OBVIOUS
  <2>2. 1..m \subseteq 1..n /\ n \in 1..n /\ n \notin 1..m
    BY <1>4
  <2> QED
    BY <2>1, <2>2 DEF StrictSubsetOrdering
<1>5. ASSUME NEW m \in T PROVE n <= m
  <2>1. ~(m < n)
    BY <1>3, <1>4
  <2> QED
    BY <2>1
<1> QED
  BY <1>5

(* What holds of 0, and of the next number whenever it holds of one, holds *)
(* of n.                                                                   *)
LEMMA Climb ==
  ASSUME NEW n \in Nat, NEW S, 0 \in S, \A m \in 0..n-1 : m \in S => m + 1 \in S
  PROVE  \A m \in 0..n : m \in S
<1> DEFINE T == {m \in 0..n : m \notin S}
<1>1. SUFFICES ASSUME T # {} PROVE FALSE
  OBVIOUS
<1>2. PICK k \in T : \A m \in T : k <= m
  <2>1. T \in SUBSET Nat
    OBVIOUS
  <2> HIDE DEF T
  <2> QED
    BY <2>1, <1>1, LeastOf
<1>3. k # 0 /\ k - 1 \in 0..n-1
  BY <1>2
<1>4. k - 1 \in S
  BY <1>2, <1>3
<1> QED
  BY <1>2, <1>3, <1>4

-----------------------------------------------------------------------------
(***************************************************************************)
(* Part one: the publication of results.                                   *)
(***************************************************************************)
Statuses == {"none", "queued", "running", "completed", "failed", "lost"}
Pointers == [by : Jobs, file : Jobs, fresh : BOOLEAN]

(* Arrays are content-addressed: a file is named by the job it holds.      *)
Stores == {[f \in D |-> f] : D \in SUBSET Jobs}

(* What a publication may have to do: some replace a snapshot and others   *)
(* preserve the first, and only jobs have results of their own.            *)
StepsFor(task) ==
  {IF MayReplace(task) THEN "snapshot" ELSE "first"} \X Runs \X Snapshots
  \cup (IF task \in Jobs THEN {"native"} ELSE {}) \X Runs \X Natives

Polls == [kind : {"poll"}, job : Jobs, seen : Statuses \ {"none", "lost"},
          step : {"index", "versions", "schedule"}]
Refreshes == [kind : {"refresh"}, run : Runs, source : Snapshots, original : Pointers \ {None}]

FlagsOK == up \in BOOLEAN /\ torn \in BOOLEAN /\ stalled \in BOOLEAN

JobsShape ==
  /\ job \in JobSpecs /\ status \in [Jobs -> Statuses]
  /\ created \in Seq(Jobs \cup Runs) /\ finished \in Seq(Jobs)
  /\ pending \in SUBSET Jobs /\ work \in [Jobs -> SUBSET (Runs \X Sources)]
  /\ tasks \in SUBSET (Jobs \cup Runs) /\ selected \in Jobs \cup Runs \cup {None}
  /\ NoDataset \notin gone

ResultsShape ==
  /\ sealed \in [Jobs -> SUBSET Sources] /\ versions \in [Jobs -> [Sources -> Versions]]
  /\ binding \in [Jobs -> {"none", "READY", "ERROR"}]

FilesShape ==
  /\ snapshot \in [Runs -> [Snapshots -> Pointers \cup {None}]]
  /\ arrays \in [Runs -> [Snapshots -> Stores]]

(* The publication under way, and the step it has begun.                   *)
Publication ==
  [task : Jobs \cup Runs, todo : Seq(StepsFor(publisher.task)), pick : Jobs \cup {None}]
PublisherInv ==
  /\ publisher = NoPub \/ publisher \in Publication
  /\ publisher.pick # None =>
       /\ publisher.todo # <<>>
       /\ Step[1] # "native" => publisher.pick \in DOMAIN arrays[Step[2]][Step[3]]
       /\ Step[1] = "first" => ~HasSnapshot(Step[2], Step[3])

(* What a poll, a validation and a pin have in hand.                       *)
ClientInv ==
  /\ client.kind \in {"idle", "poll", "refresh", "pin", "package", "pinned"}
  /\ client.kind = "poll" =>
       /\ client \in Polls
       /\ status[client.job] \notin {"none", "lost"}
       /\ Terminal(client.seen) => status[client.job] = client.seen
  /\ client.kind = "refresh" => client \in Refreshes
  /\ PinHonest

(* How far a job has come.                                                 *)
JobsInv ==
  /\ \A j \in Jobs : Terminal(status[j]) => j \in ToSet(finished)
  /\ \A j \in Jobs : status[j] = "completed" => sealed[j] = SourcesOf(j)
  /\ \A j \in Jobs : status[j] = "lost" => torn
  /\ \A j \in Jobs : binding[j] # "none" => status[j] = "completed"
  /\ \A j \in Jobs : status[j] \in {"queued", "running"} => j \in pending
  /\ \A j \in Jobs : status[j] \notin {"none", "lost"} => j \in ToSet(created)

(* What waits has been registered, and what is selected can be started.    *)
TasksInv ==
  /\ tasks \subseteq ToSet(created)
  /\ \A j \in Jobs \cap (tasks \cup {publisher.task}) : status[j] = "completed"
  /\ selected # None =>
       (selected \in tasks \/ (selected \in Jobs /\ status[selected] = "queued"))

(* Nothing is left to be done for a deleted dataset.                       *)
GoneInv ==
  \A j \in Jobs : DatasetOf(j) \in gone =>
    /\ j \notin tasks /\ publisher.task # j
    /\ status[j] \notin {"queued", "running"}
    /\ ~(status[j] = "completed" /\ binding[j] = "none")

(* A completed evaluation is on its way to its publication.                *)
OnItsWay(j) ==
  \/ ~up \/ j \in pending \cup tasks \/ publisher.task = j
  \/ /\ client.kind = "poll" /\ client.job = j
     /\ client.step = "index" \/ client.seen = "completed"
RememberedInv ==
  /\ \A j \in Jobs :
       status[j] = "completed" /\ binding[j] = "none" /\ DatasetOf(j) \notin gone => OnItsWay(j)
  /\ \A j \in Jobs, s \in Sources :
       versions[j][s] = "RUNNING" => torn \/ status[j] \notin {"none", "lost"}

PublicationIInv ==
  /\ FlagsOK /\ JobsShape /\ ResultsShape /\ FilesShape /\ PublisherInv /\ ClientInv
  /\ JobsInv /\ TasksInv /\ GoneInv /\ RememberedInv /\ SnapshotSafe /\ CompositeTogether

(* Sequences are flattened by appending them one by one: the recursion has *)
(* a solution, by induction on how many.                                   *)
LEMMA FlattenSteps ==
  ASSUME NEW S, NEW seqs \in Seq(Seq(S)), seqs # <<>>
  PROVE  \E f \in [1..Len(seqs) -> Seq(S)] :
            /\ f[1] = seqs[1] /\ \A i \in 2..Len(seqs) : f[i] = f[i-1] \o seqs[i]
            /\ FlattenSeq(seqs) = f[Len(seqs)]
<1> DEFINE n == Len(seqs)
           body(f, i) == IF i = 1 THEN seqs[i] ELSE f[i-1] \o seqs[i]
           flatten[i \in 1..n] == IF i = 1 THEN seqs[i] ELSE flatten[i-1] \o seqs[i]
<1>0. n \in Nat /\ \A i \in 1..n : seqs[i] \in Seq(S)
  OBVIOUS
<1>2. n # 0
  OBVIOUS
<1> QED
  <2> DEFINE T == {m \in 0..n : \E f \in [1..m -> Seq(S)] : \A i \in 1..m : f[i] = body(f, i)}
  <2>1. 0 \in T
    <3> DEFINE f == [i \in 1..0 |-> <<>>]
    <3>1. f \in [1..0 -> Seq(S)] /\ \A i \in 1..0 : f[i] = body(f, i)
      OBVIOUS
    <3>2. 0 \in 0..n
      BY <1>0
    <3> HIDE DEF f, body
    <3> QED
      BY <3>1, <3>2
  <2>2. ASSUME NEW m \in 0..n-1, m \in T PROVE m + 1 \in T
    <3>1. PICK f \in [1..m -> Seq(S)] : \A i \in 1..m : f[i] = body(f, i)
      BY <2>2
    <3> DEFINE g == [i \in 1..m+1 |-> IF i <= m THEN f[i] ELSE body(f, i)]
    <3>2. ASSUME NEW i \in 1..m+1 PROVE g[i] = body(g, i) /\ g[i] \in Seq(S)
      <4>0. g[i] = body(f, i)
        <5>1. i <= m => i \in 1..m
          BY <1>0
        <5> HIDE DEF body
        <5> QED
          BY <3>1, <5>1
      <4>1. CASE i = 1
        <5>1. g[i] = seqs[i]
          <6> HIDE DEF g
          <6> QED
            BY <4>0, <4>1
        <5>2. i \in 1..n
          BY <1>0
        <5> QED
          BY <1>0, <4>1, <5>1, <5>2
      <4>2. CASE i # 1
        <5>1. i - 1 \in 1..m /\ g[i-1] = f[i-1] /\ f[i-1] \in Seq(S) /\ seqs[i] \in Seq(S)
          BY <1>0, <3>1, <4>2
        <5>3. g[i] = f[i-1] \o seqs[i] /\ g[i] = g[i-1] \o seqs[i]
          <6> HIDE DEF g
          <6> QED
            BY <4>0, <4>2, <5>1
        <5>4. f[i-1] \o seqs[i] \in Seq(S)
          BY <5>1, ConcatProperties
        <5> HIDE DEF g
        <5> QED
          BY <4>2, <5>3, <5>4
      <4> QED
        BY <4>1, <4>2
    <3>3. g \in [1..m+1 -> Seq(S)]
      BY <3>2
    <3>4. m + 1 \in 0..n
      BY <1>0
    <3> HIDE DEF g, body
    <3> QED
      BY <3>2, <3>3, <3>4
  <2>3. n \in T
    <3>1. \A m \in 0..n-1 : m \in T => m + 1 \in T
      BY <2>2
    <3> HIDE DEF T
    <3>2. \A m \in 0..n : m \in T
      BY <1>0, <2>1, <3>1, Climb
    <3> QED
      BY <1>0, <3>2
  <2>4. PICK f \in [1..n -> Seq(S)] : \A i \in 1..n : f[i] = body(f, i)
    BY <2>3
  <2>5. f = [i \in 1..n |-> IF i = 1 THEN seqs[i] ELSE f[i-1] \o seqs[i]]
    <3>1. f = [i \in 1..n |-> f[i]]
      OBVIOUS
    <3>2. \A i \in 1..n : f[i] = IF i = 1 THEN seqs[i] ELSE f[i-1] \o seqs[i]
      BY <2>4
    <3> QED
      BY <3>1, <3>2
  <2>6. flatten = [i \in 1..n |-> IF i = 1 THEN seqs[i] ELSE flatten[i-1] \o seqs[i]]
    BY <2>5
  <2>7. \A i \in 1..n : flatten[i] = IF i = 1 THEN seqs[i] ELSE flatten[i-1] \o seqs[i]
    <3> HIDE DEF flatten
    <3> QED
      BY <2>6
  <2> DEFINE U == {m \in 0..n : \A i \in 1..m : flatten[i] \in Seq(S)}
  <2>8. n \in U
    <3> HIDE DEF flatten
    <3>1. 0 \in U
      BY <1>0
    <3>2. ASSUME NEW m \in 0..n-1, m \in U PROVE m + 1 \in U
      <4>1. m + 1 \in 1..n /\ m + 1 \in 0..n /\ seqs[m+1] \in Seq(S)
        BY <1>0
      <4>2. CASE m = 0
        BY <2>7, <4>1, <4>2
      <4>3. CASE m # 0
        <5>1. flatten[m] \in Seq(S)
          BY <3>2, <4>3
        <5>0. m + 1 # 1 /\ (m + 1) - 1 = m
          BY <1>0, <4>3
        <5>3. flatten[m+1] = flatten[m] \o seqs[m+1]
          BY <2>7, <4>1, <5>0
        <5>2. flatten[m+1] \in Seq(S)
          BY <4>1, <5>1, <5>3, ConcatProperties
        <5> QED
          BY <3>2, <4>1, <5>2
      <4> QED
        BY <4>2, <4>3
    <3>3. \A m \in 0..n-1 : m \in U => m + 1 \in U
      BY <3>2
    <3> HIDE DEF U
    <3>4. \A m \in 0..n : m \in U
      BY <1>0, <3>1, <3>3, Climb
    <3> QED
      BY <1>0, <3>4
  <2>9. n \in 1..n
    BY <1>0, <1>2
  <2>10. /\ flatten \in [1..n -> Seq(S)] /\ flatten[1] = seqs[1]
         /\ \A i \in 2..n : flatten[i] = flatten[i-1] \o seqs[i]
    <3>1. flatten = [i \in 1..n |-> flatten[i]] /\ \A i \in 1..n : flatten[i] \in Seq(S)
      <4> HIDE DEF flatten
      <4> QED
        BY <2>6, <2>8
    <3>2. 1 \in 1..n /\ \A i \in 2..n : i \in 1..n /\ i # 1
      BY <1>0, <1>2
    <3> HIDE DEF flatten
    <3> QED
      BY <2>7, <3>1, <3>2
  <2>11. FlattenSeq(seqs) = flatten[n]
    BY <1>2, Zenon DEF FlattenSeq
  <2> HIDE DEF flatten
  <2> QED
    BY <2>10, <2>11

(* What holds of the empty sequence, and of p followed by q when it holds  *)
(* of both, holds of sequences that are flattened.                         *)
LEMMA FlattenClosed ==
  ASSUME NEW S, NEW G \in SUBSET Seq(S), <<>> \in G, \A p, q \in G : p \o q \in G,
         NEW seqs \in Seq(G)
  PROVE  FlattenSeq(seqs) \in G
<1>0. seqs \in Seq(Seq(S)) /\ Len(seqs) \in Nat /\ \A i \in 1..Len(seqs) : seqs[i] \in G
  OBVIOUS
<1>1. CASE seqs = <<>>
  <2>1. FlattenSeq(<<>>) = <<>>
    BY DEF FlattenSeq
  <2> QED
    BY <1>1, <2>1
<1>2. CASE seqs # <<>>
  <2>1. PICK f \in [1..Len(seqs) -> Seq(S)] :
            /\ f[1] = seqs[1] /\ \A i \in 2..Len(seqs) : f[i] = f[i-1] \o seqs[i]
            /\ FlattenSeq(seqs) = f[Len(seqs)]
    BY <1>0, <1>2, FlattenSteps
  <2> DEFINE n == Len(seqs)
             T == {m \in 0..n : m = 0 \/ f[m] \in G}
  <2>2. n \in Nat /\ n # 0
    BY <1>0, <1>2
  <2>3. ASSUME NEW m \in 0..n-1, m \in T PROVE m + 1 \in T
    <3>1. m + 1 \in 1..n
      BY <2>2
    <3>2. CASE m = 0
      <4>1. m + 1 = 1 /\ 1 \in 1..n /\ f[1] \in G
        BY <1>0, <2>1, <3>1, <3>2
      <4>2. f[m+1] \in G /\ m + 1 \in 0..n
        BY <2>2, <4>1
      <4> HIDE DEF n
      <4> QED
        BY <4>2
    <3>3. CASE m # 0
      <4>1. m + 1 \in 2..n /\ (m + 1) - 1 = m
        BY <2>2, <3>3
      <4>2. f[m+1] = f[m] \o seqs[m+1]
        BY <2>1, <4>1
      <4>3. f[m] \in G /\ seqs[m+1] \in G
        BY <1>0, <2>3, <3>1, <3>3
      <4>4. f[m+1] \in G /\ m + 1 \in 0..n
        BY <2>2, <4>2, <4>3
      <4> HIDE DEF n
      <4> QED
        BY <4>4
    <3> QED
      BY <3>2, <3>3
  <2>4. n \in T
    <3>1. 0 \in T /\ \A m \in 0..n-1 : m \in T => m + 1 \in T
      BY <2>2, <2>3
    <3> HIDE DEF T, n
    <3>2. \A m \in 0..n : m \in T
      BY <2>2, <3>1, Climb
    <3> QED
      BY <2>2, <3>2
  <2> QED
    BY <2>1, <2>2, <2>4
<1> QED
  BY <1>1, <1>2

(* Flattened sequences are a sequence.                                     *)
LEMMA FlattenTyped ==
  ASSUME NEW S, NEW seqs \in Seq(Seq(S))
  PROVE  FlattenSeq(seqs) \in Seq(S)
<1>1. <<>> \in Seq(S) /\ \A p, q \in Seq(S) : p \o q \in Seq(S)
  BY ConcatProperties
<1> QED
  BY <1>1, FlattenClosed

(* The trajectories in some order.                                         *)
LEMMA RunOrderTyped == RunOrder \in Seq(Runs)
<1>1. Cardinality(Runs) \in Nat /\ ExistsBijection(1..Cardinality(Runs), Runs)
  BY NamesAssumption, FS_CardinalityType
<1>2. \E f \in [1..Cardinality(Runs) -> Runs] : IsInjective(f)
  BY <1>1 DEF ExistsBijection, Bijection, Injection, IsInjective
<1>3. RunOrder \in [1..Cardinality(Runs) -> Runs]
  BY <1>2 DEF RunOrder, SetToSeq
<1> QED
  BY <1>1, <1>3

(* The steps that publish a source are steps the task may take.            *)
LEMMA StepsOfTyped ==
  ASSUME NEW task \in Jobs, NEW s \in Sources
  PROVE  StepsOf(task, s) \in Seq(StepsFor(task))
<1> DEFINE S == StepsFor(task)
<1>1. /\ ~MayReplace(task) => \A r \in Runs, t \in Snapshots : <<"first", r, t>> \in S
      /\ \A r \in Runs, t \in Natives : <<"native", r, t>> \in S
      /\ MayReplace(task) => \A r \in Runs, t \in Snapshots : <<"snapshot", r, t>> \in S
  BY DEF StepsFor
<1>2. \A i \in DOMAIN RunOrder : RunOrder[i] \in Runs
  BY RunOrderTyped
<1>3. DOMAIN RunOrder = 1..Len(RunOrder) /\ Len(RunOrder) \in Nat
  BY RunOrderTyped
<1>4. CASE MayReplace(task)
  <2>1. ASSUME NEW kind, NEW T, s \in T, \A r \in Runs, t \in T : <<kind, r, t>> \in S
        PROVE  Each(kind, s) \in Seq(S)
    <3>1. \A i \in 1..Len(RunOrder) : <<kind, RunOrder[i], s>> \in S
      BY <1>2, <1>3, <2>1
    <3> HIDE DEF S
    <3> QED
      BY <1>3, <3>1 DEF Each
  <2>2. (IF s \in Snapshots THEN Each("snapshot", s) ELSE <<>>) \in Seq(S)
    <3>1. s \in Snapshots => Each("snapshot", s) \in Seq(S)
      BY <1>1, <1>4, <2>1
    <3> HIDE DEF S
    <3> QED
      BY <3>1
  <2>3. (IF s \in Natives THEN Each("native", s) ELSE <<>>) \in Seq(S)
    <3>1. s \in Natives => Each("native", s) \in Seq(S)
      BY <1>1, <2>1
    <3> HIDE DEF S
    <3> QED
      BY <3>1
  <2>4. Replacements(s) \in Seq(S)
    <3> HIDE DEF S
    <3> QED
      BY <2>2, <2>3, ConcatProperties DEF Replacements
  <2> QED
    BY <1>4, <2>4 DEF StepsOf
<1>5. CASE ~MayReplace(task)
  <2> DEFINE part1(i) == IF s \in Snapshots THEN FirstPlan(RunOrder[i]) ELSE <<>>
             part2(i) == IF s \in Natives THEN <<<<"native", RunOrder[i], s>>>> ELSE <<>>
  <2>1. \A r \in Runs : FirstPlan(r) \in Seq(S)
    <3>1. "rynn" \in Snapshots /\ "final" \in Snapshots
      BY DEF Snapshots
    <3> HIDE DEF S
    <3> QED
      BY <1>1, <1>5, <3>1 DEF FirstPlan
  <2>2. ASSUME NEW i \in 1..Len(RunOrder) PROVE part1(i) \o part2(i) \in Seq(S)
    <3>1. part1(i) \in Seq(S)
      <4> HIDE DEF S
      <4> QED
        BY <1>2, <1>3, <2>1
    <3>2. part2(i) \in Seq(S)
      <4>1. s \in Natives => <<"native", RunOrder[i], s>> \in S
        BY <1>1, <1>2, <1>3
      <4> HIDE DEF S
      <4> QED
        BY <4>1
    <3> HIDE DEF S, part1, part2
    <3> QED
      BY <3>1, <3>2, ConcatProperties
  <2>3. [i \in DOMAIN RunOrder |-> part1(i) \o part2(i)] \in Seq(Seq(S))
    <3> HIDE DEF S, part1, part2
    <3> QED
      BY <1>3, <2>2
  <2>4. FlattenSeq([i \in DOMAIN RunOrder |-> part1(i) \o part2(i)]) \in Seq(S)
    <3> HIDE DEF S, part1, part2
    <3> QED
      BY <2>3, FlattenTyped
  <2> QED
    BY <1>5, <2>4 DEF StepsOf, Additions
<1> QED
  BY <1>4, <1>5

(* The plan of a publication has the steps its task may take.              *)
LEMMA PlanTyped ==
  ASSUME job \in JobSpecs, NEW task \in Jobs \cup Runs
  PROVE  Plan(task) \in Seq(StepsFor(task))
<1> DEFINE S == StepsFor(task)
<1>1. CASE task \in Runs
  <2>1. \A s \in Snapshots : <<"first", task, s>> \in S
    BY <1>1, NamesAssumption DEF StepsFor, MayReplace
  <2>2. "rynn" \in Snapshots /\ "final" \in Snapshots
    BY DEF Snapshots
  <2>3. FirstPlan(task) \in Seq(S)
    <3> HIDE DEF S
    <3> QED
      BY <2>1, <2>2 DEF FirstPlan
  <2> QED
    BY <1>1, <2>3 DEF Plan
<1>2. CASE task \notin Runs
  <2>1. task \in Jobs /\ job[task].sources \in Seq(Sources)
    BY <1>2, JobSpecsAssumption
  <2>2. \A s \in Sources : StepsOf(task, s) \in Seq(S)
    BY <2>1, StepsOfTyped
  <2> DEFINE all == FlattenSeq([i \in DOMAIN job[task].sources |->
                                  StepsOf(task, job[task].sources[i])])
  <2>3. all \in Seq(S)
    <3> DEFINE each == [i \in DOMAIN job[task].sources |-> StepsOf(task, job[task].sources[i])]
    <3>1. each \in Seq(Seq(S))
      <4> HIDE DEF S
      <4> QED
        BY <2>1, <2>2
    <3> HIDE DEF S, each
    <3>2. FlattenSeq(each) \in Seq(S)
      BY <3>1, FlattenTyped
    <3> QED
      BY <3>2 DEF each
  <2>4. ASSUME NEW steps \in Seq(S) PROVE Assigned(task, steps) \in Seq(S)
    <3> DEFINE one(i) == IF steps[i][1] = "first" \/ <<steps[i][2], steps[i][3]>> \in work[task]
                         THEN <<steps[i]>> ELSE <<>>
               chosen == [i \in DOMAIN steps |-> one(i)]
    <3>1. \A i \in DOMAIN steps : one(i) \in Seq(S)
      <4> HIDE DEF S
      <4> QED
        OBVIOUS
    <3>2. chosen \in Seq(Seq(S))
      <4> HIDE DEF S, one
      <4> QED
        BY <3>1
    <3> HIDE DEF S, chosen
    <3>3. FlattenSeq(chosen) \in Seq(S)
      BY <3>2, FlattenTyped
    <3> QED
      BY <3>3 DEF Assigned, chosen
  <2>5. Assigned(task, all) \in Seq(S)
    <3> HIDE DEF all, S
    <3> QED
      BY <2>3, <2>4
  <2> QED
    BY <1>2, <2>5 DEF Plan
<1> QED
  BY <1>1, <1>2

(* Among results that are over there is a first one.                       *)
LEMMA FirstCandidate ==
  ASSUME finished \in Seq(Jobs), NEW s, Candidates(s) # {},
         \A j \in Candidates(s) : j \in ToSet(finished)
  PROVE  /\ FirstResult(s) \in Candidates(s)
         /\ \A k \in Candidates(s) : k = FirstResult(s) \/ Before(finished, FirstResult(s), k)
<1> DEFINE T == {i \in DOMAIN finished : finished[i] \in Candidates(s)}
<1>1. T \in SUBSET Nat /\ T # {}
  BY DEF ToSet
<1>2. PICK i \in T : \A m \in T : i <= m
  <2> HIDE DEF T
  <2> QED
    BY <1>1, LeastOf
<1>3. ASSUME NEW k \in Candidates(s) PROVE k = finished[i] \/ Before(finished, finished[i], k)
  <2>1. PICK m \in DOMAIN finished : finished[m] = k
    BY DEF ToSet
  <2>2. m \in T /\ i <= m /\ i \in DOMAIN finished
    BY <1>2, <1>3, <2>1
  <2>3. CASE m = i
    BY <2>1, <2>3
  <2>4. CASE m # i
    <3>1. i < m
      BY <2>2, <2>4
    <3> QED
      BY <2>1, <2>2, <3>1 DEF Before
  <2> QED
    BY <2>3, <2>4
<1>4. finished[i] \in Candidates(s)
  BY <1>2
<1>5. \E j \in Candidates(s) : \A k \in Candidates(s) : k = j \/ Before(finished, j, k)
  BY <1>3, <1>4
<1> QED
  BY <1>5 DEF FirstResult

(* What waits has a place in the order of registration; the oldest is there.*)
LEMMA OldestOf ==
  ASSUME created \in Seq(Jobs \cup Runs), NEW S, S # {}, S \subseteq ToSet(created)
  PROVE  Oldest(S) \in S
<1>1. \A x \in S : Position(x) \in DOMAIN created
  BY DEF ToSet, Position
<1> DEFINE T == {Position(x) : x \in S}
<1>2. T \in SUBSET Nat /\ T # {}
  BY <1>1
<1>3. PICK n \in T : \A m \in T : n <= m
  <2> HIDE DEF T
  <2> QED
    BY <1>2, LeastOf
<1>4. PICK x \in S : n = Position(x)
  BY <1>3
<1>5. \A y \in S : Position(x) <= Position(y)
  BY <1>3, <1>4
<1> QED
  BY <1>5 DEF Oldest

(* What an appended sequence holds.                                        *)
LEMMA Appended ==
  ASSUME NEW S, NEW seq \in Seq(S), NEW x
  PROVE  /\ ToSet(Append(seq, x)) = ToSet(seq) \cup {x}
         /\ x \in S => Append(seq, x) \in Seq(S)
<1>1. DOMAIN Append(seq, x) = DOMAIN seq \cup {Len(seq) + 1}
  OBVIOUS
<1>2. /\ \A i \in DOMAIN seq : Append(seq, x)[i] = seq[i]
      /\ Append(seq, x)[Len(seq) + 1] = x
  OBVIOUS
<1> QED
  BY <1>1, <1>2 DEF ToSet

Distinct(seq) == \A i, k \in DOMAIN seq : seq[i] = seq[k] => i = k

(* The order of a sequence in which nothing occurs twice.                  *)
LEMMA OrderOf ==
  ASSUME NEW S, NEW seq \in Seq(S), Distinct(seq), NEW x, NEW y
  PROVE  /\ Before(seq, x, y) => x \in ToSet(seq) /\ y \in ToSet(seq) /\ x # y
         /\ Before(seq, x, y) => ~Before(seq, y, x)
         /\ \A z : Before(seq, x, y) /\ Before(seq, y, z) => Before(seq, x, z)
         /\ x \in ToSet(seq) /\ y \in ToSet(seq) => x = y \/ Before(seq, x, y) \/ Before(seq, y, x)
<1>0. DOMAIN seq \subseteq Nat
  OBVIOUS
<1>1. Before(seq, x, y) => x \in ToSet(seq) /\ y \in ToSet(seq) /\ x # y
  BY <1>0 DEF Before, ToSet, Distinct
<1>2. Before(seq, x, y) => ~Before(seq, y, x)
  BY <1>0 DEF Before, Distinct
<1>3. ASSUME NEW z, Before(seq, x, y), Before(seq, y, z) PROVE Before(seq, x, z)
  <2>1. PICK i, k \in DOMAIN seq : i < k /\ seq[i] = x /\ seq[k] = y
    BY <1>3 DEF Before
  <2>2. PICK m, n \in DOMAIN seq : m < n /\ seq[m] = y /\ seq[n] = z
    BY <1>3 DEF Before
  <2>3. k = m
    BY <2>1, <2>2 DEF Distinct
  <2>4. i < n
    BY <1>0, <2>1, <2>2, <2>3
  <2> QED
    BY <2>1, <2>2, <2>4 DEF Before
<1>4. ASSUME x \in ToSet(seq), y \in ToSet(seq), x # y PROVE Before(seq, x, y) \/ Before(seq, y, x)
  <2>1. PICK i \in DOMAIN seq : seq[i] = x
    BY <1>4 DEF ToSet
  <2>2. PICK k \in DOMAIN seq : seq[k] = y
    BY <1>4 DEF ToSet
  <2>3. i < k \/ k < i
    BY <1>0, <1>4, <2>1, <2>2
  <2> QED
    BY <2>1, <2>2, <2>3 DEF Before
<1> QED
  BY <1>1, <1>2, <1>3, <1>4

(* What is appended is the last in the order.                              *)
LEMMA OrderAppended ==
  ASSUME NEW S, NEW seq \in Seq(S), Distinct(seq), NEW x, x \notin ToSet(seq)
  PROVE  /\ Distinct(Append(seq, x))
         /\ \A y, z : Before(Append(seq, x), y, z) <=> Before(seq, y, z)
               \/ (y \in ToSet(seq) /\ z = x)
<1> DEFINE q == Append(seq, x)
           n == Len(seq)
<1>1. n \in Nat /\ DOMAIN seq = 1..n /\ DOMAIN q = 1..n+1
  OBVIOUS
<1>2. (\A i \in 1..n : q[i] = seq[i]) /\ q[n+1] = x
  OBVIOUS
<1>3. \A i \in 1..n : seq[i] # x
  BY <1>1 DEF ToSet
<1> HIDE DEF q, n
<1>4. Distinct(q)
  BY <1>1, <1>2, <1>3 DEF Distinct
<1>5. ASSUME NEW y, NEW z, Before(q, y, z) PROVE Before(seq, y, z) \/ (y \in ToSet(seq) /\ z = x)
  <2>1. PICK i, k \in 1..n+1 : i < k /\ q[i] = y /\ q[k] = z
    BY <1>1, <1>5 DEF Before
  <2>2. i \in 1..n /\ seq[i] = y
    BY <1>1, <1>2, <2>1
  <2>3. CASE k = n + 1
    BY <1>1, <1>2, <2>1, <2>2, <2>3 DEF ToSet
  <2>4. CASE k # n + 1
    <3>1. k \in 1..n /\ seq[k] = z
      BY <1>1, <1>2, <2>1, <2>4
    <3> QED
      BY <1>1, <2>1, <2>2, <3>1 DEF Before
  <2> QED
    BY <2>3, <2>4
<1>6. ASSUME NEW y, NEW z, Before(seq, y, z) PROVE Before(q, y, z)
  <2>1. PICK i, k \in 1..n : i < k /\ seq[i] = y /\ seq[k] = z
    BY <1>1, <1>6 DEF Before
  <2>2. i \in 1..n+1 /\ k \in 1..n+1
    BY <1>1
  <2> QED
    BY <1>1, <1>2, <2>1, <2>2 DEF Before
<1>7. ASSUME NEW y \in ToSet(seq) PROVE Before(q, y, x)
  <2>1. PICK i \in 1..n : seq[i] = y
    BY <1>1 DEF ToSet
  <2>2. i \in 1..n+1 /\ n + 1 \in 1..n+1 /\ i < n + 1
    BY <1>1
  <2> QED
    BY <1>1, <1>2, <2>1, <2>2 DEF Before
<1> QED
  BY <1>4, <1>5, <1>6, <1>7 DEF q

(* The oldest of some that are registered is older than the others.        *)
LEMMA OldestFirst ==
  ASSUME created \in Seq(Jobs \cup Runs), Distinct(created), NEW S, S # {},
         S \subseteq ToSet(created)
  PROVE  Oldest(S) \in S /\ \A y \in S : y = Oldest(S) \/ Before(created, Oldest(S), y)
<1>1. \A x \in S : Position(x) \in DOMAIN created /\ created[Position(x)] = x
  BY DEF ToSet, Position
<1> DEFINE T == {Position(x) : x \in S}
<1>2. T \in SUBSET Nat /\ T # {}
  BY <1>1
<1>3. PICK n \in T : \A m \in T : n <= m
  <2> HIDE DEF T
  <2> QED
    BY <1>2, LeastOf
<1>4. PICK x \in S : n = Position(x)
  BY <1>3
<1>5. \A y \in S : Position(x) <= Position(y)
  BY <1>3, <1>4
<1>6. Oldest(S) \in S /\ \A y \in S : Position(Oldest(S)) <= Position(y)
  BY <1>5 DEF Oldest
<1>7. ASSUME NEW y \in S, y # Oldest(S) PROVE Before(created, Oldest(S), y)
  <2>1. Position(Oldest(S)) < Position(y)
    BY <1>1, <1>6, <1>7
  <2> QED
    BY <1>1, <1>6, <2>1 DEF Before
<1> QED
  BY <1>6, <1>7

-----------------------------------------------------------------------------
(* Whenever y occurs, x has occurred before.                               *)
Leads(seq, x, y) == \A i \in DOMAIN seq : seq[i] = y => \E k \in 1..i-1 : seq[k] = x

(* The positions of two sequences, one after the other.                    *)
LEMMA Joined ==
  ASSUME NEW S, NEW p \in Seq(S), NEW q \in Seq(S)
  PROVE  /\ p \o q \in Seq(S) /\ ToSet(p \o q) = ToSet(p) \cup ToSet(q)
         /\ \A x, y : Leads(p, x, y) /\ (Leads(q, x, y) \/ x \in ToSet(p)) => Leads(p \o q, x, y)
<1> DEFINE m == Len(p)
           n == Len(q)
           both == p \o q
<1>1. m \in Nat /\ n \in Nat /\ DOMAIN p = 1..m /\ DOMAIN q = 1..n
  OBVIOUS
<1>2. both \in Seq(S) /\ DOMAIN both = 1..m+n
  OBVIOUS
<1>3. \A i \in 1..m : both[i] = p[i]
  OBVIOUS
<1>4. \A i \in m+1..m+n : both[i] = q[i-m]
  OBVIOUS
<1> HIDE DEF m, n, both
<1>5. \A i \in 1..n : m + i \in m+1..m+n /\ both[m+i] = q[i]
  <2>1. ASSUME NEW i \in 1..n PROVE m + i \in m+1..m+n /\ (m + i) - m = i
    BY <1>1
  <2> QED
    BY <1>4, <2>1
<1>6. \A i \in 1..m+n : i \in 1..m \/ (i \in m+1..m+n /\ i - m \in 1..n)
  BY <1>1
<1>7. 1..m \subseteq 1..m+n /\ m+1..m+n \subseteq 1..m+n
  BY <1>1
<1>8. ToSet(both) = ToSet(p) \cup ToSet(q)
  <2>1. ASSUME NEW z \in ToSet(both) PROVE z \in ToSet(p) \cup ToSet(q)
    <3>1. PICK i \in 1..m+n : both[i] = z
      BY <1>2, <2>1 DEF ToSet
    <3>2. CASE i \in 1..m
      BY <1>1, <1>3, <3>1, <3>2 DEF ToSet
    <3>3. CASE i \notin 1..m
      <4>1. i \in m+1..m+n /\ i - m \in 1..n /\ q[i-m] = z
        BY <1>4, <1>6, <3>1, <3>3
      <4> QED
        BY <1>1, <4>1 DEF ToSet
    <3> QED
      BY <3>2, <3>3
  <2>2. ASSUME NEW z \in ToSet(p) PROVE z \in ToSet(both)
    <3>1. PICK i \in 1..m : p[i] = z
      BY <1>1, <2>2 DEF ToSet
    <3> QED
      BY <1>2, <1>3, <1>7, <3>1 DEF ToSet
  <2>3. ASSUME NEW z \in ToSet(q) PROVE z \in ToSet(both)
    <3>1. PICK i \in 1..n : q[i] = z
      BY <1>1, <2>3 DEF ToSet
    <3>2. m + i \in 1..m+n /\ both[m+i] = z
      BY <1>5, <1>7, <3>1
    <3> QED
      BY <1>2, <3>2 DEF ToSet
  <2> QED
    BY <2>1, <2>2, <2>3
<1>9. ASSUME NEW x, NEW y, Leads(p, x, y), Leads(q, x, y) \/ x \in ToSet(p),
             NEW i \in 1..m+n, both[i] = y
      PROVE  \E k \in 1..i-1 : both[k] = x
  <2>1. CASE i \in 1..m
    <3>1. PICK k \in 1..i-1 : p[k] = x
      BY <1>1, <1>3, <1>9, <2>1 DEF Leads
    <3>2. k \in 1..m
      BY <1>1, <2>1
    <3> QED
      BY <1>3, <3>1, <3>2
  <2>2. CASE i \notin 1..m
    <3>0. i \in m+1..m+n /\ i - m \in 1..n /\ q[i-m] = y
      BY <1>4, <1>6, <1>9, <2>2
    <3>1. CASE x \in ToSet(p)
      <4>1. PICK k \in 1..m : p[k] = x
        BY <1>1, <3>1 DEF ToSet
      <4>2. k \in 1..i-1
        BY <1>1, <3>0
      <4> QED
        BY <1>3, <4>1, <4>2
    <3>2. CASE Leads(q, x, y)
      <4>1. PICK k \in 1..(i-m)-1 : q[k] = x
        BY <1>1, <3>0, <3>2 DEF Leads
      <4>2. k \in 1..n /\ m + k \in 1..i-1
        BY <1>1, <3>0
      <4> QED
        BY <1>5, <4>1, <4>2
    <3> QED
      BY <1>9, <3>1, <3>2
  <2> QED
    BY <2>1, <2>2
<1> QED
  BY <1>2, <1>8, <1>9 DEF Leads, both

(* A flattened sequence has all that the sequences in it have.             *)
LEMMA FlattenHolds ==
  ASSUME NEW S, NEW seqs \in Seq(Seq(S)), NEW i \in DOMAIN seqs
  PROVE  ToSet(seqs[i]) \subseteq ToSet(FlattenSeq(seqs))
<1> DEFINE n == Len(seqs)
<1>1. n \in Nat /\ i \in 1..n /\ seqs # <<>> /\ \A m \in 1..n : seqs[m] \in Seq(S)
  OBVIOUS
<1>2. PICK f \in [1..n -> Seq(S)] :
         /\ f[1] = seqs[1] /\ \A m \in 2..n : f[m] = f[m-1] \o seqs[m]
         /\ FlattenSeq(seqs) = f[n]
  BY <1>1, FlattenSteps
<1> HIDE DEF n
<1>3. ToSet(seqs[i]) \subseteq ToSet(f[i])
  <2>1. CASE i = 1
    BY <1>2, <2>1
  <2>2. CASE i # 1
    <3>1. i \in 2..n /\ i - 1 \in 1..n
      BY <1>1, <2>2
    <3>2. f[i] = f[i-1] \o seqs[i] /\ f[i-1] \in Seq(S)
      BY <1>2, <3>1
    <3> QED
      BY <1>1, <3>2, Joined
  <2> QED
    BY <2>1, <2>2
<1> DEFINE T == {m \in 0..n : m >= i => ToSet(seqs[i]) \subseteq ToSet(f[m])}
<1>4. ASSUME NEW m \in 0..n-1, m \in T PROVE m + 1 \in T
  <2>1. CASE m + 1 <= i
    BY <1>1, <1>3, <2>1
  <2>2. CASE m + 1 > i
    <3>1. m + 1 \in 2..n /\ (m + 1) - 1 = m /\ m \in 1..n /\ m + 1 \in 1..n /\ m >= i
      BY <1>1, <2>2
    <3>2. f[m+1] = f[m] \o seqs[m+1] /\ f[m] \in Seq(S)
      BY <1>2, <3>1
    <3>3. ToSet(seqs[i]) \subseteq ToSet(f[m])
      BY <1>4, <3>1
    <3>4. ToSet(seqs[i]) \subseteq ToSet(f[m+1])
      BY <1>1, <3>1, <3>2, <3>3, Joined
    <3> QED
      BY <1>1, <3>1, <3>4
  <2> QED
    BY <1>1, <2>1, <2>2
<1>5. n \in T
  <2>0. 0 \in 0..n /\ ~(0 >= i)
    BY <1>1
  <2>1. 0 \in T /\ \A m \in 0..n-1 : m \in T => m + 1 \in T
    BY <1>4, <2>0
  <2> HIDE DEF T
  <2>2. \A m \in 0..n : m \in T
    BY <1>1, <2>1, Climb
  <2> QED
    BY <1>1, <2>2
<1> QED
  BY <1>1, <1>2, <1>5

(* A choice among the steps of a sequence that keeps x keeps the order in  *)
(* which x comes before y.                                                 *)
LEMMA ChosenLeads ==
  ASSUME NEW S, NEW steps \in Seq(S), NEW x, NEW y, Leads(steps, x, y),
         NEW chosen, DOMAIN chosen = DOMAIN steps, chosen \in Seq(Seq(S)),
         \A i \in DOMAIN steps : chosen[i] \in {<<>>, <<steps[i]>>},
         \A i \in DOMAIN steps : steps[i] = x => chosen[i] = <<x>>
  PROVE  Leads(FlattenSeq(chosen), x, y)
<1> DEFINE n == Len(chosen)
<1>1. n \in Nat /\ DOMAIN chosen = 1..n /\ \A m \in 1..n : chosen[m] \in Seq(S)
  OBVIOUS
<1>2. CASE chosen = <<>>
  <2>1. FlattenSeq(<<>>) = <<>>
    BY DEF FlattenSeq
  <2> QED
    BY <1>2, <2>1 DEF Leads
<1>3. CASE chosen # <<>>
  <2>1. PICK f \in [1..n -> Seq(S)] :
           /\ f[1] = chosen[1] /\ \A m \in 2..n : f[m] = f[m-1] \o chosen[m]
           /\ FlattenSeq(chosen) = f[n]
    BY <1>3, FlattenSteps
  <2>2. n # 0
    BY <1>3
  <2> HIDE DEF n
  <2> DEFINE Kept(m) == /\ Leads(f[m], x, y)
                        /\ \A i \in 1..m : steps[i] = x => x \in ToSet(f[m])
             T == {m \in 0..n : m = 0 \/ Kept(m)}
  <2>3. ASSUME NEW z PROVE ToSet(<<z>>) = {z} /\ (z # y => Leads(<<z>>, x, y))
    BY DEF ToSet, Leads
  <2>4. ToSet(<<>>) = {} /\ Leads(<<>>, x, y)
    BY DEF ToSet, Leads
  <2>5. ASSUME NEW m \in 0..n-1, m \in T PROVE m + 1 \in T
    <3>1. m + 1 \in 1..n /\ m + 1 \in 0..n
      BY <1>1
    <3>2. CASE m = 0
      <4>1. m + 1 = 1 /\ f[1] = chosen[1] /\ 1 \in DOMAIN steps
        BY <1>1, <2>1, <3>1, <3>2
      <4>2. steps[1] # y
        BY <4>1 DEF Leads
      <4>3. chosen[1] \in {<<>>, <<steps[1]>>} /\ (steps[1] = x => chosen[1] = <<x>>)
        BY <4>1
      <4>4. Leads(f[1], x, y)
        BY <2>3, <2>4, <4>1, <4>2, <4>3
      <4>5. ASSUME steps[1] = x PROVE x \in ToSet(f[1])
        <5>1. f[1] = <<x>>
          BY <4>1, <4>3, <4>5
        <5>2. ToSet(<<x>>) = {x}
          BY <2>3
        <5> QED
          BY <5>1, <5>2
      <4>6. Kept(1)
        <5>1. \A i \in 1..1 : i = 1
          OBVIOUS
        <5> QED
          BY <4>4, <4>5, <5>1
      <4> QED
        BY <3>1, <4>1, <4>6
    <3>3. CASE m # 0
      <4>1. m + 1 \in 2..n /\ (m + 1) - 1 = m /\ m \in 1..n /\ m + 1 \in DOMAIN steps
        BY <1>1, <3>1, <3>3
      <4>2. f[m+1] = f[m] \o chosen[m+1] /\ f[m] \in Seq(S) /\ chosen[m+1] \in Seq(S)
        BY <1>1, <2>1, <3>1, <4>1
      <4>3. Kept(m)
        BY <2>5, <3>3
      <4>4. steps[m+1] = y => x \in ToSet(f[m])
        <5>1. ASSUME steps[m+1] = y PROVE \E k \in 1..m : steps[k] = x
          BY <4>1, <5>1 DEF Leads
        <5> QED
          BY <4>3, <5>1
      <4>5. Leads(chosen[m+1], x, y) \/ x \in ToSet(f[m])
        BY <2>3, <2>4, <4>1, <4>4
      <4>6. Leads(f[m+1], x, y)
        BY <4>2, <4>3, <4>5, Joined
      <4>7. ToSet(f[m+1]) = ToSet(f[m]) \cup ToSet(chosen[m+1])
        BY <4>2, Joined
      <4>8. ASSUME NEW i \in 1..m+1, steps[i] = x PROVE x \in ToSet(f[m+1])
        <5>1. CASE i = m + 1
          BY <2>3, <4>1, <4>7, <4>8, <5>1
        <5>2. CASE i # m + 1
          <6>1. i \in 1..m
            BY <5>2
          <6> QED
            BY <4>3, <4>7, <4>8, <6>1
        <5> QED
          BY <5>1, <5>2
      <4>9. Kept(m+1)
        BY <4>6, <4>8
      <4> HIDE DEF Kept
      <4> QED
        BY <3>1, <4>9
    <3> QED
      BY <3>2, <3>3
  <2>6. n \in T
    <3>1. 0 \in T /\ \A m \in 0..n-1 : m \in T => m + 1 \in T
      BY <1>1, <2>5
    <3> HIDE DEF T
    <3>2. \A m \in 0..n : m \in T
      BY <1>1, <3>1, Climb
    <3> QED
      BY <1>1, <3>2
  <2> QED
    BY <2>1, <2>2, <2>6
<1> QED
  BY <1>2, <1>3

-----------------------------------------------------------------------------
(* How a job replaces the snapshot of a trajectory, and its sidecar.       *)
First(task, r) == <<IF MayReplace(task) THEN "snapshot" ELSE "first", r, "rynn">>
Second(r) == <<"native", r, "rynn">>

(* Every trajectory has its place among the others.                        *)
LEMMA RunOrderOnto == \A r \in Runs : \E i \in DOMAIN RunOrder : RunOrder[i] = r
<1> DEFINE n == Cardinality(Runs)
<1>1. n \in Nat /\ ExistsBijection(1..n, Runs)
  BY NamesAssumption, FS_CardinalityType
<1>2. \E f \in [1..n -> Runs] : IsInjective(f)
  BY <1>1 DEF ExistsBijection, Bijection, Injection, IsInjective
<1>3. RunOrder \in [1..n -> Runs] /\ IsInjective(RunOrder)
  BY <1>2 DEF RunOrder, SetToSeq
<1>4. RunOrder \in Injection(1..n, Runs)
  BY <1>3 DEF Injection
<1>5. Cardinality(1..n) = n
  BY <1>1, FS_Interval
<1>6. RunOrder \in Surjection(1..n, Runs)
  <2> HIDE DEF n
  <2> QED
    BY <1>4, <1>5, NamesAssumption, FS_Injection DEF n
<1> QED
  BY <1>6 DEF Surjection

(* A trajectory's snapshot is replaced before its sidecar.                 *)
LEMMA StepsOfOrdered ==
  ASSUME NEW task \in Jobs, NEW s \in Sources, NEW r \in Runs
  PROVE  /\ Leads(StepsOf(task, s), First(task, r), Second(r))
         /\ s = "rynn" => Second(r) \in ToSet(StepsOf(task, s))
<1> DEFINE S == StepsFor(task)
           n == Len(RunOrder)
<1>1. /\ ~MayReplace(task) => \A q \in Runs, t \in Snapshots : <<"first", q, t>> \in S
      /\ \A q \in Runs, t \in Natives : <<"native", q, t>> \in S
      /\ MayReplace(task) => \A q \in Runs, t \in Snapshots : <<"snapshot", q, t>> \in S
  BY DEF StepsFor
<1>2. n \in Nat /\ DOMAIN RunOrder = 1..n /\ \A i \in 1..n : RunOrder[i] \in Runs
  BY RunOrderTyped
<1>3. PICK o \in 1..n : RunOrder[o] = r
  BY <1>2, RunOrderOnto
<1>4. "rynn" \in Snapshots /\ "rynn" \in Natives /\ First(task, r) # Second(r)
  BY DEF Snapshots, Natives, First, Second
<1>5. ASSUME NEW q, Second(r) \notin ToSet(q) PROVE Leads(q, First(task, r), Second(r))
  BY <1>5 DEF Leads, ToSet
<1>6. CASE MayReplace(task)
  <2>1. ASSUME NEW kind, NEW T, s \in T, \A q \in Runs, t \in T : <<kind, q, t>> \in S
        PROVE  /\ Each(kind, s) \in Seq(S) /\ <<kind, r, s>> \in ToSet(Each(kind, s))
               /\ \A e \in ToSet(Each(kind, s)) : e[1] = kind /\ e[3] = s
    <3>1. \A i \in 1..n : <<kind, RunOrder[i], s>> \in S
      BY <1>2, <2>1
    <3>2. Each(kind, s) = [i \in 1..n |-> <<kind, RunOrder[i], s>>]
      BY <1>2 DEF Each
    <3>3. Each(kind, s) \in Seq(S)
      <4> HIDE DEF S, n
      <4> QED
        BY <1>2, <3>1, <3>2
    <3>4. DOMAIN Each(kind, s) = 1..n /\ \A i \in 1..n : Each(kind, s)[i] = <<kind, RunOrder[i], s>>
      BY <3>2
    <3> HIDE DEF S, n
    <3> QED
      BY <1>3, <3>3, <3>4 DEF ToSet
  <2> DEFINE a == IF s \in Snapshots THEN Each("snapshot", s) ELSE <<>>
             b == IF s \in Natives THEN Each("native", s) ELSE <<>>
  <2>2. /\ a \in Seq(S) /\ Second(r) \notin ToSet(a)
        /\ s = "rynn" => First(task, r) \in ToSet(a)
    <3>1. CASE s \in Snapshots
      <4>1. a \in Seq(S) /\ <<"snapshot", r, s>> \in ToSet(a)
               /\ \A e \in ToSet(a) : e[1] = "snapshot"
        BY <1>1, <1>6, <2>1, <3>1
      <4> HIDE DEF S, a
      <4> QED
        BY <1>6, <4>1 DEF First, Second
    <3>2. CASE s \notin Snapshots
      BY <1>4, <3>2 DEF ToSet
    <3> QED
      BY <3>1, <3>2
  <2>3. /\ b \in Seq(S) /\ (s = "rynn" => Second(r) \in ToSet(b))
        /\ s # "rynn" => Second(r) \notin ToSet(b)
    <3>1. CASE s \in Natives
      <4>1. b \in Seq(S) /\ <<"native", r, s>> \in ToSet(b) /\ \A e \in ToSet(b) : e[3] = s
        BY <1>1, <2>1, <3>1
      <4> HIDE DEF S, b
      <4> QED
        BY <4>1 DEF Second
    <3>2. CASE s \notin Natives
      BY <1>4, <3>2 DEF ToSet
    <3> QED
      BY <3>1, <3>2
  <2>4. StepsOf(task, s) = a \o b
    BY <1>6 DEF StepsOf, Replacements
  <2> HIDE DEF S, a, b
  <2>5. Leads(a, First(task, r), Second(r)) /\ (s # "rynn" => Leads(b, First(task, r), Second(r)))
    BY <1>5, <2>2, <2>3
  <2> QED
    BY <2>2, <2>3, <2>4, <2>5, Joined
<1>7. CASE ~MayReplace(task)
  <2> DEFINE a(i) == IF s \in Snapshots THEN FirstPlan(RunOrder[i]) ELSE <<>>
             b(i) == IF s \in Natives THEN <<<<"native", RunOrder[i], s>>>> ELSE <<>>
             each == [i \in 1..n |-> a(i) \o b(i)]
             G == {q \in Seq(S) : Leads(q, First(task, r), Second(r))}
  <2>1. ASSUME NEW i \in 1..n
        PROVE  a(i) \o b(i) \in G /\ (s = "rynn" /\ i = o => Second(r) \in ToSet(a(i) \o b(i)))
    <3>0. RunOrder[i] \in Runs
      BY <1>2
    <3>1. /\ a(i) \in Seq(S) /\ Second(r) \notin ToSet(a(i))
          /\ RunOrder[i] = r /\ s = "rynn" => First(task, r) \in ToSet(a(i))
      <4>1. ASSUME NEW x, NEW y PROVE ToSet(<<x, y>>) = {x, y}
        BY DEF ToSet
      <4>2. CASE s \in Snapshots
        <5>1. "final" \in Snapshots
          BY DEF Snapshots
        <5>2. <<"first", RunOrder[i], "rynn">> \in S /\ <<"first", RunOrder[i], "final">> \in S
          BY <1>1, <1>4, <1>7, <3>0, <5>1
        <5>3. a(i) = <<<<"first", RunOrder[i], "rynn">>, <<"first", RunOrder[i], "final">>>>
          BY <4>2 DEF FirstPlan
        <5> HIDE DEF S, a
        <5>4. a(i) \in Seq(S)
          BY <5>2, <5>3
        <5> QED
          BY <1>7, <4>1, <5>3, <5>4 DEF First, Second
      <4>3. CASE s \notin Snapshots
        BY <1>4, <4>3 DEF ToSet
      <4> QED
        BY <4>2, <4>3
    <3>2. /\ b(i) \in Seq(S) /\ (s = "rynn" /\ RunOrder[i] = r => Second(r) \in ToSet(b(i)))
          /\ s # "rynn" \/ RunOrder[i] # r => Second(r) \notin ToSet(b(i))
      <4>1. ASSUME NEW x PROVE ToSet(<<x>>) = {x}
        BY DEF ToSet
      <4>2. CASE s \in Natives
        <5>1. <<"native", RunOrder[i], s>> \in S
          BY <1>1, <3>0, <4>2
        <5>2. b(i) = <<<<"native", RunOrder[i], s>>>>
          BY <4>2
        <5> HIDE DEF S, b
        <5>3. b(i) \in Seq(S)
          BY <5>1, <5>2
        <5> QED
          BY <4>1, <5>2, <5>3 DEF Second
      <4>3. CASE s \notin Natives
        BY <1>4, <4>3 DEF ToSet
      <4> QED
        BY <4>2, <4>3
    <3> HIDE DEF S, a, b
    <3>3. Leads(a(i), First(task, r), Second(r))
          /\ (s # "rynn" \/ RunOrder[i] # r => Leads(b(i), First(task, r), Second(r)))
      BY <1>5, <3>1, <3>2
    <3> QED
      BY <1>3, <3>1, <3>2, <3>3, Joined
  <2>2. StepsOf(task, s) = FlattenSeq(each)
    <3>1. each = [i \in DOMAIN RunOrder |-> a(i) \o b(i)]
      BY <1>2
    <3> QED
      BY <1>7, <3>1 DEF StepsOf, Additions
  <2>3. each \in Seq(G) /\ DOMAIN each = 1..n /\ \A i \in 1..n : each[i] = a(i) \o b(i)
    <3> HIDE DEF G, a, b
    <3> QED
      BY <1>2, <2>1
  <2>4. <<>> \in G /\ G \in SUBSET Seq(S) /\ \A p, q \in G : p \o q \in G
    <3> HIDE DEF S
    <3>1. <<>> \in G
      BY DEF Leads
    <3>2. \A p, q \in G : p \o q \in G
      BY Joined
    <3> QED
      BY <3>1, <3>2
  <2>5. each \in Seq(Seq(S))
    <3> HIDE DEF each, S
    <3> QED
      BY <2>3, <2>4
  <2>6. FlattenSeq(each) \in G
    <3> HIDE DEF G, each, S
    <3> QED
      BY <2>3, <2>4, FlattenClosed
  <2>7. ToSet(each[o]) \subseteq ToSet(FlattenSeq(each))
    <3> HIDE DEF each, S
    <3> QED
      BY <1>3, <2>3, <2>5, FlattenHolds
  <2> HIDE DEF each, a, b, S
  <2> QED
    BY <1>3, <2>1, <2>2, <2>3, <2>6, <2>7
<1> QED
  BY <1>6, <1>7

(* What a job is assigned of the steps, in the same order.                 *)
LEMMA AssignedOrdered ==
  ASSUME NEW task, NEW S, NEW steps \in Seq(S), NEW r, <<r, "rynn">> \in work[task],
         Leads(steps, First(task, r), Second(r)), Second(r) \in ToSet(steps)
  PROVE  /\ Leads(Assigned(task, steps), First(task, r), Second(r))
         /\ Second(r) \in ToSet(Assigned(task, steps))
<1> DEFINE one(i) == IF steps[i][1] = "first" \/ <<steps[i][2], steps[i][3]>> \in work[task]
                     THEN <<steps[i]>> ELSE <<>>
           chosen == [i \in DOMAIN steps |-> one(i)]
<1>1. /\ DOMAIN chosen = DOMAIN steps
      /\ \A i \in DOMAIN steps : chosen[i] = one(i) /\ chosen[i] \in {<<>>, <<steps[i]>>}
  OBVIOUS
<1>2. \A i \in DOMAIN steps : steps[i] \in S
  OBVIOUS
<1>3. chosen \in Seq(Seq(S))
  <2>1. \A i \in DOMAIN steps : one(i) \in Seq(S)
    BY <1>2
  <2> HIDE DEF one
  <2> QED
    BY <2>1
<1>4. Assigned(task, steps) = FlattenSeq(chosen)
  BY DEF Assigned
<1>5. ASSUME NEW i \in DOMAIN steps, steps[i] = First(task, r) PROVE chosen[i] = <<First(task, r)>>
  <2>1. steps[i][2] = r /\ steps[i][3] = "rynn"
    BY <1>5 DEF First
  <2>2. one(i) = <<steps[i]>>
    BY <2>1
  <2> QED
    BY <1>1, <1>5, <2>2
<1>6. PICK i \in DOMAIN steps : steps[i] = Second(r)
  BY DEF ToSet
<1>7. chosen[i] = <<Second(r)>>
  BY <1>1, <1>6 DEF Second
<1>8. Second(r) \in ToSet(chosen[i])
  BY <1>7 DEF ToSet
<1> HIDE DEF chosen, one
<1>9. ToSet(chosen[i]) \subseteq ToSet(FlattenSeq(chosen))
  BY <1>1, <1>3, <1>6, FlattenHolds
<1>10. Leads(FlattenSeq(chosen), First(task, r), Second(r))
  BY <1>1, <1>3, <1>5, ChosenLeads
<1> QED
  BY <1>4, <1>8, <1>9, <1>10

(* The plan of a job has its own results, every snapshot before its        *)
(* sidecar.                                                                *)
LEMMA PlanOrdered ==
  ASSUME job \in JobSpecs, NEW task \in Jobs
  PROVE  /\ \A e \in ToSet(Plan(task)) : e[1] = "first" \/ <<e[2], e[3]>> \in work[task]
         /\ \A r \in Runs : "rynn" \in SourcesOf(task) /\ <<r, "rynn">> \in work[task] =>
               /\ Leads(Plan(task), First(task, r), Second(r))
               /\ Second(r) \in ToSet(Plan(task))
<1> DEFINE S == StepsFor(task)
           own(e) == e[1] = "first" \/ <<e[2], e[3]>> \in work[task]
           O == {e \in S : own(e)}
           each == [i \in DOMAIN job[task].sources |-> StepsOf(task, job[task].sources[i])]
           all == FlattenSeq(each)
<1>1. job[task].sources \in Seq(Sources) /\ task \notin Runs
  BY JobSpecsAssumption, NamesAssumption
<1>2. each \in Seq(Seq(S))
  <2>1. \A s \in Sources : StepsOf(task, s) \in Seq(S)
    BY StepsOfTyped
  <2> HIDE DEF S
  <2>2. \A i \in DOMAIN job[task].sources : job[task].sources[i] \in Sources
    BY <1>1
  <2>3. \A i \in DOMAIN job[task].sources : StepsOf(task, job[task].sources[i]) \in Seq(S)
    BY <2>1, <2>2
  <2>4. PICK n \in Nat : DOMAIN job[task].sources = 1..n
    BY <1>1
  <2> QED
    BY <2>3, <2>4
<1>3. all \in Seq(S) /\ Plan(task) = Assigned(task, all)
  <2>1. all \in Seq(S)
    <3> HIDE DEF each, S
    <3> QED
      BY <1>2, FlattenTyped
  <2>2. Plan(task) = Assigned(task, all)
    BY <1>1 DEF Plan
  <2> QED
    BY <2>1, <2>2
<1>4. \A e \in ToSet(Plan(task)) : own(e)
  <2> DEFINE one(i) == IF all[i][1] = "first" \/ <<all[i][2], all[i][3]>> \in work[task]
                       THEN <<all[i]>> ELSE <<>>
             chosen == [i \in DOMAIN all |-> one(i)]
  <2> HIDE DEF all, S
  <2>1. ASSUME NEW i \in DOMAIN all PROVE one(i) \in Seq(O)
    <3>1. all[i] \in S
      BY <1>3
    <3>2. CASE own(all[i])
      <4>1. all[i] \in O /\ one(i) = <<all[i]>>
        BY <3>1, <3>2
      <4> HIDE DEF O, one
      <4> QED
        BY <4>1
    <3>3. CASE ~own(all[i])
      <4>1. one(i) = <<>>
        BY <3>3
      <4> QED
        BY <4>1
    <3> QED
      BY <3>2, <3>3
  <2>2. chosen \in Seq(Seq(O))
    <3> HIDE DEF one, O
    <3> QED
      BY <1>3, <2>1
  <2>3. Assigned(task, all) = FlattenSeq(chosen)
    BY DEF Assigned
  <2>4. FlattenSeq(chosen) \in Seq(O)
    <3> HIDE DEF chosen, O
    <3> QED
      BY <2>2, FlattenTyped
  <2>5. \A q \in Seq(O) : \A e \in ToSet(q) : e \in O
    <3> HIDE DEF O
    <3> QED
      BY DEF ToSet
  <2> QED
    BY <1>3, <2>3, <2>4, <2>5
<1>5. ASSUME NEW r \in Runs, "rynn" \in SourcesOf(task), <<r, "rynn">> \in work[task]
      PROVE  /\ Leads(Plan(task), First(task, r), Second(r))
             /\ Second(r) \in ToSet(Plan(task))
  <2> DEFINE G == {q \in Seq(S) : Leads(q, First(task, r), Second(r))}
  <2>1. \A i \in DOMAIN job[task].sources : each[i] \in G
    <3>1. \A s \in Sources : StepsOf(task, s) \in Seq(S)
      BY StepsOfTyped
    <3>2. \A s \in Sources : Leads(StepsOf(task, s), First(task, r), Second(r))
      BY StepsOfOrdered
    <3>3. \A i \in DOMAIN job[task].sources : job[task].sources[i] \in Sources
      BY <1>1
    <3> HIDE DEF S
    <3> QED
      BY <3>1, <3>2, <3>3
  <2>2. each \in Seq(G)
    <3>1. PICK n \in Nat : DOMAIN job[task].sources = 1..n
      BY <1>1
    <3>2. DOMAIN each = 1..n /\ each = [i \in 1..n |-> each[i]]
      BY <3>1
    <3> HIDE DEF G, each
    <3> QED
      BY <2>1, <3>1, <3>2
  <2>3. <<>> \in G /\ G \in SUBSET Seq(S) /\ \A p, q \in G : p \o q \in G
    <3> HIDE DEF S
    <3>1. <<>> \in G
      BY DEF Leads
    <3>2. \A p, q \in G : p \o q \in G
      BY Joined
    <3> QED
      BY <3>1, <3>2
  <2>4. all \in G
    <3> HIDE DEF G, each, S
    <3> QED
      BY <2>2, <2>3, FlattenClosed
  <2>5. Second(r) \in ToSet(all)
    <3>1. PICK i \in DOMAIN job[task].sources : job[task].sources[i] = "rynn"
      BY <1>5 DEF SourcesOf, ToSet
    <3>2. "rynn" \in Sources
      BY DEF Sources, Snapshots
    <3>3. Second(r) \in ToSet(each[i]) /\ i \in DOMAIN each
      BY <3>1, <3>2, StepsOfOrdered
    <3> HIDE DEF each, S
    <3>4. ToSet(each[i]) \subseteq ToSet(FlattenSeq(each))
      BY <1>2, <3>3, FlattenHolds
    <3> QED
      BY <3>3, <3>4
  <2> HIDE DEF all, S
  <2> QED
    BY <1>3, <1>5, <2>4, <2>5, AssignedOrdered
<1> QED
  BY <1>4, <1>5

(* The vocabulary of the publication, expanded from here on.               *)
USE NamesAssumption DEF queue, results, files, threads, DatasetOf, Manual, Terminal, LockFree,
   NoPub, Idle, HasSnapshot, Snapshots, Natives, Sources, Versions

(* Which actions change which variable.                                    *)
LEMMA Changes ==
  ASSUME Next
  PROVE  /\ UNCHANGED job
         /\ UNCHANGED up \/ (\E j \in Jobs : CrashInLaunch(j)) \/ Crash
             \/ Restart
         /\ UNCHANGED created \/ (\E j \in Jobs : StartManual(j))
             \/ (\E j \in Jobs : StartRewardVersion(j))
             \/ (\E r \in Runs : ScheduleFirstSnapshot(r))
         /\ UNCHANGED status \/ (\E j \in Jobs : StartManual(j))
             \/ (\E j \in Jobs : StartRewardVersion(j))
             \/ (\E j \in Jobs : CompleteJob(j))
             \/ (\E j \in Jobs : FailJob(j))
             \/ (\E j \in Jobs : CrashInLaunch(j)) \/ Dispatch
         /\ UNCHANGED pending \/ (\E j \in Jobs : StartManual(j))
             \/ (\E j \in Jobs : StartRewardVersion(j))
             \/ (\E d \in {DatasetOf(j) : j \in Jobs} \ {NoDataset} : DeleteDataset(d))
             \/ Select \/ Dispatch \/ PollIndex \/ Restart
         /\ UNCHANGED work \/ (\E j \in Jobs : StartManual(j))
             \/ (\E j \in Jobs : StartRewardVersion(j))
         /\ UNCHANGED sealed \/ (\E j \in Jobs : SealVersion(j))
         /\ UNCHANGED versions \/ (\E j \in Jobs : StartRewardVersion(j))
             \/ (\E j \in Jobs : CrashInLaunch(j))
             \/ (\E d \in {DatasetOf(j) : j \in Jobs} \ {NoDataset} : DeleteDataset(d))
             \/ Select \/ Dispatch \/ PollVersions \/ Restart
         /\ UNCHANGED finished \/ (\E j \in Jobs : CompleteJob(j))
             \/ (\E j \in Jobs : FailJob(j))
         /\ UNCHANGED binding \/ PublishEnd \/ PublishFail
         /\ UNCHANGED gone
             \/ (\E d \in {DatasetOf(j) : j \in Jobs} \ {NoDataset} : DeleteDataset(d))
         /\ UNCHANGED tasks \/ (\E j \in Jobs : CrashInLaunch(j))
             \/ (\E r \in Runs : ScheduleFirstSnapshot(r))
             \/ (\E d \in {DatasetOf(j) : j \in Jobs} \ {NoDataset} : DeleteDataset(d))
             \/ Select \/ Dispatch \/ PollSchedule \/ Crash \/ Restart
         /\ UNCHANGED selected \/ (\E j \in Jobs : CrashInLaunch(j)) \/ Select
             \/ GiveUp \/ Dispatch \/ Crash
         /\ UNCHANGED publisher \/ (\E j \in Jobs : CrashInLaunch(j))
             \/ Dispatch \/ PublishSkip \/ PublishArrays \/ PublishPointer
             \/ PublishValues \/ PublishMeta \/ PublishEnd \/ PublishFail
             \/ Crash
         /\ UNCHANGED snapshot \/ (\E r \in Runs : Touch(r)) \/ PublishSkip
             \/ PublishPointer \/ RefreshWrite
         /\ UNCHANGED arrays \/ PublishArrays
         /\ UNCHANGED native \/ PublishValues \/ PublishMeta
         /\ UNCHANGED client \/ (\E j \in Jobs : PollRead(j))
             \/ (\E j \in Jobs : CrashInLaunch(j))
             \/ (\E r \in Runs : PinRecord(r))
             \/ (\E r \in Runs, s \in Snapshots : RefreshRead(r, s))
             \/ PollIndex \/ PollVersions \/ PollSchedule \/ RefreshWrite
             \/ PinCopy \/ PinPackage \/ PinDone \/ Crash
         /\ UNCHANGED torn \/ (\E j \in Jobs : CrashInLaunch(j))
         /\ UNCHANGED stalled \/ Dispatch
<1> USE DEF queue, results, files, threads
<1>1. ASSUME NEW j \in Jobs, StartManual(j)
      PROVE  UNCHANGED <<job, up, sealed, versions, finished, binding, gone, tasks,
             selected, publisher, snapshot, arrays, native, client, torn, stalled>>
  BY <1>1 DEF StartManual, Enqueue
<1>2. ASSUME NEW j \in Jobs, StartRewardVersion(j)
      PROVE  UNCHANGED <<job, up, sealed, finished, binding, gone, tasks, selected,
             publisher, snapshot, arrays, native, client, torn, stalled>>
  BY <1>2 DEF StartRewardVersion, Launchable, Enqueue
<1>3. ASSUME NEW j \in Jobs, SealVersion(j)
      PROVE  UNCHANGED <<job, up, created, status, pending, work, versions, finished,
             binding, gone, tasks, selected, publisher, snapshot, arrays, native, client, torn,
             stalled>>
  BY <1>3 DEF SealVersion
<1>4. ASSUME NEW j \in Jobs, CompleteJob(j)
      PROVE  UNCHANGED <<job, up, created, pending, work, sealed, versions, binding, gone,
             tasks, selected, publisher, snapshot, arrays, native, client, torn, stalled>>
  BY <1>4 DEF CompleteJob, EndJob
<1>5. ASSUME NEW j \in Jobs, FailJob(j)
      PROVE  UNCHANGED <<job, up, created, pending, work, sealed, versions, binding, gone,
             tasks, selected, publisher, snapshot, arrays, native, client, torn, stalled>>
  BY <1>5 DEF FailJob, EndJob
<1>6. ASSUME NEW j \in Jobs, PollRead(j)
      PROVE  UNCHANGED <<job, up, created, status, pending, work, sealed, versions,
             finished, binding, gone, tasks, selected, publisher, snapshot, arrays, native,
             torn, stalled>>
  BY <1>6 DEF PollRead
<1>7. ASSUME NEW j \in Jobs, CrashInLaunch(j)
      PROVE  UNCHANGED <<job, created, pending, work, sealed, finished, binding, gone,
             snapshot, arrays, native, stalled>>
  BY <1>7 DEF CrashInLaunch, Launchable, Died
<1>8. ASSUME NEW r \in Runs, ScheduleFirstSnapshot(r)
      PROVE  UNCHANGED <<job, up, status, pending, work, sealed, versions, finished,
             binding, gone, selected, publisher, snapshot, arrays, native, client, torn,
             stalled>>
  BY <1>8 DEF ScheduleFirstSnapshot
<1>9. ASSUME NEW r \in Runs, PinRecord(r)
      PROVE  UNCHANGED <<job, up, created, status, pending, work, sealed, versions,
             finished, binding, gone, tasks, selected, publisher, snapshot, arrays, native,
             torn, stalled>>
  BY <1>9 DEF PinRecord
<1>10. ASSUME NEW r \in Runs, Touch(r)
      PROVE  UNCHANGED <<job, up, created, status, pending, work, sealed, versions,
             finished, binding, gone, tasks, selected, publisher, arrays, native, client, torn,
             stalled>>
  BY <1>10 DEF Touch
<1>11. ASSUME NEW r \in Runs, NEW s \in Snapshots, RefreshRead(r, s)
      PROVE  UNCHANGED <<job, up, created, status, pending, work, sealed, versions,
             finished, binding, gone, tasks, selected, publisher, snapshot, arrays, native,
             torn, stalled>>
  BY <1>11 DEF RefreshRead
<1>12. ASSUME NEW d \in {DatasetOf(j) : j \in Jobs} \ {NoDataset}, DeleteDataset(d)
      PROVE  UNCHANGED <<job, up, created, status, work, sealed, finished, binding,
             selected, publisher, snapshot, arrays, native, client, torn, stalled>>
  BY <1>12 DEF DeleteDataset, Reconciled, Recorded, Busy, Unbound
<1>13. ASSUME Select
      PROVE  UNCHANGED <<job, up, created, status, work, sealed, finished, binding, gone,
             publisher, snapshot, arrays, native, client, torn, stalled>>
  BY <1>13 DEF Select, Reconciled, Overdue, Waiting, Unbound
<1>14. ASSUME GiveUp
      PROVE  UNCHANGED <<job, up, created, status, pending, work, sealed, versions,
             finished, binding, gone, tasks, publisher, snapshot, arrays, native, client, torn,
             stalled>>
  BY <1>14 DEF GiveUp
<1>15. ASSUME Dispatch
      PROVE  UNCHANGED <<job, up, created, work, sealed, finished, binding, gone, snapshot,
             arrays, native, client, torn>>
  BY <1>15 DEF Dispatch, Reconciled, Overdue, LeaseFree, Unbound
<1>16. ASSUME PublishSkip
      PROVE  UNCHANGED <<job, up, created, status, pending, work, sealed, versions,
             finished, binding, gone, tasks, selected, arrays, native, client, torn, stalled>>
  BY <1>16 DEF PublishSkip, Publishing
<1>17. ASSUME PublishArrays
      PROVE  UNCHANGED <<job, up, created, status, pending, work, sealed, versions,
             finished, binding, gone, tasks, selected, snapshot, native, client, torn,
             stalled>>
  BY <1>17 DEF PublishArrays, Pick, Publishing, Destination
<1>18. ASSUME PublishPointer
      PROVE  UNCHANGED <<job, up, created, status, pending, work, sealed, versions,
             finished, binding, gone, tasks, selected, arrays, native, client, torn, stalled>>
  BY <1>18 DEF PublishPointer, Point, Publishing, Destination
<1>19. ASSUME PublishValues
      PROVE  UNCHANGED <<job, up, created, status, pending, work, sealed, versions,
             finished, binding, gone, tasks, selected, snapshot, arrays, client, torn,
             stalled>>
  BY <1>19 DEF PublishValues, Pick, Publishing
<1>20. ASSUME PublishMeta
      PROVE  UNCHANGED <<job, up, created, status, pending, work, sealed, versions,
             finished, binding, gone, tasks, selected, snapshot, arrays, client, torn,
             stalled>>
  BY <1>20 DEF PublishMeta, Point, Publishing, Describe
<1>21. ASSUME PublishEnd
      PROVE  UNCHANGED <<job, up, created, status, pending, work, sealed, versions,
             finished, gone, tasks, selected, snapshot, arrays, native, client, torn, stalled>>
  BY <1>21 DEF PublishEnd, Bind
<1>22. ASSUME PublishFail
      PROVE  UNCHANGED <<job, up, created, status, pending, work, sealed, versions,
             finished, gone, tasks, selected, snapshot, arrays, native, client, torn, stalled>>
  BY <1>22 DEF PublishFail, Bind
<1>23. ASSUME PollIndex
      PROVE  UNCHANGED <<job, up, created, status, work, sealed, versions, finished,
             binding, gone, tasks, selected, publisher, snapshot, arrays, native, torn,
             stalled>>
  BY <1>23 DEF PollIndex
<1>24. ASSUME PollVersions
      PROVE  UNCHANGED <<job, up, created, status, pending, work, sealed, finished,
             binding, gone, tasks, selected, publisher, snapshot, arrays, native, torn,
             stalled>>
  BY <1>24 DEF PollVersions
<1>25. ASSUME PollSchedule
      PROVE  UNCHANGED <<job, up, created, status, pending, work, sealed, versions,
             finished, binding, gone, selected, publisher, snapshot, arrays, native, torn,
             stalled>>
  BY <1>25 DEF PollSchedule, Unbound
<1>26. ASSUME RefreshWrite
      PROVE  UNCHANGED <<job, up, created, status, pending, work, sealed, versions,
             finished, binding, gone, tasks, selected, publisher, arrays, native, torn,
             stalled>>
  BY <1>26 DEF RefreshWrite, Unchanged
<1>27. ASSUME PinCopy
      PROVE  UNCHANGED <<job, up, created, status, pending, work, sealed, versions,
             finished, binding, gone, tasks, selected, publisher, snapshot, arrays, native,
             torn, stalled>>
  BY <1>27 DEF PinCopy, Accepts
<1>28. ASSUME PinPackage
      PROVE  UNCHANGED <<job, up, created, status, pending, work, sealed, versions,
             finished, binding, gone, tasks, selected, publisher, snapshot, arrays, native,
             torn, stalled>>
  BY <1>28 DEF PinPackage
<1>29. ASSUME PinDone
      PROVE  UNCHANGED <<job, up, created, status, pending, work, sealed, versions,
             finished, binding, gone, tasks, selected, publisher, snapshot, arrays, native,
             torn, stalled>>
  BY <1>29 DEF PinDone
<1>30. ASSUME Crash
      PROVE  UNCHANGED <<job, created, status, pending, work, sealed, versions, finished,
             binding, gone, snapshot, arrays, native, torn, stalled>>
  BY <1>30 DEF Crash, Died
<1>31. ASSUME Restart
      PROVE  UNCHANGED <<job, created, status, work, sealed, finished, binding, gone,
             selected, publisher, snapshot, arrays, native, client, torn, stalled>>
  BY <1>31 DEF Restart, Reconciled, Recorded, Unbound
<1> HIDE DEF queue, results, files, threads
<1> QED
  BY <1>1, <1>2, <1>3, <1>4, <1>5, <1>6, <1>7, <1>8, <1>9, <1>10, <1>11,
      <1>12, <1>13, <1>14, <1>15, <1>16, <1>17, <1>18, <1>19, <1>20, <1>21,
      <1>22, <1>23, <1>24, <1>25, <1>26, <1>27, <1>28, <1>29, <1>30, <1>31
  DEF Next, Runner, Publisher, Client

(* The parameters of a job.                                                *)
LEMMA SourcesTyped ==
  ASSUME job \in JobSpecs, NEW j \in Jobs
  PROVE  /\ job[j].sources \in Seq(Sources) /\ job[j].overwrite \in BOOLEAN
         /\ SourcesOf(j) \subseteq Sources
<1>1. job[j].sources \in Seq(Sources) /\ job[j].overwrite \in BOOLEAN
  BY JobSpecsAssumption
<1> QED
  BY <1>1 DEF SourcesOf, ToSet

(* What reconciling does to the index, the versions and the queue.         *)
LEMMA ReconciledTyped ==
  ASSUME JobsShape, ResultsShape, NEW S \in SUBSET Jobs, NEW taken, Reconciled(S, taken)
  PROVE  /\ pending' \in SUBSET pending
         /\ versions' \in [Jobs -> [Sources -> Versions]]
         /\ tasks' \in SUBSET (tasks \cup {j \in S : status[j] = "completed"})
<1>1. ASSUME NEW j \in Jobs PROVE Published(j, status[j]) \in [Sources -> Versions]
  BY DEF Published, Summary, ResultsShape, Versions
<1> QED
  BY <1>1 DEF Reconciled, Unbound, JobsShape, ResultsShape

(* What is selected waits to be started, and has been registered.          *)
LEMMA SelectedWaits ==
  ASSUME JobsShape, ResultsShape, TasksInv, JobsInv, Select
  PROVE  /\ selected' \in ToSet(created)
         /\ selected' \in tasks' \/ (selected' \in Jobs /\ status[selected'] = "queued")
<1> DEFINE entries == (Waiting \ Overdue) \cup tasks'
<1>1. /\ Overdue \in SUBSET Jobs /\ Waiting \in SUBSET Jobs
      /\ \A j \in Waiting : status[j] = "queued"
      /\ entries # {} /\ selected' = Oldest(entries)
  BY DEF Select, Overdue, Waiting, JobsShape
<1>2. tasks' \in SUBSET (tasks \cup {j \in Overdue : status[j] = "completed"})
  BY <1>1, ReconciledTyped DEF Select
<1>3. entries \subseteq ToSet(created)
  BY <1>1, <1>2 DEF TasksInv, JobsInv
<1>4. selected' \in entries
  <2> HIDE DEF entries
  <2> QED
    BY <1>1, <1>3, OldestOf DEF JobsShape
<1> QED
  BY <1>1, <1>3, <1>4

(* A pointer whose observations have been touched, or validated again.     *)
LEMMA Refreshed ==
  ASSUME NEW p \in Pointers, NEW b \in BOOLEAN
  PROVE  /\ [p EXCEPT !.fresh = b] \in Pointers
         /\ [p EXCEPT !.fresh = b].by = p.by /\ [p EXCEPT !.fresh = b].file = p.file
  BY DEF Pointers

(* The step of a publication.                                              *)
LEMMA StepTyped ==
  ASSUME PublisherInv, publisher # NoPub, publisher.todo # <<>>
  PROVE  /\ Step \in StepsFor(publisher.task) /\ Step[2] \in Runs
         /\ Step[1] # "native" => Step[3] \in Snapshots
         /\ Step[1] = "native" => Step[3] \in Natives /\ publisher.task \in Jobs
         /\ Step[1] = "snapshot" => MayReplace(publisher.task)
         /\ Tail(publisher.todo) \in Seq(StepsFor(publisher.task))
<1>1. publisher.todo \in Seq(StepsFor(publisher.task))
  BY DEF PublisherInv, Publication
<1>2. /\ Step \in StepsFor(publisher.task)
      /\ Tail(publisher.todo) \in Seq(StepsFor(publisher.task))
  <2> HIDE DEF StepsFor
  <2> QED
    BY <1>1, HeadTailProperties DEF Step
<1> QED
  BY <1>2 DEF StepsFor

(* The result that a step has chosen is the result of a job.               *)
LEMMA PickTyped ==
  ASSUME PublicationIInv, NEW kinds, Pick(kinds)
  PROVE  publisher'.pick \in Jobs
<1> USE DEF PublicationIInv
<1> DEFINE kind == Step[1]
           s == Step[3]
<1>1. publisher \in Publication /\ publisher'.pick = ResultFor(kind, s)
  BY DEF Pick, Publishing, PublisherInv, Publication
<1>2. ASSUME Candidates(s) # {}
      PROVE  FirstResult(s) \in Jobs
  <2>1. \A j \in Candidates(s) : j \in ToSet(finished)
    <3>1. Step[3] \in Sources
      BY StepTyped DEF Pick, Publishing
    <3> QED
      BY <3>1 DEF Candidates, HasVersion, CompositeTogether, JobsInv
  <2> QED
    BY <1>2, <2>1, FirstCandidate DEF JobsShape, Candidates
<1>3. CASE kind = "first"
  <2>1. Candidates(s) # {}
    BY <1>3 DEF Pick, SkipStep
  <2> QED
    BY <1>1, <1>2, <1>3, <2>1 DEF ResultFor
<1>4. CASE kind # "first"
  <2>1. publisher.task \in Jobs
    BY <1>1, <1>4, StepTyped DEF Pick, Publishing, MayReplace, StepsFor
  <2> QED
    BY <1>1, <1>2, <1>4, <2>1 DEF ResultFor
<1> QED
  BY <1>3, <1>4

(* Whether the backend runs, and what has happened, is true or false.      *)
LEMMA FlagsOKStep ==
  ASSUME PublicationIInv, Next
  PROVE  FlagsOK'
<1> USE DEF PublicationIInv
<1>1. CASE UNCHANGED <<up, torn, stalled>>
  BY <1>1 DEF FlagsOK
<1>2. ASSUME NEW j \in Jobs, CrashInLaunch(j)
      PROVE  FlagsOK'
  BY <1>2 DEF CrashInLaunch, Launchable, Died, FlagsOK
<1>3. ASSUME Dispatch
      PROVE  FlagsOK'
  BY <1>3 DEF Dispatch, Reconciled, Overdue, LeaseFree, Unbound, FlagsOK
<1>4. ASSUME Crash
      PROVE  FlagsOK'
  BY <1>4 DEF Crash, Died, FlagsOK
<1>5. ASSUME Restart
      PROVE  FlagsOK'
  BY <1>5 DEF Restart, Reconciled, Recorded, Unbound, FlagsOK
<1> QED
  BY Changes, <1>1, <1>2, <1>3, <1>4, <1>5

(* Jobs, the index and the queue keep their types.                         *)
LEMMA JobsShapeStep ==
  ASSUME PublicationIInv, Next
  PROVE  JobsShape'
<1> USE DEF PublicationIInv
<1>1. CASE UNCHANGED <<job, status, created, finished, pending, work, tasks, selected, gone>>
  BY <1>1 DEF JobsShape
<1>2. ASSUME NEW j \in Jobs, StartManual(j)
      PROVE  JobsShape'
  <2>1. Unevaluated(j) \in SUBSET (Runs \X Sources)
    BY SourcesTyped DEF JobsShape, Unevaluated
  <2>2. Append(created, j) \in Seq(Jobs \cup Runs)
    BY Appended DEF JobsShape
  <2> QED
    BY <1>2, <2>1, <2>2 DEF StartManual, Enqueue, JobsShape, Statuses
<1>3. ASSUME NEW j \in Jobs, StartRewardVersion(j)
      PROVE  JobsShape'
  <2>1. Runs \X SourcesOf(j) \in SUBSET (Runs \X Sources)
    BY SourcesTyped DEF JobsShape
  <2>2. Append(created, j) \in Seq(Jobs \cup Runs)
    BY Appended DEF JobsShape
  <2> QED
    BY <1>3, <2>1, <2>2 DEF StartRewardVersion, Enqueue, JobsShape, Statuses
<1>4. ASSUME NEW j \in Jobs, CompleteJob(j)
      PROVE  JobsShape'
  <2>1. Append(finished, j) \in Seq(Jobs)
    BY Appended DEF JobsShape
  <2> QED
    BY <1>4, <2>1 DEF CompleteJob, EndJob, JobsShape, Statuses
<1>5. ASSUME NEW j \in Jobs, FailJob(j)
      PROVE  JobsShape'
  <2>1. Append(finished, j) \in Seq(Jobs)
    BY Appended DEF JobsShape
  <2> QED
    BY <1>5, <2>1 DEF FailJob, EndJob, JobsShape, Statuses
<1>6. ASSUME NEW j \in Jobs, CrashInLaunch(j)
      PROVE  JobsShape'
  BY <1>6 DEF CrashInLaunch, Died, JobsShape, Statuses
<1>7. ASSUME NEW r \in Runs, ScheduleFirstSnapshot(r)
      PROVE  JobsShape'
  <2>1. Append(created, r) \in Seq(Jobs \cup Runs)
    BY Appended DEF JobsShape
  <2> QED
    BY <1>7, <2>1 DEF ScheduleFirstSnapshot, JobsShape
<1>8. ASSUME NEW d \in {DatasetOf(j) : j \in Jobs} \ {NoDataset}, DeleteDataset(d)
      PROVE  JobsShape'
  <2>1. Recorded \in SUBSET Jobs
    BY DEF Recorded
  <2>2. pending' \in SUBSET pending /\ tasks' \in SUBSET (tasks \cup Jobs)
    BY <1>8, <2>1, ReconciledTyped DEF DeleteDataset
  <2> QED
    BY <1>8, <2>2 DEF DeleteDataset, JobsShape
<1>9. ASSUME Select
      PROVE  JobsShape'
  <2>1. Overdue \in SUBSET Jobs
    BY DEF Overdue, JobsShape
  <2>2. pending' \in SUBSET pending /\ tasks' \in SUBSET (tasks \cup Jobs)
    BY <1>9, <2>1, ReconciledTyped DEF Select
  <2>3. selected' \in Jobs \cup Runs
    BY <1>9, SelectedWaits DEF JobsShape, ToSet
  <2> QED
    BY <1>9, <2>2, <2>3 DEF Select, JobsShape
<1>10. ASSUME GiveUp
      PROVE  JobsShape'
  BY <1>10 DEF GiveUp, JobsShape
<1>11. ASSUME Dispatch
      PROVE  JobsShape'
  <2>1. Overdue \in SUBSET Jobs
    BY DEF Overdue, JobsShape
  <2>2. pending' \in SUBSET pending /\ tasks' \in SUBSET (tasks \cup Jobs)
    BY <1>11, <2>1, ReconciledTyped DEF Dispatch
  <2>3. status' \in [Jobs -> Statuses]
    BY <1>11 DEF Dispatch, JobsShape, Statuses
  <2> QED
    BY <1>11, <2>2, <2>3 DEF Dispatch, JobsShape
<1>12. ASSUME PollIndex
      PROVE  JobsShape'
  BY <1>12 DEF PollIndex, JobsShape, ClientInv, Polls
<1>13. ASSUME PollSchedule
      PROVE  JobsShape'
  BY <1>13 DEF PollSchedule, JobsShape, ClientInv, Polls
<1>14. ASSUME Crash
      PROVE  JobsShape'
  BY <1>14 DEF Crash, Died, JobsShape
<1>15. ASSUME Restart
      PROVE  JobsShape'
  <2>1. Recorded \in SUBSET Jobs
    BY DEF Recorded
  <2>2. pending' \in SUBSET pending /\ tasks' \in SUBSET (tasks \cup Jobs)
    BY <1>15, <2>1, ReconciledTyped DEF Restart
  <2> QED
    BY <1>15, <2>2 DEF Restart, JobsShape
<1> QED
  BY Changes, <1>1, <1>2, <1>3, <1>4, <1>5, <1>6, <1>7, <1>8, <1>9, <1>10,
      <1>11, <1>12, <1>13, <1>14, <1>15

(* So do versions, their seals and what was published.                     *)
LEMMA ResultsShapeStep ==
  ASSUME PublicationIInv, Next
  PROVE  ResultsShape'
<1> USE DEF PublicationIInv
<1>1. CASE UNCHANGED <<sealed, versions, binding>>
  BY <1>1 DEF ResultsShape
<1>2. ASSUME NEW j \in Jobs, StartRewardVersion(j)
      PROVE  ResultsShape'
  BY <1>2 DEF StartRewardVersion, ResultsShape, Versions
<1>3. ASSUME NEW j \in Jobs, SealVersion(j)
      PROVE  ResultsShape'
  <2>1. Cardinality(sealed[j]) \in Nat
    <3>1. Sources = {"rynn", "final", "robo"}
      BY DEF Sources, Snapshots, Natives
    <3>2. IsFiniteSet(Sources)
      <4>1. IsFiniteSet({"rynn"})
        BY FS_Singleton
      <4>2. IsFiniteSet({"rynn"} \cup {"final"})
        BY <4>1, FS_AddElement
      <4>3. IsFiniteSet(({"rynn"} \cup {"final"}) \cup {"robo"})
        BY <4>2, FS_AddElement
      <4> QED
        BY <3>1, <4>3
    <3> QED
      BY <3>2, FS_Subset, FS_CardinalityType DEF ResultsShape
  <2>2. job[j].sources[Cardinality(sealed[j]) + 1] \in Sources
    BY <1>3, <2>1, SourcesTyped DEF SealVersion, JobsShape
  <2> QED
    BY <1>3, <2>2 DEF SealVersion, ResultsShape
<1>4. ASSUME NEW j \in Jobs, CrashInLaunch(j)
      PROVE  ResultsShape'
  BY <1>4 DEF CrashInLaunch, ResultsShape, Versions
<1>5. ASSUME NEW d \in {DatasetOf(j) : j \in Jobs} \ {NoDataset}, DeleteDataset(d)
      PROVE  ResultsShape'
  BY <1>5, ReconciledTyped DEF DeleteDataset, Recorded, ResultsShape
<1>6. ASSUME Select
      PROVE  ResultsShape'
  BY <1>6, ReconciledTyped DEF Select, Overdue, JobsShape, ResultsShape
<1>7. ASSUME Dispatch
      PROVE  ResultsShape'
  BY <1>7, ReconciledTyped DEF Dispatch, Overdue, JobsShape, ResultsShape
<1>8. ASSUME PublishEnd
      PROVE  ResultsShape'
  BY <1>8 DEF PublishEnd, Bind, ResultsShape
<1>9. ASSUME PublishFail
      PROVE  ResultsShape'
  BY <1>9 DEF PublishFail, Bind, ResultsShape
<1>10. ASSUME PollVersions
      PROVE  ResultsShape'
  <2>1. client.job \in Jobs /\ Published(client.job, client.seen) \in [Sources -> Versions]
    BY <1>10 DEF PollVersions, ClientInv, Polls, Published, Summary, ResultsShape, Versions
  <2> QED
    BY <1>10, <2>1 DEF PollVersions, ResultsShape
<1>11. ASSUME Restart
      PROVE  ResultsShape'
  BY <1>11, ReconciledTyped DEF Restart, Recorded, ResultsShape
<1> QED
  BY Changes, <1>1, <1>2, <1>3, <1>4, <1>5, <1>6, <1>7, <1>8, <1>9, <1>10,
      <1>11

(* Pointers point to jobs, and an array file holds what it is named by.    *)
LEMMA FilesShapeStep ==
  ASSUME PublicationIInv, Next
  PROVE  FilesShape'
<1> USE DEF PublicationIInv
<1>1. CASE UNCHANGED <<snapshot, arrays>>
  BY <1>1 DEF FilesShape
<1>2. ASSUME NEW r \in Runs, Touch(r)
      PROVE  FilesShape'
  <2>1. snapshot' = [snapshot EXCEPT ![r] = [s \in Snapshots |->
                        IF snapshot[r][s] = None THEN None
                        ELSE [snapshot[r][s] EXCEPT !.fresh = FALSE]]]
    BY <1>2 DEF Touch
  <2>2. ASSUME NEW s \in Snapshots, snapshot[r][s] # None
        PROVE  [snapshot[r][s] EXCEPT !.fresh = FALSE] \in Pointers
    <3>1. snapshot[r][s] \in Pointers
      BY <2>2 DEF FilesShape
    <3> QED
      BY <3>1, Refreshed
  <2>3. UNCHANGED arrays
    BY <1>2 DEF Touch
  <2> QED
    BY <2>1, <2>2, <2>3 DEF FilesShape
<1>3. ASSUME PublishSkip
      PROVE  FilesShape'
  <2>1. Step[2] \in Runs /\ (Step[1] = "first" => Step[3] \in Snapshots)
    BY <1>3, StepTyped DEF PublishSkip, Publishing
  <2>2. CASE Step[1] = "first" /\ HasSnapshot(Step[2], Step[3])
    <3>1. [snapshot[Step[2]][Step[3]] EXCEPT !.fresh = TRUE] \in Pointers
      <4>1. snapshot[Step[2]][Step[3]] \in Pointers
        BY <2>1, <2>2 DEF FilesShape
      <4> QED
        BY <4>1, Refreshed
    <3>2. /\ snapshot' = [snapshot EXCEPT ![Step[2]][Step[3]] =
                            [snapshot[Step[2]][Step[3]] EXCEPT !.fresh = TRUE]]
          /\ UNCHANGED arrays
      BY <1>3, <2>2 DEF PublishSkip
    <3> QED
      BY <2>1, <2>2, <3>1, <3>2 DEF FilesShape
  <2>3. CASE ~(Step[1] = "first" /\ HasSnapshot(Step[2], Step[3]))
    BY <1>3, <2>3 DEF PublishSkip, FilesShape
  <2> QED
    BY <2>2, <2>3
<1>4. ASSUME PublishArrays
      PROVE  FilesShape'
  <2> DEFINE r == Step[2]
             s == Step[3]
             new == publisher'.pick
  <2>1. r \in Runs /\ s \in Snapshots
    BY <1>4, StepTyped DEF PublishArrays, Pick, Publishing
  <2>2. new \in Jobs
    BY <1>4, PickTyped DEF PublishArrays
  <2>3. PICK D \in SUBSET Jobs : arrays[r][s] = [f \in D |-> f]
    <3>1. arrays[r][s] \in Stores
      <4> HIDE DEF r, s
      <4> QED
        BY <2>1 DEF FilesShape
    <3> QED
      BY <3>1 DEF Stores
  <2>4. /\ arrays' = [arrays EXCEPT ![r][s] = [f \in DOMAIN arrays[r][s] \cup {new} |->
                                                IF f = new THEN new ELSE arrays[r][s][f]]]
        /\ UNCHANGED snapshot
    BY <1>4 DEF PublishArrays, Destination
  <2>5. [f \in DOMAIN arrays[r][s] \cup {new} |-> IF f = new THEN new ELSE arrays[r][s][f]]
        = [f \in D \cup {new} |-> f]
    <3> HIDE DEF r, s, new
    <3> QED
      BY <2>3
  <2>6. [f \in D \cup {new} |-> f] \in Stores
    BY <2>2 DEF Stores
  <2> QED
    BY <2>1, <2>4, <2>5, <2>6 DEF FilesShape
<1>5. ASSUME PublishPointer
      PROVE  FilesShape'
  <2>1. Step[2] \in Runs /\ Step[3] \in Snapshots
    BY <1>5, StepTyped DEF PublishPointer, Point, Publishing
  <2>2. publisher.pick \in Jobs
    BY <1>5 DEF PublishPointer, Point, Publishing, PublisherInv, Publication
  <2> QED
    BY <1>5, <2>1, <2>2 DEF PublishPointer, Destination, FilesShape, Pointers
<1>6. ASSUME RefreshWrite
      PROVE  FilesShape'
  <2>1. CASE ~Unchanged(client)
    BY <1>6, <2>1 DEF RefreshWrite, FilesShape
  <2>2. CASE Unchanged(client)
    <3>1. /\ client.run \in Runs /\ client.source \in Snapshots
          /\ [client.original EXCEPT !.fresh = TRUE] \in Pointers
      BY <1>6 DEF RefreshWrite, ClientInv, Refreshes, Pointers
    <3>2. /\ snapshot' = [snapshot EXCEPT ![client.run][client.source] =
                            [client.original EXCEPT !.fresh = TRUE]]
          /\ UNCHANGED arrays
      BY <1>6, <2>2 DEF RefreshWrite
    <3> QED
      BY <3>1, <3>2 DEF FilesShape
  <2> QED
    BY <2>1, <2>2
<1> QED
  BY Changes, <1>1, <1>2, <1>3, <1>4, <1>5, <1>6

(* A publication is where it was when no snapshot has appeared.            *)
LEMMA PublisherStays ==
  ASSUME PublisherInv, UNCHANGED <<publisher, arrays, job>>,
         \A r \in Runs, s \in Snapshots : HasSnapshot(r, s)' => HasSnapshot(r, s)
  PROVE  PublisherInv'
<1>1. Publication' = Publication /\ Step' = Step
  BY DEF Publication, Step, StepsFor, MayReplace
<1>2. publisher.pick # None => Step[2] \in Runs /\ (Step[1] = "first" => Step[3] \in Snapshots)
  BY StepTyped DEF PublisherInv
<1> QED
  BY <1>1, <1>2 DEF PublisherInv

(* A publication that has done a step, or left it out.                     *)
LEMMA StepTaken ==
  ASSUME PublisherInv, publisher # NoPub, publisher.todo # <<>>, UNCHANGED job,
         \/ publisher' = [publisher EXCEPT !.todo = Tail(publisher.todo), !.pick = None]
         \/ publisher.pick = None /\ publisher' = [publisher EXCEPT !.todo = Tail(publisher.todo)]
  PROVE  PublisherInv'
<1>1. /\ publisher \in [task : Jobs \cup Runs, todo : Seq(StepsFor(publisher.task)),
                       pick : Jobs \cup {None}]
      /\ Tail(publisher.todo) \in Seq(StepsFor(publisher.task))
  BY StepTyped DEF PublisherInv, Publication
<1>2. /\ publisher' \in [task : Jobs \cup Runs, todo : Seq(StepsFor(publisher'.task)),
                        pick : Jobs \cup {None}]
      /\ publisher'.pick = None
  <2> HIDE DEF StepsFor
  <2> QED
    BY <1>1
<1>3. publisher' \in Publication'
  BY <1>2 DEF Publication, StepsFor, MayReplace
<1> QED
  BY <1>2, <1>3 DEF PublisherInv

(* A publication goes on with what it may do: nothing preserves a first    *)
(* result beside a snapshot.                                               *)
LEMMA PublisherInvStep ==
  ASSUME PublicationIInv, Next
  PROVE  PublisherInv'
<1> USE DEF PublicationIInv
<1>1. CASE UNCHANGED <<publisher, arrays, snapshot, job>>
  BY <1>1 DEF PublisherInv, Publication, Step, StepsFor, MayReplace
<1>2. ASSUME NEW j \in Jobs, CrashInLaunch(j)
      PROVE  PublisherInv'
  BY <1>2 DEF CrashInLaunch, Died, PublisherInv
<1>3. ASSUME NEW r \in Runs, Touch(r)
      PROVE  PublisherInv'
  <2>1. UNCHANGED <<publisher, arrays, job>>
    BY <1>3 DEF Touch
  <2>2. \A q \in Runs, s \in Snapshots : HasSnapshot(q, s)' => HasSnapshot(q, s)
    BY <1>3 DEF Touch, FilesShape
  <2> QED
    BY <2>1, <2>2, PublisherStays
<1>4. ASSUME Dispatch
      PROVE  PublisherInv'
  <2>1. CASE UNCHANGED publisher
    BY <1>4, <2>1 DEF Dispatch, PublisherInv, Publication, Step, StepsFor, MayReplace
  <2>2. CASE publisher' = [task |-> selected, todo |-> Plan(selected), pick |-> None]
    <3>1. selected \in Jobs \cup Runs
      BY <1>4 DEF Dispatch, JobsShape
    <3>2. Plan(selected) \in Seq(StepsFor(selected))
      BY <3>1, PlanTyped DEF JobsShape
    <3>3. publisher' \in [task : Jobs \cup Runs, todo : Seq(StepsFor(publisher'.task)),
                         pick : Jobs \cup {None}]
      <4> HIDE DEF StepsFor
      <4> QED
        BY <2>2, <3>1, <3>2
    <3>4. UNCHANGED job
      BY <1>4 DEF Dispatch
    <3>5. publisher' \in Publication'
      BY <3>3, <3>4 DEF Publication, StepsFor, MayReplace
    <3> QED
      BY <2>2, <3>5 DEF PublisherInv
  <2> QED
    BY <1>4, <2>1, <2>2 DEF Dispatch
<1>5. ASSUME PublishSkip
      PROVE  PublisherInv'
  <2>1. /\ publisher # NoPub /\ publisher.todo # <<>> /\ publisher.pick = None /\ UNCHANGED job
        /\ publisher' = [publisher EXCEPT !.todo = Tail(publisher.todo)]
    BY <1>5 DEF PublishSkip, Publishing
  <2> QED
    BY <2>1, StepTaken
<1>6. ASSUME PublishArrays
      PROVE  PublisherInv'
  <2> DEFINE new == publisher'.pick
  <2>1. new \in Jobs
    BY <1>6, PickTyped DEF PublishArrays
  <2>2. /\ publisher \in Publication /\ publisher.todo # <<>>
        /\ publisher' = [publisher EXCEPT !.pick = new]
        /\ Step[1] = "first" => ~HasSnapshot(Step[2], Step[3])
        /\ UNCHANGED <<job, snapshot>>
    BY <1>6 DEF PublishArrays, Pick, Publishing, PublisherInv, Publication, SkipStep
  <2>3. new \in DOMAIN arrays'[Step[2]][Step[3]]
    <3>1. Step[2] \in Runs /\ Step[3] \in Snapshots
      BY <1>6, StepTyped DEF PublishArrays, Pick, Publishing
    <3>2. arrays' = [arrays EXCEPT ![Step[2]][Step[3]] =
                       [f \in DOMAIN arrays[Step[2]][Step[3]] \cup {new} |->
                          IF f = new THEN new ELSE arrays[Step[2]][Step[3]][f]]]
      BY <1>6 DEF PublishArrays, Destination
    <3> HIDE DEF new
    <3> QED
      BY <3>1, <3>2 DEF FilesShape
  <2>4. Step' = Step /\ publisher' \in Publication' /\ publisher'.todo # <<>>
    <3> HIDE DEF new
    <3> QED
      BY <2>1, <2>2 DEF Publication, Step, StepsFor, MayReplace
  <2> HIDE DEF new
  <2> QED
    BY <2>2, <2>3, <2>4 DEF PublisherInv
<1>7. ASSUME PublishPointer
      PROVE  PublisherInv'
  <2>1. /\ publisher # NoPub /\ publisher.todo # <<>> /\ UNCHANGED job
        /\ publisher' = [publisher EXCEPT !.todo = Tail(publisher.todo), !.pick = None]
    BY <1>7 DEF PublishPointer, Point, Publishing
  <2> QED
    BY <2>1, StepTaken
<1>8. ASSUME PublishValues
      PROVE  PublisherInv'
  <2> DEFINE new == publisher'.pick
  <2>1. new \in Jobs
    BY <1>8, PickTyped DEF PublishValues
  <2>2. /\ publisher \in Publication /\ publisher.todo # <<>>
        /\ publisher' = [publisher EXCEPT !.pick = new]
        /\ Step[1] = "native" /\ UNCHANGED job
    BY <1>8 DEF PublishValues, Pick, Publishing, PublisherInv, Publication
  <2>3. Step' = Step /\ publisher' \in Publication' /\ publisher'.todo # <<>>
    <3> HIDE DEF new
    <3> QED
      BY <2>1, <2>2 DEF Publication, Step, StepsFor, MayReplace
  <2> QED
    BY <2>2, <2>3 DEF PublisherInv
<1>9. ASSUME PublishMeta
      PROVE  PublisherInv'
  <2>1. /\ publisher # NoPub /\ publisher.todo # <<>> /\ UNCHANGED job
        /\ publisher' = [publisher EXCEPT !.todo = Tail(publisher.todo), !.pick = None]
    BY <1>9 DEF PublishMeta, Point, Publishing
  <2> QED
    BY <2>1, StepTaken
<1>10. ASSUME PublishEnd
      PROVE  PublisherInv'
  BY <1>10 DEF PublishEnd, Bind, PublisherInv
<1>11. ASSUME PublishFail
      PROVE  PublisherInv'
  BY <1>11 DEF PublishFail, Bind, PublisherInv
<1>12. ASSUME RefreshWrite
      PROVE  PublisherInv'
  <2>1. UNCHANGED <<publisher, arrays, job>>
    BY <1>12 DEF RefreshWrite
  <2>2. \A q \in Runs, s \in Snapshots : HasSnapshot(q, s)' => HasSnapshot(q, s)
    BY <1>12 DEF RefreshWrite, FilesShape, ClientInv, Refreshes, Unchanged
  <2> QED
    BY <2>1, <2>2, PublisherStays
<1>13. ASSUME Crash
      PROVE  PublisherInv'
  BY <1>13 DEF Crash, Died, PublisherInv
<1> QED
  BY Changes, <1>1, <1>2, <1>3, <1>4, <1>5, <1>6, <1>7, <1>8, <1>9, <1>10,
      <1>11, <1>12, <1>13

(* A poll has an old status in hand, but a final one is still true; what   *)
(* is pinned is one result.                                                *)
LEMMA ClientInvStep ==
  ASSUME PublicationIInv, Next
  PROVE  ClientInv'
<1> USE DEF PublicationIInv
<1>1. CASE UNCHANGED <<client, status>>
  BY <1>1 DEF ClientInv, PinHonest
<1>2. ASSUME NEW j \in Jobs, StartManual(j)
      PROVE  ClientInv'
  BY <1>2 DEF StartManual, Enqueue, ClientInv, PinHonest, Polls, JobsShape
<1>3. ASSUME NEW j \in Jobs, StartRewardVersion(j)
      PROVE  ClientInv'
  BY <1>3 DEF StartRewardVersion, Launchable, Enqueue, ClientInv, PinHonest, Polls, JobsShape
<1>4. ASSUME NEW j \in Jobs, CompleteJob(j)
      PROVE  ClientInv'
  BY <1>4 DEF CompleteJob, EndJob, ClientInv, PinHonest, Polls, JobsShape
<1>5. ASSUME NEW j \in Jobs, FailJob(j)
      PROVE  ClientInv'
  BY <1>5 DEF FailJob, EndJob, ClientInv, PinHonest, Polls, JobsShape
<1>6. ASSUME NEW j \in Jobs, PollRead(j)
      PROVE  ClientInv'
  <2>1. client' = [kind |-> "poll", job |-> j, seen |-> status[j], step |-> "index"]
    BY <1>6 DEF PollRead
  <2>2. status[j] \in Statuses \ {"none", "lost"} /\ UNCHANGED status
    BY <1>6 DEF PollRead, JobsShape
  <2>3. client' \in Polls
    BY <2>1, <2>2 DEF Polls
  <2> QED
    BY <2>1, <2>2, <2>3 DEF ClientInv, PinHonest
<1>7. ASSUME NEW j \in Jobs, CrashInLaunch(j)
      PROVE  ClientInv'
  BY <1>7 DEF CrashInLaunch, Launchable, Died, ClientInv, PinHonest
<1>8. ASSUME NEW r \in Runs, PinRecord(r)
      PROVE  ClientInv'
  BY <1>8 DEF PinRecord, ClientInv, PinHonest
<1>9. ASSUME NEW r \in Runs, NEW s \in Snapshots, RefreshRead(r, s)
      PROVE  ClientInv'
  <2>1. /\ client' = [kind |-> "refresh", run |-> r, source |-> s, original |-> snapshot[r][s]]
        /\ snapshot[r][s] # None
    BY <1>9 DEF RefreshRead
  <2>2. client' \in Refreshes
    BY <2>1 DEF Refreshes, FilesShape
  <2> QED
    BY <2>1, <2>2 DEF ClientInv, PinHonest
<1>10. ASSUME Dispatch
      PROVE  ClientInv'
  <2>1. UNCHANGED client
    BY <1>10 DEF Dispatch
  <2>2. \A j \in Jobs : status'[j] = status[j] \/ (status[j] = "queued" /\ status'[j] = "running")
    BY <1>10 DEF Dispatch, TasksInv, JobsShape
  <2> QED
    BY <2>1, <2>2 DEF ClientInv, PinHonest, Polls
<1>11. ASSUME PollIndex
      PROVE  ClientInv'
  <2>1. /\ client \in Polls /\ client.kind = "poll"
        /\ client' = [client EXCEPT !.step = "versions"] /\ UNCHANGED status
    BY <1>11 DEF PollIndex, ClientInv
  <2>2. /\ client' \in Polls /\ client'.kind = "poll"
        /\ client'.job = client.job /\ client'.seen = client.seen
    BY <2>1 DEF Polls
  <2> QED
    BY <2>1, <2>2 DEF ClientInv, PinHonest
<1>12. ASSUME PollVersions
      PROVE  ClientInv'
  <2>1. /\ client \in Polls /\ client.kind = "poll" /\ UNCHANGED status
        /\ client' = Idle \/ client' = [client EXCEPT !.step = "schedule"]
    BY <1>12 DEF PollVersions, ClientInv
  <2>2. CASE client' = Idle
    BY <2>2 DEF ClientInv, PinHonest
  <2>3. CASE client' = [client EXCEPT !.step = "schedule"]
    <3>1. /\ client' \in Polls /\ client'.kind = "poll"
          /\ client'.job = client.job /\ client'.seen = client.seen
      BY <2>1, <2>3 DEF Polls
    <3> QED
      BY <2>1, <3>1 DEF ClientInv, PinHonest
  <2> QED
    BY <2>1, <2>2, <2>3
<1>13. ASSUME PollSchedule
      PROVE  ClientInv'
  BY <1>13 DEF PollSchedule, Unbound, ClientInv, PinHonest
<1>14. ASSUME RefreshWrite
      PROVE  ClientInv'
  BY <1>14 DEF RefreshWrite, Unchanged, ClientInv, PinHonest
<1>15. ASSUME PinCopy
      PROVE  ClientInv'
  BY <1>15 DEF PinCopy, Accepts, ClientInv, PinHonest
<1>16. ASSUME PinPackage
      PROVE  ClientInv'
  BY <1>16 DEF PinPackage, ClientInv, PinHonest
<1>17. ASSUME PinDone
      PROVE  ClientInv'
  BY <1>17 DEF PinDone, ClientInv, PinHonest
<1>18. ASSUME Crash
      PROVE  ClientInv'
  BY <1>18 DEF Crash, Died, ClientInv, PinHonest
<1> QED
  BY Changes, <1>1, <1>2, <1>3, <1>4, <1>5, <1>6, <1>7, <1>8, <1>9, <1>10,
      <1>11, <1>12, <1>13, <1>14, <1>15, <1>16, <1>17, <1>18

(* A job that has ended is in the order of completion, its results are     *)
(* sealed, and what waits or runs is in the index.                         *)
LEMMA JobsInvStep ==
  ASSUME PublicationIInv, Next
  PROVE  JobsInv'
<1> USE DEF PublicationIInv
<1>1. CASE UNCHANGED <<status, finished, sealed, binding, pending, created, torn, job>>
  BY <1>1 DEF JobsInv, SourcesOf
<1>2. ASSUME NEW j \in Jobs, StartManual(j)
      PROVE  JobsInv'
  <2>1. ToSet(created') = ToSet(created) \cup {j}
    BY <1>2, Appended DEF StartManual, Enqueue, JobsShape
  <2> QED
    BY <1>2, <2>1 DEF StartManual, Enqueue, JobsInv, JobsShape, ResultsShape, SourcesOf
<1>3. ASSUME NEW j \in Jobs, StartRewardVersion(j)
      PROVE  JobsInv'
  <2>1. ToSet(created') = ToSet(created) \cup {j}
    BY <1>3, Appended DEF StartRewardVersion, Enqueue, JobsShape
  <2> QED
    BY <1>3, <2>1 DEF StartRewardVersion, Launchable, Enqueue, JobsInv, JobsShape, ResultsShape,
       SourcesOf
<1>4. ASSUME NEW j \in Jobs, SealVersion(j)
      PROVE  JobsInv'
  BY <1>4 DEF SealVersion, JobsInv, JobsShape, ResultsShape, SourcesOf
<1>5. ASSUME NEW j \in Jobs, CompleteJob(j)
      PROVE  JobsInv'
  <2>1. ToSet(finished') = ToSet(finished) \cup {j}
    BY <1>5, Appended DEF CompleteJob, EndJob, JobsShape
  <2> QED
    BY <1>5, <2>1 DEF CompleteJob, EndJob, JobsInv, JobsShape, ResultsShape, SourcesOf
<1>6. ASSUME NEW j \in Jobs, FailJob(j)
      PROVE  JobsInv'
  <2>1. ToSet(finished') = ToSet(finished) \cup {j}
    BY <1>6, Appended DEF FailJob, EndJob, JobsShape
  <2> QED
    BY <1>6, <2>1 DEF FailJob, EndJob, JobsInv, JobsShape, ResultsShape, SourcesOf
<1>7. ASSUME NEW j \in Jobs, CrashInLaunch(j)
      PROVE  JobsInv'
  BY <1>7 DEF CrashInLaunch, Launchable, Died, JobsInv, JobsShape, ResultsShape, SourcesOf
<1>8. ASSUME NEW r \in Runs, ScheduleFirstSnapshot(r)
      PROVE  JobsInv'
  <2>1. ToSet(created') = ToSet(created) \cup {r}
    BY <1>8, Appended DEF ScheduleFirstSnapshot, JobsShape
  <2> QED
    BY <1>8, <2>1 DEF ScheduleFirstSnapshot, JobsInv, SourcesOf
<1>9. ASSUME NEW d \in {DatasetOf(j) : j \in Jobs} \ {NoDataset}, DeleteDataset(d)
      PROVE  JobsInv'
  <2>1. \A j \in Jobs : status[j] \in {"queued", "running"} /\ j \in pending => j \in pending'
    BY <1>9 DEF DeleteDataset, Reconciled
  <2>2. UNCHANGED <<status, finished, sealed, binding, created, torn, job>>
    BY <1>9 DEF DeleteDataset
  <2> QED
    BY <2>1, <2>2 DEF JobsInv, SourcesOf
<1>10. ASSUME Select
      PROVE  JobsInv'
  <2>1. \A j \in Jobs : status[j] \in {"queued", "running"} /\ j \in pending => j \in pending'
    BY <1>10 DEF Select, Reconciled
  <2>2. UNCHANGED <<status, finished, sealed, binding, created, torn, job>>
    BY <1>10 DEF Select
  <2> QED
    BY <2>1, <2>2 DEF JobsInv, SourcesOf
<1>11. ASSUME Dispatch
      PROVE  JobsInv'
  <2>1. \A j \in Jobs : status[j] \in {"queued", "running"} /\ j \in pending => j \in pending'
    BY <1>11 DEF Dispatch, Reconciled
  <2>2. UNCHANGED <<finished, sealed, binding, created, torn, job>>
    BY <1>11 DEF Dispatch
  <2>3. \A j \in Jobs : status'[j] = status[j] \/ (status[j] = "queued" /\ status'[j] = "running")
    BY <1>11 DEF Dispatch, TasksInv, JobsShape
  <2> QED
    BY <2>1, <2>2, <2>3 DEF JobsInv, SourcesOf
<1>12. ASSUME PublishEnd
      PROVE  JobsInv'
  <2>1. publisher.task \in Jobs => status[publisher.task] = "completed"
    BY DEF TasksInv
  <2> QED
    BY <1>12, <2>1 DEF PublishEnd, Bind, JobsInv, ResultsShape, SourcesOf
<1>13. ASSUME PublishFail
      PROVE  JobsInv'
  <2>1. publisher.task \in Jobs => status[publisher.task] = "completed"
    BY DEF TasksInv
  <2> QED
    BY <1>13, <2>1 DEF PublishFail, Bind, JobsInv, ResultsShape, SourcesOf
<1>14. ASSUME PollIndex
      PROVE  JobsInv'
  BY <1>14 DEF PollIndex, JobsInv, ClientInv, SourcesOf
<1>15. ASSUME Restart
      PROVE  JobsInv'
  <2>1. \A j \in Jobs : status[j] \in {"queued", "running"} /\ j \in pending => j \in pending'
    BY <1>15 DEF Restart, Reconciled
  <2>2. UNCHANGED <<status, finished, sealed, binding, created, torn, job>>
    BY <1>15 DEF Restart
  <2> QED
    BY <2>1, <2>2 DEF JobsInv, SourcesOf
<1> QED
  BY Changes, <1>1, <1>2, <1>3, <1>4, <1>5, <1>6, <1>7, <1>8, <1>9, <1>10,
      <1>11, <1>12, <1>13, <1>14, <1>15

(* Only completed jobs are published, and what is selected waits.          *)
LEMMA TasksInvStep ==
  ASSUME PublicationIInv, Next
  PROVE  TasksInv'
<1> USE DEF PublicationIInv
<1>1. CASE UNCHANGED <<tasks, created, status, publisher, selected>>
  BY <1>1 DEF TasksInv
<1>2. ASSUME NEW j \in Jobs, StartManual(j)
      PROVE  TasksInv'
  <2>1. ToSet(created') = ToSet(created) \cup {j}
    BY <1>2, Appended DEF StartManual, Enqueue, JobsShape
  <2> QED
    BY <1>2, <2>1 DEF StartManual, Enqueue, TasksInv, JobsShape
<1>3. ASSUME NEW j \in Jobs, StartRewardVersion(j)
      PROVE  TasksInv'
  <2>1. ToSet(created') = ToSet(created) \cup {j}
    BY <1>3, Appended DEF StartRewardVersion, Enqueue, JobsShape
  <2> QED
    BY <1>3, <2>1 DEF StartRewardVersion, Launchable, Enqueue, TasksInv, JobsShape
<1>4. ASSUME NEW j \in Jobs, CompleteJob(j)
      PROVE  TasksInv'
  BY <1>4 DEF CompleteJob, EndJob, TasksInv, JobsShape
<1>5. ASSUME NEW j \in Jobs, FailJob(j)
      PROVE  TasksInv'
  BY <1>5 DEF FailJob, EndJob, TasksInv, JobsShape
<1>6. ASSUME NEW j \in Jobs, CrashInLaunch(j)
      PROVE  TasksInv'
  BY <1>6 DEF CrashInLaunch, Launchable, Died, TasksInv, JobsShape
<1>7. ASSUME NEW r \in Runs, ScheduleFirstSnapshot(r)
      PROVE  TasksInv'
  <2>1. ToSet(created') = ToSet(created) \cup {r}
    BY <1>7, Appended DEF ScheduleFirstSnapshot, JobsShape
  <2> QED
    BY <1>7, <2>1 DEF ScheduleFirstSnapshot, TasksInv
<1>8. ASSUME NEW d \in {DatasetOf(j) : j \in Jobs} \ {NoDataset}, DeleteDataset(d)
      PROVE  TasksInv'
  <2>1. /\ tasks' \in SUBSET (tasks \cup {j \in Recorded : status[j] = "completed"})
        /\ selected = None
    BY <1>8, ReconciledTyped DEF DeleteDataset, Recorded
  <2>2. UNCHANGED <<status, publisher, created, selected>>
    BY <1>8 DEF DeleteDataset
  <2> QED
    BY <2>1, <2>2 DEF TasksInv, JobsInv, Recorded
<1>9. ASSUME Select
      PROVE  TasksInv'
  <2>1. tasks' \in SUBSET (tasks \cup {j \in Overdue : status[j] = "completed"})
    BY <1>9, ReconciledTyped DEF Select, Overdue, JobsShape
  <2>2. UNCHANGED <<status, publisher, created>>
    BY <1>9 DEF Select
  <2>3. selected' \in tasks' \/ (selected' \in Jobs /\ status[selected'] = "queued")
    BY <1>9, SelectedWaits
  <2> QED
    BY <2>1, <2>2, <2>3 DEF TasksInv, JobsInv, JobsShape, Overdue
<1>10. ASSUME GiveUp
      PROVE  TasksInv'
  BY <1>10 DEF GiveUp, TasksInv, JobsShape
<1>11. ASSUME Dispatch
      PROVE  TasksInv'
  <2>1. /\ tasks' \in SUBSET (tasks \cup {j \in Overdue : status[j] = "completed"})
        /\ selected' = None /\ UNCHANGED created
    BY <1>11, ReconciledTyped DEF Dispatch, Overdue, JobsShape
  <2>2. \A j \in Jobs : status[j] = "completed" => status'[j] = "completed"
    BY <1>11 DEF Dispatch, TasksInv, JobsShape
  <2>3. publisher' = publisher \/ (selected \in tasks /\ publisher'.task = selected)
    BY <1>11 DEF Dispatch
  <2> QED
    BY <2>1, <2>2, <2>3 DEF TasksInv, JobsInv, Overdue, JobsShape
<1>12. ASSUME PublishSkip
      PROVE  TasksInv'
  BY <1>12 DEF PublishSkip, Publishing, TasksInv, JobsShape
<1>13. ASSUME PublishArrays
      PROVE  TasksInv'
  BY <1>13 DEF PublishArrays, Pick, Publishing, Destination, TasksInv, JobsShape
<1>14. ASSUME PublishPointer
      PROVE  TasksInv'
  BY <1>14 DEF PublishPointer, Point, Publishing, Destination, TasksInv, JobsShape
<1>15. ASSUME PublishValues
      PROVE  TasksInv'
  BY <1>15 DEF PublishValues, Pick, Publishing, TasksInv, JobsShape
<1>16. ASSUME PublishMeta
      PROVE  TasksInv'
  BY <1>16 DEF PublishMeta, Point, Publishing, Describe, TasksInv, JobsShape
<1>17. ASSUME PublishEnd
      PROVE  TasksInv'
  BY <1>17 DEF PublishEnd, Bind, TasksInv, JobsShape
<1>18. ASSUME PublishFail
      PROVE  TasksInv'
  BY <1>18 DEF PublishFail, Bind, TasksInv, JobsShape
<1>19. ASSUME PollSchedule
      PROVE  TasksInv'
  <2>1. client.job \in Jobs /\ status[client.job] \notin {"none", "lost"}
        /\ (client.seen = "completed" => status[client.job] = "completed")
    BY <1>19 DEF PollSchedule, ClientInv, Polls
  <2> QED
    BY <1>19, <2>1 DEF PollSchedule, Unbound, TasksInv, JobsInv
<1>20. ASSUME Crash
      PROVE  TasksInv'
  BY <1>20 DEF Crash, Died, TasksInv, JobsShape
<1>21. ASSUME Restart
      PROVE  TasksInv'
  <2>1. /\ tasks' \in SUBSET (tasks \cup {j \in Recorded : status[j] = "completed"})
        /\ \A j \in Jobs \cup Runs : j \in tasks => j \in tasks'
    BY <1>21, ReconciledTyped DEF Restart, Recorded, Reconciled
  <2>2. UNCHANGED <<status, publisher, created, selected>>
    BY <1>21 DEF Restart
  <2> QED
    BY <2>1, <2>2 DEF TasksInv, JobsInv, Recorded, JobsShape
<1> QED
  BY Changes, <1>1, <1>2, <1>3, <1>4, <1>5, <1>6, <1>7, <1>8, <1>9, <1>10,
      <1>11, <1>12, <1>13, <1>14, <1>15, <1>16, <1>17, <1>18, <1>19, <1>20,
      <1>21

(* Only the pointer of a publication makes a snapshot another result's:    *)
(* touching and validating one leave its result and its file as they are.  *)
LEMMA SnapshotMoves ==
  ASSUME PublicationIInv, Next, ~PublishPointer
  PROVE  \A q \in Runs, s \in Snapshots :
           /\ snapshot[q][s] = None => snapshot'[q][s] = None
           /\ snapshot[q][s] # None => /\ snapshot'[q][s] # None
                                      /\ snapshot'[q][s].by = snapshot[q][s].by
                                      /\ snapshot'[q][s].file = snapshot[q][s].file
<1> USE DEF PublicationIInv
<1> DEFINE Same(q, s) == /\ snapshot[q][s] = None => snapshot'[q][s] = None
                         /\ snapshot[q][s] # None =>
                              /\ snapshot'[q][s] # None
                              /\ snapshot'[q][s].by = snapshot[q][s].by
                              /\ snapshot'[q][s].file = snapshot[q][s].file
<1> SUFFICES ASSUME NEW q \in Runs, NEW s \in Snapshots PROVE Same(q, s)
  OBVIOUS
<1>1. CASE UNCHANGED snapshot
  BY <1>1
<1>2. ASSUME NEW b \in BOOLEAN, snapshot[q][s] # None,
             snapshot'[q][s] = [snapshot[q][s] EXCEPT !.fresh = b]
      PROVE  Same(q, s)
  <2>1. snapshot[q][s] \in Pointers
    BY <1>2 DEF FilesShape
  <2>2. [snapshot[q][s] EXCEPT !.fresh = b] # None
    BY <2>1, Refreshed, PointerAssumption DEF Pointers
  <2> QED
    BY <1>2, <2>1, <2>2, Refreshed
<1>3. CASE snapshot'[q][s] = snapshot[q][s]
  BY <1>3
<1> HIDE DEF Same
<1>4. ASSUME NEW r \in Runs, Touch(r)
      PROVE  Same(q, s)
  <2>1. \/ snapshot'[q][s] = snapshot[q][s]
        \/ snapshot[q][s] # None /\ snapshot'[q][s] = [snapshot[q][s] EXCEPT !.fresh = FALSE]
    BY <1>4 DEF Touch, FilesShape
  <2> QED
    BY <1>2, <1>3, <2>1
<1>5. CASE PublishSkip
  <2>1. CASE UNCHANGED snapshot
    BY <1>3, <2>1
  <2>2. CASE snapshot' # snapshot
    <3> DEFINE r == Step[2]
               t == Step[3]
    <3>1. /\ r \in Runs /\ t \in Snapshots /\ snapshot[r][t] # None
          /\ snapshot' = [snapshot EXCEPT ![r][t].fresh = TRUE]
      BY <1>5, <2>2, StepTyped DEF PublishSkip, Publishing
    <3> HIDE DEF r, t
    <3>2. \/ snapshot'[q][s] = snapshot[q][s]
          \/ snapshot[q][s] # None /\ snapshot'[q][s] = [snapshot[q][s] EXCEPT !.fresh = TRUE]
      BY <3>1 DEF FilesShape
    <3> QED
      BY <1>2, <1>3, <3>2
  <2> QED
    BY <2>1, <2>2
<1>6. CASE RefreshWrite
  <2>1. CASE ~Unchanged(client)
    BY <1>3, <1>6, <2>1 DEF RefreshWrite
  <2>2. CASE Unchanged(client)
    <3> DEFINE r == client.run
               t == client.source
    <3>1. /\ r \in Runs /\ t \in Snapshots /\ snapshot[r][t] # None
          /\ snapshot' = [snapshot EXCEPT ![r][t] = [snapshot[r][t] EXCEPT !.fresh = TRUE]]
      BY <1>6, <2>2 DEF RefreshWrite, Unchanged, ClientInv, Refreshes
    <3> HIDE DEF r, t
    <3>2. \/ snapshot'[q][s] = snapshot[q][s]
          \/ snapshot[q][s] # None /\ snapshot'[q][s] = [snapshot[q][s] EXCEPT !.fresh = TRUE]
      BY <3>1 DEF FilesShape
    <3> QED
      BY <1>2, <1>3, <3>2
  <2> QED
    BY <2>1, <2>2
<1> QED
  BY Changes, <1>1, <1>3, <1>4, <1>5, <1>6

(* What an array file holds stays what it is.                              *)
LEMMA ArraysStay ==
  ASSUME PublicationIInv, Next, NEW r \in Runs, NEW s \in Snapshots, NEW f \in DOMAIN arrays[r][s]
  PROVE  f \in DOMAIN arrays'[r][s] /\ arrays'[r][s][f] = arrays[r][s][f]
<1> USE DEF PublicationIInv
<1>1. CASE UNCHANGED arrays
  BY <1>1
<1>2. CASE PublishArrays
  <2>1. DOMAIN arrays[r][s] \subseteq DOMAIN arrays'[r][s]
    BY <1>2 DEF PublishArrays, FilesShape
  <2>2. FilesShape'
    BY FilesShapeStep
  <2>3. arrays[r][s] \in Stores /\ arrays'[r][s] \in Stores
    BY <2>2 DEF FilesShape, Stores
  <2> QED
    BY <2>1, <2>3 DEF Stores
<1> QED
  BY Changes, <1>1, <1>2

(* A snapshot never points to arrays that are not there, or another's.     *)
LEMMA SnapshotSafeStep ==
  ASSUME PublicationIInv, Next
  PROVE  SnapshotSafe'
<1> USE DEF PublicationIInv
<1>1. CASE PublishPointer
  <2> DEFINE r == Step[2]
             s == Step[3]
             p == publisher.pick
  <2>1. /\ r \in Runs /\ s \in Snapshots /\ p \in DOMAIN arrays[r][s] /\ UNCHANGED arrays
        /\ snapshot' = [snapshot EXCEPT ![r][s] = [by |-> p, file |-> p, fresh |-> TRUE]]
    BY <1>1, StepTyped DEF PublishPointer, Point, Publishing, Destination, PublisherInv
  <2>2. arrays[r][s][p] = p
    <3>1. arrays[r][s] \in Stores
      BY <2>1 DEF FilesShape
    <3> QED
      BY <2>1, <3>1 DEF Stores
  <2> HIDE DEF r, s, p
  <2> QED
    BY <2>1, <2>2 DEF FilesShape, SnapshotSafe
<1>2. CASE ~PublishPointer
  <2> SUFFICES ASSUME NEW r \in Runs, NEW s \in Snapshots, snapshot'[r][s] # None
               PROVE  /\ snapshot'[r][s].file \in DOMAIN arrays'[r][s]
                      /\ arrays'[r][s][snapshot'[r][s].file] = snapshot'[r][s].by
    BY DEF SnapshotSafe
  <2>1. /\ snapshot[r][s] # None
        /\ snapshot'[r][s].by = snapshot[r][s].by /\ snapshot'[r][s].file = snapshot[r][s].file
    BY <1>2, SnapshotMoves
  <2>2. /\ snapshot[r][s].file \in DOMAIN arrays[r][s]
        /\ arrays[r][s][snapshot[r][s].file] = snapshot[r][s].by
    BY <2>1 DEF SnapshotSafe
  <2> QED
    BY <2>1, <2>2, ArraysStay
<1> QED
  BY <1>1, <1>2

(* The first result stays: only a publication that may replace it does.    *)
LEMMA FirstResultStep ==
  ASSUME PublicationIInv, Next
  PROVE  FirstResultKept
<1> USE DEF PublicationIInv
<1>1. CASE PublishPointer
  <2> DEFINE r == Step[2]
             s == Step[3]
  <2>1. /\ r \in Runs /\ s \in Snapshots /\ Step[1] \in {"first", "snapshot"}
        /\ Step[1] = "first" => ~HasSnapshot(r, s)
        /\ Step[1] = "snapshot" => MayReplace(publisher.task)
        /\ snapshot' = [snapshot EXCEPT ![r][s] = [by |-> publisher.pick,
                                 file |-> publisher.pick, fresh |-> TRUE]]
    BY <1>1, StepTyped DEF PublishPointer, Point, Publishing, Destination, PublisherInv
  <2>2. snapshot[r][s] # None => MayReplace(publisher.task)
    BY <2>1
  <2> HIDE DEF r, s
  <2> QED
    BY <2>1, <2>2 DEF FilesShape, FirstResultKept
<1>2. CASE ~PublishPointer
  BY <1>2, SnapshotMoves DEF FirstResultKept
<1> QED
  BY <1>1, <1>2

(* All the versions of a job become ready at once, when it has completed.  *)
LEMMA PublishedTogether ==
  ASSUME PublicationIInv, NEW j \in Jobs, NEW st, st = "completed" => status[j] = "completed",
         \E s \in Sources : Published(j, st)[s] = "READY"
  PROVE  /\ \A s \in SourcesOf(j) : Published(j, st)[s] = "READY"
         /\ status[j] = "completed" /\ sealed[j] = SourcesOf(j)
<1>1. SourcesOf(j) \subseteq Sources
  BY SourcesTyped DEF PublicationIInv, JobsShape
<1>2. CASE \E s \in Sources : versions[j][s] = "READY"
  BY <1>1, <1>2 DEF Published, PublicationIInv, CompositeTogether
<1>3. CASE \A s \in Sources : versions[j][s] # "READY"
  <2>1. ~Manual(j) /\ Summary(st) = "READY"
    BY <1>3 DEF Published
  <2>2. st = "completed"
    BY <2>1 DEF Summary
  <2> QED
    BY <1>1, <1>3, <2>1, <2>2 DEF Published, PublicationIInv, JobsInv
<1> QED
  BY <1>2, <1>3

(* Reconciling shows all the results of a job, or none.                    *)
LEMMA ReconciledTogether ==
  ASSUME PublicationIInv, NEW S, NEW taken, Reconciled(S, taken), UNCHANGED <<sealed, job>>,
         \A j \in Jobs : status[j] = "completed" => status'[j] = "completed"
  PROVE  CompositeTogether'
<1>1. \A j \in Jobs : versions'[j] = versions[j] \/ versions'[j] = Published(j, status[j])
  BY DEF Reconciled
<1>2. \A j \in Jobs : SourcesOf(j)' = SourcesOf(j)
  BY DEF SourcesOf
<1> QED
  BY <1>1, <1>2, PublishedTogether DEF CompositeTogether, PublicationIInv

(* A dataset is deleted when nothing is left to be done for it.            *)
LEMMA GoneInvStep ==
  ASSUME PublicationIInv, Next
  PROVE  GoneInv'
<1> USE DEF PublicationIInv
<1>1. CASE UNCHANGED <<gone, tasks, publisher, status, binding, job>>
  BY <1>1 DEF GoneInv
<1>2. ASSUME NEW j \in Jobs, StartManual(j)
      PROVE  GoneInv'
  BY <1>2 DEF StartManual, Enqueue, GoneInv, JobsShape
<1>3. ASSUME NEW j \in Jobs, StartRewardVersion(j)
      PROVE  GoneInv'
  BY <1>3 DEF StartRewardVersion, Launchable, Enqueue, GoneInv, JobsShape
<1>4. ASSUME NEW j \in Jobs, CompleteJob(j)
      PROVE  GoneInv'
  BY <1>4 DEF CompleteJob, EndJob, GoneInv, JobsShape
<1>5. ASSUME NEW j \in Jobs, FailJob(j)
      PROVE  GoneInv'
  BY <1>5 DEF FailJob, EndJob, GoneInv, JobsShape
<1>6. ASSUME NEW j \in Jobs, CrashInLaunch(j)
      PROVE  GoneInv'
  BY <1>6 DEF CrashInLaunch, Launchable, Died, GoneInv, JobsShape
<1>7. ASSUME NEW r \in Runs, ScheduleFirstSnapshot(r)
      PROVE  GoneInv'
  BY <1>7 DEF ScheduleFirstSnapshot, GoneInv, JobsShape
<1>8. ASSUME NEW d \in {DatasetOf(j) : j \in Jobs} \ {NoDataset}, DeleteDataset(d)
      PROVE  GoneInv'
  BY <1>8 DEF DeleteDataset, Reconciled, Recorded, Busy, Unbound, GoneInv, JobsShape
<1>9. ASSUME Select
      PROVE  GoneInv'
  BY <1>9 DEF Select, Reconciled, Unbound, Overdue, GoneInv, TasksInv, JobsShape
<1>10. ASSUME Dispatch
      PROVE  GoneInv'
  BY <1>10 DEF Dispatch, Reconciled, Unbound, Overdue, GoneInv, TasksInv, JobsShape
<1>11. ASSUME PublishSkip
      PROVE  GoneInv'
  BY <1>11 DEF PublishSkip, Publishing, GoneInv, JobsShape
<1>12. ASSUME PublishArrays
      PROVE  GoneInv'
  BY <1>12 DEF PublishArrays, Pick, Publishing, Destination, GoneInv, JobsShape
<1>13. ASSUME PublishPointer
      PROVE  GoneInv'
  BY <1>13 DEF PublishPointer, Point, Publishing, Destination, GoneInv, JobsShape
<1>14. ASSUME PublishValues
      PROVE  GoneInv'
  BY <1>14 DEF PublishValues, Pick, Publishing, GoneInv, JobsShape
<1>15. ASSUME PublishMeta
      PROVE  GoneInv'
  BY <1>15 DEF PublishMeta, Point, Publishing, Describe, GoneInv, JobsShape
<1>16. ASSUME PublishEnd
      PROVE  GoneInv'
  BY <1>16 DEF PublishEnd, Bind, GoneInv, ResultsShape
<1>17. ASSUME PublishFail
      PROVE  GoneInv'
  BY <1>17 DEF PublishFail, Bind, GoneInv, ResultsShape
<1>18. ASSUME PollSchedule
      PROVE  GoneInv'
  BY <1>18 DEF PollSchedule, Unbound, GoneInv, ClientInv, Polls
<1>19. ASSUME Crash
      PROVE  GoneInv'
  BY <1>19 DEF Crash, Died, GoneInv, JobsShape
<1>20. ASSUME Restart
      PROVE  GoneInv'
  BY <1>20 DEF Restart, Reconciled, Recorded, Unbound, GoneInv, JobsShape
<1> QED
  BY Changes, <1>1, <1>2, <1>3, <1>4, <1>5, <1>6, <1>7, <1>8, <1>9, <1>10,
      <1>11, <1>12, <1>13, <1>14, <1>15, <1>16, <1>17, <1>18, <1>19, <1>20

(* A completed evaluation stays on its way: a poll that took it off the    *)
(* index schedules it, and a start reconciles it.                          *)
LEMMA RememberedInvStep ==
  ASSUME PublicationIInv, Next
  PROVE  RememberedInv'
<1> USE DEF PublicationIInv
<1>1. CASE UNCHANGED <<status, binding, gone, up, pending, tasks, publisher, client,
                       versions, torn, job>>
  BY <1>1 DEF RememberedInv, OnItsWay
<1>2. ASSUME NEW j \in Jobs, StartManual(j)
      PROVE  RememberedInv'
  BY <1>2 DEF StartManual, Enqueue, RememberedInv, OnItsWay, JobsShape, ResultsShape, JobsInv
<1>3. ASSUME NEW j \in Jobs, StartRewardVersion(j)
      PROVE  RememberedInv'
  BY <1>3 DEF StartRewardVersion, Launchable, Enqueue, RememberedInv, OnItsWay, JobsShape,
     ResultsShape, JobsInv
<1>4. ASSUME NEW j \in Jobs, CompleteJob(j)
      PROVE  RememberedInv'
  BY <1>4 DEF CompleteJob, EndJob, RememberedInv, OnItsWay, JobsShape, ResultsShape, JobsInv
<1>5. ASSUME NEW j \in Jobs, FailJob(j)
      PROVE  RememberedInv'
  BY <1>5 DEF FailJob, EndJob, RememberedInv, OnItsWay, JobsShape, ResultsShape, JobsInv
<1>6. ASSUME NEW j \in Jobs, PollRead(j)
      PROVE  RememberedInv'
  BY <1>6 DEF PollRead, RememberedInv, OnItsWay, JobsShape, ResultsShape, JobsInv
<1>7. ASSUME NEW j \in Jobs, CrashInLaunch(j)
      PROVE  RememberedInv'
  BY <1>7 DEF CrashInLaunch, Launchable, Died, RememberedInv, OnItsWay, JobsShape, ResultsShape,
     JobsInv
<1>8. ASSUME NEW r \in Runs, ScheduleFirstSnapshot(r)
      PROVE  RememberedInv'
  BY <1>8 DEF ScheduleFirstSnapshot, RememberedInv, OnItsWay, JobsShape, ResultsShape, JobsInv
<1>9. ASSUME NEW r \in Runs, PinRecord(r)
      PROVE  RememberedInv'
  BY <1>9 DEF PinRecord, RememberedInv, OnItsWay, JobsShape, ResultsShape, JobsInv
<1>10. ASSUME NEW r \in Runs, NEW s \in Snapshots, RefreshRead(r, s)
      PROVE  RememberedInv'
  BY <1>10 DEF RefreshRead, RememberedInv, OnItsWay, JobsShape, ResultsShape, JobsInv
<1>11. ASSUME NEW d \in {DatasetOf(j) : j \in Jobs} \ {NoDataset}, DeleteDataset(d)
      PROVE  RememberedInv'
  BY <1>11 DEF DeleteDataset, Reconciled, Recorded, Busy, Unbound, RememberedInv, OnItsWay,
     JobsShape, ResultsShape, JobsInv
<1>12. ASSUME Select
      PROVE  RememberedInv'
  BY <1>12 DEF Select, Reconciled, Overdue, Waiting, Unbound, RememberedInv, OnItsWay, JobsShape,
     ResultsShape, JobsInv
<1>13. ASSUME Dispatch
      PROVE  RememberedInv'
  BY <1>13 DEF Dispatch, Reconciled, Overdue, LeaseFree, Unbound, RememberedInv, OnItsWay,
     JobsShape, ResultsShape, JobsInv
<1>14. ASSUME PublishSkip
      PROVE  RememberedInv'
  BY <1>14 DEF PublishSkip, Publishing, RememberedInv, OnItsWay, JobsShape, ResultsShape, JobsInv
<1>15. ASSUME PublishArrays
      PROVE  RememberedInv'
  BY <1>15 DEF PublishArrays, Pick, Publishing, Destination, RememberedInv, OnItsWay, JobsShape,
     ResultsShape, JobsInv
<1>16. ASSUME PublishPointer
      PROVE  RememberedInv'
  BY <1>16 DEF PublishPointer, Point, Publishing, Destination, RememberedInv, OnItsWay, JobsShape,
     ResultsShape, JobsInv
<1>17. ASSUME PublishValues
      PROVE  RememberedInv'
  BY <1>17 DEF PublishValues, Pick, Publishing, RememberedInv, OnItsWay, JobsShape, ResultsShape,
     JobsInv
<1>18. ASSUME PublishMeta
      PROVE  RememberedInv'
  BY <1>18 DEF PublishMeta, Point, Publishing, Describe, RememberedInv, OnItsWay, JobsShape,
     ResultsShape, JobsInv
<1>19. ASSUME PublishEnd
      PROVE  RememberedInv'
  BY <1>19 DEF PublishEnd, Bind, RememberedInv, OnItsWay, ResultsShape
<1>20. ASSUME PublishFail
      PROVE  RememberedInv'
  BY <1>20 DEF PublishFail, Bind, RememberedInv, OnItsWay, ResultsShape
<1>21. ASSUME PollIndex
      PROVE  RememberedInv'
  BY <1>21 DEF PollIndex, RememberedInv, OnItsWay, ClientInv, Polls
<1>22. ASSUME PollVersions
      PROVE  RememberedInv'
  <2>1. CASE client' = Idle /\ UNCHANGED versions
    <3>1. DatasetOf(client.job) \in gone
      BY <1>22, <2>1 DEF PollVersions, ClientInv, Polls
    <3> QED
      BY <1>22, <2>1, <3>1 DEF PollVersions, RememberedInv, OnItsWay
  <2>2. CASE client' = [client EXCEPT !.step = "schedule"]
    <3>1. /\ client \in Polls /\ client.step # "index"
          /\ versions' = [versions EXCEPT ![client.job] = Published(client.job, client.seen)]
          /\ UNCHANGED <<status, binding, gone, up, pending, tasks, publisher, torn, job>>
      BY <1>22, <2>2 DEF PollVersions, ClientInv
    <3>2. client'.kind = "poll" /\ client'.job = client.job /\ client'.seen = client.seen
      BY <2>2, <3>1 DEF Polls
    <3>3. \A j \in Jobs, s \in Sources : versions'[j][s] = "RUNNING" =>
             versions[j][s] = "RUNNING" \/ status[j] \notin {"none", "lost"}
      BY <3>1 DEF ClientInv, Polls, Published, Summary, ResultsShape
    <3> QED
      BY <3>1, <3>2, <3>3 DEF RememberedInv, OnItsWay
  <2> QED
    BY <1>22, <2>1, <2>2 DEF PollVersions
<1>23. ASSUME PollSchedule
      PROVE  RememberedInv'
  BY <1>23 DEF PollSchedule, Unbound, RememberedInv, OnItsWay, ClientInv, Polls
<1>24. ASSUME RefreshWrite
      PROVE  RememberedInv'
  BY <1>24 DEF RefreshWrite, Unchanged, RememberedInv, OnItsWay, JobsShape, ResultsShape, JobsInv
<1>25. ASSUME PinCopy
      PROVE  RememberedInv'
  BY <1>25 DEF PinCopy, Accepts, RememberedInv, OnItsWay, JobsShape, ResultsShape, JobsInv
<1>26. ASSUME PinPackage
      PROVE  RememberedInv'
  BY <1>26 DEF PinPackage, RememberedInv, OnItsWay, JobsShape, ResultsShape, JobsInv
<1>27. ASSUME PinDone
      PROVE  RememberedInv'
  BY <1>27 DEF PinDone, RememberedInv, OnItsWay, JobsShape, ResultsShape, JobsInv
<1>28. ASSUME Crash
      PROVE  RememberedInv'
  BY <1>28 DEF Crash, Died, RememberedInv, OnItsWay, JobsShape, ResultsShape, JobsInv
<1>29. ASSUME Restart
      PROVE  RememberedInv'
  BY <1>29 DEF Restart, Reconciled, Recorded, Unbound, RememberedInv, OnItsWay, JobsShape,
     ResultsShape, JobsInv
<1> QED
  BY Changes, <1>1, <1>2, <1>3, <1>4, <1>5, <1>6, <1>7, <1>8, <1>9, <1>10,
      <1>11, <1>12, <1>13, <1>14, <1>15, <1>16, <1>17, <1>18, <1>19, <1>20,
      <1>21, <1>22, <1>23, <1>24, <1>25, <1>26, <1>27, <1>28, <1>29

(* The results of a job become selectable together.                        *)
LEMMA CompositeTogetherStep ==
  ASSUME PublicationIInv, Next
  PROVE  CompositeTogether'
<1> USE DEF PublicationIInv
<1>1. CASE UNCHANGED <<versions, status, sealed, job>>
  BY <1>1 DEF CompositeTogether, SourcesOf
<1>2. ASSUME NEW j \in Jobs, StartManual(j)
      PROVE  CompositeTogether'
  BY <1>2 DEF StartManual, Enqueue, CompositeTogether, SourcesOf, JobsShape
<1>3. ASSUME NEW j \in Jobs, StartRewardVersion(j)
      PROVE  CompositeTogether'
  <2>1. \A s \in Sources : versions[j][s] # "READY"
    BY <1>3 DEF StartRewardVersion, Launchable, CompositeTogether
  <2> QED
    BY <1>3, <2>1 DEF StartRewardVersion, Enqueue, CompositeTogether, SourcesOf, ResultsShape,
       JobsShape
<1>4. ASSUME NEW j \in Jobs, SealVersion(j)
      PROVE  CompositeTogether'
  BY <1>4 DEF SealVersion, CompositeTogether, SourcesOf, ResultsShape
<1>5. ASSUME NEW j \in Jobs, CompleteJob(j)
      PROVE  CompositeTogether'
  BY <1>5 DEF CompleteJob, EndJob, CompositeTogether, SourcesOf, JobsShape
<1>6. ASSUME NEW j \in Jobs, FailJob(j)
      PROVE  CompositeTogether'
  BY <1>6 DEF FailJob, EndJob, CompositeTogether, SourcesOf, JobsShape
<1>7. ASSUME NEW j \in Jobs, CrashInLaunch(j)
      PROVE  CompositeTogether'
  <2>1. /\ \A s \in Sources : versions[j][s] # "READY"
        /\ UNCHANGED <<sealed, job>> /\ status' = [status EXCEPT ![j] = "lost"]
    BY <1>7 DEF CrashInLaunch, Launchable, CompositeTogether
  <2>2. /\ \A k \in Jobs \ {j} : versions'[k] = versions[k]
        /\ \A s \in Sources : versions'[j][s] # "READY"
    <3>1. PICK n \in 1..Len(job[j].sources) :
             versions' = [versions EXCEPT ![j] = [s \in Sources |->
                IF \E i \in 1..n : job[j].sources[i] = s THEN "RUNNING" ELSE versions[j][s]]]
      BY <1>7 DEF CrashInLaunch
    <3> QED
      BY <2>1, <3>1 DEF ResultsShape
  <2> QED
    BY <2>1, <2>2 DEF CompositeTogether, SourcesOf, JobsShape
<1>8. ASSUME NEW d \in {DatasetOf(j) : j \in Jobs} \ {NoDataset}, DeleteDataset(d)
      PROVE  CompositeTogether'
  BY <1>8, ReconciledTogether DEF DeleteDataset, Recorded
<1>9. ASSUME Select
      PROVE  CompositeTogether'
  BY <1>9, ReconciledTogether DEF Select, Overdue
<1>10. ASSUME Dispatch
      PROVE  CompositeTogether'
  <2>1. \A k \in Jobs : status[k] = "completed" => status'[k] = "completed"
    BY <1>10 DEF Dispatch, TasksInv, JobsShape
  <2> QED
    BY <1>10, <2>1, ReconciledTogether DEF Dispatch
<1>11. ASSUME PollVersions
      PROVE  CompositeTogether'
  <2>1. /\ client.job \in Jobs /\ (client.seen = "completed" => status[client.job] = "completed")
        /\ UNCHANGED <<status, sealed, job>>
        /\ versions' = versions
           \/ versions' = [versions EXCEPT ![client.job] = Published(client.job, client.seen)]
    BY <1>11 DEF PollVersions, ClientInv, Polls
  <2> QED
    BY <2>1, PublishedTogether DEF CompositeTogether, SourcesOf, ResultsShape
<1>12. ASSUME Restart
      PROVE  CompositeTogether'
  BY <1>12, ReconciledTogether DEF Restart, Recorded
<1> QED
  BY Changes, <1>1, <1>2, <1>3, <1>4, <1>5, <1>6, <1>7, <1>8, <1>9, <1>10,
      <1>11, <1>12

(* Every step of the publication keeps the invariant.                      *)
LEMMA PublicationStep ==
  ASSUME PublicationIInv, [Next]_vars
  PROVE  PublicationIInv'
<1>1. CASE UNCHANGED vars
  <2> USE <1>1 DEF vars
  <2>1. FlagsOK' /\ JobsShape' /\ ResultsShape' /\ FilesShape'
    BY DEF PublicationIInv, FlagsOK, JobsShape, ResultsShape, FilesShape
  <2>2. PublisherInv'
    BY PublisherStays DEF PublicationIInv
  <2>3. ClientInv' /\ JobsInv' /\ TasksInv' /\ GoneInv'
    BY DEF PublicationIInv, ClientInv, PinHonest, JobsInv, SourcesOf, TasksInv, GoneInv
  <2>4. RememberedInv' /\ SnapshotSafe' /\ CompositeTogether'
    BY DEF PublicationIInv, RememberedInv, OnItsWay, SnapshotSafe, CompositeTogether, SourcesOf
  <2> QED
    BY <2>1, <2>2, <2>3, <2>4 DEF PublicationIInv
<1>2. CASE Next
  <2>1. FlagsOK' /\ JobsShape' /\ ResultsShape' /\ FilesShape'
    BY <1>2, FlagsOKStep, JobsShapeStep, ResultsShapeStep, FilesShapeStep
  <2>2. PublisherInv' /\ ClientInv' /\ JobsInv' /\ TasksInv'
    BY <1>2, PublisherInvStep, ClientInvStep, JobsInvStep, TasksInvStep
  <2>3. GoneInv' /\ RememberedInv' /\ SnapshotSafe' /\ CompositeTogether'
    BY <1>2, GoneInvStep, RememberedInvStep, SnapshotSafeStep, CompositeTogetherStep
  <2> QED
    BY <2>1, <2>2, <2>3 DEF PublicationIInv
<1> QED
  BY <1>1, <1>2

(* The invariant holds at first.                                           *)
LEMMA PublicationInit ==
  ASSUME Init
  PROVE  PublicationIInv
<1> USE DEF Init
<1>1. FlagsOK /\ JobsShape
  <2>1. FlagsOK
    BY DEF FlagsOK
  <2>2. <<>> \in Seq(Jobs) /\ <<>> \in Seq(Jobs \cup Runs)
    OBVIOUS
  <2>3. JobsShape
    BY <2>2 DEF JobsShape, Statuses
  <2> QED
    BY <2>1, <2>3
<1>2. ResultsShape
  BY DEF ResultsShape
<1>3. FilesShape /\ SnapshotSafe
  <2>1. <<>> = [f \in {} |-> f]
    OBVIOUS
  <2>2. <<>> \in Stores
    BY <2>1 DEF Stores
  <2> QED
    BY <2>2 DEF FilesShape, SnapshotSafe
<1>4. PublisherInv /\ ClientInv
  BY DEF PublisherInv, ClientInv, PinHonest
<1>5. JobsInv /\ TasksInv /\ GoneInv
  BY DEF JobsInv, TasksInv, GoneInv
<1>6. RememberedInv /\ CompositeTogether
  BY DEF RememberedInv, CompositeTogether
<1> QED
  BY <1>1, <1>2, <1>3, <1>4, <1>5, <1>6 DEF PublicationIInv

(* What the invariant says of published results.                           *)
LEMMA PublicationKeeps ==
  ASSUME PublicationIInv
  PROVE  /\ TypeOK /\ SnapshotSafe /\ PinHonest /\ CompositeTogether
         /\ PublicationHasDataset /\ PublicationRemembered
<1>1. TypeOK
  BY DEF PublicationIInv, FlagsOK, JobsShape, ResultsShape, ClientInv, TypeOK, ToSet, Statuses
<1>2. PublicationHasDataset
  BY DEF PublicationIInv, GoneInv, PublicationHasDataset
<1>3. PublicationRemembered
  BY DEF PublicationIInv, RememberedInv, OnItsWay, PublicationRemembered
<1> QED
  BY <1>1, <1>2, <1>3 DEF PublicationIInv, ClientInv

-----------------------------------------------------------------------------
(* Jobs are started in the order of their registration, and their results  *)
(* are published in that order.                                            *)
Older(x, y) == Before(created, x, y)
Started(j) == status[j] \in {"running", "completed"}
Unpublished(j) == status[j] = "completed" /\ binding[j] = "none"
AllReady(j) == \A s \in SourcesOf(j) : versions[j][s] = "READY"
Gone(j) == DatasetOf(j) \in gone

CreatedInv ==
  /\ Distinct(created)
  /\ \A j \in Jobs : j \in ToSet(created) => status[j] \notin {"none", "lost"}
FinishedInv ==
  /\ Distinct(finished)
  /\ \A j \in Jobs : j \in ToSet(finished) => Terminal(status[j])
  /\ \A j, k \in Jobs :
       status[j] = "completed" /\ status[k] = "completed" /\ Older(j, k) => Before(finished, j, k)
StartedInv ==
  /\ \A j, k \in Jobs : Older(j, k) /\ Started(k) => Terminal(status[j])
  /\ publisher # NoPub => \A j \in Jobs : status[j] # "running"
  /\ \A r \in Runs, j \in Jobs : r \in tasks /\ Started(j) => Older(j, r)
SelectedInv == selected # None =>
  /\ \A y \in tasks : y = selected \/ Older(selected, y)
  /\ selected \notin tasks =>
       \A j \in Jobs : status[j] = "queued" => j = selected \/ Older(selected, j)

(* A launch has every trajectory evaluated, unless it only adds results.   *)
WorkInv ==
  /\ \A j \in Jobs : work[j] \subseteq Runs \X SourcesOf(j)
  /\ \A j \in Jobs : (~Manual(j) \/ job[j].overwrite) /\ status[j] \notin {"none", "lost"}
       => work[j] = Runs \X SourcesOf(j)
  /\ \A j \in Jobs, s \in Sources : versions[j][s] = "READY" => ~Manual(j) /\ s \in SourcesOf(j)

(* What is to be published is ready, and is published once.                *)
BoundInv ==
  /\ \A j \in Jobs : j \in tasks \/ publisher.task = j => binding[j] = "none"
  /\ publisher.task \in Jobs => publisher.task \notin tasks
  /\ \A j \in Jobs : (j \in tasks \/ publisher.task = j \/ binding[j] # "none")
       /\ ~Manual(j) /\ ~Gone(j) => AllReady(j)

(* A completed job that is off the index is ready, or a poll is at it.     *)
PolledInv ==
  /\ \A j \in Jobs : status[j] = "completed" /\ ~Manual(j) /\ j \notin pending /\ ~Gone(j) =>
       \/ AllReady(j) \/ ~up
       \/ client.kind = "poll" /\ client.job = j /\ client.step = "versions"
             /\ client.seen = "completed"
  /\ client.kind = "poll" /\ client.step = "schedule" /\ client.seen = "completed"
       /\ ~Manual(client.job) /\ ~Gone(client.job) => AllReady(client.job)
  /\ \A j \in Jobs : Unpublished(j) /\ up =>
       \/ j \in pending \cup tasks \/ publisher.task = j
       \/ client.kind = "poll" /\ client.job = j /\ client.step # "index"
             /\ client.seen = "completed"

(* By the time the next job starts, a completed one is ready and waits to  *)
(* be published; by the time the one after that starts, it has been.       *)
LateInv == ~stalled =>
  /\ \A j, k \in Jobs : Older(j, k) /\ Started(k) /\ status[j] = "completed" /\ ~Manual(j) =>
       Gone(j) \/ AllReady(j)
  /\ up => \A j, k \in Jobs : Older(j, k) /\ Started(k) /\ Unpublished(j) =>
       j \in tasks \/ publisher.task = j
  /\ \A i, j, k \in Jobs : Older(i, j) /\ Older(j, k) /\ Started(j) /\ Started(k) => ~Unpublished(i)
  /\ publisher # NoPub =>
       \A j, k \in Jobs : Older(j, k) /\ Started(k) /\ Unpublished(j) => j = publisher.task

(* The order of registration, as a relation.                               *)
LEMMA OlderOrder ==
  ASSUME JobsShape, CreatedInv
  PROVE  /\ \A x, y : Older(x, y) => x \in ToSet(created) /\ y \in ToSet(created) /\ x # y
         /\ \A x, y : Older(x, y) => ~Older(y, x)
         /\ \A x, y, z : Older(x, y) /\ Older(y, z) => Older(x, z)
         /\ \A x, y \in ToSet(created) : x = y \/ Older(x, y) \/ Older(y, x)
<1>1. created \in Seq(Jobs \cup Runs) /\ Distinct(created)
  BY DEF JobsShape, CreatedInv
<1>2. ASSUME NEW x, NEW y
      PROVE  /\ Older(x, y) => x \in ToSet(created) /\ y \in ToSet(created) /\ x # y
             /\ Older(x, y) => ~Older(y, x)
             /\ \A z : Older(x, y) /\ Older(y, z) => Older(x, z)
             /\ x \in ToSet(created) /\ y \in ToSet(created) => x = y \/ Older(x, y) \/ Older(y, x)
  BY <1>1, OrderOf DEF Older
<1> QED
  BY <1>2

(* Registration appends what has not been registered.                      *)
LEMMA Registration ==
  ASSUME PublicationIInv, CreatedInv, Next
  PROVE  /\ Distinct(created')
         /\ \/ created' = created
            \/ \E x \in (Jobs \cup Runs) \ ToSet(created) :
                  /\ created' = Append(created, x)
                  /\ x \in Jobs => status[x] = "none" /\ status' = [status EXCEPT ![x] = "queued"]
                  /\ x \in Runs => UNCHANGED status
         /\ \A x, y : Older(x, y) => Older(x, y)'
         /\ \A x, y : Older(x, y)'
               => Older(x, y) \/ (y \notin ToSet(created) /\ x \in ToSet(created))
         /\ ToSet(created) \subseteq ToSet(created')
<1>1. \/ created' = created
      \/ \E x \in (Jobs \cup Runs) \ ToSet(created) :
            /\ created' = Append(created, x)
            /\ x \in Jobs => status[x] = "none" /\ status' = [status EXCEPT ![x] = "queued"]
            /\ x \in Runs => UNCHANGED status
  <2>1. CASE UNCHANGED created
    BY <2>1
  <2>2. CASE \E j \in Jobs : StartManual(j) \/ StartRewardVersion(j)
    <3>1. PICK j \in Jobs : StartManual(j) \/ StartRewardVersion(j)
      BY <2>2
    <3>2. /\ status[j] = "none" /\ created' = Append(created, j)
          /\ status' = [status EXCEPT ![j] = "queued"]
      BY <3>1 DEF StartManual, StartRewardVersion, Launchable, Enqueue
    <3> QED
      BY <3>2 DEF CreatedInv
  <2>3. CASE \E r \in Runs : ScheduleFirstSnapshot(r)
    BY <2>3 DEF ScheduleFirstSnapshot
  <2> QED
    BY <2>1, <2>2, <2>3, Changes
<1>2. created \in Seq(Jobs \cup Runs) /\ Distinct(created)
  BY DEF PublicationIInv, JobsShape, CreatedInv
<1>3. CASE created' = created
  BY <1>1, <1>2, <1>3 DEF Older
<1>4. CASE created' # created
  <2>1. PICK x \in (Jobs \cup Runs) \ ToSet(created) : created' = Append(created, x)
    BY <1>1, <1>4
  <2>2. /\ Distinct(created')
        /\ \A y, z : Before(created', y, z) <=> Before(created, y, z)
              \/ (y \in ToSet(created) /\ z = x)
    BY <1>2, <2>1, OrderAppended
  <2>3. ToSet(created') = ToSet(created) \cup {x}
    BY <1>2, <2>1, Appended
  <2> QED
    BY <1>1, <2>1, <2>2, <2>3 DEF Older
<1> QED
  BY <1>3, <1>4

(* How the status of a job moves.                                          *)
LEMMA StatusMoves ==
  ASSUME PublicationIInv, CreatedInv, Next, NEW j \in Jobs
  PROVE  \/ status'[j] = status[j]
         \/ status[j] = "none" /\ status'[j] \in {"queued", "lost"} /\ j \notin ToSet(created)
         \/ /\ status[j] = "queued" /\ status'[j] = "running"
            /\ Dispatch /\ selected = j /\ j \notin tasks
         \/ status[j] \in {"queued", "running"} /\ status'[j] = "failed"
         \/ status[j] = "running" /\ status'[j] = "completed" /\ CompleteJob(j)
<1>0. status \in [Jobs -> Statuses]
  BY DEF PublicationIInv, JobsShape
<1>1. CASE UNCHANGED status
  BY <1>1
<1>2. CASE \E k \in Jobs : StartManual(k) \/ StartRewardVersion(k) \/ CrashInLaunch(k)
  <2>1. PICK k \in Jobs : StartManual(k) \/ StartRewardVersion(k) \/ CrashInLaunch(k)
    BY <1>2
  <2>2. status[k] = "none" /\ \E v \in {"queued", "lost"} : status' = [status EXCEPT ![k] = v]
    BY <2>1 DEF StartManual, StartRewardVersion, Launchable, Enqueue, CrashInLaunch
  <2> QED
    BY <1>0, <2>2 DEF CreatedInv
<1>3. CASE \E k \in Jobs : CompleteJob(k)
  <2>1. PICK k \in Jobs : CompleteJob(k)
    BY <1>3
  <2>2. status[k] = "running" /\ status' = [status EXCEPT ![k] = "completed"]
    BY <2>1 DEF CompleteJob, EndJob
  <2> QED
    BY <1>0, <2>1, <2>2
<1>4. CASE \E k \in Jobs : FailJob(k)
  <2>1. PICK k \in Jobs : FailJob(k)
    BY <1>4
  <2>2. status[k] \in {"queued", "running"} /\ status' = [status EXCEPT ![k] = "failed"]
    BY <2>1 DEF FailJob, EndJob
  <2> QED
    BY <1>0, <2>2
<1>5. CASE Dispatch
  <2>1. CASE selected \in tasks
    BY <1>5, <2>1 DEF Dispatch
  <2>2. CASE selected \notin tasks
    <3>1. status[selected] = "queued" /\ status' = [status EXCEPT ![selected] = "running"]
      BY <1>5, <2>2 DEF Dispatch, PublicationIInv, TasksInv
    <3> QED
      BY <1>0, <1>5, <2>2, <3>1
  <2> QED
    BY <2>1, <2>2
<1> QED
  BY <1>1, <1>2, <1>3, <1>4, <1>5, Changes


(* When the backend is down nothing waits, is chosen or is published.      *)
DownInv == ~up => tasks = {} /\ selected = None /\ publisher = NoPub /\ client = Idle

OrderIInv ==
  /\ PublicationIInv /\ CreatedInv /\ FinishedInv /\ StartedInv /\ SelectedInv /\ WorkInv
  /\ BoundInv /\ PolledInv /\ LateInv /\ DownInv

LEMMA DownInvStep ==
  ASSUME PublicationIInv, DownInv, Next
  PROVE  DownInv'
<1>1. CASE up' /\ up
  BY <1>1 DEF DownInv
<1>2. CASE up' # up
  <2>1. CASE Restart
    BY <2>1 DEF Restart, DownInv
  <2>2. CASE Crash \/ \E j \in Jobs : CrashInLaunch(j)
    BY <2>2 DEF Crash, CrashInLaunch, Died, DownInv
  <2> QED
    BY <1>2, <2>1, <2>2, Changes
<1>3. CASE ~up /\ ~up'
  <2>1. UNCHANGED <<tasks, selected>>
    <3>1. ASSUME NEW d, DeleteDataset(d) PROVE FALSE
      BY <1>3, <3>1 DEF DeleteDataset
    <3>2. ASSUME NEW r, ScheduleFirstSnapshot(r) PROVE FALSE
      BY <1>3, <3>2 DEF ScheduleFirstSnapshot
    <3>3. ASSUME NEW j, CrashInLaunch(j) PROVE FALSE
      BY <1>3, <3>3 DEF CrashInLaunch, Launchable
    <3> QED
      BY <1>3, <3>1, <3>2, <3>3, Changes
      DEF Select, Dispatch, PollSchedule, GiveUp, Crash, Restart
  <2>2. UNCHANGED publisher
    <3>1. ASSUME NEW j, CrashInLaunch(j) PROVE FALSE
      BY <1>3, <3>1 DEF CrashInLaunch, Launchable
    <3> QED
      BY <1>3, <3>1, Changes
      DEF Dispatch, PublishSkip, PublishArrays, PublishPointer, PublishValues, PublishMeta, Pick,
          Point, Publishing, PublishEnd, PublishFail, Bind, Crash
  <2>3. UNCHANGED client
    <3>1. ASSUME NEW j, CrashInLaunch(j) \/ PollRead(j) PROVE FALSE
      BY <1>3, <3>1 DEF CrashInLaunch, Launchable, PollRead
    <3>2. ASSUME NEW r, PinRecord(r) PROVE FALSE
      BY <1>3, <3>2 DEF PinRecord
    <3>3. ASSUME NEW r, NEW s, RefreshRead(r, s) PROVE FALSE
      BY <1>3, <3>3 DEF RefreshRead
    <3>4. ASSUME PinDone PROVE FALSE
      BY <1>3, <3>4 DEF PinDone, DownInv
    <3> QED
      BY <1>3, <3>1, <3>2, <3>3, <3>4, Changes
      DEF PollIndex, PollVersions, PollSchedule, RefreshWrite, PinCopy, PinPackage, Crash
  <2> QED
    BY <1>3, <2>1, <2>2, <2>3 DEF DownInv
<1> QED
  BY <1>1, <1>2, <1>3 DEF PublicationIInv, FlagsOK

(* What reconciling has done when it is over.                              *)
LEMMA ReconciledMoves ==
  ASSUME PublicationIInv, NEW S \in SUBSET Jobs, NEW taken, Reconciled(S, taken), UNCHANGED job,
         NEW j \in Jobs
  PROVE  /\ \A s \in Sources : versions[j][s] = "READY" => versions'[j][s] = "READY"
         /\ \A s \in Sources : versions'[j][s] = "READY" =>
              versions[j][s] = "READY" \/ (~Manual(j) /\ s \in SourcesOf(j))
         /\ j \in S /\ status[j] = "completed" /\ ~Manual(j) => AllReady(j)'
         /\ j \in S /\ Unpublished(j) /\ publisher.task # j => j \in tasks' \/ j \in taken
         /\ j \notin pending' => j \notin pending \/ (j \in S /\ Terminal(status[j]))
         /\ \A x \in tasks' : x \in tasks \/ (x \in S /\ Unpublished(x) /\ publisher.task # x)
         /\ \A x \in tasks : x \in tasks' \/ x \in taken
<1>1. /\ versions'[j] = (IF j \in S THEN Published(j, status[j]) ELSE versions[j])
      /\ versions[j] \in [Sources -> Versions]
      /\ SourcesOf(j) \subseteq Sources
      /\ status[j] \in Statuses
  BY SourcesTyped DEF Reconciled, PublicationIInv, ResultsShape, JobsShape
<1>2. /\ \A s \in Sources : versions[j][s] = "READY" => versions'[j][s] = "READY"
      /\ \A s \in Sources : versions'[j][s] = "READY" =>
           versions[j][s] = "READY" \/ (~Manual(j) /\ s \in SourcesOf(j))
  BY <1>1 DEF Published
<1>3. ASSUME j \in S, status[j] = "completed", ~Manual(j) PROVE AllReady(j)'
  <2>1. \A s \in SourcesOf(j) : versions'[j][s] = "READY"
    BY <1>1, <1>3 DEF Published, Summary
  <2> QED
    BY <2>1 DEF AllReady, SourcesOf
<1>4. /\ pending' = {k \in pending : ~(k \in S /\ Terminal(status[k]))}
      /\ tasks' = (tasks \cup {k \in S : Unpublished(k) /\ publisher.task # k}) \ taken
  BY DEF Reconciled, Unbound, Unpublished
<1> QED
  BY <1>2, <1>3, <1>4

(* The reconciliations of the program.                                     *)
LEMMA Reconciliations ==
  ASSUME PublicationIInv, Next,
         \/ Select \/ Dispatch \/ Restart
         \/ \E d \in {DatasetOf(j) : j \in Jobs} \ {NoDataset} : DeleteDataset(d)
  PROVE  /\ \E S \in SUBSET Jobs, taken \in {{}, {selected}} :
               /\ Reconciled(S, taken)
               /\ taken # {} => Dispatch
               /\ Select \/ Dispatch => S = Overdue
               /\ Restart => S = Recorded
         /\ UNCHANGED job
  BY Changes DEF Select, Dispatch, Restart, DeleteDataset, Overdue, Recorded, PublicationIInv,
     JobsShape

(* How versions, the queue and the publication move.                       *)
LEMMA VersionsMove ==
  ASSUME PublicationIInv, Next, NEW j \in Jobs, NEW s \in Sources
  PROVE  /\ versions[j][s] = "READY" => versions'[j][s] = "READY"
         /\ versions'[j][s] = "READY"
               => versions[j][s] = "READY" \/ (~Manual(j) /\ s \in SourcesOf(j))
<1>0. versions \in [Jobs -> [Sources -> Versions]]
  BY DEF PublicationIInv, ResultsShape
<1>1. CASE UNCHANGED versions
  BY <1>1
<1>2. CASE \E k \in Jobs : StartRewardVersion(k) \/ CrashInLaunch(k)
  <2>1. PICK k \in Jobs : StartRewardVersion(k) \/ CrashInLaunch(k)
    BY <1>2
  <2>2. \A t \in Sources : versions[k][t] # "READY"
    BY <2>1 DEF StartRewardVersion, CrashInLaunch, Launchable, PublicationIInv, CompositeTogether
  <2>3. \E T : versions' = [versions EXCEPT ![k] = [t \in Sources |-> IF t \in T THEN "RUNNING" ELSE @[t]]]
    <3>1. CASE StartRewardVersion(k)
      BY <3>1 DEF StartRewardVersion
    <3>2. CASE CrashInLaunch(k)
      <4>1. PICK n \in 1..Len(job[k].sources) :
              versions' = [versions EXCEPT ![k] = [t \in Sources |->
                IF \E i \in 1..n : job[k].sources[i] = t THEN "RUNNING" ELSE @[t]]]
        BY <3>2 DEF CrashInLaunch
      <4> WITNESS {t \in Sources : \E i \in 1..n : job[k].sources[i] = t}
      <4> QED
        BY <4>1, <1>0
    <3> QED
      BY <2>1, <3>1, <3>2
  <2>4. CASE j = k
    BY <1>0, <2>2, <2>3, <2>4
  <2>5. CASE j # k
    BY <1>0, <2>3, <2>5
  <2> QED
    BY <2>4, <2>5
<1>3. CASE \/ Select \/ Dispatch \/ Restart
           \/ \E d \in {DatasetOf(k) : k \in Jobs} \ {NoDataset} : DeleteDataset(d)
  BY <1>3, Reconciliations, ReconciledMoves
<1>4. CASE PollVersions
  <2>1. \/ UNCHANGED versions
        \/ versions' = [versions EXCEPT ![client.job] = Published(client.job, client.seen)]
    BY <1>4 DEF PollVersions
  <2>2. client.job \in Jobs
    BY <1>4 DEF PollVersions, PublicationIInv, ClientInv, Polls
  <2>3. \/ versions'[j] = versions[j] \/ versions'[j] = Published(j, client.seen)
    BY <1>0, <2>1, <2>2
  <2> QED
    BY <2>3 DEF Published
<1> QED
  BY <1>1, <1>2, <1>3, <1>4, Changes

LEMMA TasksMove ==
  ASSUME PublicationIInv, Next
  PROVE  /\ \A x \in tasks' : \/ x \in tasks
                              \/ x \in Jobs /\ Unpublished(x) /\ publisher.task # x
                              \/ x \in Runs /\ ScheduleFirstSnapshot(x)
         /\ \A x \in tasks : x \in tasks' \/ ~up' \/ (Dispatch /\ x = selected)
<1>0. tasks \subseteq Jobs \cup Runs
  BY DEF PublicationIInv, JobsShape
<1>1. CASE UNCHANGED tasks
  BY <1>1
<1>2. CASE Crash \/ \E j \in Jobs : CrashInLaunch(j)
  BY <1>2 DEF Crash, CrashInLaunch, Died
<1>3. CASE \E r \in Runs : ScheduleFirstSnapshot(r)
  BY <1>3 DEF ScheduleFirstSnapshot
<1>4. CASE \/ Select \/ Dispatch \/ Restart
           \/ \E d \in {DatasetOf(k) : k \in Jobs} \ {NoDataset} : DeleteDataset(d)
  <2>1. PICK S \in SUBSET Jobs, taken \in {{}, {selected}} :
          Reconciled(S, taken) /\ (taken # {} => Dispatch)
    BY <1>4, Reconciliations
  <2>2. tasks' = (tasks \cup {j \in S : Unpublished(j) /\ publisher.task # j}) \ taken
    BY <2>1 DEF Reconciled, Unbound, Unpublished
  <2>3. ASSUME NEW x \in tasks'
        PROVE  x \in tasks \/ (x \in Jobs /\ Unpublished(x) /\ publisher.task # x)
    BY <2>2
  <2>4. ASSUME NEW x \in tasks, x \notin tasks' PROVE Dispatch /\ x = selected
    <3>1. x \in taken
      BY <2>2, <2>4
    <3>2. taken # {} /\ x = selected
      BY <2>1, <3>1
    <3> QED
      BY <2>1, <3>2
  <2> QED
    BY <2>3, <2>4
<1>5. CASE PollSchedule
  <2>1. /\ client.job \in Jobs /\ (client.seen = "completed" => status[client.job] = "completed")
        /\ tasks' \in {tasks, tasks \cup {client.job}}
        /\ tasks' # tasks => Unbound(client.job, client.seen)
    BY <1>5 DEF PollSchedule, PublicationIInv, ClientInv, Polls
  <2> QED
    BY <2>1 DEF Unbound, Unpublished
<1> QED
  BY <1>1, <1>2, <1>3, <1>4, <1>5, Changes

LEMMA PublisherMoves ==
  ASSUME PublicationIInv, Next
  PROVE  \/ publisher' = publisher
         \/ ~up' /\ publisher' = NoPub
         \/ Dispatch /\ LeaseFree /\ selected \in tasks
            /\ publisher' = [task |-> selected, todo |-> Plan(selected), pick |-> None]
         \/ publisher # NoPub /\ publisher' # NoPub /\ publisher'.task = publisher.task
         \/ publisher # NoPub /\ publisher' = NoPub /\ (PublishEnd \/ PublishFail)
<1>0. publisher # NoPub => publisher.task \in Jobs \cup Runs /\ publisher \in Publication
  BY DEF PublicationIInv, PublisherInv, Publication
<1>1. CASE PublishSkip \/ PublishArrays \/ PublishPointer \/ PublishValues \/ PublishMeta
  <2>1. /\ publisher # NoPub
        /\ \E t, p : publisher' = [publisher EXCEPT !.todo = t, !.pick = p]
    <3>1. CASE PublishSkip
      <4>1. publisher # NoPub /\ publisher' = [publisher EXCEPT !.todo = Tail(publisher.todo)]
        BY <3>1 DEF PublishSkip, Publishing
      <4>2. publisher' = [publisher EXCEPT !.todo = Tail(publisher.todo), !.pick = publisher.pick]
        BY <1>0, <4>1 DEF Publication
      <4> QED
        BY <4>1, <4>2
    <3>2. CASE PublishArrays \/ PublishValues
      <4>1. /\ publisher # NoPub
            /\ \E p : publisher' = [publisher EXCEPT !.pick = p]
        BY <3>2 DEF PublishArrays, PublishValues, Pick, Publishing
      <4>2. \E p : publisher' = [publisher EXCEPT !.todo = publisher.todo, !.pick = p]
        BY <1>0, <4>1 DEF Publication
      <4> QED
        BY <4>1, <4>2
    <3>3. CASE PublishPointer \/ PublishMeta
      BY <3>3 DEF PublishPointer, PublishMeta, Point, Publishing
    <3> QED
      BY <1>1, <3>1, <3>2, <3>3
  <2>2. publisher'.task = publisher.task /\ publisher.task # None
    BY <1>0, <2>1 DEF Publication
  <2>3. NoPub.task = None
    OBVIOUS
  <2>4. publisher' # NoPub
    <3> HIDE DEF NoPub
    <3> QED
      BY <2>2, <2>3
  <2> HIDE DEF NoPub
  <2> QED
    BY <2>1, <2>2, <2>4
<1>2. CASE PublishEnd \/ PublishFail
  BY <1>2 DEF PublishEnd, PublishFail, Bind
<1>3. CASE Crash \/ \E j \in Jobs : CrashInLaunch(j)
  BY <1>3 DEF Crash, CrashInLaunch, Died
<1>4. CASE Dispatch
  BY <1>4 DEF Dispatch
<1> QED
  BY <1>1, <1>2, <1>3, <1>4, Changes

LEMMA BindingMoves ==
  ASSUME PublicationIInv, Next, NEW j \in Jobs
  PROVE  \/ binding'[j] = binding[j] /\ (publisher' = NoPub => publisher.task # j \/ ~up')
         \/ /\ publisher.task = j /\ publisher' = NoPub
            /\ \/ PublishEnd /\ binding'[j] = "READY"
               \/ PublishFail /\ binding'[j] = "ERROR"
<1>0. binding \in [Jobs -> {"none", "READY", "ERROR"}]
  BY DEF PublicationIInv, ResultsShape
<1>1. CASE PublishEnd \/ PublishFail
  BY <1>0, <1>1 DEF PublishEnd, PublishFail, Bind
<1>2. CASE ~(PublishEnd \/ PublishFail)
  <2>1. binding' = binding
    BY <1>2, Changes
  <2>2. publisher' = NoPub => publisher.task # j \/ ~up'
    <3>1. tasks \subseteq Jobs \cup Runs
      BY DEF PublicationIInv, JobsShape
    <3> QED
      BY <1>2, <3>1, PublisherMoves
  <2> QED
    BY <2>1, <2>2
<1> QED
  BY <1>1, <1>2

-----------------------------------------------------------------------------
LEMMA CreatedInvStep ==
  ASSUME OrderIInv, Next
  PROVE  CreatedInv'
<1>1. PublicationIInv /\ CreatedInv /\ status \in [Jobs -> Statuses]
         /\ created \in Seq(Jobs \cup Runs)
  BY DEF OrderIInv, PublicationIInv, JobsShape
<1>2. Distinct(created')
  BY <1>1, Registration
<1>3. ASSUME NEW j \in Jobs, j \in ToSet(created') PROVE status'[j] \notin {"none", "lost"}
  <2>1. CASE j \in ToSet(created)
    BY <1>1, <2>1, StatusMoves DEF CreatedInv
  <2>2. CASE j \notin ToSet(created)
    <3>1. PICK x \in (Jobs \cup Runs) \ ToSet(created) :
             /\ created' = Append(created, x)
             /\ x \in Jobs => status[x] = "none" /\ status' = [status EXCEPT ![x] = "queued"]
      BY <1>1, <1>3, <2>2, Registration
    <3>2. ToSet(created') = ToSet(created) \cup {x}
      BY <1>1, <3>1, Appended
    <3>3. j = x
      BY <1>3, <2>2, <3>2
    <3> QED
      BY <1>1, <3>1, <3>3
  <2> QED
    BY <2>1, <2>2
<1> QED
  BY <1>2, <1>3 DEF CreatedInv

(* How the order of completion moves.                                      *)
LEMMA FinishedMoves ==
  ASSUME PublicationIInv, FinishedInv, Next
  PROVE  /\ Distinct(finished')
         /\ \/ finished' = finished /\ \A j \in Jobs : Terminal(status'[j]) => Terminal(status[j])
            \/ \E x \in Jobs : /\ x \notin ToSet(finished) /\ finished' = Append(finished, x)
                               /\ Terminal(status'[x])
         /\ \A x, y : Before(finished, x, y) => Before(finished', x, y)
         /\ \A x \in ToSet(finished) :
              \A y : y \in ToSet(finished') /\ y \notin ToSet(finished)
                       => Before(finished', x, y)
<1>0. finished \in Seq(Jobs) /\ Distinct(finished) /\ status \in [Jobs -> Statuses]
  BY DEF PublicationIInv, JobsShape, FinishedInv
<1>1. CASE \E j \in Jobs : CompleteJob(j) \/ FailJob(j)
  <2>1. PICK x \in Jobs : CompleteJob(x) \/ FailJob(x)
    BY <1>1
  <2>2. /\ ~Terminal(status[x]) /\ finished' = Append(finished, x)
        /\ Terminal(status'[x])
    BY <1>0, <2>1 DEF CompleteJob, FailJob, EndJob
  <2>3. x \notin ToSet(finished)
    BY <2>2 DEF FinishedInv
  <2>4. /\ Distinct(finished')
        /\ \A y, z : Before(finished', y, z) <=> Before(finished, y, z)
              \/ (y \in ToSet(finished) /\ z = x)
    BY <1>0, <2>2, <2>3, OrderAppended
  <2>5. ToSet(finished') = ToSet(finished) \cup {x}
    BY <1>0, <2>2, Appended
  <2> QED
    BY <2>2, <2>3, <2>4, <2>5
<1>2. CASE ~\E j \in Jobs : CompleteJob(j) \/ FailJob(j)
  <2>1. finished' = finished
    BY <1>2, Changes
  <2>2. ASSUME NEW j \in Jobs, Terminal(status'[j]) PROVE Terminal(status[j])
    <3>1. CASE UNCHANGED status
      BY <2>2, <3>1
    <3>2. CASE \E k \in Jobs : StartManual(k) \/ StartRewardVersion(k) \/ CrashInLaunch(k)
      <4>1. PICK k \in Jobs : \E v \in {"queued", "lost"} : status' = [status EXCEPT ![k] = v]
        BY <3>2 DEF StartManual, StartRewardVersion, Enqueue, CrashInLaunch
      <4> QED
        BY <1>0, <2>2, <4>1
    <3>3. CASE Dispatch
      BY <1>0, <2>2, <3>3 DEF Dispatch
    <3> QED
      BY <1>2, <3>1, <3>2, <3>3, Changes
  <2> QED
    BY <1>0, <2>1, <2>2
<1> QED
  BY <1>1, <1>2

LEMMA FinishedInvStep ==
  ASSUME OrderIInv, Next
  PROVE  FinishedInv'
<1>1. /\ PublicationIInv /\ CreatedInv /\ FinishedInv /\ StartedInv /\ JobsShape
      /\ status \in [Jobs -> Statuses] /\ finished \in Seq(Jobs)
  BY DEF OrderIInv, PublicationIInv, JobsShape
<1>2. ASSUME NEW j \in Jobs PROVE Terminal(status[j]) => status'[j] = status[j]
  BY <1>1, StatusMoves
<1>3. ASSUME NEW j \in Jobs, j \in ToSet(finished') PROVE Terminal(status'[j])
  <2>1. CASE j \in ToSet(finished)
    BY <1>1, <1>2, <2>1 DEF FinishedInv
  <2>2. CASE j \notin ToSet(finished)
    <3>1. PICK x \in Jobs : finished' = Append(finished, x) /\ Terminal(status'[x])
      BY <1>1, <1>3, <2>2, FinishedMoves
    <3>2. ToSet(finished') = ToSet(finished) \cup {x}
      BY <1>1, <3>1, Appended
    <3> QED
      BY <1>3, <2>2, <3>1, <3>2
  <2> QED
    BY <2>1, <2>2
<1>4. ASSUME NEW j \in Jobs, NEW k \in Jobs, status'[j] = "completed", status'[k] = "completed",
             Older(j, k)'
      PROVE  Before(finished', j, k)
  <2>1. Older(j, k)
    <3>1. k \in ToSet(created)
      BY <1>1, <1>4, StatusMoves DEF PublicationIInv, JobsInv
    <3> QED
      BY <1>1, <1>4, <3>1, Registration
  <2>2. status[j] = "completed" \/ CompleteJob(j)
    BY <1>1, <1>4, StatusMoves
  <2>3. status[k] = "completed" \/ CompleteJob(k)
    BY <1>1, <1>4, StatusMoves
  <2>4. Started(k)
    BY <2>3 DEF CompleteJob, Started
  <2>5. status[j] = "completed"
    BY <1>1, <2>1, <2>2, <2>4 DEF StartedInv, CompleteJob
  <2>6. CASE status[k] = "completed"
    BY <1>1, <2>1, <2>5, <2>6, FinishedMoves DEF FinishedInv
  <2>7. CASE CompleteJob(k)
    <3>1. j \in ToSet(finished)
      BY <1>1, <2>5 DEF PublicationIInv, JobsInv
    <3>2. k \notin ToSet(finished)
      BY <1>1, <2>7 DEF FinishedInv, CompleteJob
    <3>3. k \in ToSet(finished')
      <4>1. finished' = Append(finished, k)
        BY <2>7 DEF CompleteJob, EndJob
      <4> QED
        BY <1>1, <4>1, Appended
    <3> QED
      BY <1>1, <3>1, <3>2, <3>3, FinishedMoves
  <2> QED
    BY <2>3, <2>6, <2>7
<1>5. Distinct(finished')
  BY <1>1, FinishedMoves
<1> QED
  BY <1>3, <1>4, <1>5 DEF FinishedInv

(* The order of what has been registered does not change.                  *)
LEMMA OlderStays ==
  ASSUME PublicationIInv, CreatedInv, Next
  PROVE  /\ \A x, y : Older(x, y) => Older(x, y)'
         /\ \A x, y : Older(x, y)' /\ y \in ToSet(created) => Older(x, y)
         /\ \A x, k \in Jobs : Older(x, k)' /\ Started(k)' => Older(x, k)
<1>1. /\ \A x, y : Older(x, y) => Older(x, y)'
      /\ \A x, y : Older(x, y)' /\ y \in ToSet(created) => Older(x, y)
  BY Registration
<1>2. ASSUME NEW k \in Jobs, Started(k)' PROVE k \in ToSet(created)
  BY <1>2, StatusMoves DEF Started, PublicationIInv, JobsInv
<1> QED
  BY <1>1, <1>2

(* A job that has started is older than those in the queue.                *)
LEMMA JustStarted ==
  ASSUME OrderIInv, Next, NEW k \in Jobs, Started(k)', ~Started(k)
  PROVE  /\ Dispatch /\ up /\ LeaseFree /\ selected = k /\ k \notin tasks /\ UNCHANGED publisher
         /\ \A x \in tasks : Older(k, x)
         /\ \A j \in Jobs : Older(j, k) => Terminal(status[j]) /\ status'[j] = status[j]
<1>1. /\ PublicationIInv /\ CreatedInv /\ SelectedInv /\ JobsShape
      /\ status \in [Jobs -> Statuses]
  BY DEF OrderIInv, PublicationIInv, JobsShape
<1>2. Dispatch /\ selected = k /\ k \notin tasks
  BY <1>1, StatusMoves DEF Started
<1>3. /\ up /\ LeaseFree /\ UNCHANGED publisher
      /\ status' = [status EXCEPT ![k] = "running"]
  BY <1>2 DEF Dispatch
<1>4. \A x \in tasks : Older(k, x)
  BY <1>1, <1>2, NamesAssumption DEF SelectedInv
<1>5. ASSUME NEW j \in Jobs, Older(j, k) PROVE Terminal(status[j]) /\ status'[j] = status[j]
  <2>1. j # k /\ j \in ToSet(created) /\ ~Older(k, j)
    BY <1>1, <1>5, OlderOrder
  <2>2. status[j] \notin {"none", "lost"}
    BY <1>1, <2>1 DEF CreatedInv
  <2>3. status[j] # "running"
    BY <1>3 DEF LeaseFree
  <2>4. status[j] # "queued"
    BY <1>1, <1>2, <2>1, NamesAssumption DEF SelectedInv
  <2> QED
    BY <1>1, <1>3, <2>1, <2>2, <2>3, <2>4 DEF Statuses
<1> QED
  BY <1>2, <1>3, <1>4, <1>5

LEMMA StartedInvStep ==
  ASSUME OrderIInv, Next
  PROVE  StartedInv'
<1>1. /\ PublicationIInv /\ CreatedInv /\ StartedInv /\ JobsShape
      /\ status \in [Jobs -> Statuses] /\ created \in Seq(Jobs \cup Runs)
  BY DEF OrderIInv, PublicationIInv, JobsShape
<1>2. ASSUME NEW j \in Jobs, NEW k \in Jobs, Older(j, k)', Started(k)' PROVE Terminal(status'[j])
  <2>1. Older(j, k)
    BY <1>1, <1>2, OlderStays
  <2>2. CASE Started(k)
    BY <1>1, <2>1, <2>2, StatusMoves DEF StartedInv
  <2>3. CASE ~Started(k)
    BY <1>2, <2>1, <2>3, JustStarted
  <2> QED
    BY <2>2, <2>3
<1>3. ASSUME publisher' # NoPub, NEW j \in Jobs PROVE status'[j] # "running"
  <2>1. CASE publisher # NoPub
    <3>1. status[j] # "running"
      BY <1>1, <2>1 DEF StartedInv
    <3>2. ~LeaseFree
      BY <2>1 DEF LeaseFree
    <3> QED
      BY <1>1, <3>1, <3>2, StatusMoves DEF Dispatch
  <2>2. CASE publisher = NoPub
    <3>1. LeaseFree /\ selected \in tasks
      BY <1>1, <1>3, <2>2, PublisherMoves
    <3> QED
      BY <1>1, <3>1, StatusMoves DEF LeaseFree
  <2> QED
    BY <2>1, <2>2
<1>4. ASSUME NEW r \in Runs, NEW j \in Jobs, r \in tasks', Started(j)' PROVE Older(j, r)'
  <2>1. CASE r \in tasks /\ Started(j)
    BY <1>1, <2>1, OlderStays DEF StartedInv
  <2>2. CASE r \in tasks /\ ~Started(j)
    BY <1>1, <1>4, <2>2, JustStarted, OlderStays
  <2>3. CASE r \notin tasks
    <3>1. ScheduleFirstSnapshot(r)
      BY <1>1, <1>4, <2>3, TasksMove, NamesAssumption
    <3>2. r \notin ToSet(created) /\ created' = Append(created, r) /\ UNCHANGED status
      BY <3>1 DEF ScheduleFirstSnapshot
    <3>3. j \in ToSet(created)
      BY <1>1, <1>4, <3>2 DEF Started, PublicationIInv, JobsInv
    <3>4. Before(Append(created, r), j, r)
      BY <1>1, <3>2, <3>3, OrderAppended DEF CreatedInv
    <3> QED
      BY <3>2, <3>4 DEF Older
  <2> QED
    BY <2>1, <2>2, <2>3
<1> QED
  BY <1>2, <1>3, <1>4 DEF StartedInv

LEMMA SelectedInvStep ==
  ASSUME OrderIInv, Next
  PROVE  SelectedInv'
<1>1. /\ PublicationIInv /\ CreatedInv /\ SelectedInv /\ DownInv /\ JobsShape /\ JobsInv /\ TasksInv
      /\ status \in [Jobs -> Statuses] /\ created \in Seq(Jobs \cup Runs) /\ ResultsShape
  BY DEF OrderIInv, PublicationIInv, JobsShape
<1>2. CASE selected' = None
  BY <1>2 DEF SelectedInv
<1>3. CASE Select
  <2> DEFINE entries == (Waiting \ Overdue) \cup tasks'
  <2>1. /\ entries # {} /\ selected' = Oldest(entries) /\ UNCHANGED <<created, status>>
        /\ Overdue \in SUBSET Jobs
    BY <1>1, <1>3 DEF Select, Overdue, Waiting, JobsShape
  <2>2. tasks' \in SUBSET (tasks \cup {j \in Overdue : status[j] = "completed"})
    BY <1>1, <1>3, <2>1, ReconciledTyped DEF Select
  <2>3. entries \subseteq ToSet(created)
    BY <1>1, <2>1, <2>2 DEF TasksInv, JobsInv, Waiting, JobsShape
  <2>4. \A y \in entries : y = selected' \/ Older(selected', y)
    <3> HIDE DEF entries
    <3> QED
      BY <1>1, <2>1, <2>3, OldestFirst DEF Older, CreatedInv
  <2>5. \A j \in Jobs : status[j] = "queued" => j \in entries
    BY <1>1 DEF JobsInv, Waiting, Overdue
  <2> HIDE DEF entries
  <2>6. \A y \in tasks' : y \in entries
    BY DEF entries
  <2>7. \A x, y : Older(x, y)' <=> Older(x, y)
    BY <2>1 DEF Older
  <2> QED
    BY <2>1, <2>4, <2>5, <2>6, <2>7 DEF SelectedInv
<1>4. CASE selected' # None /\ ~Select
  <2>1. UNCHANGED selected
    <3>1. CASE Dispatch \/ GiveUp
      BY <1>4, <3>1 DEF Dispatch, GiveUp
    <3>2. CASE Crash \/ \E j \in Jobs : CrashInLaunch(j)
      BY <1>4, <3>2 DEF Crash, CrashInLaunch, Died
    <3> QED
      BY <1>4, <3>1, <3>2, Changes
  <2>2. selected # None /\ up
    BY <1>1, <1>4, <2>1 DEF DownInv
  <2>3. ~Dispatch
    BY <1>4 DEF Dispatch
  <2>4. UNCHANGED tasks
    <3>1. ASSUME NEW d, DeleteDataset(d) PROVE FALSE
      BY <2>2, <3>1 DEF DeleteDataset
    <3>2. ASSUME NEW r, ScheduleFirstSnapshot(r) PROVE FALSE
      BY <2>2, <3>2 DEF ScheduleFirstSnapshot
    <3>3. ASSUME NEW j, CrashInLaunch(j) PROVE FALSE
      BY <2>2, <3>3 DEF CrashInLaunch, Launchable
    <3>4. ~PollSchedule /\ ~Restart /\ ~Crash
      BY <1>4, <2>2 DEF PollSchedule, Restart, Crash, Died
    <3> QED
      BY <1>4, <2>3, <3>1, <3>2, <3>3, <3>4, Changes
  <2>5. \A j \in Jobs : status'[j] = "queued" => status[j] = "queued"
    <3>1. ASSUME NEW j, StartManual(j) \/ StartRewardVersion(j) \/ CrashInLaunch(j) PROVE FALSE
      BY <2>2, <3>1 DEF StartManual, StartRewardVersion, CrashInLaunch, Launchable
    <3>2. ASSUME NEW j \in Jobs, status'[j] = "queued", status[j] # "queued" PROVE FALSE
      <4>1. PICK k \in Jobs : CompleteJob(k) \/ FailJob(k)
        BY <2>3, <3>1, <3>2, Changes
      <4>2. status' \in {[status EXCEPT ![k] = "completed"], [status EXCEPT ![k] = "failed"]}
        BY <4>1 DEF CompleteJob, FailJob, EndJob
      <4> QED
        BY <1>1, <3>2, <4>2
    <3> QED
      BY <3>2
  <2> QED
    BY <1>1, <2>1, <2>2, <2>4, <2>5, OlderStays DEF SelectedInv
<1> QED
  BY <1>2, <1>3, <1>4

LEMMA WorkInvStep ==
  ASSUME OrderIInv, Next
  PROVE  WorkInv'
<1>1. /\ PublicationIInv /\ CreatedInv /\ WorkInv
      /\ status \in [Jobs -> Statuses] /\ work \in [Jobs -> SUBSET (Runs \X Sources)]
      /\ job \in JobSpecs /\ UNCHANGED job
  BY Changes DEF OrderIInv, PublicationIInv, JobsShape
<1>2. \A j \in Jobs : SourcesOf(j) \subseteq Sources /\ SourcesOf(j)' = SourcesOf(j)
         /\ Manual(j)' = Manual(j)
  BY <1>1, SourcesTyped DEF SourcesOf
<1>3. ASSUME NEW j \in Jobs, work'[j] # work[j]
      PROVE  /\ work'[j] \subseteq Runs \X SourcesOf(j)
             /\ ~Manual(j) \/ job[j].overwrite => work'[j] = Runs \X SourcesOf(j)
  <2>1. PICK k \in Jobs : StartManual(k) \/ StartRewardVersion(k)
    BY <1>3, Changes
  <2>2. \/ Manual(k) /\ work' = [work EXCEPT ![k] = Unevaluated(k)]
        \/ work' = [work EXCEPT ![k] = Runs \X SourcesOf(k)]
    BY <2>1 DEF StartManual, StartRewardVersion, Enqueue
  <2>3. j = k
    BY <1>1, <1>3, <2>2
  <2>4. /\ Unevaluated(j) \subseteq Runs \X SourcesOf(j)
        /\ job[j].overwrite => Unevaluated(j) = Runs \X SourcesOf(j)
    BY DEF Unevaluated
  <2> QED
    BY <1>1, <2>2, <2>3, <2>4
<1>4. ASSUME NEW j \in Jobs, ~Manual(j) \/ job[j].overwrite, status'[j] \notin {"none", "lost"}
      PROVE  work'[j] = Runs \X SourcesOf(j)
  <2>1. CASE status[j] \in {"none", "lost"}
    <3>1. status' # status /\ ~(status[j] \in {"queued", "running"})
      BY <1>4, <2>1
    <3>2. PICK k \in Jobs : StartManual(k) \/ StartRewardVersion(k)
      <4>1. status[j] = "none" /\ status'[j] = "queued"
        BY <1>1, <1>4, <2>1, StatusMoves
      <4>2. ASSUME NEW k \in Jobs, CompleteJob(k) \/ FailJob(k) \/ CrashInLaunch(k) PROVE FALSE
        <5>1. \E v \in {"completed", "failed", "lost"} : status' = [status EXCEPT ![k] = v]
          BY <4>2 DEF CompleteJob, FailJob, EndJob, CrashInLaunch
        <5> QED
          BY <1>1, <4>1, <5>1
      <4>3. ~Dispatch
        BY <1>1, <4>1 DEF Dispatch
      <4> QED
        BY <4>1, <4>2, <4>3, Changes
    <3>3. /\ status' = [status EXCEPT ![k] = "queued"]
          /\ \/ Manual(k) /\ work' = [work EXCEPT ![k] = Unevaluated(k)]
             \/ work' = [work EXCEPT ![k] = Runs \X SourcesOf(k)]
      BY <3>2 DEF StartManual, StartRewardVersion, Enqueue
    <3>4. j = k
      BY <1>1, <1>4, <2>1, <3>3
    <3>5. job[j].overwrite => Unevaluated(j) = Runs \X SourcesOf(j)
      BY DEF Unevaluated
    <3> QED
      BY <1>1, <1>4, <3>3, <3>4, <3>5
  <2>2. CASE status[j] \notin {"none", "lost"}
    BY <1>1, <1>3, <1>4, <2>2 DEF WorkInv
  <2> QED
    BY <2>1, <2>2
<1>5. ASSUME NEW j \in Jobs, NEW s \in Sources, versions'[j][s] = "READY"
      PROVE  ~Manual(j) /\ s \in SourcesOf(j)
  BY <1>1, <1>5, VersionsMove DEF WorkInv
<1>6. \A j \in Jobs : work'[j] \subseteq Runs \X SourcesOf(j)
  BY <1>1, <1>3 DEF WorkInv
<1> QED
  BY <1>1, <1>2, <1>4, <1>5, <1>6 DEF WorkInv

(* What is ready stays ready.                                              *)
LEMMA ReadyStays ==
  ASSUME PublicationIInv, Next, NEW j \in Jobs
  PROVE  /\ AllReady(j) => AllReady(j)'
         /\ Gone(j) => Gone(j)'
<1>1. SourcesOf(j)' = SourcesOf(j) /\ SourcesOf(j) \subseteq Sources /\ UNCHANGED job
  BY Changes, SourcesTyped DEF SourcesOf, PublicationIInv, JobsShape
<1>2. AllReady(j) => AllReady(j)'
  BY <1>1, VersionsMove DEF AllReady
<1>3. gone \subseteq gone'
  BY Changes DEF DeleteDataset
<1> QED
  BY <1>1, <1>2, <1>3 DEF Gone

(* A task joins the queue when its results are ready.                      *)
LEMMA QueuedReady ==
  ASSUME OrderIInv, Next, NEW j \in Jobs, j \in tasks', j \notin tasks, ~Manual(j), ~Gone(j)
  PROVE  AllReady(j)'
<1>1. PublicationIInv /\ JobsShape /\ PolledInv
  BY DEF OrderIInv, PublicationIInv
<1>2. CASE \/ Select \/ Dispatch \/ Restart
           \/ \E d \in {DatasetOf(k) : k \in Jobs} \ {NoDataset} : DeleteDataset(d)
  <2>1. PICK S \in SUBSET Jobs, taken \in {{}, {selected}} : Reconciled(S, taken)
    BY <1>1, <1>2, Reconciliations
  <2>2. UNCHANGED job
    BY Changes
  <2>3. j \in S /\ Unpublished(j)
    BY <1>1, <2>1, <2>2, ReconciledMoves
  <2> QED
    BY <1>1, <2>1, <2>2, <2>3, ReconciledMoves DEF Unpublished
<1>3. CASE PollSchedule
  <2>1. /\ client.kind = "poll" /\ client.step = "schedule"
        /\ tasks' # tasks => client.seen = "completed" /\ tasks' = tasks \cup {client.job}
    BY <1>3 DEF PollSchedule, Unbound
  <2>2. client.seen = "completed" /\ j = client.job
    BY <2>1
  <2> QED
    BY <1>1, <2>1, <2>2, ReadyStays DEF PolledInv
<1>4. CASE \E r \in Runs : ScheduleFirstSnapshot(r)
  BY <1>4, NamesAssumption DEF ScheduleFirstSnapshot
<1>5. CASE Crash \/ \E k \in Jobs : CrashInLaunch(k)
  BY <1>5 DEF Crash, CrashInLaunch, Died
<1> QED
  BY <1>2, <1>3, <1>4, <1>5, Changes

LEMMA BoundInvStep ==
  ASSUME OrderIInv, Next
  PROVE  BoundInv'
<1>1. /\ PublicationIInv /\ BoundInv /\ JobsShape /\ UNCHANGED job
      /\ tasks \subseteq Jobs \cup Runs /\ binding \in [Jobs -> {"none", "READY", "ERROR"}]
  BY Changes DEF OrderIInv, PublicationIInv, JobsShape, ResultsShape
<1>2. ASSUME NEW j \in Jobs, publisher'.task = j, publisher.task # j
      PROVE  Dispatch /\ LeaseFree /\ selected = j /\ j \in tasks /\ ~(j \in tasks')
  <2>1. Dispatch /\ LeaseFree /\ selected \in tasks /\ publisher'.task = selected
    <3>1. NoPub.task = None
      OBVIOUS
    <3> HIDE DEF NoPub
    <3> QED
      BY <1>1, <1>2, <3>1, PublisherMoves, NamesAssumption
  <2>2. j \notin tasks'
    BY <1>2, <2>1 DEF Dispatch, Reconciled
  <2> QED
    BY <1>2, <2>1, <2>2
<1>3. ASSUME NEW j \in Jobs, j \in tasks', j \notin tasks
      PROVE  Unpublished(j) /\ publisher.task # j
  BY <1>1, <1>3, TasksMove, NamesAssumption
<1>4. ASSUME NEW j \in Jobs, j \in tasks' \/ publisher'.task = j PROVE binding'[j] = "none"
  <2>1. binding[j] = "none"
    BY <1>1, <1>2, <1>3, <1>4 DEF BoundInv, Unpublished
  <2>2. binding'[j] = binding[j]
    <3>1. CASE publisher.task = j /\ publisher' = NoPub
      <4>1. j \in tasks'
        BY <1>4, <3>1, NamesAssumption
      <4> QED
        BY <1>1, <1>3, <3>1, <4>1 DEF BoundInv
    <3> QED
      BY <1>1, <3>1, BindingMoves
  <2> QED
    BY <2>1, <2>2
<1>5. ASSUME publisher'.task \in Jobs PROVE publisher'.task \notin tasks'
  <2> DEFINE j == publisher'.task
  <2>1. CASE publisher.task # j
    BY <1>2, <1>5, <2>1
  <2>2. CASE publisher.task = j
    BY <1>1, <1>3, <1>5, <2>2 DEF BoundInv
  <2> QED
    BY <2>1, <2>2
<1>6. ASSUME NEW j \in Jobs, j \in tasks' \/ publisher'.task = j \/ binding'[j] # "none",
             ~Manual(j), ~Gone(j)'
      PROVE  AllReady(j)'
  <2>0. ~Gone(j)
    BY <1>1, <1>6, ReadyStays
  <2>1. CASE j \in tasks \/ publisher.task = j \/ binding[j] # "none"
    BY <1>1, <1>6, <2>0, <2>1, ReadyStays DEF BoundInv
  <2>2. CASE j \in tasks' /\ j \notin tasks
    BY <1>6, <2>0, <2>2, QueuedReady
  <2>3. j \in tasks' \/ j \in tasks \/ publisher.task = j \/ binding[j] # "none"
    BY <1>1, <1>2, <1>6, BindingMoves
  <2> QED
    BY <2>1, <2>2, <2>3
<1>7. \A j \in Jobs : Manual(j)' = Manual(j)
  BY <1>1
<1> QED
  BY <1>4, <1>5, <1>6, <1>7 DEF BoundInv

(* A poll of a finished job goes on, or the backend goes down.             *)
LEMMA PollMoves ==
  ASSUME PublicationIInv, Next, client.kind = "poll", client' # client
  PROVE  ~up' \/ PollIndex \/ PollVersions \/ PollSchedule
<1>1. CASE Crash \/ \E j \in Jobs : CrashInLaunch(j)
  BY <1>1 DEF Crash, CrashInLaunch, Died
<1>2. ASSUME NEW j, PollRead(j) PROVE FALSE
  BY <1>2 DEF PollRead
<1>3. ASSUME NEW r, PinRecord(r) PROVE FALSE
  BY <1>3 DEF PinRecord
<1>4. ASSUME NEW r, NEW s, RefreshRead(r, s) PROVE FALSE
  BY <1>4 DEF RefreshRead
<1>5. ~RefreshWrite /\ ~PinCopy /\ ~PinPackage /\ ~PinDone
  BY DEF RefreshWrite, PinCopy, PinPackage, PinDone
<1> QED
  BY <1>1, <1>2, <1>3, <1>4, <1>5, Changes

(* A poll begins with what it has read.                                    *)
LEMMA PollBegins ==
  ASSUME PublicationIInv, Next, client'.kind = "poll", client' # client
  PROVE  \/ client'.step = "index"
         \/ /\ PollIndex /\ client \in Polls
            /\ client' = [client EXCEPT !.step = "versions"]
         \/ /\ PollVersions /\ client \in Polls /\ ~Gone(client.job)
            /\ client' = [client EXCEPT !.step = "schedule"]
<1>1. client.kind = "poll" => client \in Polls
  BY DEF PublicationIInv, ClientInv
<1>2. ASSUME NEW j, PollRead(j) PROVE client'.step = "index"
  BY <1>2 DEF PollRead
<1>3. ASSUME NEW r, PinRecord(r) PROVE FALSE
  BY <1>3 DEF PinRecord
<1>4. ASSUME NEW r, NEW s, RefreshRead(r, s) PROVE FALSE
  BY <1>4 DEF RefreshRead
<1>5. ~RefreshWrite /\ ~PinPackage /\ ~PinDone /\ ~Crash /\ ~PollSchedule
  BY DEF RefreshWrite, PinPackage, PinDone, Crash, Died, PollSchedule
<1>6. ~PinCopy
  BY DEF PinCopy
<1>7. ASSUME NEW j, CrashInLaunch(j) PROVE FALSE
  BY <1>7 DEF CrashInLaunch, Died
<1>8. CASE PollIndex
  BY <1>1, <1>8 DEF PollIndex
<1>9. CASE PollVersions
  BY <1>1, <1>9 DEF PollVersions, Gone
<1> QED
  BY <1>2, <1>3, <1>4, <1>5, <1>6, <1>7, <1>8, <1>9, Changes

(* A poll writes the versions of the job it has in hand.                   *)
LEMMA PollReady ==
  ASSUME PublicationIInv, PollVersions, NEW j \in Jobs, client.job = j, client.seen = "completed",
         ~Gone(j), ~Manual(j)
  PROVE  AllReady(j)'
<1>1. /\ job \in JobSpecs /\ UNCHANGED job
      /\ versions' = [versions EXCEPT ![j] = Published(j, "completed")]
  BY DEF PollVersions, PublicationIInv, Gone, JobsShape
<1>2. SourcesOf(j) \subseteq Sources /\ SourcesOf(j)' = SourcesOf(j)
  BY <1>1, SourcesTyped DEF SourcesOf
<1>3. \A s \in SourcesOf(j) : versions'[j][s] = "READY"
  BY <1>1, <1>2 DEF Published, Summary, PublicationIInv, ResultsShape
<1> QED
  BY <1>2, <1>3 DEF AllReady

(* What takes a completed job off the index also makes it ready.           *)
LEMMA PendingMoves ==
  ASSUME PublicationIInv, Next, NEW j \in Jobs, j \in pending, j \notin pending',
         status[j] = "completed"
  PROVE  \/ /\ PollIndex /\ client \in Polls /\ client.job = j /\ client.seen = "completed"
            /\ client' = [client EXCEPT !.step = "versions"]
         \/ /\ ~Manual(j) => AllReady(j)'
            /\ Unpublished(j) /\ publisher.task # j => j \in tasks' \/ (Dispatch /\ selected = j)
<1>1. CASE \/ Select \/ Dispatch \/ Restart
           \/ \E d \in {DatasetOf(k) : k \in Jobs} \ {NoDataset} : DeleteDataset(d)
  <2>1. PICK S \in SUBSET Jobs, taken \in {{}, {selected}} :
          Reconciled(S, taken) /\ (taken # {} => Dispatch)
    BY <1>1, Reconciliations
  <2>2. UNCHANGED job
    BY Changes
  <2>3. j \in S
    BY <2>1, <2>2, ReconciledMoves
  <2>4. /\ ~Manual(j) => AllReady(j)'
        /\ Unpublished(j) /\ publisher.task # j => j \in tasks' \/ j \in taken
    BY <2>1, <2>2, <2>3, ReconciledMoves
  <2>5. j \in taken => Dispatch /\ selected = j
    <3>1. ASSUME j \in taken PROVE taken # {} /\ j = selected
      BY <3>1, <2>1
    <3> QED
      BY <2>1, <3>1
  <2> QED
    BY <2>4, <2>5
<1>2. CASE PollIndex
  <2>1. /\ client \in Polls /\ (Terminal(client.seen) => status[client.job] = client.seen)
        /\ client' = [client EXCEPT !.step = "versions"]
        /\ pending' = IF Terminal(client.seen) THEN pending \ {client.job} ELSE pending \cup {client.job}
    BY <1>2 DEF PollIndex, PublicationIInv, ClientInv
  <2> QED
    BY <1>2, <2>1
<1>3. CASE \E k \in Jobs : StartManual(k) \/ StartRewardVersion(k)
  BY <1>3 DEF StartManual, StartRewardVersion, Enqueue
<1> QED
  BY <1>1, <1>2, <1>3, Changes

LEMMA PolledInvStep ==
  ASSUME OrderIInv, Next
  PROVE  PolledInv'
<1>1. /\ PublicationIInv /\ PolledInv /\ DownInv /\ JobsShape /\ UNCHANGED job /\ JobsInv /\ GoneInv
      /\ status \in [Jobs -> Statuses] /\ TasksInv /\ CreatedInv
  BY Changes DEF OrderIInv, PublicationIInv, JobsShape
<1>2. /\ \A j \in Jobs : Manual(j)' = Manual(j)
      /\ \A j \in Jobs : (AllReady(j) => AllReady(j)') /\ (Gone(j) => Gone(j)')
  BY <1>1, ReadyStays
<1>3. ASSUME NEW j \in Jobs, status'[j] = "completed", j \notin pending'
      PROVE  status[j] = "completed"
  <2>1. CASE CompleteJob(j)
    BY <1>1, <1>3, <2>1 DEF CompleteJob, EndJob, JobsInv
  <2> QED
    BY <1>1, <1>3, <2>1, StatusMoves
<1>4. ASSUME ~up, up' PROVE Restart
  <2>1. ASSUME NEW j, CrashInLaunch(j) PROVE FALSE
    BY <1>4, <2>1 DEF CrashInLaunch, Died
  <2> QED
    BY <1>4, <2>1, Changes DEF Crash, Died
<1>5. ASSUME Restart, NEW j \in Jobs, status[j] = "completed", ~Gone(j)
      PROVE  /\ ~Manual(j) => AllReady(j)'
             /\ Unpublished(j) => j \in tasks'
  <2>1. PICK taken \in {{}, {selected}} :
          Reconciled(Recorded, taken) /\ (taken # {} => Dispatch) /\ Recorded \in SUBSET Jobs
    BY <1>1, <1>5, Reconciliations
  <2>2. ~up /\ publisher.task # j /\ selected = None
    BY <1>1, <1>5, NamesAssumption DEF Restart, DownInv
  <2>3. j \in Recorded /\ j \notin taken
    BY <1>5, <2>1, <2>2, NamesAssumption DEF Recorded, Gone
  <2> QED
    BY <1>1, <1>5, <2>1, <2>2, <2>3, ReconciledMoves
<1>6. ASSUME NEW j \in Jobs, status'[j] = "completed", ~Manual(j), j \notin pending', ~Gone(j)',
             up', ~AllReady(j)'
      PROVE  client'.kind = "poll" /\ client'.job = j /\ client'.step = "versions"
                /\ client'.seen = "completed"
  <2>1. status[j] = "completed" /\ ~Gone(j) /\ ~AllReady(j)
    BY <1>2, <1>3, <1>6
  <2>2. ~Restart /\ up
    BY <1>4, <1>5, <1>6, <2>1
  <2>3. CASE j \in pending
    <3>1. client \in Polls /\ client.job = j /\ client.seen = "completed"
          /\ client' = [client EXCEPT !.step = "versions"]
      BY <1>1, <1>6, <2>1, <2>3, PendingMoves
    <3> QED
      BY <3>1 DEF Polls
  <2>4. CASE j \notin pending
    <3>1. client.kind = "poll" /\ client.job = j /\ client.step = "versions"
             /\ client.seen = "completed"
      BY <1>1, <1>6, <2>1, <2>2, <2>4 DEF PolledInv
    <3>2. ~PollVersions
      BY <1>1, <1>6, <2>1, <3>1, PollReady
    <3>3. client' = client
      BY <1>1, <1>6, <3>1, <3>2, PollMoves DEF PollIndex, PollSchedule
    <3> QED
      BY <3>1, <3>3
  <2> QED
    BY <2>3, <2>4
<1>7. ASSUME NEW j \in Jobs, client'.kind = "poll", client'.job = j, client'.step = "schedule",
             client'.seen = "completed", ~Manual(j), ~Gone(j)'
      PROVE  AllReady(j)'
  <2>1. CASE client' = client
    BY <1>1, <1>2, <1>7, <2>1 DEF PolledInv
  <2>2. CASE client' # client
    <3>1. PollVersions /\ client \in Polls /\ client' = [client EXCEPT !.step = "schedule"]
      <4>1. ASSUME client \in Polls, client' = [client EXCEPT !.step = "versions"] PROVE FALSE
        BY <1>7, <4>1 DEF Polls
      <4> QED
        BY <1>1, <1>7, <2>2, <4>1, PollBegins
    <3>2. client.job = j /\ client.seen = "completed"
      BY <1>7, <3>1 DEF Polls
    <3> QED
      BY <1>1, <1>2, <1>7, <3>1, <3>2, PollReady
  <2> QED
    BY <2>1, <2>2
<1>8. ASSUME NEW j \in Jobs, Unpublished(j)', up', j \notin pending', j \notin tasks',
             publisher'.task # j
      PROVE  client'.kind = "poll" /\ client'.job = j /\ client'.step # "index"
                /\ client'.seen = "completed"
  <2>1. status[j] = "completed" /\ binding'[j] = "none"
    BY <1>3, <1>8 DEF Unpublished
  <2>2. binding[j] = "none" /\ (publisher' = NoPub => publisher.task # j)
    BY <1>1, <1>8, <2>1, BindingMoves
  <2>3. Unpublished(j) /\ ~Gone(j)
    BY <1>1, <2>1, <2>2 DEF Unpublished, GoneInv, Gone
  <2>4. ~Restart /\ up
    BY <1>4, <1>5, <1>8, <2>1, <2>3
  <2>5. ~(Dispatch /\ selected = j)
    <3>1. ASSUME Dispatch, selected = j PROVE FALSE
      <4>1. selected \in tasks
        BY <1>1, <2>1, <3>1, NamesAssumption DEF TasksInv
      <4>2. publisher' = [task |-> selected, todo |-> Plan(selected), pick |-> None]
        BY <3>1, <4>1 DEF Dispatch
      <4> QED
        BY <1>8, <3>1, <4>2
    <3> QED
      BY <3>1
  <2>6. publisher.task # j
    <3>1. ASSUME publisher.task = j PROVE publisher # NoPub /\ ~LeaseFree
      BY <3>1, NamesAssumption DEF LeaseFree
    <3>2. ASSUME publisher.task = j PROVE FALSE
      BY <1>1, <1>8, <2>2, <3>1, <3>2, PublisherMoves
    <3> QED
      BY <3>2
  <2>7. j \notin tasks
    BY <1>1, <1>8, <2>5, TasksMove
  <2>8. CASE j \in pending
    <3>1. client \in Polls /\ client.job = j /\ client.seen = "completed"
          /\ client' = [client EXCEPT !.step = "versions"]
      BY <1>1, <1>8, <2>1, <2>3, <2>5, <2>6, <2>8, PendingMoves
    <3> QED
      BY <3>1 DEF Polls
  <2>9. CASE j \notin pending
    <3>1. /\ client.kind = "poll" /\ client.job = j /\ client.step # "index"
                /\ client.seen = "completed"
          /\ client \in Polls
      BY <1>1, <2>3, <2>4, <2>6, <2>7, <2>9 DEF PolledInv, PublicationIInv, ClientInv
    <3>2. ~PollSchedule
      BY <1>8, <2>2, <2>6, <3>1 DEF PollSchedule, Unbound
    <3>3. CASE PollVersions
      <4>1. client' = [client EXCEPT !.step = "schedule"]
        BY <2>3, <3>1, <3>3 DEF PollVersions, Gone
      <4> QED
        BY <3>1, <4>1 DEF Polls
    <3>4. CASE client' = client
      BY <3>1, <3>4
    <3> QED
      BY <1>1, <1>8, <3>1, <3>2, <3>3, <3>4, PollMoves DEF PollIndex
  <2> QED
    BY <2>8, <2>9
<1>9. client'.kind = "poll" => client'.job \in Jobs
  BY <1>1, ClientInvStep DEF ClientInv, Polls
<1>10. ASSUME client'.kind = "poll", client'.step = "schedule", client'.seen = "completed",
              ~Manual(client.job)', ~Gone(client.job)'
       PROVE  AllReady(client.job)'
  <2>1. PICK j \in Jobs : j = client'.job
    BY <1>9, <1>10
  <2>2. ~Manual(j) /\ ~Gone(j)'
    BY <1>1, <1>10, <2>1 DEF Gone
  <2>3. AllReady(j)'
    BY <1>7, <1>10, <2>1, <2>2
  <2> QED
    BY <2>1, <2>3 DEF AllReady, SourcesOf
<1> QED
  BY <1>2, <1>6, <1>8, <1>10 DEF PolledInv

(* What has not been published was completed before, and stays so unless   *)
(* it is being published.                                                  *)
LEMMA UnpublishedMoves ==
  ASSUME PublicationIInv, CreatedInv, Next, NEW j \in Jobs, Unpublished(j)'
  PROVE  Unpublished(j) \/ CompleteJob(j)
BY StatusMoves, BindingMoves DEF Unpublished

LEMMA LateInvStep ==
  ASSUME OrderIInv, Next
  PROVE  LateInv'
<1>1. /\ PublicationIInv /\ CreatedInv /\ StartedInv /\ SelectedInv /\ BoundInv /\ PolledInv
            /\ LateInv
      /\ DownInv /\ JobsShape /\ UNCHANGED job /\ JobsInv /\ GoneInv /\ TasksInv
      /\ status \in [Jobs -> Statuses]
  BY Changes DEF OrderIInv, PublicationIInv, JobsShape
<1>2. SUFFICES ASSUME ~stalled' PROVE LateInv'
  BY DEF LateInv
<1>3. ~stalled
  BY <1>2, Changes DEF Dispatch
<1>4. /\ \A j \in Jobs : Manual(j)' = Manual(j)
      /\ \A j \in Jobs : (AllReady(j) => AllReady(j)') /\ (Gone(j) => Gone(j)')
  BY <1>1, ReadyStays
<1>5. ASSUME NEW j \in Jobs, NEW k \in Jobs, Older(j, k)', Started(k)', status'[j] = "completed"
      PROVE  Older(j, k) /\ status[j] = "completed" /\ (Unpublished(j)' => Unpublished(j))
  <2>1. Older(j, k)
    BY <1>1, <1>5, OlderStays
  <2>2. Terminal(status[j])
    <3>1. CASE Started(k)
      BY <1>1, <2>1, <3>1 DEF StartedInv
    <3>2. CASE ~Started(k)
      BY <1>5, <2>1, <3>2, JustStarted
    <3> QED
      BY <3>1, <3>2
  <2>3. status[j] = "completed"
    BY <1>1, <1>5, <2>2, StatusMoves
  <2>4. ~CompleteJob(j)
    BY <2>2 DEF CompleteJob
  <2> QED
    BY <1>1, <2>1, <2>3, <2>4, UnpublishedMoves
\* A job that starts leaves no poll half done.
<1>6. ASSUME NEW j \in Jobs, NEW k \in Jobs, Older(j, k), Started(k)', ~Started(k),
             status[j] = "completed"
      PROVE  /\ ~Manual(j) => Gone(j)' \/ AllReady(j)'
             /\ Unpublished(j) => j \in tasks'
  <2>1. /\ Dispatch /\ up /\ LeaseFree /\ selected = k /\ k \notin tasks /\ k # j
        /\ UNCHANGED publisher /\ publisher.task # j
    <3>1. k # j
      BY <1>6 DEF Started
    <3>2. Dispatch /\ up /\ LeaseFree /\ selected = k /\ k \notin tasks /\ UNCHANGED publisher
      BY <1>6, JustStarted
    <3>3. publisher.task # j
      BY <3>2, NamesAssumption DEF LeaseFree
    <3> QED
      BY <3>1, <3>2, <3>3
  <2>2. ~HalfPolled
    BY <1>2, <2>1 DEF Dispatch
  <2>3. CASE j \in pending
    <3>1. Reconciled(Overdue, {selected}) /\ Overdue \in SUBSET Jobs /\ j \in Overdue
      BY <1>1, <1>6, <2>1, <2>3 DEF Dispatch, Overdue, JobsShape
    <3>2. /\ ~Manual(j) => AllReady(j)'
          /\ Unpublished(j) => j \in tasks' \/ j \in {selected}
      BY <1>1, <1>6, <2>1, <3>1, ReconciledMoves
    <3> QED
      BY <2>1, <3>2
  <2>4. CASE j \in tasks
    <3>1. j \in tasks'
      BY <1>1, <2>1, <2>4, TasksMove DEF Dispatch
    <3>2. ~Manual(j) => Gone(j) \/ AllReady(j)
      BY <1>1, <2>4 DEF BoundInv
    <3> QED
      BY <1>4, <3>1, <3>2
  <2>5. CASE j \notin pending /\ j \notin tasks
    <3>1. Unpublished(j) => client.kind = "poll" /\ client.job = j /\ client.step # "index"
             /\ client.seen = "completed"
      BY <1>1, <2>1, <2>5 DEF PolledInv
    <3>2. ~Unpublished(j)
      BY <2>1, <2>2, <2>5, <3>1 DEF HalfPolled, Unbound, Unpublished
    <3>3. binding[j] # "none"
      BY <1>6, <3>2 DEF Unpublished
    <3>4. ~Manual(j) => Gone(j) \/ AllReady(j)
      BY <1>1, <3>3 DEF BoundInv
    <3> QED
      BY <1>4, <3>2, <3>4
  <2> QED
    BY <2>3, <2>4, <2>5
<1>7. ASSUME NEW j \in Jobs, NEW k \in Jobs, Older(j, k)', Started(k)', status'[j] = "completed",
             ~Manual(j)
      PROVE  Gone(j)' \/ AllReady(j)'
  <2>1. Older(j, k) /\ status[j] = "completed"
    BY <1>5, <1>7
  <2>2. CASE Started(k)
    BY <1>1, <1>3, <1>4, <1>7, <2>1, <2>2 DEF LateInv
  <2>3. CASE ~Started(k)
    BY <1>6, <1>7, <2>1, <2>3
  <2> QED
    BY <2>2, <2>3
<1>8. ASSUME NEW j \in Jobs, NEW k \in Jobs, up', Older(j, k)', Started(k)', Unpublished(j)'
      PROVE  j \in tasks' \/ publisher'.task = j
  <2>1. Older(j, k) /\ status[j] = "completed" /\ Unpublished(j)
    BY <1>5, <1>8 DEF Unpublished
  <2>2. CASE ~Started(k)
    BY <1>6, <1>8, <2>1, <2>2
  <2>3. CASE Started(k) /\ up
    <3>1. j \in tasks \/ publisher.task = j
      BY <1>1, <1>3, <2>1, <2>3 DEF LateInv
    <3>2. CASE j \in tasks
      <4>1. CASE Dispatch /\ selected = j
        <5>1. publisher' = [task |-> selected, todo |-> Plan(selected), pick |-> None]
          BY <3>2, <4>1 DEF Dispatch
        <5> QED
          BY <4>1, <5>1
      <4>2. CASE ~(Dispatch /\ selected = j)
        BY <1>1, <1>8, <3>2, <4>2, TasksMove
      <4> QED
        BY <4>1, <4>2
    <3>3. CASE publisher.task = j
      <4>1. publisher # NoPub /\ ~LeaseFree
        BY <3>3, NamesAssumption DEF LeaseFree
      <4>2. publisher' # NoPub
        BY <1>1, <1>8, <3>3, BindingMoves DEF Unpublished
      <4> QED
        BY <1>1, <3>3, <4>1, <4>2, PublisherMoves
    <3> QED
      BY <3>1, <3>2, <3>3
  <2>4. CASE ~up
    <3>1. Restart
      <4>1. ASSUME NEW i, CrashInLaunch(i) PROVE FALSE
        BY <2>4, <4>1 DEF CrashInLaunch, Launchable
      <4> QED
        BY <1>8, <2>4, <4>1, Changes DEF Crash
    <3>2. PICK taken \in {{}, {selected}} :
            Reconciled(Recorded, taken) /\ (taken # {} => Dispatch) /\ Recorded \in SUBSET Jobs
      BY <1>1, <3>1, Reconciliations
    <3>3. publisher.task # j /\ selected = None /\ ~Gone(j)
      BY <1>1, <2>1, <2>4, NamesAssumption DEF DownInv, GoneInv, Gone, Unpublished
    <3>4. j \in Recorded /\ j \notin taken
      BY <2>1, <3>2, <3>3, NamesAssumption DEF Recorded, Gone
    <3> QED
      BY <1>1, <2>1, <3>2, <3>3, <3>4, ReconciledMoves
  <2> QED
    BY <2>2, <2>3, <2>4
<1>9. ASSUME NEW i \in Jobs, NEW j \in Jobs, NEW k \in Jobs,
             Older(i, j)', Older(j, k)', Started(j)', Started(k)', Unpublished(i)'
      PROVE  FALSE
  <2>1. Older(i, j) /\ Older(j, k) /\ Unpublished(i) /\ status[i] = "completed"
    <3>1. Older(i, j) /\ Unpublished(i) /\ status[i] = "completed"
      BY <1>5, <1>9 DEF Unpublished
    <3>2. Older(j, k)
      BY <1>1, <1>9, OlderStays
    <3> QED
      BY <3>1, <3>2
  <2>2. CASE ~Started(k)
    <3>1. /\ up /\ LeaseFree /\ UNCHANGED publisher
          /\ \A x \in tasks : Older(k, x)
          /\ Terminal(status[j]) /\ status'[j] = status[j]
      BY <1>9, <2>1, <2>2, JustStarted
    <3>2. Started(j)
      BY <1>9, <3>1 DEF Started
    <3>3. i \in tasks
      BY <1>1, <1>3, <2>1, <3>1, <3>2, NamesAssumption DEF LateInv, LeaseFree
    <3> QED
      BY <1>1, <2>1, <3>1, <3>3, OlderOrder
  <2>3. CASE Started(k) /\ ~Started(j)
    <3>1. Terminal(status[j])
      BY <1>1, <2>1, <2>3 DEF StartedInv
    <3> QED
      BY <1>1, <1>9, <2>3, <3>1, StatusMoves DEF Started
  <2>4. CASE Started(k) /\ Started(j)
    BY <1>1, <1>3, <2>1, <2>4 DEF LateInv
  <2> QED
    BY <2>2, <2>3, <2>4
<1>10. ASSUME publisher' # NoPub, NEW j \in Jobs, NEW k \in Jobs, Older(j, k)', Started(k)',
              Unpublished(j)'
       PROVE  j = publisher'.task
  <2>1. Older(j, k) /\ status[j] = "completed" /\ Unpublished(j)
    BY <1>5, <1>10 DEF Unpublished
  <2>2. CASE publisher # NoPub
    <3>1. ~LeaseFree
      BY <2>2 DEF LeaseFree
    <3>2. Started(k)
      BY <1>10, <3>1, JustStarted
    <3>3. publisher'.task = publisher.task
      BY <1>1, <1>10, <2>2, <3>1, PublisherMoves
    <3> QED
      BY <1>1, <1>3, <2>1, <2>2, <3>2, <3>3 DEF LateInv
  <2>3. CASE publisher = NoPub
    <3>1. Dispatch /\ LeaseFree /\ selected \in tasks /\ publisher'.task = selected
      BY <1>1, <1>10, <2>3, PublisherMoves
    <3>2. up /\ selected # None
      BY <3>1 DEF Dispatch
    <3>3. Started(k)
      BY <1>10, <3>1, JustStarted
    <3>4. SUFFICES ASSUME j # selected PROVE FALSE
      BY <3>1
    <3>5. j \in tasks
      BY <1>1, <1>3, <2>1, <2>3, <3>2, <3>3, NamesAssumption DEF LateInv
    <3>6. Older(selected, j) /\ Started(j)
      BY <1>1, <2>1, <3>2, <3>4, <3>5 DEF SelectedInv, Started
    <3>7. CASE selected \in Jobs
      <4>1. Unpublished(selected)
        BY <1>1, <3>1, <3>7 DEF Unpublished, TasksInv, BoundInv
      <4> QED
        BY <1>1, <1>3, <2>1, <3>3, <3>6, <3>7, <4>1 DEF LateInv
    <3>8. CASE selected \in Runs
      <4>1. Older(j, selected)
        BY <1>1, <3>1, <3>6, <3>8 DEF StartedInv
      <4> QED
        BY <1>1, <3>6, <4>1, OlderOrder
    <3> QED
      BY <1>1, <3>1, <3>7, <3>8 DEF JobsShape
  <2> QED
    BY <2>2, <2>3
<1> QED
  BY <1>4, <1>7, <1>8, <1>9, <1>10 DEF LateInv

(* Every step keeps the order of publications.                             *)
LEMMA OrderStep ==
  ASSUME OrderIInv, Next
  PROVE  OrderIInv'
<1>1. PublicationIInv' /\ DownInv'
  BY PublicationStep, DownInvStep DEF OrderIInv
<1>2. CreatedInv' /\ FinishedInv' /\ StartedInv' /\ SelectedInv'
  BY CreatedInvStep, FinishedInvStep, StartedInvStep, SelectedInvStep
<1>3. WorkInv' /\ BoundInv' /\ PolledInv' /\ LateInv'
  BY WorkInvStep, BoundInvStep, PolledInvStep, LateInvStep
<1> QED
  BY <1>1, <1>2, <1>3 DEF OrderIInv

-----------------------------------------------------------------------------
(* What lies beside a trajectory: the pointer to a result, and a sidecar   *)
(* of values and their description.                                        *)
Values == Jobs \cup {None, Legacy}
NativeShape == native \in [Runs -> [Natives -> [values : Values, meta : Values]]]

Pointer(r) == snapshot[r]["rynn"]
Sidecar(r) == native[r]["rynn"]
Disagree(r) == Pointer(r) # None /\ ~(Whole(Sidecar(r)) /\ Sidecar(r).meta = Pointer(r).by)

(* No publication has failed, and no poll stood still.                     *)
Clean == ~stalled /\ \A j \in Jobs : binding[j] # "ERROR"

(* The job that will bring the sidecar of a trajectory up to its snapshot: *)
(* the next to be published that replaces results, or the first that has   *)
(* one, with nothing before it that adds one.                              *)
Owner(o, r) ==
  /\ o \in Jobs /\ Unpublished(o) /\ <<r, "rynn">> \in work[o]
  /\ \/ MayReplace(o) /\ \A j \in Jobs : Older(j, o) => ~Unpublished(j)
     \/ /\ ~Manual(o) /\ HasVersion(o, "rynn")
        /\ \A c \in Candidates("rynn") : c = o \/ Older(o, c)
        /\ \A m \in Jobs : Older(m, o) /\ Unpublished(m) /\ Manual(m) /\ ~job[m].overwrite
              => <<r, "rynn">> \notin work[m]

(* A snapshot and a sidecar that disagree have such a job; a job that has  *)
(* been published has left a result.                                       *)
AgreeInv == Clean =>
  /\ \A r \in Runs, o \in Jobs : Disagree(r) /\ Pointer(r).by = o =>
       Owner(o, r) /\ (job[o].overwrite \/ ~Whole(Sidecar(r)))
  /\ \A r \in Runs, j \in Jobs : binding[j] = "READY" /\ <<r, "rynn">> \in work[j] =>
       Pointer(r) # None \/ Whole(Sidecar(r))

(* A step that has begun.                                                  *)
PickInv == Clean =>
  \A p \in Jobs, r \in Runs : publisher.pick = p /\ Step[2] = r /\ Step[3] = "rynn" =>
  /\ Step[1] = "first" => Pointer(r) = None /\ Owner(p, r) /\ ~Whole(Sidecar(r))
  /\ Step[1] = "snapshot" => p = publisher.task /\ (Overwrites \/ ~Whole(Sidecar(r)))
  /\ Step[1] = "native" => /\ Pointer(r) # None /\ Pointer(r).by = p
                           /\ Sidecar(r).values = p

(* What a publication has done when it has dealt with a snapshot, and with *)
(* its sidecar.                                                            *)
SnapshotDone(task, r) ==
  IF job[task].overwrite THEN Pointer(r) # None /\ Pointer(r).by = task
  ELSE Pointer(r) # None \/ Whole(Sidecar(r))
NativeDone(task, r) == SnapshotDone(task, r) /\ Whole(Sidecar(r)) /\ ~Disagree(r)

TodoInv == publisher.task \in Jobs =>
  /\ \A e \in ToSet(publisher.todo) : e[1] = "first" \/ <<e[2], e[3]>> \in work[publisher.task]
  /\ Clean => \A r \in Runs : <<r, "rynn">> \in work[publisher.task] =>
       /\ Second(r) \notin ToSet(publisher.todo) => NativeDone(publisher.task, r)
       /\ \/ Leads(publisher.todo, First(publisher.task, r), Second(r))
          \/ SnapshotDone(publisher.task, r)

AgreeIInv == OrderIInv /\ NativeShape /\ AgreeInv /\ PickInv /\ TodoInv

-----------------------------------------------------------------------------
(* The rest of a sequence of steps.                                        *)
LEMMA RestOf ==
  ASSUME NEW S, NEW seq \in Seq(S), seq # <<>>
  PROVE  /\ ToSet(seq) = {Head(seq)} \cup ToSet(Tail(seq))
         /\ \A x, y : Leads(seq, x, y) => Head(seq) # y /\ (Head(seq) # x => Leads(Tail(seq), x, y))
<1> DEFINE n == Len(seq)
           t == Tail(seq)
<1>1. n \in Nat /\ n >= 1 /\ DOMAIN seq = 1..n /\ DOMAIN t = 1..n-1 /\ Head(seq) = seq[1]
  OBVIOUS
<1>2. \A i \in 1..n-1 : t[i] = seq[i+1]
  OBVIOUS
<1> HIDE DEF n, t
<1>3. \A i \in 1..n : i = 1 \/ (i - 1 \in 1..n-1 /\ (i - 1) + 1 = i)
  BY <1>1
<1>4. \A i \in 1..n-1 : i + 1 \in 1..n
  BY <1>1
<1>5. ToSet(seq) = {Head(seq)} \cup ToSet(t)
  <2>1. ASSUME NEW z \in ToSet(seq) PROVE z = Head(seq) \/ z \in ToSet(t)
    <3>1. PICK i \in 1..n : seq[i] = z
      BY <1>1, <2>1 DEF ToSet
    <3>2. CASE i = 1
      BY <1>1, <3>1, <3>2
    <3>3. CASE i # 1
      <4>1. i - 1 \in 1..n-1 /\ t[i-1] = z
        BY <1>2, <1>3, <3>1, <3>3
      <4> QED
        BY <1>1, <4>1 DEF ToSet
    <3> QED
      BY <3>2, <3>3
  <2>2. ASSUME NEW z \in ToSet(t) PROVE z \in ToSet(seq)
    <3>1. PICK i \in 1..n-1 : t[i] = z
      BY <1>1, <2>2 DEF ToSet
    <3>2. i + 1 \in 1..n /\ seq[i+1] = z
      BY <1>2, <1>4, <3>1
    <3> QED
      BY <1>1, <3>2 DEF ToSet
  <2>3. 1 \in DOMAIN seq
    BY <1>1
  <2>4. Head(seq) \in ToSet(seq)
    BY <1>1, <2>3 DEF ToSet
  <2> QED
    BY <2>1, <2>2, <2>4
<1>6. ASSUME NEW x, NEW y, Leads(seq, x, y) PROVE Head(seq) # y
  BY <1>1, <1>6 DEF Leads
<1>7. ASSUME NEW x, NEW y, Leads(seq, x, y), Head(seq) # x, NEW i \in 1..n-1, t[i] = y
      PROVE  \E k \in 1..i-1 : t[k] = x
  <2>1. i + 1 \in 1..n /\ seq[i+1] = y
    BY <1>2, <1>4, <1>7
  <2>2. PICK k \in 1..(i+1)-1 : seq[k] = x
    BY <1>1, <1>7, <2>1 DEF Leads
  <2>3. k # 1
    BY <1>1, <1>7, <2>2
  <2>4. k \in 1..n /\ k - 1 \in 1..i-1
    BY <1>1, <2>1, <2>2, <2>3
  <2>5. t[k-1] = x
    BY <1>2, <1>3, <2>2, <2>3, <2>4
  <2> QED
    BY <2>4, <2>5
<1> QED
  BY <1>1, <1>5, <1>6, <1>7 DEF Leads, t

(* What is clean has been clean.                                           *)
LEMMA CleanBefore ==
  ASSUME OrderIInv, Next, Clean'
  PROVE  Clean
<1>1. stalled => stalled'
  BY Changes DEF Dispatch
<1>2. ASSUME NEW j \in Jobs, binding[j] = "ERROR" PROVE binding'[j] = "ERROR"
  BY <1>2, BindingMoves DEF OrderIInv, BoundInv
<1> QED
  BY <1>1, <1>2 DEF Clean

(* How the snapshot and the sidecar of a trajectory move.                  *)
LEMMA PointerMoves ==
  ASSUME PublicationIInv, Next, NEW r \in Runs
  PROVE  \/ /\ Pointer(r)' = None <=> Pointer(r) = None
            /\ Pointer(r) # None => Pointer(r)'.by = Pointer(r).by
         \/ /\ PublishPointer /\ Step = <<Step[1], r, "rynn">> /\ Step[1] \in {"first", "snapshot"}
            /\ publisher.pick \in Jobs /\ Pointer(r)' # None /\ Pointer(r)'.by = publisher.pick
<1>0. "rynn" \in Snapshots /\ FilesShape
  BY DEF PublicationIInv
<1>1. CASE PublishPointer
  <2> DEFINE q == Step[2]
             s == Step[3]
             p == [by |-> publisher.pick, file |-> publisher.pick, fresh |-> TRUE]
  <2>1. /\ q \in Runs /\ s \in Snapshots /\ Step[1] \in {"first", "snapshot"}
              /\ publisher.pick \in Jobs
        /\ snapshot' = [snapshot EXCEPT ![q][s] = p]
    BY <1>1, StepTyped DEF PublishPointer, Point, Publishing, Destination, PublisherInv,
       Publication,
       PublicationIInv
  <2>2. Step = <<Step[1], q, s>>
    BY <1>1, StepTyped DEF PublishPointer, Point, Publishing, StepsFor, PublicationIInv
  <2>3. p \in Pointers /\ p # None /\ p.by = publisher.pick
    <3>1. p \in Pointers /\ p.by = publisher.pick
      BY <2>1 DEF Pointers
    <3> HIDE DEF p
    <3> QED
      BY <3>1, PointerAssumption DEF Pointers
  <2> HIDE DEF q, s, p
  <2>4. CASE q = r /\ s = "rynn"
    BY <1>0, <1>1, <2>1, <2>2, <2>3, <2>4 DEF FilesShape, Pointer
  <2>5. CASE ~(q = r /\ s = "rynn")
    BY <1>0, <2>1, <2>5 DEF FilesShape, Pointer
  <2> QED
    BY <2>4, <2>5
<1>2. CASE ~PublishPointer
  <2>1. /\ Pointer(r) = None => Pointer(r)' = None
        /\ Pointer(r) # None => Pointer(r)' # None /\ Pointer(r)'.by = Pointer(r).by
    BY <1>0, <1>2, SnapshotMoves DEF Pointer
  <2> QED
    BY <2>1
<1> QED
  BY <1>1, <1>2

LEMMA PointerBy ==
  ASSUME PublicationIInv, NEW r \in Runs, Pointer(r) # None
  PROVE  Pointer(r).by \in Jobs
<1>1. Pointer(r) \in Pointers
  BY DEF PublicationIInv, FilesShape, Pointer, Snapshots
<1> QED
  BY <1>1 DEF Pointers

LEMMA SidecarMoves ==
  ASSUME PublicationIInv, NativeShape, Next, NEW r \in Runs
  PROVE  /\ NativeShape'
         /\ \/ Sidecar(r)' = Sidecar(r)
            \/ /\ PublishValues /\ Step = Second(r)
               /\ Sidecar(r)'.values = publisher'.pick /\ Sidecar(r)'.meta = Sidecar(r).meta
            \/ /\ PublishMeta /\ Step = Second(r)
               /\ Sidecar(r)'.meta = publisher.pick /\ Sidecar(r)'.values = Sidecar(r).values
<1>0. "rynn" \in Natives
  OBVIOUS
<1>1. ASSUME PublishValues \/ PublishMeta
      PROVE  /\ Step \in {"native"} \X Runs \X Natives /\ publisher # NoPub /\ publisher.todo # <<>>
  <2>1. publisher # NoPub /\ publisher.todo # <<>> /\ Step[1] = "native"
    BY <1>1 DEF PublishValues, PublishMeta, Pick, Point, Publishing
  <2> QED
    BY <2>1, StepTyped DEF StepsFor, PublicationIInv
<1>2. CASE PublishValues
  <2> DEFINE q == Step[2]
             s == Step[3]
             v == publisher'.pick
  <2>1. v \in Jobs
    BY <1>2, PickTyped DEF PublishValues
  <2>2. /\ q \in Runs /\ s \in Natives /\ Step = <<"native", q, s>>
        /\ native' = [native EXCEPT ![q][s].values = v]
    BY <1>1, <1>2 DEF PublishValues
  <2> HIDE DEF q, s, v
  <2>3. NativeShape'
    BY <2>1, <2>2 DEF NativeShape, Values
  <2>4. CASE q = r /\ s = "rynn"
    BY <1>0, <1>2, <2>2, <2>3, <2>4 DEF NativeShape, Sidecar, Second, v
  <2>5. CASE ~(q = r /\ s = "rynn")
    BY <1>0, <2>2, <2>3, <2>5 DEF NativeShape, Sidecar
  <2> QED
    BY <2>4, <2>5
<1>3. CASE PublishMeta
  <2> DEFINE q == Step[2]
             s == Step[3]
             v == publisher.pick
  <2>1. v \in Jobs
    BY <1>3 DEF PublishMeta, Point, Publishing, PublicationIInv, PublisherInv, Publication
  <2>2. /\ q \in Runs /\ s \in Natives /\ Step = <<"native", q, s>>
        /\ native' = [native EXCEPT ![q][s].meta = v]
    BY <1>1, <1>3 DEF PublishMeta, Describe
  <2> HIDE DEF q, s, v
  <2>3. NativeShape'
    BY <2>1, <2>2 DEF NativeShape, Values
  <2>4. CASE q = r /\ s = "rynn"
    BY <1>0, <1>3, <2>2, <2>3, <2>4 DEF NativeShape, Sidecar, Second, v
  <2>5. CASE ~(q = r /\ s = "rynn")
    BY <1>0, <2>2, <2>3, <2>5 DEF NativeShape, Sidecar
  <2> QED
    BY <2>4, <2>5
<1>4. CASE UNCHANGED native
  BY <1>4 DEF NativeShape, Sidecar
<1> QED
  BY <1>2, <1>3, <1>4, Changes

(* The first result is the one that was registered first.                  *)
LEMMA FirstIsOldest ==
  ASSUME OrderIInv, NEW s \in Sources, Candidates(s) # {}
  PROVE  /\ FirstResult(s) \in Candidates(s)
         /\ \A c \in Candidates(s) : c = FirstResult(s) \/ Older(FirstResult(s), c)
<1>1. /\ JobsShape /\ JobsInv /\ CompositeTogether /\ CreatedInv /\ FinishedInv
      /\ finished \in Seq(Jobs) /\ Distinct(finished)
  BY DEF OrderIInv, PublicationIInv, JobsShape, FinishedInv
<1>2. \A c \in Candidates(s) : /\ c \in Jobs /\ status[c] = "completed"
                               /\ c \in ToSet(created) /\ c \in ToSet(finished)
  BY <1>1 DEF Candidates, HasVersion, CompositeTogether, JobsInv
<1>3. /\ FirstResult(s) \in Candidates(s)
      /\ \A c \in Candidates(s) : c = FirstResult(s) \/ Before(finished, FirstResult(s), c)
  BY <1>1, <1>2, FirstCandidate
<1>4. ASSUME NEW c \in Candidates(s), c # FirstResult(s) PROVE Older(FirstResult(s), c)
  <2>1. Before(finished, FirstResult(s), c)
    BY <1>3, <1>4
  <2>2. ~Before(finished, c, FirstResult(s))
    BY <1>1, <2>1, OrderOf
  <2>3. ~Older(c, FirstResult(s))
    BY <1>1, <1>2, <1>3, <2>2 DEF FinishedInv
  <2> QED
    BY <1>1, <1>2, <1>3, <1>4, <2>3, OlderOrder
<1> QED
  BY <1>3, <1>4

(* What a completed job had to evaluate is settled.                        *)
LEMMA WorkStays ==
  ASSUME OrderIInv, Next, NEW j \in Jobs, status[j] = "completed"
  PROVE  work'[j] = work[j]
<1>1. CASE \E k \in Jobs : StartManual(k) \/ StartRewardVersion(k)
  <2>1. PICK k \in Jobs : status[k] = "none" /\ \E w : work' = [work EXCEPT ![k] = w]
    BY <1>1 DEF StartManual, StartRewardVersion, Launchable, Enqueue
  <2>2. work \in [Jobs -> SUBSET (Runs \X Sources)]
    BY DEF OrderIInv, PublicationIInv, JobsShape
  <2> QED
    BY <2>1, <2>2
<1> QED
  BY <1>1, Changes

(* The owner of a disagreement is still the next to settle it.             *)
LEMMA OwnerStays ==
  ASSUME OrderIInv, Next, Clean, Clean', NEW o, NEW r \in Runs, Owner(o, r), Unpublished(o)'
  PROVE  Owner(o, r)'
<1>1. /\ PublicationIInv /\ CreatedInv /\ StartedInv /\ WorkInv /\ LateInv
      /\ JobsShape /\ JobsInv /\ CompositeTogether /\ job \in JobSpecs /\ ResultsShape
      /\ work \in [Jobs -> SUBSET (Runs \X Sources)] /\ UNCHANGED job
      /\ o \in Jobs /\ status[o] = "completed" /\ Started(o)
  BY Changes DEF OrderIInv, PublicationIInv, JobsShape, Owner, Unpublished, Started
<1>2. /\ PublicationIInv' /\ CreatedInv' /\ JobsShape' /\ JobsInv' /\ CompositeTogether' /\ GoneInv'
  BY OrderStep DEF OrderIInv, PublicationIInv
<1>3. \A j \in Jobs : status[j] = "completed" => work'[j] = work[j]
  BY WorkStays
<1>4. o \in ToSet(created)
  BY <1>1 DEF JobsInv
<1>5. ASSUME NEW j \in Jobs, Older(j, o)' PROVE Older(j, o) /\ (Unpublished(j)' => Unpublished(j))
  <2>1. Older(j, o)
    BY <1>1, <1>4, <1>5, OlderStays
  <2>2. ~CompleteJob(j)
    BY <1>1, <2>1 DEF StartedInv, CompleteJob
  <2> QED
    BY <1>1, <2>1, <2>2, UnpublishedMoves
<1>6. /\ \A j : MayReplace(j)' = MayReplace(j)
      /\ \A j : Manual(j)' = Manual(j)
  BY <1>1 DEF MayReplace
<1>7. CASE MayReplace(o) /\ \A j \in Jobs : Older(j, o) => ~Unpublished(j)
  BY <1>1, <1>3, <1>5, <1>6, <1>7 DEF Owner
<1>8. CASE /\ ~Manual(o) /\ HasVersion(o, "rynn")
           /\ \A c \in Candidates("rynn") : c = o \/ Older(o, c)
           /\ \A m \in Jobs : Older(m, o) /\ Unpublished(m) /\ Manual(m) /\ ~job[m].overwrite
                 => <<r, "rynn">> \notin work[m]
  <2>0. "rynn" \in Sources
    OBVIOUS
  <2>1. HasVersion(o, "rynn")'
    <3>1. DatasetOf(o)' \notin gone'
      BY <1>1, <1>2 DEF GoneInv, Unpublished
    <3> QED
      BY <1>1, <1>8, <2>0, <3>1, VersionsMove DEF HasVersion
  <2>2. ASSUME NEW c \in Candidates("rynn")', c # o PROVE Older(o, c)'
    <3>1. /\ c \in Jobs /\ versions'[c]["rynn"] = "READY" /\ ~Gone(c)'
          /\ status'[c] = "completed" /\ c \in ToSet(created') /\ o \in ToSet(created')
      <4>1. c \in Jobs /\ versions'[c]["rynn"] = "READY" /\ ~Gone(c)'
        BY <2>2 DEF Candidates, HasVersion, Gone
      <4>2. status'[c] = "completed"
        BY <1>2, <2>0, <4>1 DEF CompositeTogether
      <4>3. status'[o] = "completed"
        BY DEF Unpublished
      <4> QED
        BY <1>1, <1>2, <4>1, <4>2, <4>3 DEF JobsInv
    <3>2. CASE c \in Candidates("rynn")
      BY <1>1, <1>8, <2>2, <3>2, OlderStays
    <3>3. CASE c \notin Candidates("rynn")
      <4>1. versions[c]["rynn"] # "READY" /\ ~Gone(c)
        BY <1>1, <3>1, <3>3, ReadyStays DEF Candidates, HasVersion, Gone
      <4>2. ~Manual(c) /\ "rynn" \in SourcesOf(c)
        BY <1>1, <2>0, <3>1, <4>1, VersionsMove
      <4>3. SUFFICES ASSUME Older(c, o)' PROVE FALSE
        <5>1. created' \in Seq(Jobs \cup Runs) /\ Distinct(created')
          BY <1>2 DEF JobsShape, CreatedInv
        <5>2. Before(created', o, c) \/ Before(created', c, o)
          BY <2>2, <3>1, <5>1, OrderOf
        <5> QED
          BY <5>2 DEF Older
      <4>4. Older(c, o) /\ Terminal(status[c])
        BY <1>1, <1>5, <3>1, <4>3 DEF StartedInv
      <4>5. status[c] = "completed"
        BY <1>1, <3>1, <4>4, StatusMoves
      <4>6. AllReady(c)
        BY <1>1, <3>1, <4>1, <4>2, <4>4, <4>5 DEF LateInv, Clean
      <4> QED
        BY <4>1, <4>2, <4>6 DEF AllReady
    <3> QED
      BY <3>2, <3>3
  <2>3. ASSUME NEW m \in Jobs, Older(m, o)', Unpublished(m)', Manual(m), ~job[m].overwrite
        PROVE  <<r, "rynn">> \notin work'[m]
    <3>1. Older(m, o) /\ Unpublished(m) /\ status[m] = "completed"
      BY <1>5, <2>3 DEF Unpublished
    <3> QED
      BY <1>3, <1>8, <2>3, <3>1
  <2>4. <<r, "rynn">> \in work'[o]
    BY <1>1, <1>3 DEF Owner
  <2> QED
    BY <1>1, <1>6, <1>8, <2>1, <2>2, <2>3, <2>4 DEF Owner
<1> QED
  BY <1>7, <1>8 DEF Owner

(* The job that is being published is the oldest one that has not been.    *)
LEMMA PublisherOldest ==
  ASSUME OrderIInv, Clean, publisher.task \in Jobs
  PROVE  /\ publisher # NoPub /\ Unpublished(publisher.task) /\ Started(publisher.task)
         /\ publisher.task \in ToSet(created)
         /\ ~Manual(publisher.task) => AllReady(publisher.task) /\ ~Gone(publisher.task)
         /\ \A j \in Jobs : Unpublished(j) => j = publisher.task \/ Older(publisher.task, j)
         /\ \A j, k \in Jobs : Older(j, k) /\ Started(k) /\ Unpublished(j) => j = publisher.task
<1>1. publisher # NoPub
  BY NamesAssumption
<1>2. /\ Unpublished(publisher.task) /\ Started(publisher.task)
      /\ publisher.task \in ToSet(created) /\ ~Gone(publisher.task)
  BY DEF OrderIInv, PublicationIInv, TasksInv, BoundInv, Unpublished, Started, JobsInv, GoneInv,
     Gone
<1>3. ~Manual(publisher.task) => AllReady(publisher.task)
  BY <1>2 DEF OrderIInv, BoundInv
<1>4. \A j, k \in Jobs : Older(j, k) /\ Started(k) /\ Unpublished(j) => j = publisher.task
  BY <1>1 DEF OrderIInv, LateInv, Clean
<1>5. ASSUME NEW j \in Jobs, Unpublished(j), j # publisher.task PROVE Older(publisher.task, j)
  <2>1. j \in ToSet(created)
    BY <1>5 DEF Unpublished, OrderIInv, PublicationIInv, JobsInv
  <2>2. ~Older(j, publisher.task)
    BY <1>2, <1>4, <1>5
  <2> QED
    BY <1>2, <1>5, <2>1, <2>2, OlderOrder DEF OrderIInv, PublicationIInv
<1> QED
  BY <1>1, <1>2, <1>3, <1>4, <1>5

(* It owns the disagreements it may settle, unless it replaces everything. *)
LEMMA PublisherOwns ==
  ASSUME OrderIInv, Clean, publisher.task \in Jobs, NEW r \in Runs, NEW o, Owner(o, r),
         <<r, "rynn">> \in work[publisher.task], ~job[publisher.task].overwrite
  PROVE  /\ o = publisher.task
         /\ ~Manual(o) => Candidates("rynn") # {} /\ FirstResult("rynn") = o
<1> DEFINE t == publisher.task
<1>1. /\ Unpublished(t) /\ Started(t) /\ t \in Jobs
      /\ ~Manual(t) => AllReady(t) /\ ~Gone(t)
      /\ \A j, k \in Jobs : Older(j, k) /\ Started(k) /\ Unpublished(j) => j = t
      /\ \A j \in Jobs : Unpublished(j) => j = t \/ Older(t, j)
  BY PublisherOldest
<1>2. o \in Jobs /\ Unpublished(o) /\ "rynn" \in SourcesOf(t) /\ "rynn" \in Sources
  BY <1>1 DEF Owner, OrderIInv, WorkInv
<1> HIDE DEF t
<1>3. ASSUME o # t PROVE FALSE
  <2>1. Older(t, o) /\ ~Older(o, t)
    BY <1>1, <1>2, <1>3
  <2>2. /\ ~Manual(o) /\ \A c \in Candidates("rynn") : c = o \/ Older(o, c)
        /\ \A m \in Jobs : Older(m, o) /\ Unpublished(m) /\ Manual(m) /\ ~job[m].overwrite
              => <<r, "rynn">> \notin work[m]
    BY <1>1, <2>1 DEF Owner
  <2>3. ~Manual(t)
    BY <1>1, <2>1, <2>2 DEF t
  <2>4. t \in Candidates("rynn")
    BY <1>1, <1>2, <2>3 DEF Candidates, HasVersion, AllReady, Gone
  <2> QED
    BY <1>3, <2>1, <2>2, <2>4
<1>4. ASSUME ~Manual(o) PROVE Candidates("rynn") # {} /\ FirstResult("rynn") = o
  <2>1. ~MayReplace(o)
    BY <1>3, <1>4 DEF t, MayReplace
  <2>2. o \in Candidates("rynn") /\ \A c \in Candidates("rynn") : c = o \/ Older(o, c)
    BY <1>2, <2>1 DEF Owner, Candidates
  <2>3. FirstResult("rynn") \in Candidates("rynn")
           /\ (o = FirstResult("rynn") \/ Older(FirstResult("rynn"), o))
    BY <1>2, <2>2, FirstIsOldest
  <2> QED
    BY <2>2, <2>3, OlderOrder DEF OrderIInv, PublicationIInv
<1> QED
  BY <1>3, <1>4 DEF t

(* The step that a publication is at.                                      *)
LEMMA AtStep ==
  ASSUME PublicationIInv, publisher # NoPub, publisher.todo # <<>>, Step[3] = "rynn"
  PROVE  /\ Step = <<Step[1], Step[2], "rynn">> /\ Step[2] \in Runs
         /\ Step[1] \in {"first", "snapshot", "native"}
         /\ Step[1] = "first" => ~MayReplace(publisher.task)
         /\ Step[1] = "snapshot" => MayReplace(publisher.task)
         /\ Step[1] = "native" => publisher.task \in Jobs
<1>1. Step \in StepsFor(publisher.task)
  BY StepTyped DEF PublicationIInv
<1> QED
  BY <1>1 DEF StepsFor

(* A native step comes when the snapshot has been dealt with, and writes   *)
(* the values of the result in the snapshot.                               *)
LEMMA NativeStep ==
  ASSUME AgreeIInv, Clean, publisher.task \in Jobs, publisher # NoPub, publisher.todo # <<>>,
         NEW r \in Runs, Step = Second(r)
  PROVE  /\ <<r, "rynn">> \in work[publisher.task] /\ SnapshotDone(publisher.task, r)
         /\ Overwrites \/ ~Whole(Sidecar(r)) =>
              Pointer(r) # None /\ Pointer(r).by = ResultFor("native", "rynn")
<1> DEFINE t == publisher.task
<1>1. publisher.todo \in Seq(StepsFor(t))
  BY DEF AgreeIInv, OrderIInv, PublicationIInv, PublisherInv, Publication
<1>2. Step \in ToSet(publisher.todo) /\ ~Leads(publisher.todo, First(t, r), Second(r))
  <2> HIDE DEF t
  <2> QED
    BY <1>1, RestOf DEF Step
<1>3. <<r, "rynn">> \in work[t] /\ SnapshotDone(t, r)
  BY <1>2 DEF AgreeIInv, TodoInv, Second
<1>4. ASSUME Overwrites \/ ~Whole(Sidecar(r))
      PROVE  Pointer(r) # None /\ Pointer(r).by = ResultFor("native", "rynn")
  <2>1. CASE job[t].overwrite
    BY <1>3, <2>1 DEF SnapshotDone, ResultFor, Overwrites
  <2>2. CASE ~job[t].overwrite
    <3>1. Pointer(r) # None /\ Disagree(r)
      BY <1>3, <1>4, <2>2 DEF SnapshotDone, Overwrites, Disagree
    <3>2. Owner(Pointer(r).by, r)
      BY <3>1, PointerBy DEF AgreeIInv, AgreeInv, OrderIInv
    <3>3. /\ Pointer(r).by = t
          /\ ~Manual(t) => Candidates("rynn") # {} /\ FirstResult("rynn") = t
      BY <1>3, <2>2, <3>2, PublisherOwns DEF AgreeIInv
    <3> QED
      BY <3>1, <3>3 DEF ResultFor
  <2> QED
    BY <2>1, <2>2
<1> QED
  BY <1>3, <1>4

(* The result that is preserved has not been published, and nothing before *)
(* it is about to add one.                                                 *)
LEMMA FirstStep ==
  ASSUME AgreeIInv, Clean, publisher # NoPub, publisher.todo # <<>>,
         NEW r \in Runs, Step = <<"first", r, "rynn">>, ~SkipStep("first", r, "rynn")
  PROVE  Pointer(r) = None /\ Owner(FirstResult("rynn"), r) /\ ~Whole(Sidecar(r))
<1> DEFINE f == FirstResult("rynn")
<1>1. Pointer(r) = None /\ ~Whole(Sidecar(r)) /\ Candidates("rynn") # {}
  BY DEF SkipStep, Taken, NativeValid, RynnValid, Pointer, Sidecar
<1>2. f \in Candidates("rynn") /\ \A c \in Candidates("rynn") : c = f \/ Older(f, c)
  BY <1>1, FirstIsOldest DEF AgreeIInv
<1> HIDE DEF f
<1>3. /\ f \in Jobs /\ HasVersion(f, "rynn") /\ versions[f]["rynn"] = "READY" /\ ~Manual(f)
      /\ "rynn" \in SourcesOf(f) /\ status[f] = "completed"
  <2>1. f \in Jobs /\ HasVersion(f, "rynn") /\ versions[f]["rynn"] = "READY"
    BY <1>2 DEF Candidates, HasVersion
  <2> QED
    BY <2>1 DEF AgreeIInv, OrderIInv, WorkInv, PublicationIInv, CompositeTogether
<1>4. work[f] = Runs \X SourcesOf(f)
  BY <1>3 DEF AgreeIInv, OrderIInv, WorkInv
<1>5. binding[f] = "none"
  <2>1. binding[f] # "READY"
    BY <1>1, <1>3, <1>4 DEF AgreeIInv, AgreeInv
  <2>2. binding[f] \in {"none", "READY", "ERROR"}
    BY <1>3 DEF AgreeIInv, OrderIInv, PublicationIInv, ResultsShape
  <2> QED
    BY <1>3, <2>1, <2>2 DEF Clean
<1>6. ASSUME NEW m \in Jobs, Older(m, f), Unpublished(m), Manual(m) PROVE FALSE
  <2>1. ~MayReplace(publisher.task)
    BY AtStep DEF AgreeIInv, OrderIInv
  <2>2. m = publisher.task
    BY <1>3, <1>6 DEF AgreeIInv, OrderIInv, LateInv, Clean, Started
  <2> QED
    BY <1>6, <2>1, <2>2 DEF MayReplace
<1> QED
  BY <1>1, <1>2, <1>3, <1>4, <1>5, <1>6 DEF Owner, Unpublished, f

(* A job that replaces a snapshot owns what it replaces.                   *)
LEMMA SnapshotStep ==
  ASSUME AgreeIInv, Clean, publisher # NoPub, publisher.todo # <<>>,
         NEW r \in Runs, Step = <<"snapshot", r, "rynn">>
  PROVE  publisher.task \in Jobs /\ Owner(publisher.task, r)
<1> DEFINE t == publisher.task
<1>1. MayReplace(t) /\ t \in Jobs
  BY AtStep DEF AgreeIInv, OrderIInv, MayReplace
<1>2. publisher.todo \in Seq(StepsFor(t))
  BY DEF AgreeIInv, OrderIInv, PublicationIInv, PublisherInv, Publication
<1>3. Step \in ToSet(publisher.todo)
  <2> HIDE DEF t
  <2> QED
    BY <1>2, RestOf DEF Step
<1>4. <<r, "rynn">> \in work[t]
  BY <1>1, <1>3 DEF AgreeIInv, TodoInv
<1>5. Unpublished(t) /\ \A j \in Jobs : Older(j, t) => ~Unpublished(j)
  <2>1. /\ Unpublished(t) /\ Started(t)
        /\ \A j, k \in Jobs : Older(j, k) /\ Started(k) /\ Unpublished(j) => j = t
    BY <1>1, PublisherOldest DEF AgreeIInv
  <2>2. ~Older(t, t)
    BY OlderOrder DEF AgreeIInv, OrderIInv, PublicationIInv
  <2> QED
    BY <1>1, <2>1, <2>2
<1> QED
  BY <1>1, <1>4, <1>5 DEF Owner

(* The values of a sidecar are written beside the snapshot they belong to, *)
(* and so is their description.                                            *)
LEMMA ValuesStep ==
  ASSUME AgreeIInv, Clean, PublishValues, NEW r \in Runs, Step = Second(r)
  PROVE  /\ Overwrites \/ ~Whole(Sidecar(r))
         /\ Pointer(r) # None /\ Pointer(r).by = publisher'.pick
         /\ SnapshotDone(publisher.task, r)
<1>1. /\ publisher # NoPub /\ publisher.todo # <<>> /\ Step[1] = "native" /\ Step[2] = r
            /\ Step[3] = "rynn"
      /\ ~SkipStep(Step[1], Step[2], Step[3])
      /\ publisher' = [publisher EXCEPT !.pick = ResultFor(Step[1], Step[3])]
  BY DEF PublishValues, Pick, Publishing, Second
<1>2. publisher.task \in Jobs /\ publisher \in Publication
  BY <1>1, AtStep DEF AgreeIInv, OrderIInv, PublicationIInv, PublisherInv
<1>3. publisher'.pick = ResultFor("native", "rynn")
  BY <1>1, <1>2 DEF Publication
<1>4. Overwrites \/ ~Whole(Sidecar(r))
  BY <1>1 DEF SkipStep, NativeValid, RynnValid, Sidecar
<1> QED
  BY <1>1, <1>2, <1>3, <1>4, NativeStep

LEMMA MetaStep ==
  ASSUME AgreeIInv, Clean, PublishMeta, NEW r \in Runs, Step = Second(r)
  PROVE  /\ Pointer(r) # None /\ Pointer(r).by = publisher.pick /\ publisher.pick # None
         /\ Sidecar(r).values = publisher.pick
<1>1. /\ publisher.pick # None /\ Step[1] = "native" /\ Step[2] = r /\ Step[3] = "rynn"
      /\ publisher # NoPub
  BY DEF PublishMeta, Point, Publishing, Second
<1>2. publisher.pick \in Jobs
  BY <1>1 DEF AgreeIInv, OrderIInv, PublicationIInv, PublisherInv, Publication
<1> QED
  BY <1>1, <1>2 DEF AgreeIInv, PickInv

(* The snapshot that is written is the one the step has chosen.            *)
LEMMA PointerStep ==
  ASSUME AgreeIInv, Clean, PublishPointer, NEW r \in Runs, Step = <<Step[1], r, "rynn">>
  PROVE  /\ publisher # NoPub /\ publisher.todo # <<>>
         /\ \/ /\ Step[1] = "first" /\ ~MayReplace(publisher.task)
               /\ Pointer(r) = None /\ ~Whole(Sidecar(r))
            \/ /\ Step[1] = "snapshot" /\ publisher.pick = publisher.task
               /\ Overwrites \/ ~Whole(Sidecar(r))
         /\ Owner(publisher.pick, r)
<1>1. /\ publisher # NoPub /\ publisher.todo # <<>> /\ publisher.pick # None
      /\ Step[1] \in {"first", "snapshot"} /\ Step[2] = r /\ Step[3] = "rynn"
  BY DEF PublishPointer, Point, Publishing
<1>0. publisher.pick \in Jobs
  BY <1>1 DEF AgreeIInv, OrderIInv, PublicationIInv, PublisherInv, Publication
<1>2. CASE Step[1] = "first"
  BY <1>0, <1>1, <1>2, AtStep DEF AgreeIInv, OrderIInv, PickInv
<1>3. CASE Step[1] = "snapshot"
  <2>1. publisher.pick = publisher.task /\ (Overwrites \/ ~Whole(Sidecar(r)))
    BY <1>0, <1>1, <1>3 DEF AgreeIInv, PickInv
  <2>2. Owner(publisher.task, r)
    BY <1>1, <1>3, SnapshotStep
  <2> QED
    BY <1>1, <1>3, <2>1, <2>2
<1> QED
  BY <1>1, <1>2, <1>3

(* A trajectory that has a result keeps one.                               *)
LEMMA ResultStays ==
  ASSUME AgreeIInv, Next, Clean, NEW r \in Runs, Pointer(r) # None \/ Whole(Sidecar(r))
  PROVE  Pointer(r)' # None \/ Whole(Sidecar(r))'
<1>1. PublicationIInv /\ NativeShape
  BY DEF AgreeIInv, OrderIInv
<1>2. CASE Pointer(r) # None
  BY <1>1, <1>2, PointerMoves
<1>3. CASE Pointer(r) = None
  <2>1. ~(PublishValues /\ Step = Second(r))
    BY <1>3, ValuesStep
  <2>2. ~(PublishMeta /\ Step = Second(r))
    BY <1>3, MetaStep
  <2>3. Sidecar(r)' = Sidecar(r)
    BY <1>1, <2>1, <2>2, SidecarMoves
  <2> QED
    BY <1>3, <2>3 DEF Whole
<1> QED
  BY <1>2, <1>3

(* What a publication has done it leaves as it is.                         *)
LEMMA DoneStays ==
  ASSUME AgreeIInv, Next, Clean, publisher.task \in Jobs, NEW r \in Runs
  PROVE  /\ SnapshotDone(publisher.task, r) => Pointer(r)' # None \/ Whole(Sidecar(r))'
         /\ SnapshotDone(publisher.task, r) /\ job[publisher.task].overwrite =>
              Pointer(r)' # None /\ Pointer(r)'.by = publisher.task
         /\ NativeDone(publisher.task, r) => Whole(Sidecar(r))' /\ ~Disagree(r)'
<1> DEFINE t == publisher.task
<1>1. PublicationIInv /\ NativeShape
  BY DEF AgreeIInv, OrderIInv
<1>2. SnapshotDone(t, r) => Pointer(r)' # None \/ Whole(Sidecar(r))'
  BY ResultStays DEF SnapshotDone
<1>3. ASSUME SnapshotDone(t, r), job[t].overwrite PROVE Pointer(r)' # None /\ Pointer(r)'.by = t
  <2>1. Pointer(r) # None /\ Pointer(r).by = t
    BY <1>3 DEF SnapshotDone
  <2>2. CASE PublishPointer /\ Step = <<Step[1], r, "rynn">>
    <3>1. publisher.pick = t
      BY <1>3, <2>2, PointerStep DEF MayReplace
    <3> QED
      BY <1>1, <2>1, <3>1, PointerMoves
  <2>3. CASE ~(PublishPointer /\ Step = <<Step[1], r, "rynn">>)
    BY <1>1, <2>1, <2>3, PointerMoves
  <2> QED
    BY <2>2, <2>3
<1>4. ASSUME NativeDone(t, r) PROVE Whole(Sidecar(r))' /\ ~Disagree(r)'
  <2>1. /\ SnapshotDone(t, r) /\ Whole(Sidecar(r))
              /\ (Pointer(r) # None => Sidecar(r).meta = Pointer(r).by)
    BY <1>4 DEF NativeDone, Disagree
  <2>2. CASE PublishPointer /\ Step = <<Step[1], r, "rynn">>
    <3>1. job[t].overwrite /\ publisher.pick = t
      BY <2>1, <2>2, PointerStep DEF Overwrites
    <3>2. Pointer(r) # None /\ Pointer(r).by = t
      BY <2>1, <3>1 DEF SnapshotDone
    <3>3. Pointer(r)' # None /\ Pointer(r)'.by = t
      BY <1>1, <3>1, <3>2, PointerMoves
    <3>4. Sidecar(r)' = Sidecar(r)
      BY <2>2 DEF PublishPointer, Sidecar
    <3> QED
      BY <2>1, <3>2, <3>3, <3>4 DEF Disagree, Whole
  <2>3. CASE PublishValues /\ Step = Second(r)
    <3>1. Pointer(r) # None /\ Pointer(r).by = publisher'.pick
      BY <2>3, ValuesStep
    <3>2. snapshot' = snapshot
      BY <2>3 DEF PublishValues
    <3>3. Sidecar(r)'.values = publisher'.pick /\ Sidecar(r)'.meta = Sidecar(r).meta
      <4>1. ~PublishMeta
        BY <2>3 DEF PublishMeta, PublishValues, Pick, Point
      <4>2. CASE Sidecar(r)' = Sidecar(r)
        BY <2>1, <3>1, <4>2 DEF Whole
      <4> QED
        BY <1>1, <4>1, <4>2, SidecarMoves
    <3> QED
      BY <2>1, <3>1, <3>2, <3>3 DEF Disagree, Whole, Pointer
  <2>4. CASE PublishMeta /\ Step = Second(r)
    <3>1. /\ Pointer(r) # None /\ Pointer(r).by = publisher.pick /\ publisher.pick # None
          /\ Sidecar(r).values = publisher.pick
      BY <2>4, MetaStep
    <3>2. snapshot' = snapshot
      BY <2>4 DEF PublishMeta
    <3>3. Sidecar(r)'.meta = publisher.pick /\ Sidecar(r)'.values = Sidecar(r).values
      <4>1. ~PublishValues
        BY <2>4 DEF PublishMeta, PublishValues, Pick, Point
      <4>2. CASE Sidecar(r)' = Sidecar(r)
        BY <2>1, <3>1, <4>2 DEF Whole
      <4> QED
        BY <1>1, <4>1, <4>2, SidecarMoves
    <3> QED
      BY <3>1, <3>2, <3>3 DEF Disagree, Whole, Pointer
  <2>5. CASE /\ ~(PublishPointer /\ Step = <<Step[1], r, "rynn">>)
             /\ ~(PublishValues /\ Step = Second(r)) /\ ~(PublishMeta /\ Step = Second(r))
    <3>1. Sidecar(r)' = Sidecar(r)
      BY <1>1, <2>5, SidecarMoves
    <3>2. /\ Pointer(r)' = None <=> Pointer(r) = None
          /\ Pointer(r) # None => Pointer(r)'.by = Pointer(r).by
      BY <1>1, <2>5, PointerMoves
    <3> QED
      BY <2>1, <3>1, <3>2 DEF Disagree, Whole
  <2> QED
    BY <2>2, <2>3, <2>4, <2>5
<1> QED
  BY <1>2, <1>3, <1>4

(* How a publication goes on.                                              *)
LEMMA StepMoves ==
  ASSUME PublicationIInv, Next
  PROVE  \/ publisher' = publisher /\ ~PublishPointer /\ ~PublishValues /\ ~PublishMeta
         \/ publisher' = NoPub
         \/ /\ Dispatch /\ selected \in tasks
            /\ publisher' = [task |-> selected, todo |-> Plan(selected), pick |-> None]
         \/ /\ PublishSkip \/ PublishPointer \/ PublishMeta
            /\ publisher # NoPub /\ publisher.todo # <<>> /\ publisher'.task = publisher.task
            /\ publisher'.todo = Tail(publisher.todo) /\ publisher'.pick = None
         \/ /\ PublishArrays \/ PublishValues
            /\ publisher # NoPub /\ publisher.todo # <<>> /\ publisher'.task = publisher.task
            /\ publisher'.todo = publisher.todo /\ publisher'.pick = ResultFor(Step[1], Step[3])
<1>0. publisher # NoPub => publisher \in Publication
  BY DEF PublicationIInv, PublisherInv
<1>1. CASE PublishSkip
  <2>1. publisher # NoPub /\ publisher.todo # <<>> /\ publisher.pick = None
        /\ publisher' = [publisher EXCEPT !.todo = Tail(publisher.todo)]
    BY <1>1 DEF PublishSkip, Publishing
  <2>2. publisher'.task = publisher.task /\ publisher'.todo = Tail(publisher.todo)
        /\ publisher'.pick = None
    BY <1>0, <2>1 DEF Publication
  <2> QED
    BY <1>1, <2>1, <2>2
<1>2. CASE PublishPointer \/ PublishMeta
  <2>1. publisher # NoPub /\ publisher.todo # <<>>
        /\ publisher' = [publisher EXCEPT !.todo = Tail(publisher.todo), !.pick = None]
    BY <1>2 DEF PublishPointer, PublishMeta, Point, Publishing
  <2>2. publisher'.task = publisher.task /\ publisher'.todo = Tail(publisher.todo)
        /\ publisher'.pick = None
    BY <1>0, <2>1 DEF Publication
  <2> QED
    BY <1>2, <2>1, <2>2
<1>3. CASE PublishArrays \/ PublishValues
  <2>1. publisher # NoPub /\ publisher.todo # <<>>
        /\ publisher' = [publisher EXCEPT !.pick = ResultFor(Step[1], Step[3])]
    BY <1>3 DEF PublishArrays, PublishValues, Pick, Publishing
  <2>2. publisher'.task = publisher.task /\ publisher'.todo = publisher.todo
        /\ publisher'.pick = ResultFor(Step[1], Step[3])
    BY <1>0, <2>1 DEF Publication
  <2> QED
    BY <1>3, <2>1, <2>2
<1>4. CASE \/ Crash \/ PublishEnd \/ PublishFail \/ \E j \in Jobs : CrashInLaunch(j)
  BY <1>4 DEF Crash, CrashInLaunch, Died, PublishEnd, PublishFail, Bind
<1>5. CASE Dispatch
  <2>1. ~PublishPointer /\ ~PublishValues /\ ~PublishMeta
    BY <1>5 DEF Dispatch, LeaseFree, PublishPointer, PublishValues, PublishMeta, Pick, Point,
       Publishing
  <2>2. CASE selected \in tasks
    BY <1>5, <2>2 DEF Dispatch
  <2>3. CASE selected \notin tasks
    BY <1>5, <2>1, <2>3 DEF Dispatch
  <2> QED
    BY <2>2, <2>3
<1>6. CASE ~PublishPointer /\ ~PublishValues /\ ~PublishMeta /\ publisher' = publisher
  BY <1>6
<1> QED
  BY <1>1, <1>2, <1>3, <1>4, <1>5, <1>6, Changes

(* A step that has begun goes on as it was meant to.                       *)
LEMMA PickInvStep ==
  ASSUME AgreeIInv, Next
  PROVE  PickInv'
<1>0. OrderIInv /\ PublicationIInv /\ CreatedInv /\ NativeShape /\ UNCHANGED job
  BY Changes DEF AgreeIInv, OrderIInv
<1> SUFFICES ASSUME Clean', NEW p \in Jobs, NEW r \in Runs,
                    publisher'.pick = p, Step'[2] = r, Step'[3] = "rynn"
             PROVE  /\ Step'[1] = "first" =>
                         Pointer(r)' = None /\ Owner(p, r)' /\ ~Whole(Sidecar(r))'
                    /\ Step'[1] = "snapshot" =>
                         p = publisher'.task /\ (Overwrites' \/ ~Whole(Sidecar(r))')
                    /\ Step'[1] = "native" => /\ Pointer(r)' # None /\ Pointer(r)'.by = p
                                              /\ Sidecar(r)'.values = p
  BY DEF PickInv
<1>1. Clean
  BY <1>0, CleanBefore
<1>2. NoPub.pick = None /\ p # None
  BY NamesAssumption
<1>3. \A q \in Jobs : Unpublished(q) /\ UNCHANGED binding => Unpublished(q)'
  <2>1. ASSUME NEW q \in Jobs, Unpublished(q), UNCHANGED binding PROVE Unpublished(q)'
    <3>1. status'[q] = "completed"
      BY <1>0, <2>1, StatusMoves DEF Unpublished
    <3> QED
      BY <2>1, <3>1 DEF Unpublished
  <2> QED
    BY <2>1
<1> HIDE DEF NoPub
<1>4. CASE publisher' = publisher /\ ~PublishPointer /\ ~PublishValues /\ ~PublishMeta
  <2>1. publisher # NoPub /\ publisher.todo # <<>> /\ Step' = Step /\ Overwrites' = Overwrites
    BY <1>0, <1>2, <1>4 DEF PublicationIInv, PublisherInv, Step, Overwrites
  <2>2. Sidecar(r)' = Sidecar(r)
    BY <1>0, <1>4, SidecarMoves
  <2>3. /\ Pointer(r)' = None <=> Pointer(r) = None
        /\ Pointer(r) # None => Pointer(r)'.by = Pointer(r).by
    BY <1>0, <1>4, PointerMoves
  <2>4. UNCHANGED binding
    BY <1>2, <1>4, Changes, BindingMoves DEF PublishEnd, PublishFail, Bind
  <2>5. Owner(p, r) => Owner(p, r)'
    <3>1. Owner(p, r) => Unpublished(p)'
      BY <1>3, <2>4 DEF Owner
    <3> QED
      BY <1>0, <1>1, <3>1, OwnerStays
  <2> QED
    BY <1>1, <1>4, <2>1, <2>2, <2>3, <2>5 DEF AgreeIInv, PickInv, Whole
<1>5. CASE publisher' = NoPub
  BY <1>2, <1>5
<1>6. CASE publisher' = [task |-> selected, todo |-> Plan(selected), pick |-> None]
  BY <1>2, <1>6
<1>7. CASE publisher'.pick = None
  BY <1>2, <1>7
<1>8. CASE /\ PublishArrays \/ PublishValues
           /\ publisher # NoPub /\ publisher.todo # <<>> /\ publisher'.task = publisher.task
           /\ publisher'.todo = publisher.todo /\ publisher'.pick = ResultFor(Step[1], Step[3])
  <2>1. Step' = Step /\ Overwrites' = Overwrites /\ Step = <<Step[1], r, "rynn">>
    <3>1. Step' = Step /\ Overwrites' = Overwrites
      BY <1>0, <1>8 DEF Step, Overwrites
    <3> QED
      BY <1>0, <1>8, <3>1, AtStep
  <2>2. UNCHANGED <<snapshot, binding>>
    BY <1>8 DEF PublishArrays, PublishValues, results
  <2>3. Owner(p, r) => Owner(p, r)'
    <3>1. Owner(p, r) => Unpublished(p)'
      BY <1>3, <2>2 DEF Owner
    <3> QED
      BY <1>0, <1>1, <3>1, OwnerStays
  <2>4. CASE PublishArrays
    <3>1. Step[1] \in {"first", "snapshot"} /\ ~SkipStep(Step[1], r, "rynn")
          /\ Sidecar(r)' = Sidecar(r) /\ Pointer(r)' = Pointer(r)
      BY <2>1, <2>2, <2>4 DEF PublishArrays, Pick, Sidecar, Pointer
    <3>2. CASE Step[1] = "first"
      <4>1. Pointer(r) = None /\ Owner(FirstResult("rynn"), r) /\ ~Whole(Sidecar(r))
        BY <1>1, <1>8, <2>1, <3>1, <3>2, FirstStep
      <4>2. p = FirstResult("rynn")
        BY <1>8, <2>1, <3>2 DEF ResultFor
      <4> QED
        BY <2>1, <2>3, <3>1, <3>2, <4>1, <4>2 DEF Whole
    <3>3. CASE Step[1] = "snapshot"
      <4>1. p = publisher.task
        BY <1>8, <2>1, <3>3 DEF ResultFor
      <4>2. Overwrites \/ ~Whole(Sidecar(r))
        BY <3>1, <3>3 DEF SkipStep, Taken, NativeValid, RynnValid, Sidecar
      <4> QED
        BY <1>8, <2>1, <3>1, <3>3, <4>1, <4>2 DEF Whole
    <3> QED
      BY <3>1, <3>2, <3>3
  <2>5. CASE PublishValues
    <3>1. Step = Second(r)
      BY <2>1, <2>5 DEF PublishValues, Pick, Second
    <3>2. Pointer(r) # None /\ Pointer(r).by = p
      BY <1>1, <2>5, <3>1, ValuesStep DEF AgreeIInv
    <3>3. Sidecar(r)'.values = p
      <4>1. /\ native' = [native EXCEPT ![r]["rynn"].values = p]
        BY <2>1, <2>5 DEF PublishValues
      <4> QED
        BY <1>0, <4>1 DEF NativeShape, Sidecar, Natives
    <3> QED
      BY <2>1, <2>2, <3>1, <3>2, <3>3 DEF Second, Pointer
  <2> QED
    BY <1>8, <2>4, <2>5
<1> QED
  BY <1>0, <1>4, <1>5, <1>6, <1>7, <1>8, StepMoves

(* A sidecar has been dealt with when its step is over, a snapshot when    *)
(* the step before it is.                                                  *)
LEMMA SecondDone ==
  ASSUME AgreeIInv, Next, Clean, publisher.task \in Jobs, publisher # NoPub, publisher.todo # <<>>,
         PublishSkip \/ PublishPointer \/ PublishMeta, NEW r \in Runs, Step = Second(r)
  PROVE  Whole(Sidecar(r))' /\ ~Disagree(r)'
<1> DEFINE t == publisher.task
<1>1. PublicationIInv /\ NativeShape /\ OrderIInv
  BY DEF AgreeIInv, OrderIInv
<1>2. <<r, "rynn">> \in work[t] /\ SnapshotDone(t, r)
  BY NativeStep
<1>3. CASE PublishSkip
  <2>1. ~job[t].overwrite /\ Whole(Sidecar(r))
    BY <1>3 DEF PublishSkip, SkipStep, Second, Overwrites, NativeValid, RynnValid, Sidecar
  <2>2. Sidecar(r)' = Sidecar(r) /\ Pointer(r)' = Pointer(r)
    BY <1>3 DEF PublishSkip, Second, Sidecar, Pointer
  <2>3. ASSUME Disagree(r) PROVE FALSE
    <3>1. Owner(Pointer(r).by, r) /\ job[Pointer(r).by].overwrite
      BY <1>1, <2>1, <2>3, PointerBy DEF AgreeIInv, AgreeInv, Disagree
    <3>2. Pointer(r).by = t
      BY <1>1, <1>2, <2>1, <3>1, PublisherOwns
    <3> QED
      BY <2>1, <3>1, <3>2
  <2> QED
    BY <2>1, <2>2, <2>3 DEF Disagree, Whole
<1>4. CASE PublishMeta
  <2>1. /\ Pointer(r) # None /\ Pointer(r).by = publisher.pick /\ publisher.pick # None
        /\ Sidecar(r).values = publisher.pick
    BY <1>4, MetaStep
  <2>2. snapshot' = snapshot
    BY <1>4 DEF PublishMeta
  <2>3. Sidecar(r)'.meta = publisher.pick /\ Sidecar(r)'.values = Sidecar(r).values
    <3>1. native' = [native EXCEPT ![r]["rynn"].meta = publisher.pick]
      BY <1>4 DEF PublishMeta, Describe, Second
    <3> QED
      BY <1>1, <3>1 DEF NativeShape, Sidecar, Natives
  <2> QED
    BY <2>1, <2>2, <2>3 DEF Disagree, Whole, Pointer
<1>5. CASE PublishPointer
  BY <1>5 DEF PublishPointer, Point, Second
<1> QED
  BY <1>3, <1>4, <1>5

LEMMA FirstDone ==
  ASSUME AgreeIInv, Next, Clean, publisher.task \in Jobs, publisher # NoPub, publisher.todo # <<>>,
         PublishSkip \/ PublishPointer \/ PublishMeta,
         NEW r \in Runs, Step = First(publisher.task, r), <<r, "rynn">> \in work[publisher.task]
  PROVE  IF job[publisher.task].overwrite THEN Pointer(r)' # None /\ Pointer(r)'.by = publisher.task
         ELSE Pointer(r)' # None \/ Whole(Sidecar(r))'
<1> DEFINE t == publisher.task
<1>1. PublicationIInv /\ NativeShape /\ OrderIInv
  BY DEF AgreeIInv, OrderIInv
<1>2. /\ Step[1] = IF MayReplace(t) THEN "snapshot" ELSE "first"
      /\ Step[2] = r /\ Step[3] = "rynn" /\ Step = <<Step[1], r, "rynn">>
  BY DEF First
<1>3. CASE PublishPointer
  <2>1. \/ Step[1] = "first" /\ ~MayReplace(t)
        \/ Step[1] = "snapshot" /\ publisher.pick = t
    BY <1>2, <1>3, PointerStep
  <2>2. Pointer(r)' # None /\ Pointer(r)'.by = publisher.pick
    <3> DEFINE p == [by |-> publisher.pick, file |-> publisher.pick, fresh |-> TRUE]
    <3>1. publisher.pick \in Jobs
      BY <1>1, <1>3 DEF PublicationIInv, PublisherInv, Publication, PublishPointer, Point
    <3>2. Pointer(r)' = p
      BY <1>1, <1>2, <1>3 DEF PublishPointer, Destination, Pointer, PublicationIInv, FilesShape,
         Snapshots
    <3>3. p \in [by : Jobs, file : Jobs, fresh : BOOLEAN] /\ p.by = publisher.pick
      BY <3>1
    <3> HIDE DEF p
    <3>4. p # None
      BY <3>3, PointerAssumption
    <3> QED
      BY <3>2, <3>3, <3>4
  <2> QED
    BY <2>1, <2>2 DEF MayReplace
<1>4. CASE PublishSkip
  <2>1. SkipStep(Step[1], r, "rynn")
    BY <1>2, <1>4 DEF PublishSkip
  <2>2. ~job[t].overwrite /\ (Pointer(r) # None \/ Whole(Sidecar(r)))
    <3>1. CASE MayReplace(t)
      <4>1. ~job[t].overwrite /\ Taken(r, "rynn")
        BY <1>2, <2>1, <3>1 DEF SkipStep, Overwrites
      <4> QED
        BY <4>1 DEF Taken, Readable, HasSnapshot, NativeValid, RynnValid, Pointer, Sidecar
    <3>2. CASE ~MayReplace(t)
      <4>1. ~Manual(t) /\ ~job[t].overwrite
        BY <3>2 DEF MayReplace
      <4>2. HasSnapshot(r, "rynn") \/ Taken(r, "rynn") \/ Candidates("rynn") = {}
        BY <1>2, <2>1, <3>2 DEF SkipStep
      <4>3. AllReady(t) /\ ~Gone(t)
        BY <1>1, <4>1, PublisherOldest
      <4>4. "rynn" \in SourcesOf(t)
        BY <1>1 DEF OrderIInv, WorkInv
      <4>5. t \in Candidates("rynn")
        BY <4>3, <4>4 DEF Candidates, HasVersion, AllReady, Gone
      <4> QED
        BY <4>1, <4>2, <4>5 DEF Taken, Readable, HasSnapshot, NativeValid, RynnValid, Pointer,
           Sidecar
    <3> QED
      BY <3>1, <3>2
  <2> QED
    BY <2>2, ResultStays
<1>5. CASE PublishMeta
  BY <1>2, <1>5 DEF PublishMeta, Point
<1> QED
  BY <1>3, <1>4, <1>5

(* A publication has done what it does not have to do any more.            *)
LEMMA TodoInvStep ==
  ASSUME AgreeIInv, Next
  PROVE  TodoInv'
<1>0. /\ OrderIInv /\ PublicationIInv /\ WorkInv /\ UNCHANGED job
      /\ tasks \subseteq Jobs \cup Runs /\ job \in JobSpecs /\ OrderIInv'
  BY Changes, OrderStep DEF AgreeIInv, OrderIInv, PublicationIInv, JobsShape
<1> SUFFICES ASSUME NEW t \in Jobs, publisher'.task = t
    PROVE  /\ \A e \in ToSet(publisher'.todo) : e[1] = "first" \/ <<e[2], e[3]>> \in work'[t]
           /\ Clean' => \A r \in Runs : <<r, "rynn">> \in work'[t] =>
                /\ Second(r) \notin ToSet(publisher'.todo) => NativeDone(t, r)'
                /\ \/ Leads(publisher'.todo, First(t, r), Second(r))
                   \/ SnapshotDone(t, r)'
  <2>1. \A t, r : First(t, r)' = First(t, r)
    BY <1>0 DEF First, MayReplace
  <2> QED
    BY <2>1 DEF TodoInv
<1>1. t # None /\ NoPub.task = None
  BY NamesAssumption
<1> HIDE DEF NoPub
<1>2. CASE publisher' = NoPub
  BY <1>1, <1>2
<1>3. CASE /\ Dispatch /\ selected \in tasks
           /\ publisher' = [task |-> selected, todo |-> Plan(selected), pick |-> None]
  <2>1. selected = t /\ publisher'.todo = Plan(t) /\ work' = work
    BY <1>3 DEF Dispatch
  <2>2. \A r : <<r, "rynn">> \in work[t] => "rynn" \in SourcesOf(t)
    BY <1>0 DEF WorkInv
  <2> QED
    BY <1>0, <2>1, <2>2, PlanOrdered
<1>4. ASSUME publisher.task = t, publisher # NoPub,
             publisher'.todo = publisher.todo
             \/ /\ PublishSkip \/ PublishPointer \/ PublishMeta
                /\ publisher.todo # <<>> /\ publisher'.todo = Tail(publisher.todo)
      PROVE  /\ \A e \in ToSet(publisher'.todo) : e[1] = "first" \/ <<e[2], e[3]>> \in work'[t]
             /\ Clean' => \A r \in Runs : <<r, "rynn">> \in work'[t] =>
                  /\ Second(r) \notin ToSet(publisher'.todo) => NativeDone(t, r)'
                  /\ \/ Leads(publisher'.todo, First(t, r), Second(r))
                     \/ SnapshotDone(t, r)'
  <2>1. work'[t] = work[t]
    BY <1>0, <1>4, WorkStays DEF PublicationIInv, TasksInv
  <2>2. publisher.todo # <<>> /\ publisher'.todo = Tail(publisher.todo) =>
          /\ ToSet(publisher.todo) = {Step} \cup ToSet(publisher'.todo)
          /\ \A x, y : Leads(publisher.todo, x, y) =>
               Step # y /\ (Step # x => Leads(publisher'.todo, x, y))
    <3>1. publisher.todo \in Seq(StepsFor(t))
      BY <1>0, <1>4 DEF PublicationIInv, PublisherInv, Publication
    <3> HIDE DEF StepsFor
    <3> QED
      BY <3>1, RestOf DEF Step
  <2>3. ToSet(publisher'.todo) \subseteq ToSet(publisher.todo)
    BY <1>4, <2>2
  <2>4. \A e \in ToSet(publisher'.todo) : e[1] = "first" \/ <<e[2], e[3]>> \in work'[t]
    BY <1>4, <2>1, <2>3 DEF AgreeIInv, TodoInv
  <2>5. ASSUME Clean', NEW r \in Runs, <<r, "rynn">> \in work'[t]
        PROVE  /\ Second(r) \notin ToSet(publisher'.todo) => NativeDone(t, r)'
               /\ \/ Leads(publisher'.todo, First(t, r), Second(r))
                  \/ SnapshotDone(t, r)'
    <3>1. Clean
      BY <1>0, <2>5, CleanBefore
    <3>2. /\ Second(r) \notin ToSet(publisher.todo) => NativeDone(t, r)
          /\ Leads(publisher.todo, First(t, r), Second(r)) \/ SnapshotDone(t, r)
      BY <1>4, <2>1, <2>5, <3>1 DEF AgreeIInv, TodoInv
    <3>3. SnapshotDone(t, r) => SnapshotDone(t, r)'
      <4>1. SnapshotDone(t, r)' <=>
              IF job[t].overwrite THEN Pointer(r)' # None /\ Pointer(r)'.by = t
              ELSE Pointer(r)' # None \/ Whole(Sidecar(r))'
        BY <1>0 DEF SnapshotDone
      <4> QED
        BY <1>4, <3>1, <4>1, DoneStays
    <3>4. NativeDone(t, r) => NativeDone(t, r)'
      BY <1>4, <3>1, <3>3, DoneStays DEF NativeDone
    <3>5. CASE publisher'.todo = publisher.todo
      BY <3>2, <3>3, <3>4, <3>5
    <3>6. CASE /\ PublishSkip \/ PublishPointer \/ PublishMeta
               /\ publisher.todo # <<>> /\ publisher'.todo = Tail(publisher.todo)
      <4>1. ASSUME Step = Second(r) PROVE NativeDone(t, r)'
        <5>1. Whole(Sidecar(r))' /\ ~Disagree(r)'
          BY <1>4, <3>1, <3>6, <4>1, SecondDone
        <5>2. SnapshotDone(t, r)
          BY <1>4, <3>1, <3>6, <4>1, NativeStep
        <5> QED
          BY <3>3, <5>1, <5>2 DEF NativeDone
      <4>2. ASSUME Step = First(t, r) PROVE SnapshotDone(t, r)'
        <5>1. IF job[t].overwrite THEN Pointer(r)' # None /\ Pointer(r)'.by = t
              ELSE Pointer(r)' # None \/ Whole(Sidecar(r))'
          BY <1>4, <2>1, <2>5, <3>1, <3>6, <4>2, FirstDone
        <5> QED
          BY <1>0, <5>1 DEF SnapshotDone
      <4>3. Second(r) \notin ToSet(publisher'.todo) => NativeDone(t, r)'
        BY <2>2, <3>2, <3>4, <3>6, <4>1
      <4>4. Leads(publisher'.todo, First(t, r), Second(r)) \/ SnapshotDone(t, r)'
        BY <2>2, <3>2, <3>3, <3>6, <4>2
      <4> QED
        BY <4>3, <4>4
    <3> QED
      BY <1>4, <3>5, <3>6
  <2> QED
    BY <2>4, <2>5
<1>5. CASE publisher' = publisher
  BY <1>1, <1>4, <1>5
<1>6. CASE /\ PublishSkip \/ PublishPointer \/ PublishMeta
           /\ publisher # NoPub /\ publisher.todo # <<>> /\ publisher'.task = publisher.task
           /\ publisher'.todo = Tail(publisher.todo)
  BY <1>4, <1>6
<1>7. CASE /\ publisher # NoPub /\ publisher'.task = publisher.task
           /\ publisher'.todo = publisher.todo
  BY <1>4, <1>7
<1> QED
  BY <1>0, <1>2, <1>3, <1>5, <1>6, <1>7, StepMoves

(* A disagreement keeps its owner, and a result that has been published is *)
(* there.                                                                  *)
LEMMA AgreeInvStep ==
  ASSUME AgreeIInv, Next
  PROVE  AgreeInv'
<1>0. /\ OrderIInv /\ PublicationIInv /\ CreatedInv /\ JobsInv /\ NativeShape /\ UNCHANGED job
      /\ binding \in [Jobs -> {"none", "READY", "ERROR"}]
  BY Changes DEF AgreeIInv, OrderIInv, PublicationIInv, ResultsShape
<1> SUFFICES ASSUME Clean'
    PROVE  /\ \A r \in Runs, o \in Jobs : Disagree(r)' /\ Pointer(r)'.by = o =>
                Owner(o, r)' /\ (job[o].overwrite \/ ~Whole(Sidecar(r))')
           /\ \A r \in Runs, j \in Jobs : binding'[j] = "READY" /\ <<r, "rynn">> \in work'[j] =>
                Pointer(r)' # None \/ Whole(Sidecar(r))'
  BY <1>0 DEF AgreeInv
<1>1. Clean
  BY <1>0, CleanBefore
<1>2. ASSUME PublishEnd, publisher.task \in Jobs, NEW r \in Runs,
             <<r, "rynn">> \in work[publisher.task]
      PROVE  NativeDone(publisher.task, r)
  <2>1. publisher.todo = <<>>
    BY <1>2 DEF PublishEnd
  <2>2. Second(r) \notin ToSet(publisher.todo)
    BY <2>1 DEF ToSet
  <2> QED
    BY <1>1, <1>2, <2>2 DEF AgreeIInv, TodoInv
<1>3. ASSUME NEW o \in Jobs, Unpublished(o), NEW r \in Runs, Owner(o, r), binding'[o] = binding[o]
      PROVE  Owner(o, r)'
  <2>1. Unpublished(o)'
    BY <1>0, <1>3, StatusMoves DEF Unpublished
  <2> QED
    BY <1>0, <1>1, <1>3, <2>1, OwnerStays
<1>4. ASSUME NEW r \in Runs, NEW o \in Jobs, Disagree(r)', Pointer(r)'.by = o
      PROVE  Owner(o, r)' /\ (job[o].overwrite \/ ~Whole(Sidecar(r))')
  <2>1. CASE PublishPointer /\ Step = <<Step[1], r, "rynn">>
    <3>1. /\ \/ Step[1] = "first" /\ ~Whole(Sidecar(r))
             \/ Step[1] = "snapshot" /\ publisher.pick = publisher.task
                /\ (Overwrites \/ ~Whole(Sidecar(r)))
          /\ Owner(publisher.pick, r)
      BY <1>1, <2>1, PointerStep
    <3>2. publisher.pick = o
      <4>1. Pointer(r)' = [by |-> publisher.pick, file |-> publisher.pick, fresh |-> TRUE]
        BY <1>0, <2>1 DEF PublishPointer, Destination, Pointer, PublicationIInv, FilesShape,
           Snapshots
      <4> QED
        BY <1>4, <4>1
    <3>3. Sidecar(r)' = Sidecar(r) /\ UNCHANGED binding
      BY <2>1 DEF PublishPointer, Sidecar, results
    <3>4. Owner(o, r)'
      BY <1>3, <3>1, <3>2, <3>3 DEF Owner
    <3> QED
      BY <3>1, <3>2, <3>3, <3>4 DEF Overwrites, Whole
  <2>2. CASE PublishValues /\ Step = Second(r)
    <3>1. Pointer(r) # None /\ Pointer(r).by = publisher'.pick
      BY <1>1, <2>2, ValuesStep
    <3>2. Pointer(r)' = Pointer(r) /\ UNCHANGED binding
      BY <2>2 DEF PublishValues, Pointer, results
    <3>3. Sidecar(r)'.values = o /\ Sidecar(r)'.meta = Sidecar(r).meta
      <4>1. native' = [native EXCEPT ![r]["rynn"].values = publisher'.pick]
        BY <2>2 DEF PublishValues, Second
      <4>2. Sidecar(r)'.values = publisher'.pick /\ Sidecar(r)'.meta = Sidecar(r).meta
        BY <1>0, <4>1 DEF NativeShape, Sidecar, Natives
      <4> QED
        BY <1>4, <3>1, <3>2, <4>2
    <3>4. Sidecar(r).meta # o
      <4>1. o # None
        BY NamesAssumption
      <4> QED
        BY <1>4, <3>3, <4>1 DEF Disagree, Whole
    <3>5. Disagree(r) /\ Pointer(r).by = o
      BY <1>4, <3>1, <3>2, <3>4 DEF Disagree
    <3>6. Owner(o, r)
      BY <1>1, <3>5 DEF AgreeIInv, AgreeInv
    <3>7. Owner(o, r)'
      BY <1>3, <3>2, <3>6 DEF Owner
    <3> QED
      BY <3>3, <3>4, <3>7 DEF Whole
  <2>3. CASE PublishMeta /\ Step = Second(r)
    <3>1. publisher # NoPub /\ publisher.todo # <<>> /\ Step[3] = "rynn" /\ Step[1] = "native"
      BY <2>3 DEF PublishMeta, Point, Publishing, Second
    <3>2. publisher.task \in Jobs
      BY <1>0, <3>1, AtStep
    <3> QED
      BY <1>1, <1>4, <2>3, <3>1, <3>2, SecondDone
  <2>4. CASE /\ ~(PublishPointer /\ Step = <<Step[1], r, "rynn">>)
             /\ ~(PublishValues /\ Step = Second(r)) /\ ~(PublishMeta /\ Step = Second(r))
    <3>1. Sidecar(r)' = Sidecar(r)
      BY <1>0, <2>4, SidecarMoves
    <3>2. /\ Pointer(r)' = None <=> Pointer(r) = None
          /\ Pointer(r) # None => Pointer(r)'.by = Pointer(r).by
      BY <1>0, <2>4, PointerMoves
    <3>3. Disagree(r) /\ Pointer(r).by = o
      BY <1>4, <3>1, <3>2 DEF Disagree, Whole
    <3>4. Owner(o, r) /\ (job[o].overwrite \/ ~Whole(Sidecar(r)))
      BY <1>1, <3>3 DEF AgreeIInv, AgreeInv
    <3>5. binding'[o] = binding[o]
      <4>1. CASE PublishEnd /\ publisher.task = o
        BY <1>2, <3>3, <3>4, <4>1 DEF NativeDone, Owner
      <4>2. CASE ~(PublishEnd /\ publisher.task = o)
        BY <1>0, <4>2, BindingMoves DEF Clean
      <4> QED
        BY <4>1, <4>2
    <3> QED
      BY <1>3, <3>1, <3>4, <3>5 DEF Owner, Whole
  <2> QED
    BY <2>1, <2>2, <2>3, <2>4
<1>5. ASSUME NEW r \in Runs, NEW j \in Jobs, binding'[j] = "READY", <<r, "rynn">> \in work'[j]
      PROVE  Pointer(r)' # None \/ Whole(Sidecar(r))'
  <2>1. status[j] = "completed"
    <3>1. CASE binding[j] = "READY"
      BY <1>0, <3>1 DEF JobsInv
    <3>2. CASE publisher.task = j
      BY <1>0, <3>2 DEF PublicationIInv, TasksInv
    <3> QED
      BY <1>0, <1>5, <3>1, <3>2, BindingMoves
  <2>2. <<r, "rynn">> \in work[j]
    BY <1>0, <1>5, <2>1, WorkStays
  <2>3. Pointer(r) # None \/ Whole(Sidecar(r))
    <3>1. CASE binding[j] = "READY"
      BY <1>1, <2>2, <3>1 DEF AgreeIInv, AgreeInv
    <3>2. CASE PublishEnd /\ publisher.task = j
      BY <1>2, <2>2, <3>2 DEF NativeDone
    <3> QED
      BY <1>0, <1>5, <3>1, <3>2, BindingMoves
  <2> QED
    BY <1>1, <2>3, ResultStays
<1> QED
  BY <1>4, <1>5

(* The invariant is inductive,                                             *)
LEMMA AgreeStep ==
  ASSUME AgreeIInv, [Next]_vars
  PROVE  AgreeIInv'
<1>1. CASE Next
  <2>1. OrderIInv' /\ NativeShape'
    <3>1. OrderIInv'
      BY <1>1, OrderStep DEF AgreeIInv
    <3>2. CASE Runs = {}
      <4>1. ~PublishValues /\ ~PublishMeta
        BY <3>2, StepTyped DEF AgreeIInv, OrderIInv, PublicationIInv, PublishValues, PublishMeta,
           Pick, Point, Publishing
      <4>2. native' = native
        BY <1>1, <4>1, Changes
      <4> QED
        BY <3>1, <4>2 DEF AgreeIInv, NativeShape
    <3>3. CASE Runs # {}
      <4>1. PICK r \in Runs : TRUE
        BY <3>3
      <4> QED
        BY <1>1, <3>1, <4>1, SidecarMoves DEF AgreeIInv, OrderIInv
    <3> QED
      BY <3>1, <3>2, <3>3
  <2> QED
    BY <1>1, <2>1, AgreeInvStep, PickInvStep, TodoInvStep DEF AgreeIInv
<1>2. CASE UNCHANGED vars
  <2> USE <1>2 DEF vars
  <2>1. /\ \A j : Started(j)' = Started(j) /\ Unpublished(j)' = Unpublished(j)
        /\ \A j : Gone(j)' = Gone(j) /\ AllReady(j)' = AllReady(j)
        /\ \A j, k : Older(j, k)' = Older(j, k)
        /\ \A j : MayReplace(j)' = MayReplace(j) /\ SourcesOf(j)' = SourcesOf(j)
    BY DEF Started, Unpublished, Gone, AllReady, SourcesOf, Older, MayReplace
  <2>2. PublicationIInv'
    BY PublicationStep DEF AgreeIInv, OrderIInv
  <2>3. CreatedInv' /\ FinishedInv' /\ StartedInv' /\ SelectedInv'
    BY <2>1 DEF AgreeIInv, OrderIInv, CreatedInv, FinishedInv, StartedInv, SelectedInv
  <2>4. WorkInv' /\ BoundInv'
    BY <2>1 DEF AgreeIInv, OrderIInv, WorkInv, BoundInv
  <2>5. PolledInv' /\ LateInv' /\ DownInv'
    BY <2>1 DEF AgreeIInv, OrderIInv, PolledInv, LateInv, DownInv
  <2>6. NativeShape' /\ Clean' = Clean /\ Step' = Step /\ Overwrites' = Overwrites
    BY DEF AgreeIInv, NativeShape, Clean, Step, Overwrites
  <2>7. Candidates("rynn")' = Candidates("rynn")
           /\ \A o : HasVersion(o, "rynn")' = HasVersion(o, "rynn")
    BY DEF Candidates, HasVersion
  <2>8. /\ \A r : Pointer(r)' = Pointer(r) /\ Sidecar(r)' = Sidecar(r)
        /\ \A r : Whole(Sidecar(r))' = Whole(Sidecar(r)) /\ Disagree(r)' = Disagree(r)
    BY DEF Pointer, Sidecar, Whole, Disagree
  <2>9. \A o, r : Owner(o, r)' = Owner(o, r)
    BY <2>1, <2>7 DEF Owner
  <2>10. AgreeInv' /\ PickInv'
    BY <2>6, <2>8, <2>9 DEF AgreeIInv, AgreeInv, PickInv
  <2>11. TodoInv'
    <3>1. /\ \A t, r : SnapshotDone(t, r)' = SnapshotDone(t, r)
          /\ \A t, r : NativeDone(t, r)' = NativeDone(t, r)
          /\ \A t, r : First(t, r)' = First(t, r)
      BY <2>1, <2>8 DEF SnapshotDone, NativeDone, First
    <3> QED
      BY <2>6, <3>1 DEF AgreeIInv, TodoInv
  <2> QED
    BY <2>2, <2>3, <2>4, <2>5, <2>6, <2>10, <2>11 DEF AgreeIInv, OrderIInv
<1> QED
  BY <1>1, <1>2

(* it holds at first,                                                      *)
LEMMA AgreeInit ==
  ASSUME Init
  PROVE  AgreeIInv
<1> USE DEF Init
<1>1. PublicationIInv
  BY PublicationInit
<1>2. ToSet(created) = {} /\ ToSet(finished) = {} /\ \A x, y : ~Older(x, y)
  BY DEF ToSet, Older, Before
<1>3. CreatedInv /\ FinishedInv
  BY <1>2 DEF CreatedInv, FinishedInv, Distinct
<1>4. StartedInv /\ SelectedInv /\ DownInv
  BY <1>2 DEF StartedInv, SelectedInv, DownInv, Started
<1>5. WorkInv /\ BoundInv
  BY DEF WorkInv, BoundInv
<1>6. PolledInv /\ LateInv
  BY <1>2 DEF PolledInv, LateInv, Unpublished
<1>7. NativeShape
  BY DEF NativeShape, Values
<1>8. AgreeInv /\ PickInv /\ TodoInv
  BY DEF AgreeInv, PickInv, TodoInv, Disagree, Pointer
<1> QED
  BY <1>1, <1>3, <1>4, <1>5, <1>6, <1>7, <1>8 DEF AgreeIInv, OrderIInv

(* and it has settled results agree.                                       *)
LEMMA AgreeKeeps ==
  ASSUME AgreeIInv
  PROVE  GlobalResultsAgree
<1> SUFFICES ASSUME Settled, ~stalled, NEW r \in Runs, Pointer(r) # None
             PROVE  native[r]["rynn"].meta = Pointer(r).by /\ NativeValid(r, "rynn")
  BY DEF GlobalResultsAgree, Pointer
<1>1. Clean
  BY DEF Clean, Settled, AgreeIInv, OrderIInv, PublicationIInv, JobsInv
<1>2. ~Unpublished(Pointer(r).by)
  BY PointerBy DEF Unpublished, Settled, AgreeIInv, OrderIInv
<1>3. ~Disagree(r)
  BY <1>1, <1>2, PointerBy DEF AgreeIInv, OrderIInv, AgreeInv, Owner
<1> QED
  BY <1>3 DEF Disagree, NativeValid, RynnValid, Sidecar

HIDE NamesAssumption DEF queue, results, files, threads, DatasetOf, Manual, Terminal, LockFree,
   NoPub, Idle, HasSnapshot, Snapshots, Natives, Sources, Versions
-----------------------------------------------------------------------------
(***************************************************************************)
(* Part two: the registry of models.                                       *)
(***************************************************************************)
At == {"none", "unlink", "remove", "removing", "relink", "job"}

(* The records of the model, and what is known of an operation under way.  *)
ShapeOK ==
  /\ Registry!TypeOK
  /\ session \in [at : {"none", "picked", "queued", "claimed", "running"},
                  pick : Registry!Snapshot \cup {Registry!Nothing}]
  /\ session.at # "none" => session.pick \in Registry!Snapshot
  /\ op \in [at : At, kind : {"none", "model", "job"},
             target : Registry!Models \cup {NoModel}, restore : BOOLEAN]
  /\ op.at = "none" => op = Registry!NoOp
  /\ op.at # "none" => op.target \in Registry!Models /\ op.kind # "none"
  /\ op.at = "unlink" => op.kind = "model"
  /\ op.at \in {"relink", "job"} => op.kind = "job"
  /\ op.kind = "job" => op.target \in TrainJobs /\ job[op.target] = "done"
  /\ copier.at \in {"none", "copying", "copied"}
  /\ copier.at # "none" =>
       /\ copier \in [at : {"copying", "copied"}, from : Registry!Models, to : CopyIds,
                      content : TrainJobs \cup {NoModel}]
       /\ copier.at = "copied" => copier.content \in TrainJobs
  /\ \A m \in Registry!Models : Registry!Selectable(m) => content[m] \in TrainJobs

(* The jobs and the session take the GPU one at a time.                    *)
AloneInv ==
  /\ \A j, k \in Registry!AllJobs : Registry!Running(j) /\ Registry!Running(k) => j = k
  /\ session.at \in {"claimed", "running"} => \A j \in Registry!AllJobs : ~Registry!Running(j)
  /\ \A t \in TrainJobs : Registry!Running(t) => trainer # "none"

(* Before its export a training job has no model, nothing names its model  *)
(* and nobody deletes it.                                                  *)
Early(t) ==
  \/ job[t] \in {"none", "queued"}
  \/ Registry!Running(t) /\ trainer \in {"train", "write"}
Unnamed(t) == latest # t /\ \A u \in TrainJobs : previous[u] # t
ExportInv ==
  \A t \in TrainJobs :
    /\ Early(t) => /\ model[t] = (IF Registry!Running(t) /\ trainer = "write" THEN "incomplete" ELSE "absent")
                   /\ Unnamed(t)
                   /\ op.at # "none" => op.target # t
    /\ Registry!Running(t) /\ trainer = "link" => Unnamed(t)

(* What is deleted is in nobody's use.                                     *)
Removing == op.at \in {"unlink", "remove", "removing", "relink"}
UseInv ==
  /\ \A e \in EvalJobs \cap Registry!Live :
       /\ pinned[e] \in Registry!Snapshot /\ Registry!Verified(pinned[e])
       /\ Removing => pinned[e].model # op.target
  /\ \A t \in TrainJobs \cap Registry!Live :
       /\ dataset
       /\ resume[t] # NoJob => resume[t] \in checkpoint
       /\ op.kind = "job" => resume[t] # op.target

(* What is loaded is what was selected.                                    *)
LoadedInv ==
  /\ Registry!InferenceHonest
  /\ session.at = "running" => resident.model = session.pick.model

(* The link, and what it may go back to.                                   *)
Sound(m) == m = NoModel \/ m \in torn \/ Registry!Selectable(m)
LinkInv ==
  /\ Sound(latest) \/ (op.kind = "job" /\ op.at \in {"removing", "relink"} /\ op.target = latest)
  /\ op.kind = "job" /\ op.at # "job" => (op.restore <=> latest = op.target)
  /\ op.kind = "model" /\ latest = op.target =>
       op.target \in torn \/ (op.at = "unlink" /\ op.restore)
  /\ \A u \in TrainJobs :
       \/ Sound(previous[u]) \/ model[previous[u]] = "absent"
       \/ op.at = "removing" /\ op.target = previous[u]

RegistryIInv == ShapeOK /\ AloneInv /\ ExportInv /\ UseInv /\ LoadedInv /\ LinkInv

-----------------------------------------------------------------------------
(* The vocabulary of the registry, expanded throughout.                    *)
USE LibraryAssumption DEF Registry!RegistryAssumption, Registry!Models, Registry!AllJobs,
   Registry!Running, Registry!Live, Registry!Selectable, Registry!ContentSha256, Registry!Verified,
   Registry!Entry, Registry!Snapshot, Registry!Nothing, Registry!NoOp, Registry!NoCopy,
   Registry!NoSession, Registry!diskVars, Registry!jobVars, Registry!backendVars, Registry!LockFree,
   Registry!GpuFree, Registry!SessionGoes, Registry!TrainerGoes, Registry!Training,
   Registry!IdleModel, Registry!UsedBySession, Registry!UsedByJob, Registry!Unload, At, Early,
   Unnamed, Removing, Sound

(* Every step of the registry keeps the invariant.                         *)
LEMMA RegistryStep ==
  ASSUME RegistryIInv, Registry!Next
  PROVE  RegistryIInv'
<1> USE DEF RegistryIInv, ShapeOK, Registry!TypeOK, AloneInv, ExportInv, UseInv, LoadedInv,
            Registry!InferenceHonest, LinkInv
<1>1. ASSUME NEW t \in TrainJobs, Registry!RegisterTraining(t)
      PROVE  RegistryIInv'
  <2>1. ShapeOK'
    BY <1>1 DEF Registry!RegisterTraining, Registry!Resumable
  <2>2. AloneInv' /\ ExportInv' /\ UseInv'
    BY <1>1 DEF Registry!RegisterTraining, Registry!Resumable
  <2>3. LoadedInv' /\ LinkInv'
    BY <1>1 DEF Registry!RegisterTraining, Registry!Resumable
  <2> QED
    BY <2>1, <2>2, <2>3
<1>2. ASSUME NEW t \in TrainJobs, Registry!SaveCheckpoint(t)
      PROVE  RegistryIInv'
  BY <1>2 DEF Registry!SaveCheckpoint
<1>3. ASSUME NEW t \in TrainJobs, Registry!ExportStarts(t)
      PROVE  RegistryIInv'
  <2>1. ShapeOK'
    BY <1>3 DEF Registry!ExportStarts
  <2>2. AloneInv' /\ ExportInv' /\ UseInv'
    BY <1>3 DEF Registry!ExportStarts
  <2>3. LoadedInv' /\ LinkInv'
    BY <1>3 DEF Registry!ExportStarts
  <2> QED
    BY <2>1, <2>2, <2>3
<1>4. ASSUME NEW t \in TrainJobs, Registry!ExportWrites(t)
      PROVE  RegistryIInv'
  <2>1. ShapeOK'
    BY <1>4 DEF Registry!ExportWrites
  <2>2. AloneInv' /\ ExportInv' /\ UseInv'
    BY <1>4 DEF Registry!ExportWrites
  <2>3. LoadedInv' /\ LinkInv'
    BY <1>4 DEF Registry!ExportWrites
  <2> QED
    BY <2>1, <2>2, <2>3
<1>5. ASSUME NEW t \in TrainJobs, Registry!ExportLinks(t)
      PROVE  RegistryIInv'
  <2>1. ShapeOK'
    BY <1>5 DEF Registry!ExportLinks, Registry!RegistryFree
  <2>2. AloneInv' /\ ExportInv' /\ UseInv'
    BY <1>5 DEF Registry!ExportLinks, Registry!RegistryFree
  <2>3. LoadedInv' /\ LinkInv'
    BY <1>5 DEF Registry!ExportLinks, Registry!RegistryFree
  <2> QED
    BY <2>1, <2>2, <2>3
<1>6. ASSUME NEW t \in TrainJobs, Registry!TrainingEnds(t)
      PROVE  RegistryIInv'
  <2>1. ShapeOK'
    BY <1>6 DEF Registry!TrainingEnds
  <2>2. AloneInv' /\ ExportInv' /\ UseInv'
    BY <1>6 DEF Registry!TrainingEnds
  <2>3. LoadedInv' /\ LinkInv'
    BY <1>6 DEF Registry!TrainingEnds
  <2> QED
    BY <2>1, <2>2, <2>3
<1>7. ASSUME NEW e \in EvalJobs, Registry!RegisterEvaluation(e)
      PROVE  RegistryIInv'
  BY <1>7 DEF Registry!RegisterEvaluation
<1>8. ASSUME NEW e \in EvalJobs, Registry!EvaluationLoads(e)
      PROVE  RegistryIInv'
  BY <1>8 DEF Registry!EvaluationLoads
<1>9. ASSUME NEW e \in EvalJobs, Registry!EvaluationEnds(e)
      PROVE  RegistryIInv'
  BY <1>9 DEF Registry!EvaluationEnds
<1>10. ASSUME NEW j \in TrainJobs \cup EvalJobs, Registry!CancelQueued(j)
      PROVE  RegistryIInv'
  BY <1>10 DEF Registry!CancelQueued
<1>11. ASSUME NEW j \in TrainJobs \cup EvalJobs, Registry!Dispatch(j)
      PROVE  RegistryIInv'
  <2>1. ShapeOK'
    BY <1>11 DEF Registry!Dispatch
  <2>2. AloneInv' /\ ExportInv' /\ UseInv'
    BY <1>11 DEF Registry!Dispatch
  <2>3. LoadedInv' /\ LinkInv'
    BY <1>11 DEF Registry!Dispatch
  <2> QED
    BY <2>1, <2>2, <2>3
<1>12. ASSUME NEW m \in Registry!Models, Registry!DeleteModelBegins(m)
      PROVE  RegistryIInv'
  <2>1. ShapeOK'
    BY <1>12 DEF Registry!DeleteModelBegins
  <2>2. AloneInv' /\ ExportInv' /\ UseInv'
    BY <1>12 DEF Registry!DeleteModelBegins
  <2>3. LoadedInv' /\ LinkInv'
    BY <1>12 DEF Registry!DeleteModelBegins
  <2> QED
    BY <2>1, <2>2, <2>3
<1>13. ASSUME NEW t \in TrainJobs, NEW withModel \in BOOLEAN, Registry!DeleteJobBegins(t, withModel)
      PROVE  RegistryIInv'
  <2>u. /\ job[t] = "done" /\ resident' \in {Registry!Nothing, resident}
        /\ UNCHANGED <<model, content, latest, previous, checkpoint, dataset, torn, job, resume, pinned,
                       trainer, evaluator, session, copier>>
    BY <1>13 DEF Registry!DeleteJobBegins
  <2>1. ShapeOK'
    <3>1. resident' \in Registry!Snapshot \cup {Registry!Nothing}
      BY <2>u
    <3>2. CASE op' = [at |-> "remove", kind |-> "job", target |-> t, restore |-> latest = t]
      BY <2>u, <3>1, <3>2
    <3>3. CASE op' = [at |-> "job", kind |-> "job", target |-> t, restore |-> FALSE]
      BY <2>u, <3>1, <3>3
    <3> QED
      BY <1>13, <3>2, <3>3 DEF Registry!DeleteJobBegins
  <2>2. AloneInv' /\ ExportInv' /\ UseInv'
    BY <1>13 DEF Registry!DeleteJobBegins, Registry!Resumed, Registry!HasExport
  <2>3. LoadedInv' /\ LinkInv'
    BY <1>13 DEF Registry!DeleteJobBegins, Registry!Resumed, Registry!HasExport
  <2> QED
    BY <2>1, <2>2, <2>3
<1>14. ASSUME Registry!PickModel
      PROVE  RegistryIInv'
  BY <1>14 DEF Registry!PickModel
<1>15. ASSUME Registry!QueueSession
      PROVE  RegistryIInv'
  BY <1>15 DEF Registry!QueueSession
<1>16. ASSUME Registry!DispatchSession
      PROVE  RegistryIInv'
  BY <1>16 DEF Registry!DispatchSession
<1>17. ASSUME Registry!LoadSession
      PROVE  RegistryIInv'
  <2>1. ShapeOK'
    BY <1>17 DEF Registry!LoadSession, Registry!AfterLoad
  <2>2. AloneInv' /\ ExportInv' /\ UseInv'
    BY <1>17 DEF Registry!LoadSession, Registry!AfterLoad
  <2>3. LoadedInv' /\ LinkInv'
    BY <1>17 DEF Registry!LoadSession, Registry!AfterLoad
  <2> QED
    BY <2>1, <2>2, <2>3
<1>18. ASSUME Registry!LoadSessionFails
      PROVE  RegistryIInv'
  BY <1>18 DEF Registry!LoadSessionFails
<1>19. ASSUME Registry!SessionEnds
      PROVE  RegistryIInv'
  BY <1>19 DEF Registry!SessionEnds
<1>20. ASSUME Registry!CopyBegins
      PROVE  RegistryIInv'
  BY <1>20 DEF Registry!CopyBegins
<1>21. ASSUME Registry!CopyReads
      PROVE  RegistryIInv'
  <2>u. UNCHANGED <<model, content, latest, previous, checkpoint, dataset, torn, job, resume, pinned,
                    trainer, evaluator, session, resident, op>>
    BY <1>21 DEF Registry!CopyReads
  <2>1. ShapeOK'
    <3>1. copier \in [at : {"copying", "copied"}, from : Registry!Models, to : CopyIds,
                      content : TrainJobs \cup {NoModel}]
      BY <1>21 DEF Registry!CopyReads
    <3>2. CASE Registry!Selectable(copier.from)
      <4>1. content[copier.from] \in TrainJobs
        BY <3>1, <3>2
      <4>2. /\ copier' \in [at : {"copying", "copied"}, from : Registry!Models, to : CopyIds,
                             content : TrainJobs \cup {NoModel}]
            /\ copier'.at = "copied" /\ copier'.content = content[copier.from]
        BY <1>21, <3>1, <3>2, <4>1 DEF Registry!CopyReads
      <4> QED
        BY <2>u, <4>1, <4>2
    <3>3. CASE ~Registry!Selectable(copier.from)
      <4>1. copier'.at = "none"
        BY <1>21, <3>3 DEF Registry!CopyReads
      <4> QED
        BY <2>u, <4>1
    <3> QED
      BY <3>2, <3>3
  <2>2. AloneInv' /\ ExportInv' /\ UseInv'
    BY <1>21 DEF Registry!CopyReads
  <2>3. LoadedInv' /\ LinkInv'
    BY <1>21 DEF Registry!CopyReads
  <2> QED
    BY <2>1, <2>2, <2>3
<1>22. ASSUME Registry!CopyPublishes
      PROVE  RegistryIInv'
  <2>1. ShapeOK'
    BY <1>22 DEF Registry!CopyPublishes
  <2>2. AloneInv' /\ ExportInv' /\ UseInv'
    BY <1>22 DEF Registry!CopyPublishes
  <2>3. LoadedInv' /\ LinkInv'
    BY <1>22 DEF Registry!CopyPublishes
  <2> QED
    BY <2>1, <2>2, <2>3
<1>23. ASSUME Registry!DeleteModelUnlinks
      PROVE  RegistryIInv'
  <2>1. ShapeOK'
    BY <1>23 DEF Registry!DeleteModelUnlinks
  <2>2. AloneInv' /\ ExportInv' /\ UseInv'
    BY <1>23 DEF Registry!DeleteModelUnlinks
  <2>3. LoadedInv' /\ LinkInv'
    BY <1>23 DEF Registry!DeleteModelUnlinks
  <2> QED
    BY <2>1, <2>2, <2>3
<1>24. ASSUME Registry!RemoveBegins
      PROVE  RegistryIInv'
  <2>1. ShapeOK'
    BY <1>24 DEF Registry!RemoveBegins
  <2>2. AloneInv' /\ ExportInv' /\ UseInv'
    BY <1>24 DEF Registry!RemoveBegins
  <2>3. LoadedInv' /\ LinkInv'
    BY <1>24 DEF Registry!RemoveBegins
  <2> QED
    BY <2>1, <2>2, <2>3
<1>25. ASSUME Registry!RemoveEnds
      PROVE  RegistryIInv'
  <2>1. ShapeOK'
    BY <1>25 DEF Registry!RemoveEnds
  <2>2. AloneInv' /\ ExportInv' /\ UseInv'
    BY <1>25 DEF Registry!RemoveEnds
  <2>3. LoadedInv' /\ LinkInv'
    BY <1>25 DEF Registry!RemoveEnds
  <2> QED
    BY <2>1, <2>2, <2>3
<1>26. ASSUME Registry!DeleteJobRelinks
      PROVE  RegistryIInv'
  <2>1. ShapeOK'
    BY <1>26 DEF Registry!DeleteJobRelinks, Registry!Restorable
  <2>2. AloneInv' /\ ExportInv' /\ UseInv'
    BY <1>26 DEF Registry!DeleteJobRelinks, Registry!Restorable
  <2>3. LoadedInv' /\ LinkInv'
    BY <1>26 DEF Registry!DeleteJobRelinks, Registry!Restorable
  <2> QED
    BY <2>1, <2>2, <2>3
<1>27. ASSUME Registry!DeleteJobEnds
      PROVE  RegistryIInv'
  <2>1. ShapeOK'
    BY <1>27 DEF Registry!DeleteJobEnds
  <2>2. AloneInv' /\ ExportInv' /\ UseInv'
    BY <1>27 DEF Registry!DeleteJobEnds
  <2>3. LoadedInv' /\ LinkInv'
    BY <1>27 DEF Registry!DeleteJobEnds
  <2> QED
    BY <2>1, <2>2, <2>3
<1>28. ASSUME Registry!DeleteDataset
      PROVE  RegistryIInv'
  <2>u. /\ dataset' \in BOOLEAN
        /\ UNCHANGED <<model, content, latest, previous, checkpoint, torn, job, resume, pinned, trainer,
                       evaluator, session, resident, op, copier>>
    BY <1>28 DEF Registry!DeleteDataset
  <2>1. ShapeOK'
    BY <2>u
  <2>2. AloneInv' /\ ExportInv' /\ UseInv'
    BY <1>28 DEF Registry!DeleteDataset
  <2>3. LoadedInv' /\ LinkInv'
    BY <1>28 DEF Registry!DeleteDataset
  <2> QED
    BY <2>1, <2>2, <2>3
<1>29. ASSUME Registry!BackendCrashes
      PROVE  RegistryIInv'
  <2>1. ShapeOK'
    BY <1>29 DEF Registry!BackendCrashes
  <2>2. AloneInv' /\ ExportInv' /\ UseInv'
    BY <1>29 DEF Registry!BackendCrashes
  <2>3. LoadedInv' /\ LinkInv'
    BY <1>29 DEF Registry!BackendCrashes
  <2> QED
    BY <2>1, <2>2, <2>3
<1>30. CASE \E t \in TrainJobs : Registry!TrainingStep(t)
  BY <1>30, <1>1, <1>2, <1>3, <1>4, <1>5, <1>6 DEF Registry!TrainingStep
<1>31. CASE \E e \in EvalJobs : Registry!EvaluationStep(e)
  BY <1>31, <1>7, <1>8, <1>9 DEF Registry!EvaluationStep
<1>32. CASE Registry!SessionStep \/ Registry!CopyStep
  BY <1>32, <1>14, <1>15, <1>16, <1>17, <1>18, <1>19, <1>20, <1>21, <1>22
     DEF Registry!SessionStep, Registry!CopyStep
<1>33. CASE Registry!DeletionStep
  BY <1>33, <1>23, <1>24, <1>25, <1>26, <1>27 DEF Registry!DeletionStep
<1> HIDE DEF RegistryIInv
<1> QED
  BY <1>10, <1>11, <1>12, <1>13, <1>28, <1>29, <1>30, <1>31, <1>32, <1>33 DEF Registry!Next

(* The invariant holds at first.                                           *)
LEMMA RegistryInit == Registry!Init => RegistryIInv
<1> SUFFICES ASSUME Registry!Init PROVE RegistryIInv
  OBVIOUS
<1> QED
  BY DEF Registry!Init, RegistryIInv, ShapeOK, Registry!TypeOK, AloneInv, ExportInv, UseInv,
     LoadedInv, Registry!InferenceHonest, LinkInv

(* The invariant says of models what is wanted of them.                    *)
LEMMA RegistryKeeps ==
  ASSUME RegistryIInv
  PROVE  Registry!TypeOK /\ Registry!InferenceHonest /\ Registry!JobsKeepTheirInputs
            /\ Registry!LatestUsable
BY DEF RegistryIInv, ShapeOK, UseInv, LoadedInv, LinkInv, Registry!JobsKeepTheirInputs,
   Registry!LatestUsable
-----------------------------------------------------------------------------
(***************************************************************************)
(* The parts of MCLibrary: one of them is there for good.                  *)
(***************************************************************************)
(* The part that is there stays, and its steps are those of its module.    *)
LEMMA PartStep ==
  ASSUME [PartsNext]_parts
  PROVE  /\ part' = part /\ (part = "registry" => Registry!Next \/ UNCHANGED Registry!vars)
         /\ part = "publication" => [Next]_vars
<1>1. part' = part /\ (part = "registry" => Registry!Next \/ UNCHANGED Registry!vars)
  BY DEF PartsNext, parts, Registry!vars
<1>2. part = "publication" => [Next]_vars
  BY DEF PartsNext, parts, vars, queue, results, files, threads
<1> QED
  BY <1>1, <1>2

(* The registry's invariant holds in every reachable state.                *)
LEMMA LibraryInvariant == PartsSpec => [](part = "registry" => RegistryIInv)
<1>1. PartsInit => (part = "registry" => RegistryIInv)
  BY RegistryInit DEF PartsInit
<1>2. (part = "registry" => RegistryIInv) /\ [PartsNext]_parts
         => (part = "registry" => RegistryIInv)'
  <2>1. ASSUME RegistryIInv, UNCHANGED Registry!vars PROVE RegistryIInv'
    BY <2>1 DEF RegistryIInv, ShapeOK, Registry!TypeOK, AloneInv, ExportInv, UseInv, LoadedInv,
       Registry!InferenceHonest, LinkInv, Registry!vars
  <2> QED
    BY <2>1, PartStep, RegistryStep
<1> QED
  BY <1>1, <1>2, PTL DEF PartsSpec

(* Evaluations and sessions infer with the very weights that were          *)
(* selected; the model, the dataset and the checkpoint of a live job are   *)
(* there until it ends; and "latest" names a complete model unless its     *)
(* deletion is under way, was cut by a crash, or began between its         *)
(* publication and its link.                                               *)
THEOREM ModelsAreKept == PartsSpec => []ModelsInUseKept
<1>1. (part = "registry" => RegistryIInv) => ModelsInUseKept
  BY RegistryKeeps DEF ModelsInUseKept
<1> QED
  BY <1>1, LibraryInvariant, PTL

(* The publication's invariant holds in every reachable state.             *)
LEMMA PublicationInvariant == PartsSpec => [](part = "publication" => PublicationIInv)
<1>1. PartsInit => (part = "publication" => PublicationIInv)
  BY PublicationInit DEF PartsInit
<1>2. (part = "publication" => PublicationIInv) /\ [PartsNext]_parts
        => (part = "publication" => PublicationIInv)'
  BY PartStep, PublicationStep
<1> QED
  BY <1>1, <1>2, PTL DEF PartsSpec

(* A snapshot has its arrays, also while another result replaces it; what  *)
(* training pins is one result; the results of a composite evaluation      *)
(* become selectable together; nothing is published of a deleted dataset;  *)
(* and no publication of a completed evaluation is forgotten.              *)
THEOREM ResultsAreHonest == PartsSpec => []PublishedResultsHonest
<1>1. (part = "publication" => PublicationIInv) => PublishedResultsHonest
  BY PublicationKeeps DEF PublishedResultsHonest, ResultsHonest
<1> QED
  BY <1>1, PublicationInvariant, PTL

(* The result behind a published snapshot changes only by the publication  *)
(* of a manual or an overwriting evaluation.                               *)
THEOREM FirstResultStays == PartsSpec => GlobalResultKept
<1>1. (part = "publication" => PublicationIInv) /\ [PartsNext]_parts
        => [part = "publication" => FirstResultKept]_parts
  <2> SUFFICES ASSUME part = "publication", PublicationIInv, PartsNext
               PROVE  FirstResultKept
    OBVIOUS
  <2>1. Next
    BY DEF PartsNext
  <2> QED
    BY <2>1, FirstResultStep
<1> QED
  BY <1>1, PublicationInvariant, PTL DEF PartsSpec, GlobalResultKept

(* The invariant of settled results holds in every reachable state.        *)
LEMMA AgreeInvariant == PartsSpec => [](part = "publication" => AgreeIInv)
<1>1. PartsInit => (part = "publication" => AgreeIInv)
  BY AgreeInit DEF PartsInit
<1>2. (part = "publication" => AgreeIInv) /\ [PartsNext]_parts
        => (part = "publication" => AgreeIInv)'
  BY PartStep, AgreeStep
<1> QED
  BY <1>1, <1>2, PTL DEF PartsSpec

(* When every completed evaluation has been published, the snapshot and    *)
(* the sidecar of a trajectory hold the same result, whatever the order of *)
(* jobs, polls, page visits, touched files and restarts.                   *)
THEOREM GlobalResultsAreSettled == PartsSpec => []GlobalResultsSettle
<1>1. (part = "publication" => AgreeIInv) => GlobalResultsSettle
  BY AgreeKeeps DEF GlobalResultsSettle
<1> QED
  BY <1>1, AgreeInvariant, PTL
=============================================================================
