---------------------------- MODULE ReplayChunks ----------------------------
(***************************************************************************)
(* From recordings to training transitions.  An original run is recorded   *)
(* under the policy; a branch copies the first resume_step actions of a    *)
(* run and continues them, by hand or with the policy asked again; a       *)
(* branch promoted to a mainline can be continued in its turn.  Preparing  *)
(* a recording cuts it into chunks (data.py add_episode_chunks): at every  *)
(* change of producer, at the steps the policy was asked, on the execution *)
(* grid elsewhere, and where the success was confirmed.  The replay of a   *)
(* selection of recordings takes every transition once                     *)
(* (iter_unique_replay_chunks), the service counts the same transitions on *)
(* its own (_training_replay_counts), and the actor learns from a window   *)
(* that starts at a chunk (ActionDataset._sample).                         *)
(*                                                                         *)
(* The contents of actions and images are abstracted: an action is known   *)
(* by the run that executed it and its index (`made`, history).  Bounds:   *)
(* one original, the branches of Branches, the lengths, resume steps and   *)
(* success steps of the constants.                                         *)
(***************************************************************************)
EXTENDS Integers, FiniteSets, FiniteSetsExt

CONSTANTS
    Original,     \* the id of the original run, a number
    Branches,     \* the ids of its branches: numbers, in the order of their names
    MaxSteps,     \* max_steps: no recording is longer
    Lengths,      \* the lengths a recording may have
    Resumes,      \* the steps a branch may resume at
    DoneFrom,     \* the steps from which a suffix may report done
    Steps,        \* the values of open_loop_steps
    Streak,       \* success_consecutive_steps
    Window        \* the actor's replay horizon

ReplayAssumption ==
    /\ Branches \subseteq Nat /\ Original \in Nat \ Branches
    /\ MaxSteps \in Nat /\ Lengths \subseteq 1 .. MaxSteps
    /\ Resumes \subseteq 0 .. MaxSteps /\ DoneFrom \subseteq 0 .. MaxSteps
    /\ Steps \subseteq Nat \ {0} /\ Streak \in Nat \ {0} /\ Window \in Nat \ {0}

NoStep == -1

VARIABLES
    runs,         \* the recordings, by id
    prepared,     \* the chunks each was cut into
    queried,      \* do the recordings keep the steps the policy was asked at?
    old           \* is the original of a time before trajectory_segments?

vars == <<runs, prepared, queried, old>>

----------------------------------------------------------------------------
(* Recording. *)

Producer(segments, i) == CHOOSE s \in segments : s.start <= i /\ i < s.end

(* TrajectoryRecorder.from_prefix: the per-action arrays of the source up   *)
(* to resume, then those of the suffix.                                     *)
Extended(prefix, resume, suffix) ==
    [i \in (0 .. resume - 1) \cup DOMAIN suffix |-> IF i < resume THEN prefix[i] ELSE suffix[i]]

(* The policy is asked where it takes over and after every open_loop_steps  *)
(* actions, also at the end of a run that stops during that query.          *)
Asked(mode, from, count, steps) ==
    IF mode = "human" \/ ~queried THEN {}
    ELSE {i \in from .. count : (i - from) % steps = 0}

(* trajectory_segments and prefix_segments: who produced the prefix. *)
PrefixSegments(source, end) ==
    {[s EXCEPT !.end = Min({end, s.end})] : s \in {t \in source.segments : t.start < end}}

(* old_handoffs: the hand-over points of the source, and this one. *)
Handoffs(source, resume) == {h \in source.handoffs : h <= resume} \cup {resume}

Nothing == [sources |-> <<>>, done |-> <<>>, made |-> <<>>, queries |-> {},
            segments |-> {}, handoffs |-> {}]

Recording(id, source, resume, mode, steps, count, done) ==
    LET own == resume .. count - 1
    IN  [kind |-> IF id = Original THEN "original" ELSE "branch",
         resume |-> resume, count |-> count, steps |-> steps, promoted |-> FALSE,
         sources |-> Extended(source.sources, resume, [i \in own |-> mode]),
         done |-> Extended(source.done, resume, [i \in own |-> done # NoStep /\ i >= done]),
         made |-> Extended(source.made, resume, [i \in own |-> id]),
         queries |-> {q \in source.queries : q < resume} \cup Asked(mode, resume, count, steps),
         segments |-> PrefixSegments(source, resume)
                      \cup {[start |-> resume, end |-> count, origin |-> id, steps |-> steps]},
         handoffs |-> IF id = Original THEN {} ELSE Handoffs(source, resume)]

----------------------------------------------------------------------------
(* Preparing one recording. *)

(* confirmed_terminal_step: the first action that completes a streak. *)
TerminalStep(done, count) ==
    LET confirming == {i \in Streak - 1 .. count - 1 :
                         \A j \in i - Streak + 1 .. i : done[j]}
    IN  IF confirming = {} THEN NoStep ELSE Min(confirming)

SuccessEnd(run) ==
    LET terminal == TerminalStep(run.done, run.count)
    IN  IF terminal = NoStep THEN run.count ELSE terminal + 1

(* replay_end_step: where the training interval ends. *)
ReplayEnd(run, postSuccess) == IF postSuccess THEN run.count ELSE SuccessEnd(run)

(* The intervals between neighbouring members of a set of steps. *)
Intervals(points) ==
    {[start |-> p, end |-> Min({q \in points : q > p})] : p \in points \ {Max(points)}}

(* action_source_segments: maximal stretches of one source. *)
SourceSegments(run) ==
    {[start |-> s.start, end |-> s.end, source |-> run.sources[s.start]] :
        s \in Intervals({0, run.count} \cup
                        {i \in 1 .. run.count - 1 : run.sources[i] # run.sources[i - 1]})}

(* _execution_segments: an old recording has no segments; those of an old   *)
(* branch are rebuilt from its source trajectory.                           *)
Segments(run) == IF old /\ run.kind = "original" THEN {} ELSE run.segments

(* The boundaries no chunk crosses (add_episode_chunks: handoffs, starts). *)
HandoffSet(run) == run.handoffs \cup (IF run.kind = "branch" THEN {run.resume} ELSE {})
Boundaries(run) == HandoffSet(run) \cup {s.start : s \in Segments(run)}

(* split_sources: the source segments cut at the boundaries (a human one    *)
(* also at the success), each with the origin and the pace of its grid.     *)
GridStart(run, source, start) ==
    IF source.source = "human" /\ start >= SuccessEnd(run) THEN Max({start, SuccessEnd(run)})
    ELSE IF Segments(run) = {} THEN source.start
    ELSE Max({Producer(Segments(run), start).start, source.start})

(* execution_steps: the saved settings of the run. *)
ExecutionSteps(run) == run.steps

Pace(run, start) ==
    IF Segments(run) = {} THEN ExecutionSteps(run) ELSE Producer(Segments(run), start).steps

SplitSources(run) ==
    UNION {{[start |-> p.start, end |-> p.end, source |-> s.source,
             grid |-> GridStart(run, s, p.start), steps |-> Pace(run, p.start)] :
              p \in Intervals({s.start, s.end} \cup
                       {b \in Boundaries(run) \cup
                              (IF s.source = "human" THEN {SuccessEnd(run)} ELSE {}) :
                          s.start < b /\ b < s.end})} :
           s \in SourceSegments(run)}

(* query_steps: a proposal that was not executed any more does not count.   *)
QuerySteps(run) == {q \in run.queries : q < run.count}

(* build_semi_mdp_chunks: the queries of a piece of the policy that has     *)
(* some, the grid of any other piece, its end, and the confirmed success.   *)
CutPoints(run, piece) ==
    LET queries == {q \in QuerySteps(run) : piece.start <= q /\ q < piece.end}
    IN  {piece.end} \cup
        IF piece.source \in {"policy", "policy_requery"} /\ queries # {}
        THEN queries
        ELSE {x \in piece.start .. piece.end - 1 :
                x >= piece.grid /\ (x - piece.grid) % piece.steps = 0}

(* The hard boundaries of a recording and the cuts of its pieces.           *)
SemiMdpCuts(run) ==
    {0, run.count, SuccessEnd(run)} \cup UNION {CutPoints(run, p) : p \in SplitSources(run)}

Chunks(run) ==
    {[start |-> c.start, end |-> c.end, source |-> run.sources[c.start],
      origin |-> IF Segments(run) = {} THEN Original
                 ELSE Producer(Segments(run), c.start).origin,
      copied |-> run.kind = "branch" /\ c.end <= run.resume,
      interrupted |-> c.end \in HandoffSet(run) /\ c.end - c.start < Pace(run, c.start)] :
        c \in Intervals(SemiMdpCuts(run))}

----------------------------------------------------------------------------
(* The replay of a selection S of recordings. *)

(* replay_chunks refuses a recording whose chunks do not follow each other  *)
(* from its first action to its last.                                       *)
Aligned(r) ==
    LET starts == {c.start : c \in prepared[r]}
        ends == {c.end : c \in prepared[r]}
    IN  /\ Cardinality(starts) = Cardinality(prepared[r])
        /\ starts \cup {runs[r].count} = ends \cup {0}
        /\ \A c \in prepared[r] :
              c.start < c.end /\ \A s \in starts : ~(c.start < s /\ s < c.end)

(* replay_chunk_key *)
Key(chunk) == <<chunk.origin, chunk.start, chunk.end, chunk.source>>

InReplay(r, postSuccess) == {c \in prepared[r] : c.end <= ReplayEnd(runs[r], postSuccess)}

Replayed(S, postSuccess) ==
    UNION {{<<r, c>> : c \in InReplay(r, postSuccess)} : r \in S}

Produced(S, postSuccess) ==
    {Key(x[2]) : x \in {y \in Replayed(S, postSuccess) : ~y[2].copied}}

(* Originals first, then by run id. *)
Earlier(r, s) == /\ s # Original
                 /\ r = Original \/ r < s

\* mutant: a copied chunk is dropped whether or not its producer is selected
EligibleIfProduced(S, postSuccess) == {x \in Replayed(S, postSuccess) : ~x[2].copied}

Eligible(S, postSuccess) ==
    {x \in Replayed(S, postSuccess) :
        x[2].copied => Key(x[2]) \notin Produced(S, postSuccess)}

FirstOfItsKey(E, x) ==
    \A y \in E : Key(y[2]) = Key(x[2]) => ~Earlier(y[1], x[1])

(* iter_unique_replay_chunks: the keys that occur as a copy are those of    *)
(* the complete recordings.                                                 *)
Unique(S, postSuccess) ==
    LET copied == {Key(x[2]) : x \in {y \in Replayed(S, TRUE) : y[2].copied}}
        E == Eligible(S, postSuccess)
    IN  {x \in E : Key(x[2]) \in copied => FirstOfItsKey(E, x)}

(* _training_replay_counts: the chunks are clipped to the training interval *)
(* first.                                                                   *)

Counted(S, postSuccess) ==
    LET copied == {Key(x[2]) : x \in {y \in Replayed(S, postSuccess) : y[2].copied}}
        E == Eligible(S, postSuccess)
    IN  {x \in E : Key(x[2]) \in copied => FirstOfItsKey(E, x)}

(* ActionDataset._sample: the actor's window from a chunk. *)

ActorEnd(run, start, postSuccess) ==
    LET end == Min({start + Window, ReplayEnd(run, postSuccess)})
        hard == {s.end : s \in SourceSegments(run) \cup Segments(run)} \cup HandoffSet(run)
    IN  Min({end} \cup {p \in hard : start < p /\ p < end})

(* f[1] + ... + f[n] *)
SumTo(n, f) ==
    LET sum[k \in 0 .. n] == IF k = 0 THEN 0 ELSE sum[k - 1] + f[k]
    IN  sum[n]

(* SimulationSession.training_chunk_count: the count shown before preparing,    *)
(* one term for every point but the first.                                  *)
NominalCount(run) ==
    LET points == {0, run.count} \cup HandoffSet(run)
                  \cup UNION {{s.start, s.end} : s \in run.segments}
        pace(p) == Producer(run.segments, p).steps
        before(end) == Max({p \in points : p < end})
        steps(start, end) == (end - start + pace(start) - 1) \div pace(start)
    IN  SumTo(run.count, [end \in 1 .. run.count |->
                            IF end \in points THEN steps(before(end), end) ELSE 0])

----------------------------------------------------------------------------
(* The actions: a recording is added with the chunks it is prepared into.   *)

Add(id, run) ==
    /\ runs' = [r \in DOMAIN runs \cup {id} |-> IF r = id THEN run ELSE runs[r]]
    /\ prepared' = [r \in DOMAIN runs \cup {id} |-> IF r = id THEN Chunks(run) ELSE prepared[r]]
    /\ UNCHANGED <<queried, old>>

Init == /\ runs = <<>> /\ prepared = <<>>
        /\ queried \in BOOLEAN /\ old \in BOOLEAN

RecordOriginal(steps, count, done) ==
    /\ DOMAIN runs = {}
    /\ Add(Original, Recording(Original, Nothing, 0, "policy", steps, count, done))

(* branch: only a mainline is continued, and only below max_steps; a        *)
(* recording with no action of its own is not prepared (_load_run).         *)
Continue(id, source, resume, mode, steps, count, done) ==
    /\ runs[source].kind = "original" \/ runs[source].promoted
    /\ resume <= runs[source].count /\ resume < count /\ (done = NoStep \/ done >= resume)
    /\ Add(id, Recording(id, runs[source], resume, mode, steps, count, done))

(* promote_run *)
Promote(id) ==
    /\ runs[id].kind = "branch" /\ ~runs[id].promoted
    /\ runs' = [runs EXCEPT ![id].promoted = TRUE]
    /\ UNCHANGED <<prepared, queried, old>>

Next ==
    \/ \E steps \in Steps, count \in Lengths, done \in DoneFrom \cup {NoStep} :
          RecordOriginal(steps, count, done)
    \/ \E id \in Branches \ DOMAIN runs, source \in DOMAIN runs, resume \in Resumes,
          mode \in {"human", "policy_requery"}, steps \in Steps, count \in Lengths,
          done \in DoneFrom \cup {NoStep} :
          Continue(id, source, resume, mode, steps, count, done)
    \/ \E id \in DOMAIN runs : Promote(id)

Spec == Init /\ [][Next]_vars

----------------------------------------------------------------------------
(* Properties, over every selection of the recordings made so far, with and *)
(* without the actions after the confirmed success.                         *)

Selections == (SUBSET DOMAIN runs) \X BOOLEAN

(* Two chunks stand for the same executed actions. *)
Same(x, y) ==
    /\ x[2].start = y[2].start /\ x[2].end = y[2].end
    /\ \A i \in x[2].start .. x[2].end - 1 : runs[x[1]].made[i] = runs[y[1]].made[i]

(* A selection replays every transition of its recordings exactly once,     *)
(* however often branches have copied it, and whether or not the run that   *)
(* executed it is part of the selection (data.py:187), and no recording is  *)
(* refused for its own chunks.                                              *)
EachTransitionOnce ==
    /\ \A r \in DOMAIN runs : Aligned(r)
    /\ \A sel \in Selections :
        LET U == Unique(sel[1], sel[2])
        IN  /\ \A x, y \in U : Same(x, y) => x = y
            /\ \A x \in Replayed(sel[1], sel[2]) : \E y \in U : Same(x, y)

(* The grids of a recording and of the branches that copied it agree: two   *)
(* replayed chunks share an executed action only when a branch resumed in   *)
(* the middle of one ("a hard boundary may clip a grid, but must not change *)
(* its phase", data.py:111).                                                *)
GridsAgree ==
    \A sel \in Selections : \A x, y \in Unique(sel[1], sel[2]) :
        \/ x = y
        \/ \A i \in 0 .. MaxSteps - 1 :
              x[2].start <= i /\ i < x[2].end /\ y[2].start <= i /\ i < y[2].end
                 => runs[x[1]].made[i] # runs[y[1]].made[i]
        \/ \E r \in DOMAIN runs \ {Original}, c \in {x[2], y[2]} :
              c.copied /\ c.end = runs[r].resume

(* What the actor is trained to imitate from a chunk on was executed by one *)
(* producer under one kind of control, and lies in the training interval.   *)
WindowOfOneProducer ==
    \A r \in DOMAIN runs, postSuccess \in BOOLEAN : \A c \in InReplay(r, postSuccess) :
        LET end == ActorEnd(runs[r], c.start, postSuccess)
        IN  /\ c.start < end /\ end <= ReplayEnd(runs[r], postSuccess)
            /\ \A i \in c.start .. end - 1 :
                  /\ runs[r].made[i] = runs[r].made[c.start]
                  /\ runs[r].sources[i] = runs[r].sources[c.start]

(* The service counts the transitions the training replays, and the count   *)
(* it shows before preparing never promises more than there are.            *)
CountsAgree ==
    /\ \A sel \in Selections : Counted(sel[1], sel[2]) = Unique(sel[1], sel[2])
    /\ \A r \in DOMAIN runs : NominalCount(runs[r]) <= Cardinality(prepared[r])

=============================================================================
