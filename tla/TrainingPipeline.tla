-------------------------- MODULE TrainingPipeline --------------------------
(***************************************************************************)
(* The terminal pipeline (scripts/train_terminal.py) and the caches its    *)
(* stages share: prepare, annotate, rewards, bind, train.                  *)
(*                                                                         *)
(* A pipeline is a controller that runs one stage process at a time, in a  *)
(* session of its own: a controller that dies leaves the stage running.    *)
(* Pipelines with the same selection of trajectories share a directory of  *)
(* caches whatever rewards they derive, and nothing excludes two of them   *)
(* at once.                                                                *)
(*                                                                         *)
(* An evaluation of an episode by the reward model is identified by the    *)
(* pipeline that made it; files that are replaced by rename are written in *)
(* one step.  A manifest lists the first episodes until it is complete.    *)
(***************************************************************************)
EXTENDS Naturals, Sequences

CONSTANTS
    Pipelines,   \* invocations of the command
    N,           \* episodes of the selection, processed in order
    Configs,     \* reward derivations, as reward_derivation_config tells them apart
    None

EpisodeIds == 1..N

\* What the files hold: an evaluation for each of the first episodes, the
\* manifests of them and of the rewards, and what is bound to one episode.
Evaluations == {list \in Seq(Pipelines) : Len(list) <= N}
AnnotationManifests == [complete : BOOLEAN, of : Evaluations]
RewardManifests == [complete : BOOLEAN, of : Evaluations, config : Configs]
Entries == [of : Pipelines, config : Configs]

PipelineAssumption ==
    /\ N \in Nat \ {0}
    /\ None \notin Pipelines \cup Configs \cup {"before", "after"}
    /\ None \notin AnnotationManifests \cup RewardManifests \cup Entries

VARIABLES
    pc,          \* stage the pipeline is in
    alive,       \* its controller runs
    stopped,     \* the first stop came before or after the check (StageRunner.interrupted)
    force,       \* --force-annotate
    config,      \* its reward derivation
    index,       \* what its stage process has listed so far
    input,       \* the annotation manifest its stage process has loaded
    used,        \* the rewards its training has loaded
    prepared,    \* dataset_manifest.json and prepare_state.json
    cache,       \* episode -> the evaluation in annotation_cache
    annotations, \* annotation_manifest.json
    rewards,     \* reward_manifest.json
    sidecar,     \* episode -> the two files beside its trajectory
    alone,       \* no other pipeline has worked while p did
    overtaken    \* the reward manifest changed between p's check and its read

choice == <<alive, stopped, force, config>>
memory == <<index, input, used>>
local == <<choice, memory>>
disk == <<prepared, cache, annotations, rewards, sidecar>>
history == <<alone, overtaken>>
vars == <<pc, local, disk, history>>

ControllerPcs == {"prepare", "mark", "annotate", "rewards", "bind", "binding", "train"}
TrainPcs == {"checking", "rewriting", "recompleting", "reading", "training"}
StagePcs == {"preparing", "scanning", "annotating", "deriving", "writing",
             "completing"} \cup TrainPcs
Outcomes == {"completed", "interrupted", "failed", "dead"}

TypeOK ==
    /\ pc \in [Pipelines -> {"off"} \cup ControllerPcs \cup StagePcs \cup Outcomes]
    /\ stopped \in [Pipelines -> {None, "before", "after"}]
    /\ {alive, force, alone, overtaken} \subseteq [Pipelines -> BOOLEAN]
    /\ config \in [Pipelines -> Configs]
    /\ {index, input} \subseteq [Pipelines -> Evaluations]
    /\ used \in [Pipelines -> RewardManifests \cup {None}]
    /\ prepared \in {"none", "written", "marked"}
    /\ cache \in [EpisodeIds -> Pipelines \cup {None}]
    /\ annotations \in AnnotationManifests \cup {None}
    /\ rewards \in RewardManifests \cup {None}
    /\ sidecar \in [EpisodeIds -> [values : Entries \cup {None}, json : Entries \cup {None}]]

Init ==
    /\ pc = [p \in Pipelines |-> "off"]
    /\ alive = [p \in Pipelines |-> FALSE]
    /\ stopped = [p \in Pipelines |-> None]
    /\ force \in [Pipelines -> BOOLEAN]
    /\ config \in [Pipelines -> Configs]
    /\ index = [p \in Pipelines |-> << >>]
    /\ input = [p \in Pipelines |-> << >>]
    /\ used = [p \in Pipelines |-> None]
    /\ prepared = "none"
    /\ cache = [e \in EpisodeIds |-> None]
    /\ annotations = None
    /\ rewards = None
    /\ sidecar = [e \in EpisodeIds |-> [values |-> None, json |-> None]]
    /\ alone = [p \in Pipelines |-> TRUE]
    /\ overtaken = [p \in Pipelines |-> FALSE]

-----------------------------------------------------------------------------
(* The caches.                                                             *)

\* prepare_cache_valid: the mark of the controller, not just the manifest.
PreparedValid == prepared = "marked"

\* annotation_cache_valid, and what load_annotation_index insists on.
AnnotationsValid == annotations # None /\ annotations.complete

\* mutant: the derivation is not compared
RewardsMatchAny(p, list) == rewards # None /\ rewards.complete /\ rewards.of = list

\* reward_derivation_config: what identifies the derivation of a manifest.
SameDerivation(p) == rewards.config = config[p]

\* reward_cache_valid: complete, of these annotations, of this derivation.
RewardsMatch(p, list) ==
    /\ rewards # None
    /\ rewards.complete
    /\ rewards.of = list
    /\ SameDerivation(p)

RewardsValid(p) == AnnotationsValid /\ RewardsMatch(p, annotations.of)

\* _reusable_official_sidecar: a bound evaluation whose two files agree.
Bound(e) == sidecar[e].json # None /\ sidecar[e].json = sidecar[e].values

\* The outputs annotate_manifest finds for an episode without --overwrite, in the
\* manifest it has read or beside the trajectory.
Reusable(p, e) ==
    IF e \in DOMAIN input[p] THEN input[p][e]
    ELSE IF Bound(e) THEN sidecar[e].json.of ELSE None

Hit(p, e) == ~force[p] /\ cache[e] # None

-----------------------------------------------------------------------------
(* The controller.                                                         *)

Goto(p, where) == pc' = [pc EXCEPT ![p] = where]
Forget(p) ==
    /\ index' = [index EXCEPT ![p] = << >>]
    /\ input' = [input EXCEPT ![p] = << >>]
StopSeen(p) == stopped[p] # None
Failure(p) == IF StopSeen(p) THEN "interrupted" ELSE "failed"
Working(p) == pc[p] \in ControllerPcs \cup StagePcs

\* main up to the installation of the signal handlers: whether to prepare, from
\* the mark in the cache or because of --force-prepare, is decided here.
Launch(p) ==
    /\ pc[p] = "off"
    /\ \/ PreparedValid /\ Goto(p, "annotate")
       \/ Goto(p, "prepare")
    /\ alive' = [alive EXCEPT ![p] = TRUE]
    /\ alone' = [q \in Pipelines |->
                   alone[q] /\ (IF q = p THEN \A o \in Pipelines : ~Working(o)
                                ELSE ~Working(q))]
    /\ UNCHANGED <<stopped, force, config, index, input, used, disk, overtaken>>

Prepare(p) ==
    /\ pc[p] = "prepare" /\ alive[p]
    /\ Goto(p, "preparing")
    /\ UNCHANGED <<local, disk, history>>

MarkPrepared(p) ==
    /\ pc[p] = "mark" /\ alive[p]
    /\ prepared' = "marked"
    /\ Goto(p, "annotate")
    /\ UNCHANGED <<local, cache, annotations, rewards, sidecar, history>>

\* The next two are skipped when what they would make is there.
Annotate(p) ==
    /\ pc[p] = "annotate" /\ alive[p]
    /\ Goto(p, IF AnnotationsValid /\ ~force[p] THEN "rewards" ELSE "scanning")
    /\ UNCHANGED <<local, disk, history>>

Rewards(p) ==
    /\ pc[p] = "rewards" /\ alive[p]
    /\ Goto(p, IF RewardsValid(p) /\ ~force[p] THEN "bind" ELSE "deriving")
    /\ UNCHANGED <<local, disk, history>>

\* bind_reward_manifest runs in the controller.  It reads the manifest once,
\* then goes through the episodes: one already bound is left, else the values
\* are copied and the document with their digest is written after them.
Bindable == rewards # None /\ rewards.complete

StartBind(p) ==
    /\ pc[p] = "bind" /\ alive[p]
    /\ IF Bindable
         THEN Goto(p, "binding") /\ used' = [used EXCEPT ![p] = rewards]
         ELSE Goto(p, "failed") /\ UNCHANGED used
    /\ UNCHANGED <<choice, index, input, disk, history>>

Entry(p, e) == [of |-> used[p].of[e], config |-> used[p].config]

\* _atomic_copy: the values replace what was beside the trajectory.
CopyValues(e, wanted) == sidecar' = [sidecar EXCEPT ![e].values = wanted]

BindEpisode(p) ==
    /\ pc[p] = "binding" /\ alive[p]
    /\ Len(index[p]) < N
    /\ LET e == Len(index[p]) + 1
           wanted == Entry(p, e)
       IN IF Bound(e) /\ sidecar[e].json = wanted
            THEN index' = [index EXCEPT ![p] = Append(@, p)] /\ UNCHANGED sidecar
            ELSE IF sidecar[e].values # wanted
              THEN CopyValues(e, wanted) /\ UNCHANGED index
              ELSE sidecar' = [sidecar EXCEPT ![e].json = wanted] /\ UNCHANGED index
    /\ UNCHANGED <<pc, alive, stopped, force, config, input, used, prepared,
                   cache, annotations, rewards, history>>

EndBind(p) ==
    /\ pc[p] = "binding" /\ alive[p]
    /\ Len(index[p]) = N
    /\ Goto(p, IF StopSeen(p) THEN "interrupted" ELSE "train")
    /\ Forget(p)
    /\ used' = [used EXCEPT ![p] = None]
    /\ UNCHANGED <<choice, disk, history>>

\* The window between the last check and Popen.
Train(p) ==
    /\ pc[p] = "train" /\ alive[p]
    /\ Goto(p, "checking")
    /\ UNCHANGED <<local, disk, history>>

-----------------------------------------------------------------------------
(* The stage processes.  The last step of one hands over to the controller, *)
(* which a process that outlives its controller has none to.               *)

EndStage(p, next) == Forget(p) /\ Goto(p, IF alive[p] THEN next ELSE "dead")

PrepareDataset(p) ==
    /\ pc[p] = "preparing"
    /\ prepared' = "written"
    /\ EndStage(p, "mark")
    /\ UNCHANGED <<choice, used, cache, annotations, rewards, sidecar, history>>

\* annotate_manifest reads the manifest it is going to replace, complete or not.
ScanAnnotations(p) ==
    /\ pc[p] = "scanning"
    /\ Goto(p, "annotating")
    /\ input' = [input EXCEPT ![p] = IF annotations = None THEN << >> ELSE annotations.of]
    /\ UNCHANGED <<choice, index, used, disk, history>>

\* One episode: the cache when it has one for these outputs,
\* else the outputs of an earlier manifest or sidecar, else the model.  The
\* manifest is published, incomplete, after every episode that was computed.
AnnotateEpisode(p) ==
    /\ pc[p] = "annotating"
    /\ Len(index[p]) < N
    /\ LET e == Len(index[p]) + 1
           reusable == IF force[p] THEN None ELSE Reusable(p, e)
           hit == Hit(p, e)
           made == IF hit THEN cache[e] ELSE IF reusable # None THEN reusable ELSE p
           list == Append(index[p], made)
       IN /\ index' = [index EXCEPT ![p] = list]
          /\ cache' = [cache EXCEPT ![e] = made]
          /\ annotations' = IF hit THEN annotations
                            ELSE [complete |-> FALSE, of |-> list]
    /\ UNCHANGED <<pc, alive, stopped, force, config, input, used, prepared,
                   rewards, sidecar, history>>

EndAnnotate(p) ==
    /\ pc[p] = "annotating"
    /\ Len(index[p]) = N
    /\ annotations' = [complete |-> TRUE, of |-> index[p]]
    /\ EndStage(p, "rewards")
    /\ UNCHANGED <<choice, used, prepared, cache, rewards, sidecar, history>>

\* materialize_reward_manifest, as the stage `rewards' and again inside the
\* training: the manifest that matches is kept, else its incomplete successor is
\* published, then the complete one.
LoadAnnotations(p, at, write, done, again) ==
    /\ pc[p] = at
    /\ AnnotationsValid
    /\ IF RewardsMatch(p, annotations.of) /\ ~again
         THEN EndStage(p, done)
         ELSE /\ Goto(p, write)
              /\ input' = [input EXCEPT ![p] = annotations.of]
              /\ UNCHANGED index
    /\ overtaken' = [overtaken EXCEPT ![p] = FALSE]
    /\ UNCHANGED <<choice, used, disk, alone>>

Publish(p, complete) ==
    /\ rewards' = [complete |-> complete, of |-> input[p], config |-> config[p]]
    /\ overtaken' = [q \in Pipelines |-> q # p \/ ~complete]
    /\ UNCHANGED <<choice, used, prepared, cache, annotations, sidecar, alone>>

StartManifest(p, at, next) ==
    pc[p] = at /\ Publish(p, FALSE) /\ Goto(p, next) /\ UNCHANGED <<index, input>>
EndManifest(p, at, done) == pc[p] = at /\ Publish(p, TRUE) /\ EndStage(p, done)

Derive(p) ==
    \/ LoadAnnotations(p, "deriving", "writing", "bind", force[p])
    \/ StartManifest(p, "writing", "completing")
    \/ EndManifest(p, "completing", "bind")

\* load_reward_index of the training: check or rebuild, then read the manifest.
\* (The process trains on whether or not its controller still lives.)
CheckRewards(p) ==
    \/ LoadAnnotations(p, "checking", "rewriting", "reading", FALSE)
    \/ StartManifest(p, "rewriting", "recompleting")
    \/ EndManifest(p, "recompleting", "reading")

ReadRewards(p) ==
    /\ pc[p] = "reading"
    /\ rewards.complete
    /\ used' = [used EXCEPT ![p] = rewards]
    /\ Goto(p, "training")
    /\ UNCHANGED <<alive, stopped, force, config, index, input, disk, history>>

EndTraining(p) ==
    /\ pc[p] = "training"
    /\ EndStage(p, "completed")
    /\ used' = [used EXCEPT ![p] = None]
    /\ UNCHANGED <<choice, disk, history>>

-----------------------------------------------------------------------------
(* A stage process may fail anywhere, or be killed by the signal its        *)
(* controller passes on; a controller may be killed alone.                 *)

FailStage(p) ==
    /\ pc[p] \in StagePcs
    /\ EndStage(p, Failure(p))
    /\ used' = [used EXCEPT ![p] = None]
    /\ UNCHANGED <<choice, disk, history>>

\* The handler: the flag, and a signal to the stage process, if there is one.
Interrupt(p) ==
    /\ pc[p] \in ControllerPcs \cup StagePcs
    /\ alive[p] /\ stopped[p] = None
    /\ stopped' = [stopped EXCEPT ![p] =
                     IF pc[p] \in TrainPcs \cup {"train"} THEN "after" ELSE "before"]
    /\ UNCHANGED <<pc, alive, force, config, index, input, used, disk, history>>

Crash(p) ==
    /\ pc[p] \in ControllerPcs \cup StagePcs
    /\ alive[p]
    /\ alive' = [alive EXCEPT ![p] = FALSE]
    /\ IF pc[p] \in ControllerPcs
         THEN Goto(p, "dead") /\ Forget(p) /\ used' = [used EXCEPT ![p] = None]
         ELSE UNCHANGED <<pc, memory>>
    /\ UNCHANGED <<stopped, force, config, disk, history>>

Next == \E p \in Pipelines :
    \/ Launch(p) \/ Prepare(p) \/ MarkPrepared(p) \/ Annotate(p) \/ Rewards(p)
    \/ StartBind(p) \/ BindEpisode(p) \/ EndBind(p) \/ Train(p)
    \/ PrepareDataset(p) \/ ScanAnnotations(p) \/ AnnotateEpisode(p) \/ EndAnnotate(p) \/ Derive(p)
    \/ CheckRewards(p) \/ ReadRewards(p) \/ EndTraining(p)
    \/ FailStage(p) \/ Interrupt(p) \/ Crash(p)

Spec == Init /\ [][Next]_vars

-----------------------------------------------------------------------------
(* A training that has loaded its rewards has the ones of its own          *)
(* derivation, complete and from one complete annotation of every episode, *)
(* whatever was interrupted, killed or left incomplete before it.  The     *)
(* exception is a manifest replaced between the check of load_reward_index *)
(* and its read: see ActiveRewards.                                        *)
TrainsOnItsRewards ==
    \A p \in Pipelines : pc[p] = "training" /\ ~overtaken[p] =>
        /\ used[p].complete /\ Len(used[p].of) = N
        /\ used[p].config = config[p]

\* The docstring of load_reward_index: "rewards for the active training
\* semantics", also while another pipeline works on the same caches.
ActiveRewards ==
    \A p \in Pipelines : pc[p] = "training" => used[p].config = config[p]

\* A pipeline that no other one overlaps trains on what it has bound beside the
\* trajectories, every episode of it, and with --force-annotate on evaluations it
\* has made itself: a cache left by an interrupted predecessor is not mistaken for
\* its own.
TrainsOnWhatItBound ==
    \A p \in Pipelines : pc[p] = "training" /\ alone[p] =>
        \A e \in EpisodeIds :
            /\ Bound(e) /\ sidecar[e].json = Entry(p, e)
            /\ force[p] => used[p].of[e] = p

\* A stop that came before the check at the end of the binding never becomes a
\* training, and a pipeline is only called completed when it was not stopped or
\* its training ended by itself.
StopComesBeforeTraining ==
    \A p \in Pipelines :
        pc[p] \in TrainPcs \cup {"completed"} =>
            stopped[p] # "before"
=============================================================================
