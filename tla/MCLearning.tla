-------------------------- MODULE MCLearning --------------------------
(***************************************************************************)
(* Offline learning, in one run: the chunks that are replayed and the      *)
(* rewards they get, the pipeline with its caches, and the training        *)
(* process with its checkpoints.  They share no state, so one of them is   *)
(* there at a time (`part`); the variables of the others are NotHere, and  *)
(* variables of one name are one variable.                                 *)
(***************************************************************************)
EXTENDS MCRewardRecipes, TLC

CONSTANTS Pipelines, N, Configs, Accumulation, Interval, Totals, MaxRuns,
          Original, Branches, MaxSteps, Lengths, Resumes, DoneFrom,
          Steps, Streak, Window, NotHere

VARIABLES part, pc, alive, stopped, force, config, index, input, used,
          prepared, cache, annotations, rewards, sidecar, alone, overtaken,
          run, phase, total, step, actor, critic, drawn, pending, stop,
          latest, closing, disk, runs, queried, old

Flow == INSTANCE TrainingPipeline
Run == INSTANCE TrainingRun
Replay == INSTANCE ReplayChunks

OnlyRewards ==
  /\ pc = NotHere /\ alive = NotHere /\ stopped = NotHere /\ force = NotHere
  /\ config = NotHere /\ index = NotHere /\ input = NotHere /\ used = NotHere
  /\ prepared = NotHere /\ cache = NotHere /\ annotations = NotHere
  /\ rewards = NotHere /\ sidecar = NotHere /\ alone = NotHere
  /\ overtaken = NotHere /\ run = NotHere /\ phase = NotHere
  /\ total = NotHere /\ step = NotHere /\ actor = NotHere /\ critic = NotHere
  /\ drawn = NotHere /\ pending = NotHere /\ stop = NotHere
  /\ latest = NotHere /\ closing = NotHere /\ disk = NotHere
  /\ runs = NotHere /\ queried = NotHere /\ old = NotHere
OnlyPipeline ==
  /\ frames = NotHere /\ saved = NotHere /\ binding = NotHere
  /\ training = NotHere /\ run = NotHere /\ phase = NotHere
  /\ total = NotHere /\ step = NotHere /\ actor = NotHere /\ critic = NotHere
  /\ drawn = NotHere /\ pending = NotHere /\ stop = NotHere
  /\ latest = NotHere /\ closing = NotHere /\ disk = NotHere
  /\ runs = NotHere /\ queried = NotHere /\ old = NotHere
OnlyRun ==
  /\ frames = NotHere /\ saved = NotHere /\ binding = NotHere
  /\ training = NotHere /\ pc = NotHere /\ alive = NotHere
  /\ stopped = NotHere /\ force = NotHere /\ config = NotHere
  /\ index = NotHere /\ input = NotHere /\ used = NotHere
  /\ prepared = NotHere /\ cache = NotHere /\ annotations = NotHere
  /\ rewards = NotHere /\ sidecar = NotHere /\ alone = NotHere
  /\ overtaken = NotHere /\ runs = NotHere /\ queried = NotHere
  /\ old = NotHere
OnlyReplay ==
  /\ frames = NotHere /\ saved = NotHere /\ binding = NotHere
  /\ training = NotHere /\ pc = NotHere /\ alive = NotHere
  /\ stopped = NotHere /\ force = NotHere /\ config = NotHere
  /\ index = NotHere /\ input = NotHere /\ used = NotHere /\ cache = NotHere
  /\ annotations = NotHere /\ rewards = NotHere /\ sidecar = NotHere
  /\ alone = NotHere /\ overtaken = NotHere /\ run = NotHere
  /\ phase = NotHere /\ total = NotHere /\ step = NotHere /\ actor = NotHere
  /\ critic = NotHere /\ drawn = NotHere /\ pending = NotHere
  /\ stop = NotHere /\ latest = NotHere /\ closing = NotHere
  /\ disk = NotHere

PartsInit ==
  \/ part = "rewards" /\ Init /\ OnlyRewards
  \/ part = "pipeline" /\ Flow!Init /\ OnlyPipeline
  \/ part = "run" /\ Run!Init /\ OnlyRun
  \/ part = "replay" /\ Replay!Init /\ OnlyReplay

PartsNext ==
  \/ /\ part = "rewards" /\ Next
     /\ UNCHANGED <<part, pc, alive, stopped, force, config, index, input,
                    used, prepared, cache, annotations, rewards, sidecar,
                    alone, overtaken, run, phase, total, step, actor, critic,
                    drawn, pending, stop, latest, closing, disk, runs,
                    queried, old>>
  \/ /\ part = "pipeline" /\ Flow!Next
     /\ UNCHANGED <<part, frames, saved, binding, training, run, phase, total,
                    step, actor, critic, drawn, pending, stop, latest,
                    closing, disk, runs, queried, old>>
  \/ /\ part = "run" /\ Run!Next
     /\ UNCHANGED <<part, frames, saved, binding, training, pc, alive,
                    stopped, force, config, index, input, used, prepared,
                    cache, annotations, rewards, sidecar, alone, overtaken,
                    runs, queried, old>>
  \/ /\ part = "replay" /\ Replay!Next
     /\ UNCHANGED <<part, frames, saved, binding, training, pc, alive,
                    stopped, force, config, index, input, used, cache,
                    annotations, rewards, sidecar, alone, overtaken, run,
                    phase, total, step, actor, critic, drawn, pending, stop,
                    latest, closing, disk>>

parts == <<part, frames, saved, binding, training, pc, alive, stopped, force,
           config, index, input, used, prepared, cache, annotations, rewards,
           sidecar, alone, overtaken, run, phase, total, step, actor, critic,
           drawn, pending, stop, latest, closing, disk, runs, queried, old>>
PartsSpec ==
  /\ PartsInit /\ [][PartsNext]_parts
-----------------------------------------------------------------------------
ASSUME LearningAssumption ==
  Run!ConfigAssumption /\ Replay!ReplayAssumption /\ Flow!PipelineAssumption

\* Neither the pipelines nor the derivations are ordered.
Symmetry == Permutations(Pipelines) \cup Permutations(Configs)
-----------------------------------------------------------------------------
(* TrainsOnItsRewards, TrainsOnWhatItBound and StopComesBeforeTraining of  *)
(* TrainingPipeline.                                                       *)
TrainingGetsItsRewards ==
  part = "pipeline" =>
    /\ Flow!TypeOK
    /\ Flow!TrainsOnItsRewards /\ Flow!TrainsOnWhatItBound
    /\ Flow!StopComesBeforeTraining

(* ResumeContinues, CanceledIsResumable, ListedIsWhole and StopIsPrompt of *)
(* TrainingRun.                                                            *)
ResumingChangesNothing ==
  part = "run" =>
    /\ Run!TypeOK
    /\ Run!ResumeContinues /\ Run!CanceledIsResumable
    /\ Run!ListedIsWhole /\ Run!StopIsPrompt

(* EachTransitionOnce, GridsAgree, CountsAgree and WindowOfOneProducer of  *)
(* ReplayChunks.                                                           *)
ReplayIsExact ==
  part = "replay" =>
    /\ Replay!EachTransitionOnce /\ Replay!GridsAgree
    /\ Replay!CountsAgree /\ Replay!WindowOfOneProducer

(* AdaptationExact, OneReduction, ShapingTelescopes and SuccessScoresZero  *)
(* of RewardRecipes.                                                       *)
RewardsKeepTheGoal ==
  part = "rewards" =>
    TypeOK /\ AdaptationExact /\ OneReduction /\ ShapingTelescopes /\ SuccessScoresZero
=============================================================================
