---------------------------- MODULE TrainingRun ----------------------------
(***************************************************************************)
(* One training process of the offline reinforcement learning package and  *)
(* the runs that resume from its checkpoints (vla_rynn_iql/training.py,    *)
(* iql.py, algorithms.py and scripts/train_iql.py).                        *)
(*                                                                         *)
(* A step draws a batch, updates the critic and adds the actor's gradient  *)
(* to the accumulated ones; the actor's optimizer applies them every       *)
(* Accumulation steps and at the last step.  The accumulated gradients are *)
(* in no checkpoint.  What a parameter holds is abstracted to what it was  *)
(* computed from: `actor' is the set of <<first, last>> windows of steps   *)
(* whose gradients were applied together, `critic' and `drawn' count the   *)
(* updates behind each network and the batches drawn from the generator.   *)
(*                                                                         *)
(* A checkpoint is a directory of three files written in order, the last   *)
(* of which makes it visible to the list the next run resumes from.  The   *)
(* process may be killed between and inside the writes.                    *)
(***************************************************************************)
EXTENDS Naturals, FiniteSetsExt

CONSTANTS
    Accumulation,  \* gradient_accumulation_steps
    Interval,      \* checkpoint_interval
    Totals,        \* the train_steps a run may be configured with
    MaxRuns,       \* bound: runs started one after another
    None

ConfigAssumption ==
    /\ Accumulation \in Nat \ {0}
    /\ Interval \in Nat \ {0}
    /\ Interval % Accumulation = 0          \* config.py refuses other intervals
    /\ Totals \subseteq Nat \ {0}
    /\ \E most \in Totals : \A t \in Totals : t <= most
    /\ MaxRuns \in Nat
    /\ None \notin Nat

VARIABLES
    run,          \* the number of the run; a run has a directory of its own
    phase,        \* where its process is
    total,        \* train_steps of this run
    step,         \* steps done
    actor,        \* windows of steps whose gradients the actor has absorbed
    critic,       \* updates of the critic
    drawn,        \* batches taken from the data generator
    pending,      \* steps whose actor gradients are accumulated, not applied
    stop,         \* _STOP_REQUESTED: the step it found the run at, or None
    latest,       \* latest_checkpoint: its step, or None
    closing,      \* the checkpoint being written is the one of a stop
    disk          \* <<run, step>> -> the files of the checkpoint; whole: the
                  \* two of them that are there and not half written

process == <<total, step, actor, critic, drawn, pending, latest,
             closing>>
vars == <<run, phase, process, stop, disk>>

Phases == {"idle", "booting", "loading", "training", "save_actor",
           "save_trainer", "save_meta", "deciding", "publishing",
           "canceled", "completed", "refused", "killed"}
Ended == {"idle", "canceled", "completed", "refused", "killed"}
MaxTotal == Max(Totals)
StepCounts == 0..MaxTotal
Windows == StepCounts \X StepCounts
Critics == [{"value", "online", "target"} -> StepCounts]

-----------------------------------------------------------------------------
\* PixelIQL.update: V is fitted to the frozen target Q, then Q to a Bellman target
\* of the new V, then the target follows Q.  Each network carries the number of
\* updates its value rests on.
NewCritic == [value |-> 0, online |-> 0, target |-> 0]
FitValue(c) == [c EXCEPT !.value = c.target + 1]
FitQ(c) == [c EXCEPT !.online = c.value]
FollowQ(c) == [c EXCEPT !.target = c.online]
CriticUpdate(c) == FollowQ(FitQ(FitValue(c)))

-----------------------------------------------------------------------------
(* The files of a checkpoint: the actor's, the trainer's (the critic, the  *)
(* optimizers and the generators, with the step) and checkpoint.json.      *)

TrainerState == [step |-> step, critic |-> critic, drawn |-> drawn]
NoFiles == [actor |-> {}, trainer |-> [step |-> 0, critic |-> NewCritic, drawn |-> 0],
            whole |-> {}, meta |-> FALSE]
Here == <<run, step>>
Files(c) == IF c \in DOMAIN disk THEN disk[c] ELSE NoFiles
Write(files) == disk' = [c \in DOMAIN disk \cup {Here} |->
                           IF c = Here THEN files ELSE disk[c]]

\* available_checkpoints: every directory whose checkpoint.json can be read.
Listed == {c \in DOMAIN disk : disk[c].meta}

Readable(c) == disk[c].whole = {"actor", "trainer"}

Boundary(n) == n % Accumulation = 0

-----------------------------------------------------------------------------
TypeOK ==
    /\ run \in 0..MaxRuns
    /\ phase \in Phases
    /\ total \in Totals \cup {0}
    /\ {step, drawn} \subseteq StepCounts
    /\ critic \in Critics
    /\ actor \subseteq Windows
    /\ pending \subseteq StepCounts
    /\ {stop, latest} \subseteq StepCounts \cup {None}
    /\ closing \in BOOLEAN
    /\ DOMAIN disk \subseteq (1..MaxRuns) \X StepCounts

Init ==
    /\ run = 0 /\ phase = "idle" /\ total = 0 /\ step = 0
    /\ actor = {} /\ critic = NewCritic /\ drawn = 0 /\ pending = {}
    /\ stop = None /\ latest = None /\ closing = FALSE
    /\ disk = << >>

-----------------------------------------------------------------------------
(* A new process: the signal handlers are installed, then train clears     *)
(* _STOP_REQUESTED and loads the model and the replay.                     *)

Launch(t) ==
    /\ phase \in Ended
    /\ run < MaxRuns
    /\ run' = run + 1
    /\ phase' = "booting"
    /\ total' = t
    /\ step' = 0 /\ actor' = {} /\ critic' = NewCritic /\ drawn' = 0
    /\ pending' = {} /\ stop' = None /\ latest' = None /\ closing' = FALSE
    /\ UNCHANGED disk

ClearStop ==
    /\ phase = "booting"
    /\ phase' = "loading"
    /\ stop' = None
    /\ UNCHANGED <<run, process, disk>>

\* No resume_checkpoint in the configuration.
StartFresh ==
    /\ phase = "loading"
    /\ phase' = "training"
    /\ UNCHANGED <<run, process, stop, disk>>

\* _restore_checkpoint reads every file of the checkpoint; what cannot be read
\* ends the run, and so does a checkpoint that is not before the last step.
Restore(c) ==
    /\ phase = "loading"
    /\ c \in Listed
    /\ c[1] < run
    /\ Readable(c) /\ disk[c].trainer.step < total
    /\ phase' = "training"
    /\ step' = disk[c].trainer.step
    /\ actor' = disk[c].actor
    /\ critic' = disk[c].trainer.critic
    /\ drawn' = disk[c].trainer.drawn
    /\ stop' = IF stop = None THEN None ELSE disk[c].trainer.step
    /\ UNCHANGED <<run, total, pending, latest, closing, disk>>

RefuseResume(c) ==
    /\ phase = "loading"
    /\ c \in Listed
    /\ c[1] < run
    /\ Readable(c) => disk[c].trainer.step >= total
    /\ phase' = "refused"
    /\ UNCHANGED <<run, process, stop, disk>>

-----------------------------------------------------------------------------
(* One iteration: the batch, the critic's update, the actor's gradient, and *)
(* the optimizer at the end of a window or of the training.                 *)

AccumulationWindow(steps) == <<Min(steps), Max(steps)>>

\* mutant: the gradients left at the last step are dropped
AppliesAtBoundary(n) == Boundary(n)

Applies(n) == Boundary(n) \/ n = total

\* The checkpoint a step ends with.
Checkpoints(n) == n % Interval = 0 \/ n = total

Train ==
    /\ phase = "training"
    /\ step < total
    /\ LET n == step + 1
           gathered == pending \cup {n}
       IN /\ step' = n
          /\ drawn' = drawn + 1
          /\ critic' = CriticUpdate(critic)
          /\ IF Applies(n)
               THEN actor' = actor \cup {AccumulationWindow(gathered)} /\ pending' = {}
               ELSE pending' = gathered /\ UNCHANGED actor
          /\ phase' = IF Checkpoints(n) THEN "save_actor" ELSE "deciding"
    /\ UNCHANGED <<run, total, latest, closing, stop, disk>>

-----------------------------------------------------------------------------
(* _save_checkpoint, after a step (phase save_...) and once more when a    *)
(* stop is handled: the directory may exist, its files are written over.   *)

SaveActor ==
    /\ phase = "save_actor"
    /\ Write([Files(Here) EXCEPT !.actor = actor, !.whole = @ \cup {"actor"}])
    /\ phase' = "save_trainer"
    /\ UNCHANGED <<run, process, stop>>

SaveTrainer ==
    /\ phase = "save_trainer"
    /\ Write([Files(Here) EXCEPT !.trainer = TrainerState, !.whole = @ \cup {"trainer"}])
    /\ phase' = "save_meta"
    /\ UNCHANGED <<run, process, stop>>

\* atomic_json(checkpoint.json) makes the directory a checkpoint; the save of a
\* stop is followed by the summary and the end.
SaveMeta ==
    /\ phase = "save_meta"
    /\ Write([Files(Here) EXCEPT !.meta = TRUE])
    /\ latest' = step
    /\ phase' = IF closing THEN "canceled" ELSE "deciding"
    /\ UNCHANGED <<run, total, step, actor, critic, drawn, pending,
                   closing, stop>>

-----------------------------------------------------------------------------
(* The end of an iteration: a stop is handled at the end of a window, with *)
(* a checkpoint of its own unless the step has just written one.           *)

StopsHere == stop # None /\ (Boundary(step) \/ step = total)

\* A last step off the interval has a checkpoint, and is written once more.
NeedsCheckpoint == latest = None \/ step % Interval # 0

HandleStop ==
    /\ phase = "deciding"
    /\ StopsHere
    /\ closing' = NeedsCheckpoint
    /\ phase' = IF NeedsCheckpoint THEN "save_actor" ELSE "canceled"
    /\ UNCHANGED <<run, total, step, actor, critic, drawn, pending,
                   latest, stop, disk>>

NextIteration ==
    /\ phase = "deciding"
    /\ ~StopsHere
    /\ phase' = IF step = total THEN "publishing" ELSE "training"
    /\ UNCHANGED <<run, process, stop, disk>>

\* _publish_overlay and the summary; ModelRegistry has what happens in between.
Publish ==
    /\ phase = "publishing"
    /\ phase' = "completed"
    /\ UNCHANGED <<run, process, stop, disk>>

-----------------------------------------------------------------------------
(* A signal sets the flag at any moment; a kill may leave a file half       *)
(* written, the new one or the old one written over.                        *)

RequestStop ==
    /\ phase \notin Ended
    /\ stop = None
    /\ stop' = step
    /\ UNCHANGED <<run, phase, process, disk>>

Kill ==
    /\ phase \notin Ended
    /\ phase' = "killed"
    /\ \/ UNCHANGED disk
       \/ phase = "save_actor" /\ Write([Files(Here) EXCEPT !.whole = @ \ {"actor"}])
       \/ phase = "save_trainer" /\ Write([Files(Here) EXCEPT !.whole = @ \ {"trainer"}])
    /\ UNCHANGED <<run, process, stop>>

Next ==
    \/ \E t \in Totals : Launch(t)
    \/ ClearStop
    \/ StartFresh
    \/ \E c \in DOMAIN disk : Restore(c)
    \/ \E c \in DOMAIN disk : RefuseResume(c)
    \/ Train
    \/ SaveActor
    \/ SaveTrainer
    \/ SaveMeta
    \/ HandleStop
    \/ NextIteration
    \/ Publish
    \/ RequestStop
    \/ Kill

Spec == Init /\ [][Next]_vars

-----------------------------------------------------------------------------
(* What an uninterrupted run has done to the actor after n of `total' steps. *)

WindowEnd(k) == Min({(k + 1) * Accumulation, total})
Ideal(n) ==
    {<<k * Accumulation + 1, WindowEnd(k)>> :
        k \in {j \in 0..n : j * Accumulation < n /\ WindowEnd(j) <= n}}

\* The actor took in a window that was cut short by the end of a shorter
\* training, which this run has resumed from.
CutShort == \E w \in actor : ~Boundary(w[2]) /\ w[2] # total

\* A run, whatever runs it resumes and wherever they were stopped or killed, has
\* drawn the batches, updated the critic and applied the actor's gradients as if
\* it had never been interrupted: no window lost, none applied twice, none
\* regrouped.  (The exception is a predecessor with fewer train_steps, off the
\* window: see ResumedGradientsExact.)  _save_checkpoint, _restore_checkpoint and
\* the windows of train.
ResumeContinues ==
    phase \in {"training", "deciding", "publishing", "completed", "canceled"} =>
        /\ critic = [value |-> step, online |-> step, target |-> step]
        /\ drawn = step
        /\ ~CutShort => actor = Ideal(step)

\* The comment of config.py: the interval is a multiple of the accumulation "so
\* resumed actor gradients are exact".  The last step of a training is a
\* checkpoint too, wherever it falls.
ResumedGradientsExact ==
    phase = "training" => actor = Ideal(step)

\* A stop that train has seen is handled within one window of the step it came
\* at, and never turns into the end of a longer training.
StopIsPrompt ==
    stop # None /\ phase \in {"training", "deciding"} =>
        step <= stop + Accumulation

\* A canceled training leaves a checkpoint of its last step that the next run
\* can continue from, whole.
CanceledIsResumable ==
    phase = "canceled" =>
        /\ Here \in Listed /\ Readable(Here)
        /\ Files(Here).actor = actor
        /\ Files(Here).trainer = TrainerState
        /\ pending = {}

\* A checkpoint on the list is one step's: the actor and the trainer of the same
\* step, nothing half written, even after a kill.  The last step off the interval
\* is exempt: its checkpoint is written a second time when a stop comes then.
ListedIsWhole ==
    \A c \in Listed :
        \/ ~Readable(c) /\ c[2] % Interval # 0 /\ c[2] \in Totals
        \/ /\ Readable(c)
           /\ disk[c].trainer.step = c[2]
           /\ \A w \in disk[c].actor : w[2] <= c[2]
           /\ disk[c].actor # {}
=============================================================================
