---------------------------- MODULE ModelRegistry ---------------------------
(***************************************************************************)
(* Trained models from their export by a training process to their         *)
(* deletion: the registry directory with its "latest" link (training.py),  *)
(* the jobs and sessions that use a model (offline_job_service.py,         *)
(* policies/*, simulation_worker.py) and the operations that copy or       *)
(* delete models, jobs and the dataset (policy_management_service.py,      *)
(* job_cleanup.py).                                                        *)
(*                                                                         *)
(* The content of a model is the training job that produced it; a job      *)
(* exports one model, named like the job here.  The backend's jobs.lock is *)
(* held while op # NoOp, every other action under it is one step.          *)
(***************************************************************************)
EXTENDS Naturals, FiniteSets

CONSTANTS
  TrainJobs, EvalJobs,
  CopyIds,       \* ids copies may get: free again once deleted
  NoModel, NoJob,
  MaxUses        \* bound on evaluations, copies, sessions and crashes together

(* Every job and every copy gets a new id of its own.                      *)
RegistryAssumption ==
  /\ TrainJobs \cap EvalJobs = {} /\ TrainJobs \cap CopyIds = {}
  /\ NoModel \notin TrainJobs \cup CopyIds /\ NoJob \notin TrainJobs

Models == TrainJobs \cup CopyIds
AllJobs == TrainJobs \cup EvalJobs

VARIABLES
  model,      \* state of each directory of the registry
  content,    \* the content_sha256 of what is in it
  latest,     \* the link registry/latest
  previous,   \* export.json of each training run: previous_latest
  checkpoint, \* training jobs whose checkpoints exist
  dataset,    \* the training dataset exists
  torn,       \* models whose deletion met a crash, or their own publication
  job,        \* status of each job
  resume,     \* resume_checkpoint of each training job
  pinned,     \* policy snapshot of each evaluation job
  trainer,    \* program point of the running training process
  evaluator,  \* content the running evaluation process has loaded
  session,    \* the simulation session
  resident,   \* the model the backend's PolicyProvider holds
  op,         \* the deletion in progress
  copier,     \* the copy in progress
  events

diskVars == <<model, content, latest, previous, checkpoint, dataset, torn>>
jobVars == <<job, resume, pinned, trainer, evaluator>>
backendVars == <<session, resident, op, copier>>
vars == <<diskVars, jobVars, backendVars, events>>

Nothing == [model |-> NoModel, content |-> NoModel]
Snapshot == [model : Models, content : TrainJobs]
NoOp == [at |-> "none", kind |-> "none", target |-> NoModel, restore |-> FALSE]
NoCopy == [at |-> "none", from |-> NoModel, to |-> NoModel, content |-> NoModel]
NoSession == [at |-> "none", pick |-> Nothing]

(* An empty registry, or one with the model of a finished training job and *)
(* a copy of it under every id of CopyIds.                                 *)
Init ==
  \E old \in SUBSET TrainJobs :
    LET copies == IF old = {} THEN {} ELSE CopyIds
        source == IF old = {} THEN NoModel ELSE CHOOSE t \in old : TRUE
    IN  /\ Cardinality(old) <= 1
        /\ model = [m \in Models |-> IF m \in old \cup copies THEN "complete" ELSE "absent"]
        /\ content = [m \in Models |-> IF m \in old \cup copies THEN source ELSE NoModel]
        /\ latest = source /\ previous = [t \in TrainJobs |-> NoModel]
        /\ checkpoint = old /\ dataset = TRUE /\ torn = {}
        /\ job = [j \in AllJobs |-> IF j \in old THEN "done" ELSE "none"]
        /\ resume = [t \in TrainJobs |-> NoJob]
        /\ pinned = [e \in EvalJobs |-> Nothing] /\ trainer = "none" /\ evaluator = NoModel
        /\ session = NoSession /\ resident = Nothing /\ op = NoOp /\ copier = NoCopy
        /\ events = 0

LockFree == op.at = "none"
Live == {j \in AllJobs : job[j] \in {"queued", "active"}}
Running(j) == job[j] = "active"

(* PolicyCatalog.select: an entry whose directory is complete.             *)
Selectable(m) == model[m] = "complete"
ContentSha256(m) == content[m]
Entry(m) == [model |-> m, content |-> ContentSha256(m)]
-----------------------------------------------------------------------------
(***************************************************************************)
(* Registration, under jobs.lock, and dispatch: one GPU work at a time,    *)
(* the resident model of the backend unloaded before it.                   *)
(***************************************************************************)
GpuFree == (\A j \in AllJobs : ~Running(j)) /\ session.at \notin {"claimed", "running"}

(* _resolve_resume: from scratch, or from a checkpoint that exists.        *)
Resumable == checkpoint \cup {NoJob}

RegisterTraining(t) ==
  /\ LockFree /\ job[t] = "none" /\ dataset
  /\ \E from \in Resumable : resume' = [resume EXCEPT ![t] = from]
  /\ job' = [job EXCEPT ![t] = "queued"]
  /\ UNCHANGED <<diskVars, pinned, trainer, evaluator, backendVars, events>>

RegisterEvaluation(e) ==
  /\ LockFree /\ job[e] = "none" /\ events < MaxUses
  /\ events' = events + 1
  /\ \E m \in Models : Selectable(m) /\ pinned' = [pinned EXCEPT ![e] = Entry(m)]
  /\ job' = [job EXCEPT ![e] = "queued"]
  /\ UNCHANGED <<diskVars, resume, trainer, evaluator, backendVars>>

CancelQueued(j) ==
  /\ LockFree /\ job[j] = "queued"
  /\ job' = [job EXCEPT ![j] = "done"]
  /\ UNCHANGED <<diskVars, resume, pinned, trainer, evaluator, backendVars, events>>

Dispatch(j) ==
  /\ LockFree /\ GpuFree /\ job[j] = "queued"
  /\ job' = [job EXCEPT ![j] = "active"]
  /\ trainer' = IF j \in TrainJobs THEN "train" ELSE trainer
  /\ evaluator' = NoModel /\ resident' = Nothing
  /\ UNCHANGED <<diskVars, resume, pinned, session, op, copier, events>>
-----------------------------------------------------------------------------
(***************************************************************************)
(* The training process: checkpoints, then _publish_overlay.               *)
(***************************************************************************)
Training(t, at) == Running(t) /\ trainer = at
TrainerGoes(at) == trainer' = at /\ UNCHANGED <<job, resume, pinned, evaluator>>

SaveCheckpoint(t) ==
  /\ Training(t, "train") /\ t \notin checkpoint
  /\ checkpoint' = checkpoint \cup {t}
  /\ UNCHANGED <<model, content, latest, previous, dataset, torn, jobVars, backendVars, events>>

ExportStarts(t) ==
  /\ Training(t, "train") /\ t \in checkpoint
  /\ TrainerGoes("write")
  /\ model' = [model EXCEPT ![t] = "incomplete"]
  /\ UNCHANGED <<content, latest, previous, checkpoint, dataset, torn, backendVars, events>>

(* policy.yaml appears after the weights: the catalog lists the model.     *)
ExportWrites(t) ==
  /\ Training(t, "write")
  /\ TrainerGoes("link")
  /\ model' = [model EXCEPT ![t] = "complete"]
  /\ content' = [content EXCEPT ![t] = t]
  /\ UNCHANGED <<latest, previous, checkpoint, dataset, torn, backendVars, events>>

(* Under .registry.lock, which the clean-up of a job takes as well.        *)
RegistryFree == op.kind # "job" \/ op.at = "none"

ExportLinks(t) ==
  /\ Training(t, "link") /\ RegistryFree
  /\ TrainerGoes("end")
  /\ previous' = [previous EXCEPT ![t] = latest]
  /\ latest' = t
  /\ torn' = IF Selectable(t) /\ op.target # t THEN torn ELSE torn \cup {t}
  /\ UNCHANGED <<model, content, checkpoint, dataset, backendVars, events>>

(* It ends, or is stopped or killed at any point.                          *)
TrainingEnds(t) ==
  /\ Running(t)
  /\ job' = [job EXCEPT ![t] = "done"] /\ trainer' = "none"
  /\ UNCHANGED <<diskVars, resume, pinned, evaluator, backendVars, events>>
-----------------------------------------------------------------------------
(***************************************************************************)
(* The evaluation process: catalog_from_snapshot and provider.load both    *)
(* compare the content with the snapshot.                                  *)
(***************************************************************************)
\* mutant
SameModelId(pick) == Selectable(pick.model)
Verified(pick) == Selectable(pick.model) /\ ContentSha256(pick.model) = pick.content

EvaluationLoads(e) ==
  /\ Running(e) /\ evaluator = NoModel
  /\ Verified(pinned[e])
  /\ evaluator' = content[pinned[e].model]
  /\ UNCHANGED <<diskVars, job, resume, pinned, trainer, backendVars, events>>

EvaluationEnds(e) ==
  /\ Running(e)
  /\ job' = [job EXCEPT ![e] = "done"] /\ evaluator' = NoModel
  /\ UNCHANGED <<diskVars, resume, pinned, trainer, backendVars, events>>
-----------------------------------------------------------------------------
(***************************************************************************)
(* A session: its model is selected first, the job registered later.       *)
(***************************************************************************)
SessionGoes(at) == session' = [session EXCEPT !.at = at]

PickModel ==
  /\ session.at = "none" /\ events < MaxUses
  /\ events' = events + 1
  /\ \E m \in Models : Selectable(m) /\ session' = [at |-> "picked", pick |-> Entry(m)]
  /\ UNCHANGED <<diskVars, jobVars, resident, op, copier>>

QueueSession ==
  /\ session.at = "picked" /\ LockFree
  /\ session' = [session EXCEPT !.at = "queued"]
  /\ UNCHANGED <<diskVars, jobVars, resident, op, copier, events>>

DispatchSession ==
  /\ session.at = "queued" /\ LockFree /\ GpuFree
  /\ SessionGoes("claimed")
  /\ UNCHANGED <<diskVars, jobVars, resident, op, copier, events>>

(* VLAAdapterProvider.load: weights of the same content stay where they    *)
(* are, others are applied in their place.                                 *)
AfterLoad(m) ==
  IF resident.content = ContentSha256(m) THEN [resident EXCEPT !.model = m] ELSE Entry(m)

LoadSession ==
  /\ session.at = "claimed" /\ Verified(session.pick)
  /\ SessionGoes("running")
  /\ resident' = AfterLoad(session.pick.model)
  /\ UNCHANGED <<diskVars, jobVars, op, copier, events>>

(* For another content, or for any error of the loading, which unloads.    *)
LoadSessionFails ==
  /\ session.at = "claimed"
  /\ session' = NoSession /\ resident' \in {resident, Nothing}
  /\ UNCHANGED <<diskVars, jobVars, op, copier, events>>

(* Canceled, failed or finished; the model stays resident.                 *)
SessionEnds ==
  /\ session.at # "none" /\ session' = NoSession
  /\ UNCHANGED <<diskVars, jobVars, resident, op, copier, events>>
-----------------------------------------------------------------------------
(***************************************************************************)
(* Copies are made without the lock: in a temporary directory, renamed to  *)
(* an id that was free when it was chosen.                                 *)
(***************************************************************************)
CopyBegins ==
  /\ copier = NoCopy /\ events < MaxUses
  /\ events' = events + 1
  /\ \E from \in Models, to \in CopyIds :
       /\ Selectable(from) /\ model[to] = "absent"
       /\ copier' = [at |-> "copying", from |-> from, to |-> to, content |-> NoModel]
  /\ UNCHANGED <<diskVars, jobVars, session, resident, op>>

CopyReads ==
  /\ copier.at = "copying"
  /\ copier' = IF Selectable(copier.from)
                 THEN [copier EXCEPT !.at = "copied", !.content = ContentSha256(copier.from)]
                 ELSE NoCopy
  /\ UNCHANGED <<diskVars, jobVars, session, resident, op, events>>

CopyPublishes ==
  /\ copier.at = "copied"
  /\ copier' = NoCopy
  /\ IF model[copier.to] = "absent"
       THEN /\ model' = [model EXCEPT ![copier.to] = "complete"]
            /\ content' = [content EXCEPT ![copier.to] = copier.content]
       ELSE UNCHANGED <<model, content>>
  /\ UNCHANGED <<latest, previous, checkpoint, dataset, torn, jobVars, session, resident, op,
                 events>>
-----------------------------------------------------------------------------
(***************************************************************************)
(* Deletion of a model, and of a training job with or without its model.   *)
(* _assert_idle: no live job and no session or draft names the model.      *)
(***************************************************************************)
UsedBySession(m) == session.at \notin {"none", "picked"} /\ session.pick.model = m
UsedByJob(m) == \E e \in EvalJobs \cap Live : pinned[e].model = m
IdleModel(m) == ~UsedBySession(m) /\ ~UsedByJob(m)

Unload(m) == resident' = IF resident.model = m THEN Nothing ELSE resident

DeleteModelBegins(m) ==
  /\ LockFree /\ Selectable(m) /\ IdleModel(m)
  /\ Unload(m)
  /\ op' = [at |-> "unlink", kind |-> "model", target |-> m, restore |-> latest = m]
  /\ UNCHANGED <<diskVars, jobVars, session, copier, events>>

(* latest.unlink(): whatever the link points to by now.                    *)
DeleteModelUnlinks ==
  /\ op.at = "unlink" /\ op.kind = "model"
  /\ latest' = IF op.restore THEN NoModel ELSE latest
  /\ op' = [op EXCEPT !.at = "remove"]
  /\ UNCHANGED <<model, content, previous, checkpoint, dataset, torn, jobVars, session, resident,
                 copier, events>>

(* Checkpoints another live job resumes from are kept; so are models in    *)
(* use.  The registry lock is taken for the model.                         *)
Resumed(t) == \E u \in (TrainJobs \ {t}) \cap Live : resume[u] = t

(* What the exports of a job name and the registry still has.              *)
HasExport(t) == model[t] # "absent"

DeleteJobBegins(t, withModel) ==
  /\ LockFree /\ job[t] = "done" /\ ~Resumed(t)
  /\ IF withModel /\ HasExport(t)
       THEN /\ IdleModel(t) /\ Unload(t)
            /\ op' = [at |-> "remove", kind |-> "job", target |-> t, restore |-> latest = t]
       ELSE /\ op' = [at |-> "job", kind |-> "job", target |-> t, restore |-> FALSE]
            /\ UNCHANGED resident
  /\ UNCHANGED <<diskVars, jobVars, session, copier, events>>

RemoveBegins ==
  /\ op.at = "remove"
  /\ model' = [model EXCEPT ![op.target] = "incomplete"]
  /\ op' = [op EXCEPT !.at = "removing"]
  /\ UNCHANGED <<content, latest, previous, checkpoint, dataset, torn, jobVars, session, resident,
                 copier, events>>

RemoveEnds ==
  /\ op.at = "removing"
  /\ model' = [model EXCEPT ![op.target] = "absent"]
  /\ content' = [content EXCEPT ![op.target] = NoModel]
  /\ op' = IF op.kind = "model" THEN NoOp ELSE [op EXCEPT !.at = "relink"]
  /\ UNCHANGED <<latest, previous, checkpoint, dataset, torn, jobVars, session, resident, copier,
                 events>>

(* latest goes back to what it was before the export, if that still is.    *)
Restorable(t) == previous[t] # NoModel /\ model[previous[t]] # "absent"

DeleteJobRelinks ==
  /\ op.at = "relink"
  /\ latest' = IF ~op.restore THEN latest
               ELSE IF Restorable(op.target) THEN previous[op.target] ELSE NoModel
  /\ op' = [op EXCEPT !.at = "job"]
  /\ UNCHANGED <<model, content, previous, checkpoint, dataset, torn, jobVars, session, resident,
                 copier, events>>

DeleteJobEnds ==
  /\ op.at = "job"
  /\ checkpoint' = checkpoint \ {op.target}
  /\ job' = [job EXCEPT ![op.target] = "deleted"]
  /\ op' = NoOp
  /\ UNCHANGED <<model, content, latest, previous, dataset, torn, resume, pinned, trainer, evaluator,
                 session, resident, copier, events>>

(* Refused while a job that uses it waits or runs, also with force.        *)
DeleteDataset ==
  /\ LockFree /\ dataset /\ TrainJobs \cap Live = {}
  /\ dataset' = FALSE
  /\ UNCHANGED <<model, content, latest, previous, checkpoint, torn, jobVars, backendVars, events>>
-----------------------------------------------------------------------------
(* Jobs survive a crash of the backend, its own operations do not.         *)
BackendCrashes ==
  /\ events < MaxUses
  /\ events' = events + 1
  /\ session' = NoSession /\ resident' = Nothing /\ op' = NoOp /\ copier' = NoCopy
  /\ torn' = IF op.at \in {"removing", "relink"} THEN torn \cup {op.target} ELSE torn
  /\ UNCHANGED <<model, content, latest, previous, checkpoint, dataset, jobVars>>

TrainingStep(t) ==
  \/ RegisterTraining(t) \/ SaveCheckpoint(t) \/ ExportStarts(t) \/ ExportWrites(t) \/ ExportLinks(t)
  \/ TrainingEnds(t)
EvaluationStep(e) == RegisterEvaluation(e) \/ EvaluationLoads(e) \/ EvaluationEnds(e)
SessionStep ==
  \/ PickModel \/ QueueSession \/ DispatchSession \/ LoadSession \/ LoadSessionFails \/ SessionEnds
CopyStep == CopyBegins \/ CopyReads \/ CopyPublishes
DeletionStep ==
  \/ DeleteModelUnlinks \/ RemoveBegins \/ RemoveEnds \/ DeleteJobRelinks \/ DeleteJobEnds

Next ==
  \/ \E t \in TrainJobs : TrainingStep(t)
  \/ \E e \in EvalJobs : EvaluationStep(e)
  \/ \E j \in AllJobs : CancelQueued(j) \/ Dispatch(j)
  \/ \E m \in Models : DeleteModelBegins(m)
  \/ \E t \in TrainJobs, withModel \in BOOLEAN : DeleteJobBegins(t, withModel)
  \/ SessionStep \/ CopyStep \/ DeletionStep \/ DeleteDataset \/ BackendCrashes

Spec == Init /\ [][Next]_vars
-----------------------------------------------------------------------------
TypeOK ==
  /\ model \in [Models -> {"absent", "incomplete", "complete"}]
  /\ content \in [Models -> TrainJobs \cup {NoModel}]
  /\ latest \in Models \cup {NoModel} /\ previous \in [TrainJobs -> Models \cup {NoModel}]
  /\ checkpoint \subseteq TrainJobs /\ dataset \in BOOLEAN /\ torn \subseteq Models
  /\ job \in [AllJobs -> {"none", "queued", "active", "done", "deleted"}]
  /\ resume \in [TrainJobs -> TrainJobs \cup {NoJob}]
  /\ pinned \in [EvalJobs -> Snapshot \cup {Nothing}]
  /\ trainer \in {"none", "train", "write", "link", "end"}
  /\ evaluator \in TrainJobs \cup {NoModel}
  /\ session.at \in {"none", "picked", "queued", "claimed", "running"}
  /\ session.pick \in Snapshot \cup {Nothing}
  /\ resident \in Snapshot \cup {Nothing}

(* Whoever infers does it with the very weights that were selected: an     *)
(* evaluation with those of its snapshot, a session with those of its      *)
(* record, which stay resident to its end, however models are copied,      *)
(* deleted and their ids taken again in between.                           *)
InferenceHonest ==
  /\ \A e \in EvalJobs : Running(e) => evaluator \in {NoModel, pinned[e].content}
  /\ session.at = "running" => resident.content = session.pick.content

(* What a live job was registered with is still there: the model of an     *)
(* evaluation, the dataset and the checkpoint a training job starts from.  *)
JobsKeepTheirInputs ==
  \A j \in Live :
    IF j \in EvalJobs THEN Verified(pinned[j])
    ELSE dataset /\ (resume[j] # NoJob => resume[j] \in checkpoint)

(* latest names a complete model, unless its deletion is in progress, was  *)
(* cut by a crash, or began between the model's publication and its link.  *)
LatestUsable ==
  \/ latest = NoModel \/ latest \in torn
  \/ Selectable(latest)
  \/ op.kind = "job" /\ op.target = latest
=============================================================================
