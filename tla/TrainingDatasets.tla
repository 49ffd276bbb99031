-------------------------- MODULE TrainingDatasets --------------------------
(***************************************************************************)
(* Frozen training datasets: creation and derivation by a queued job, the  *)
(* deletion of datasets and of the runs they refer to, verification, test  *)
(* labels, and the stage labels a dataset owns.  Models                    *)
(* services/training_dataset_service.py, dataset_stage_annotations.py,     *)
(* stage_annotation_service.py and the handlers that call them.            *)
(*                                                                         *)
(* Four kinds of threads meet here.  The thread of the work queue runs one *)
(* local job at a time (create).  Handlers in the thread pool read, verify *)
(* and delete datasets and edit labels.  The handler that deletes a run    *)
(* works on the event loop.  datasets.lock covers the body of create, the  *)
(* rewriting of a manifest, the deletion of a dataset and every label      *)
(* operation; the lock of the jobs covers the tests for pending jobs.      *)
(*                                                                         *)
(* Content is abstract: an artifact is there or gone with its run, a label *)
(* is a number (0 is "not annotated"), the selection is a set of runs.     *)
(***************************************************************************)
EXTENDS Naturals, FiniteSets

CONSTANTS Runs,      \* eligible, finished, UI-owned runs of one task
          Editors,   \* browser tabs that edit stage labels
          None,      \* no parent, no dataset: the global scope of a label
          Ids,       \* the number of datasets ever made: bounds the jobs
          MaxChanges \* bounds saved labels, test marks and restarts together

ASSUME DatasetsAssumption ==
  /\ Ids \in Nat \ {0}
  /\ MaxChanges \in Nat
  /\ None \notin 1..Ids

Datasets == 1..Ids
Absent == [members |-> {}, parent |-> None, healthy |-> FALSE]
NoFile == [r \in Runs |-> MaxChanges + 1]

VARIABLES
  kept,      \* the runs whose directory exists
  test,      \* run_labels: the runs held out for tests
  global,    \* stage_annotation.json beside each trajectory
  live,      \* the datasets with a manifest
  set,       \* dataset.json: members, parent and integrity of each dataset
  owned,     \* stage_annotations.json of each dataset, or NoFile
  indexed,   \* the datasets with rows in training_dataset_members
  job,       \* the dataset job: step, parent, members, the id it creates, and
             \* (history) the runs marked as test since its last resolution
  deleter,   \* the handler that deletes a run
  verifier,  \* a handler in TrainingDatasetService.verify
  editor,    \* what each tab has loaded: scope, run, label seen
  changes    \* the number of saved labels, test marks and restarts

vars == <<kept, test, global, live, set, owned, indexed, job, deleter, verifier,
          editor, changes>>

labelVars == <<global, owned>>
runVars   == <<kept, test>>

NoJob     == [step |-> "none", parent |-> None, members |-> {}, id |-> 0, late |-> {}]
NoDelete  == [step |-> "none", run |-> None, refs |-> {}]
NoVerify  == [step |-> "none", set |-> 0, left |-> {}]
NoEdit    == [scope |-> None, run |-> None, seen |-> 0]

Init ==
  /\ kept = Runs /\ test = {} /\ global = [r \in Runs |-> 0]
  /\ live = {} /\ set = [d \in Datasets |-> Absent] /\ indexed = {}
  /\ owned = [d \in Datasets |-> NoFile]
  /\ job = [NoJob EXCEPT !.id = 1] /\ deleter = NoDelete /\ verifier = NoVerify
  /\ editor = [e \in Editors |-> NoEdit]
  /\ changes = 0

-----------------------------------------------------------------------------
\* The job holds datasets.lock from the directory it makes to the last upsert.
LockFree == job.step \notin {"frozen", "labelled"}

\* A submitted job is QUEUED or RUNNING: what pending_only and delete_dataset see.
Pending == job.step \notin {"none", "resolving"}

\* The job has resolved its selection for the last time.
Resolved == job.step \in {"resolved", "frozen", "labelled", "created"}

\* get: the quick verification of the datasets S: a missing file is BROKEN.
Missing(d) == set[d].members \ kept
Checked(S) == [d \in Datasets |->
                 IF d \in S \cap live /\ Missing(d) # {}
                 THEN [set[d] EXCEPT !.healthy = FALSE] ELSE set[d]]

\* classify: a finished run is eligible while its files are there.
Eligible(r) == r \in kept

\* preview: a manual selection must be eligible and not held out for tests.
IsTest(r) == r \in test
Available(R) == \A r \in R : Eligible(r) /\ ~IsTest(r)

\* _load: the manifest is there and can be read.
Readable(d) == d \in live

\* A verdict on a dataset, lost with its manifest.
WithHealth(d, h) == IF Readable(d) THEN [set EXCEPT ![d].healthy = h] ELSE set

-----------------------------------------------------------------------------
(* Stage labels of a dataset.  A file that exists keeps its labels; gaps   *)
(* are filled from the labels beside the trajectories.  A missing file is  *)
(* made of the parent's labels (loading, and writing, the parent's), then  *)
(* of the global ones.                                                     *)
FillMissing(entries) == [r \in Runs |-> IF entries[r] = 0 THEN global[r] ELSE entries[r]]

\* The labels of a dataset, given those of its parent.
LoadedFrom(labels, d) ==
  LET p == set[d].parent
      copied == [r \in Runs |-> IF p # None /\ r \in set[p].members
                               THEN labels[p][r] ELSE global[r]]
      entries == IF owned[d] # NoFile THEN owned[d] ELSE copied
  IN [r \in Runs |-> IF r \in set[d].members THEN FillMissing(entries)[r] ELSE 0]

Loaded[d \in Datasets] == LoadedFrom(Loaded, d)

\* The datasets whose file a load writes, given those its parent's load writes.
ReachedFrom(reached, d) ==
  {d} \cup (IF owned[d] = NoFile /\ set[d].parent # None
            THEN reached[set[d].parent] ELSE {})

Reached[d \in Datasets] == ReachedFrom(Reached, d)

AfterLoad(d) == [e \in Datasets |-> IF e \in Reached[d] THEN Loaded[e] ELSE owned[e]]

-----------------------------------------------------------------------------
\* WorkQueue.enqueue_dataset reads the parent and resolves the selection ...
Resolve(p, R) ==
  /\ job.step = "none" /\ job.id <= Ids
  /\ p \in live \cup {None} /\ R # {} /\ Available(R)
  /\ job' = [job EXCEPT !.step = "resolving", !.parent = p, !.members = R]
  /\ UNCHANGED <<live, set, indexed, deleter, verifier, editor, changes>>
  /\ UNCHANGED runVars /\ UNCHANGED labelVars

\* ... and submits the job, whose dataset_id is the parent.
Submit ==
  /\ job.step = "resolving"
  /\ job' = [job EXCEPT !.step = "queued"]
  /\ UNCHANGED <<live, set, indexed, deleter, verifier, editor, changes>>
  /\ UNCHANGED runVars /\ UNCHANGED labelVars

\* The job ends as COMPLETED or FAILED and lets go of the lock.
Over == [NoJob EXCEPT !.id = job.id + 1]

\* create resolves the selection again, now as a manual one.
Preview(R) == Available(R)

\* create gets the parent, which must still exist, with a quick verification,
\* and resolves the runs.
GetParentAndPreview ==
  /\ job.step = "queued"
  /\ IF job.parent \in live \cup {None} /\ Preview(job.members)
     THEN job' = [job EXCEPT !.step = "resolved"]
     ELSE job' = Over
  /\ set' = Checked({job.parent})
  /\ UNCHANGED <<live, indexed, deleter, verifier, editor, changes>>
  /\ UNCHANGED runVars /\ UNCHANGED labelVars

\* With the lock: hash the members' artifacts, of which a missing one fails
\* the job, and write the manifest ...
Freeze ==
  /\ job.step = "resolved"
  /\ IF job.members \subseteq kept
     THEN /\ live' = live \cup {job.id}
          /\ set' = [set EXCEPT ![job.id] =
                       [members |-> job.members, parent |-> job.parent, healthy |-> TRUE]]
          /\ job' = [job EXCEPT !.step = "frozen"]
     ELSE job' = Over /\ UNCHANGED <<live, set>>
  /\ UNCHANGED <<indexed, deleter, verifier, editor, changes>>
  /\ UNCHANGED runVars /\ UNCHANGED labelVars

\* ... copy the stage labels ...
CopyLabels ==
  /\ job.step = "frozen"
  /\ owned' = AfterLoad(job.id)
  /\ job' = [job EXCEPT !.step = "labelled"]
  /\ UNCHANGED <<live, set, indexed, deleter, verifier, editor, changes, global>>
  /\ UNCHANGED runVars

\* ... and index the members.  Only then does _run_local complete the job.
Upsert ==
  /\ job.step = "labelled"
  /\ indexed' = indexed \cup {job.id}
  /\ job' = [job EXCEPT !.step = "created"]
  /\ UNCHANGED <<live, set, deleter, verifier, editor, changes>>
  /\ UNCHANGED runVars /\ UNCHANGED labelVars

Complete ==
  /\ job.step = "created"
  /\ job' = Over
  /\ UNCHANGED <<live, set, indexed, deleter, verifier, editor, changes>>
  /\ UNCHANGED runVars /\ UNCHANGED labelVars

-----------------------------------------------------------------------------
\* get, from any handler or list: a dataset with a missing file turns BROKEN.
\* mutant: only the immutable part of the manifest is checked
GettableNever(d) == FALSE
Gettable(d) == d \in live /\ set[d].healthy /\ Missing(d) # {}

Get(d) ==
  /\ LockFree /\ Gettable(d)
  /\ set' = Checked({d})
  /\ UNCHANGED <<live, indexed, job, deleter, verifier, editor, changes>>
  /\ UNCHANGED runVars /\ UNCHANGED labelVars

\* verify reads the manifest, hashes the artifacts one by one without the
\* lock, and writes its verdict whatever was written in the meantime.
VerifyLoad(d) ==
  /\ verifier.step = "none" /\ Readable(d)
  /\ verifier' = [step |-> "hash", set |-> d, left |-> set[d].members]
  /\ UNCHANGED <<live, set, indexed, job, deleter, editor, changes>>
  /\ UNCHANGED runVars /\ UNCHANGED labelVars

VerifyHash ==
  /\ verifier.step = "hash"
  /\ \E r \in verifier.left :
       verifier' = IF r \in kept THEN [verifier EXCEPT !.left = @ \ {r}]
                   ELSE [verifier EXCEPT !.step = "bad", !.left = {}]
  /\ UNCHANGED <<live, set, indexed, job, deleter, editor, changes>>
  /\ UNCHANGED runVars /\ UNCHANGED labelVars

VerifyWrite ==
  /\ verifier.step # "none" /\ verifier.left = {} /\ LockFree
  /\ verifier' = NoVerify
  /\ set' = WithHealth(verifier.set, verifier.step = "hash")
  /\ UNCHANGED <<live, indexed, job, deleter, editor, changes>>
  /\ UNCHANGED runVars /\ UNCHANGED labelVars

\* delete_dataset under both locks: refused while a pending job derives from
\* the dataset or a derived one exists.  Listing the children verifies all.
\* mutant: the jobs that derive from the dataset are not looked at
UnreferencedByList(d) == ~\E c \in live : set[c].parent = d
Unreferenced(d) ==
  /\ ~(Pending /\ job.parent = d)
  /\ ~\E c \in live : set[c].parent = d

DeleteDataset(d) ==
  /\ LockFree /\ d \in live /\ Unreferenced(d)
  /\ live' = live \ {d} /\ indexed' = indexed \ {d}
  /\ set' = [Checked(live) EXCEPT ![d] = Absent]
  /\ owned' = [owned EXCEPT ![d] = NoFile]
  /\ UNCHANGED <<job, deleter, verifier, editor, changes, global>>
  /\ UNCHANGED runVars

-----------------------------------------------------------------------------
\* The datasets whose members, as indexed, include the run.
References(r) == {d \in indexed : r \in set[d].members}

\* DELETE /sessions/{id} reads the references in the index and asks for force ...
ReadReferences(r, force) ==
  /\ deleter.step = "none" /\ r \in kept
  /\ References(r) = {} \/ force
  /\ deleter' = [step |-> "delete", run |-> r, refs |-> References(r)]
  /\ UNCHANGED <<live, set, indexed, job, verifier, editor, changes>>
  /\ UNCHANGED runVars /\ UNCHANGED labelVars

\* ... delete_session refuses a run that a pending job refers to, else
\* removes the directory, with the stage labels in it ...
Unqueued(r) == ~(Pending /\ r \in job.members)

DeleteRun ==
  /\ deleter.step = "delete"
  /\ IF Unqueued(deleter.run)
     THEN /\ kept' = kept \ {deleter.run}
          /\ global' = [global EXCEPT ![deleter.run] = 0]
          /\ deleter' = [deleter EXCEPT !.step = "deleted"]
     ELSE deleter' = NoDelete /\ UNCHANGED <<kept, global>>
  /\ UNCHANGED <<live, set, indexed, job, verifier, editor, changes, owned>>
  /\ UNCHANGED test

\* ... mark_broken_for_run, called if there were references, reads them again
\* and marks the datasets they name BROKEN, one by one.
RereadReferences ==
  /\ deleter.step = "deleted"
  /\ deleter' = IF deleter.refs = {} THEN NoDelete
                ELSE [deleter EXCEPT !.step = "mark", !.refs = References(deleter.run)]
  /\ UNCHANGED <<live, set, indexed, job, verifier, editor, changes>>
  /\ UNCHANGED runVars /\ UNCHANGED labelVars

MarkBroken ==
  /\ deleter.step = "mark"
  /\ IF deleter.refs = {} THEN deleter' = NoDelete /\ UNCHANGED set
     ELSE /\ LockFree
          /\ \E d \in deleter.refs :
               /\ deleter' = [deleter EXCEPT !.refs = @ \ {d}]
               /\ set' = WithHealth(d, FALSE)
  /\ UNCHANGED <<live, indexed, job, verifier, editor, changes>>
  /\ UNCHANGED runVars /\ UNCHANGED labelVars

\* run_labels: the row of the run takes the other value.
Toggled(r) == IF r \in test THEN test \ {r} ELSE test \cup {r}

\* set_test changes the mutable label of an existing run.
SetTest(r) ==
  /\ r \in kept /\ changes < MaxChanges /\ changes' = changes + 1
  /\ test' = Toggled(r)
  /\ job' = IF Resolved THEN [job EXCEPT !.late = @ \cup {r}] ELSE job
  /\ UNCHANGED <<kept, live, set, indexed, deleter, verifier, editor>>
  /\ UNCHANGED labelVars

-----------------------------------------------------------------------------
\* member: the run belongs to the dataset, and the dataset is there.
Member(scope, r) == Readable(scope) /\ r \in set[scope].members

\* save: the dataset's file with the one label replaced.
Written(d, r, new) == [AfterLoad(d) EXCEPT ![d][r] = new]

\* The label a tab edits: the dataset's own, or the one beside the trajectory.
Label(scope, r) == IF scope = None THEN global[r] ELSE Loaded[scope][r]

\* detail: loading a dataset's labels writes what it filled in.  A tab with no
\* save left (MaxChanges) keeps nothing.
View(e, scope, r) ==
  /\ LockFree /\ r \in kept /\ editor[e] = NoEdit
  /\ scope = None \/ Member(scope, r)
  /\ editor' = [editor EXCEPT ![e] = IF changes = MaxChanges THEN NoEdit
                  ELSE [scope |-> scope, run |-> r, seen |-> Label(scope, r)]]
  /\ owned' = IF scope = None THEN owned ELSE AfterLoad(scope)
  /\ UNCHANGED <<live, set, indexed, job, deleter, verifier, changes, global>>
  /\ UNCHANGED runVars

\* save: refused when the label is no longer the one the tab was shown.
\* mutant: the revision is not compared
UnrevisedAlways(e) == TRUE
Unrevised(e) == editor[e].seen = Label(editor[e].scope, editor[e].run)

Editable(e) ==
  /\ LockFree /\ editor[e] # NoEdit /\ editor[e].run \in kept
  /\ editor[e].scope = None \/ Member(editor[e].scope, editor[e].run)

\* The marks of the tab become the label, or the global ones with inherit_global.
\* The answer shows the new label: to edit it again is another View.
Save(e) ==
  /\ Editable(e) /\ Unrevised(e)
  /\ changes < MaxChanges /\ changes' = changes + 1
  /\ LET r == editor[e].run
         d == editor[e].scope
     IN \E new \in {changes + 1} \cup (IF d = None THEN {} ELSE {global[r]} \ {0}) :
          /\ editor' = [editor EXCEPT ![e] = NoEdit]
          /\ IF d = None
             THEN global' = [global EXCEPT ![r] = new] /\ UNCHANGED owned
             ELSE owned' = Written(d, r, new) /\ UNCHANGED global
  /\ UNCHANGED <<live, set, indexed, job, deleter, verifier>>
  /\ UNCHANGED runVars

\* A tab is closed, or told that its label was changed or is gone.
Close(e) ==
  /\ editor[e] # NoEdit /\ editor' = [editor EXCEPT ![e] = NoEdit]
  /\ UNCHANGED <<live, set, indexed, job, deleter, verifier, changes>>
  /\ UNCHANGED runVars /\ UNCHANGED labelVars

\* A killed backend forgets its threads; the next one fails the job, leaves
\* what the job wrote and indexes every manifest it finds.  (Where none of
\* them is at work a restart changes nothing.)
Restart ==
  /\ job.step # "none" \/ deleter # NoDelete \/ verifier # NoVerify
  /\ changes < MaxChanges /\ changes' = changes + 1
  /\ job' = IF job.step = "none" THEN job ELSE Over
  /\ deleter' = NoDelete /\ verifier' = NoVerify
  /\ indexed' = indexed \cup live
  /\ UNCHANGED <<live, set, editor>>
  /\ UNCHANGED runVars /\ UNCHANGED labelVars

JobStep == Submit \/ GetParentAndPreview \/ Freeze \/ CopyLabels \/ Upsert \/ Complete

Next ==
  \/ \E p \in Datasets \cup {None}, R \in SUBSET Runs : Resolve(p, R)
  \/ JobStep
  \/ \E d \in Datasets : Get(d) \/ VerifyLoad(d) \/ DeleteDataset(d)
  \/ VerifyHash \/ VerifyWrite
  \/ \E r \in Runs, force \in BOOLEAN : ReadReferences(r, force)
  \/ DeleteRun \/ RereadReferences \/ MarkBroken
  \/ \E r \in Runs : SetTest(r)
  \/ \E e \in Editors, scope \in Datasets \cup {None}, r \in Runs : View(e, scope, r)
  \/ \E e \in Editors : Save(e) \/ Close(e)
  \/ Restart

(***************************************************************************)
(* The thread of a job works until its job is over, and somebody keeps     *)
(* opening the list of datasets.  Nothing else has to happen.              *)
(***************************************************************************)
Fairness == WF_vars(JobStep) /\ \A d \in Datasets : WF_vars(Get(d))

Spec == Init /\ [][Next]_vars /\ Fairness

-----------------------------------------------------------------------------
TypeOK ==
  /\ kept \subseteq Runs /\ test \subseteq Runs
  /\ global \in [Runs -> 0..MaxChanges] /\ owned \in [Datasets -> [Runs -> 0..MaxChanges + 1]]
  /\ live \subseteq Datasets /\ indexed \subseteq live
  /\ set \in [Datasets -> [members : SUBSET Runs, parent : Datasets \cup {None}, healthy : BOOLEAN]]
  /\ job.parent \in Datasets \cup {None} /\ job.members \subseteq Runs /\ job.id \in 1..Ids + 1

(***************************************************************************)
(* From the second resolution of its selection to its end, a job finds all *)
(* its runs and its parent in place, and a derived dataset always has its  *)
(* parent: the tests for pending jobs and for children leave no gap.       *)
(***************************************************************************)
SourcesHeld ==
  /\ Resolved => job.members \subseteq kept /\ job.parent \in live \cup {None}
  /\ \A d \in live : set[d].parent \in live \cup {None}

(***************************************************************************)
(* A run marked as test before the job resolved its selection for the last *)
(* time is in no dataset the job freezes, however long the job was queued. *)
(***************************************************************************)
HeldOut ==
  \A d \in live' \ live : set'[d].members \cap test \subseteq job.late

(***************************************************************************)
(* A stage label that a dataset owns, or that lies beside a trajectory,    *)
(* changes only by the save of a tab that was shown the label it replaces: *)
(* no later global label, derivation or load overwrites it.                *)
(***************************************************************************)
Shown(scope, r, label) ==
  \E e \in Editors : editor[e] = [scope |-> scope, run |-> r, seen |-> label]

LabelsKept ==
  /\ \A d \in live \cap live', r \in Runs :
       owned[d] # NoFile /\ owned[d][r] \notin {0, owned'[d][r]} => Shown(d, r, owned[d][r])
  /\ \A r \in kept' : global[r] # global'[r] => Shown(None, r, global[r])

(***************************************************************************)
(* The deletion of a run shows: a dataset that has lost a member is BROKEN *)
(* from some point on, although a verification that began before writes    *)
(* HEALTHY over it and although the references are read before the run is  *)
(* deleted.                                                                *)
(***************************************************************************)
DeletionShows ==
  \A d \in Datasets : <>[](d \in live /\ Missing(d) # {} => ~set[d].healthy)
=============================================================================
