-------------------------- MODULE MCLibrary --------------------------
(***************************************************************************)
(* What jobs leave behind, in one run: published results and the registry  *)
(* of models.  They share no state, so one of them is there at a time      *)
(* (`part`); the variables of the other are NotHere, and variables of one  *)
(* name are one variable.                                                  *)
(*                                                                         *)
(* Publication: the evaluations of two datasets with the same             *)
(* trajectories, a composite evaluation of a dataset and an overwriting    *)
(* one of it, or an evaluation and a manual one that only adds results.    *)
(***************************************************************************)
EXTENDS ResultPublication

CONSTANTS TrainJobs, EvalJobs, CopyIds, NoModel, NoJob, MaxUses, NotHere

VARIABLES part, model, content, latest, previous, checkpoint, dataset, resume,
          pinned, trainer, evaluator, session, resident, op, copier

Registry == INSTANCE ModelRegistry

OnlyPublication ==
  /\ model = NotHere /\ content = NotHere /\ latest = NotHere
  /\ previous = NotHere /\ checkpoint = NotHere /\ dataset = NotHere
  /\ resume = NotHere /\ pinned = NotHere /\ trainer = NotHere
  /\ evaluator = NotHere /\ session = NotHere /\ resident = NotHere
  /\ op = NotHere /\ copier = NotHere
OnlyRegistry ==
  /\ up = NotHere /\ created = NotHere /\ status = NotHere
  /\ pending = NotHere /\ work = NotHere /\ sealed = NotHere
  /\ versions = NotHere /\ finished = NotHere /\ binding = NotHere
  /\ gone = NotHere /\ tasks = NotHere /\ selected = NotHere
  /\ publisher = NotHere /\ snapshot = NotHere /\ arrays = NotHere
  /\ native = NotHere /\ client = NotHere /\ stalled = NotHere

PartsInit ==
  \/ part = "publication" /\ Init /\ OnlyPublication
  \/ part = "registry" /\ Registry!Init /\ OnlyRegistry

PartsNext ==
  \/ /\ part = "publication" /\ Next
     /\ UNCHANGED <<part, model, content, latest, previous, checkpoint,
                    dataset, resume, pinned, trainer, evaluator, session,
                    resident, op, copier>>
  \/ /\ part = "registry" /\ Registry!Next
     /\ UNCHANGED <<part, up, created, status, pending, work, sealed,
                    versions, finished, binding, gone, tasks, selected,
                    publisher, snapshot, arrays, native, client, stalled>>

parts == <<part, job, up, created, status, pending, work, sealed, versions,
           finished, binding, gone, tasks, selected, publisher, snapshot,
           arrays, native, client, events, torn, stalled, model, content,
           latest, previous, checkpoint, dataset, resume, pinned, trainer,
           evaluator, session, resident, op, copier>>
PartsSpec ==
  /\ PartsInit /\ [][PartsNext]_parts
-----------------------------------------------------------------------------
ASSUME LibraryAssumption == Registry!RegistryAssumption

CONSTANTS composite, other, ds1, ds2

Of(d, sources, overwrite) == [dataset |-> d, sources |-> sources, overwrite |-> overwrite]
Pair(first, second) == [j \in Jobs |-> IF j = composite THEN first ELSE second]
Scenarios ==
  {Pair(Of(ds1, <<"rynn">>, FALSE), Of(ds2, <<"rynn">>, FALSE)),
   Pair(Of(ds1, <<"rynn", "final">>, FALSE), Of(ds1, <<"rynn">>, TRUE)),
   Pair(Of(ds1, <<"rynn">>, FALSE), Of(NoDataset, <<"rynn", "robo">>, FALSE))}

\* Training jobs differ in nothing but their names.
Symmetry == Permutations(TrainJobs)
-----------------------------------------------------------------------------
(* TypeOK, ResultsHonest and PublicationRemembered of ResultPublication.   *)
PublishedResultsHonest ==
  part = "publication" => TypeOK /\ ResultsHonest /\ PublicationRemembered

(* GlobalResultsAgree of ResultPublication.                                *)
GlobalResultsSettle == part = "publication" => GlobalResultsAgree

(* FirstResultKept of ResultPublication.                                   *)
GlobalResultKept == [][part = "publication" => FirstResultKept]_parts

(* InferenceHonest, JobsKeepTheirInputs and LatestUsable of ModelRegistry. *)
ModelsInUseKept ==
  part = "registry" =>
    /\ Registry!TypeOK /\ Registry!InferenceHonest
    /\ Registry!JobsKeepTheirInputs /\ Registry!LatestUsable
=============================================================================
