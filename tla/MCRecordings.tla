-------------------------- MODULE MCRecordings --------------------------
(***************************************************************************)
(* Recordings on their way into training, in one run: a batch test, which  *)
(* makes them, and the training datasets, which freeze a selection.  They  *)
(* share no state, so one of them is there at a time (`part`); the         *)
(* variables of the other are NotHere, and variables of one name are one   *)
(* variable.                                                               *)
(***************************************************************************)
EXTENDS TrainingDatasets

CONSTANTS MaxPreviewed, MaxStates, MaxSeeds, MaxLaunched, ErrorLimit, NoRead,
          Unread, NotHere

VARIABLES part, request, scheduled, told, alive, stop, at, record, errors,
          shared, envs, exit, file, stopper, reader

Evaluation == INSTANCE BatchEvaluation

OnlyDatasets ==
  /\ request = NotHere /\ scheduled = NotHere /\ told = NotHere
  /\ alive = NotHere /\ stop = NotHere /\ at = NotHere /\ record = NotHere
  /\ errors = NotHere /\ shared = NotHere /\ envs = NotHere /\ exit = NotHere
  /\ file = NotHere /\ stopper = NotHere /\ reader = NotHere
OnlyEvaluation ==
  /\ kept = NotHere /\ test = NotHere /\ global = NotHere /\ live = NotHere
  /\ set = NotHere /\ owned = NotHere /\ indexed = NotHere
  /\ deleter = NotHere /\ verifier = NotHere /\ editor = NotHere
  /\ changes = NotHere

(* Bound: two tabs are open together only while nothing is being verified. *)
FewTabs == verifier' # NoVerify => Cardinality({e \in Editors : editor'[e] # NoEdit}) <= 1

PartsInit ==
  \/ part = "datasets" /\ Init /\ OnlyDatasets
  \/ part = "evaluation" /\ Evaluation!Init /\ OnlyEvaluation

PartsNext ==
  \/ /\ part = "datasets" /\ Next /\ FewTabs
     /\ UNCHANGED <<part, request, scheduled, told, alive, stop, at, record,
                    errors, shared, envs, exit, file, stopper, reader>>
  \/ /\ part = "evaluation" /\ Evaluation!Next
     /\ UNCHANGED <<part, kept, test, global, live, set, owned, indexed,
                    deleter, verifier, editor, changes>>

parts == <<part, kept, test, global, live, set, owned, indexed, job, deleter,
           verifier, editor, changes, request, scheduled, told, alive, stop,
           at, record, errors, shared, envs, exit, file, stopper, reader>>
evaluationVars == Evaluation!vars
PartsSpec ==
  /\ PartsInit /\ [][PartsNext]_parts
  /\ WF_vars(part = "datasets" /\ JobStep)
  /\ \A d \in Datasets : WF_vars(part = "datasets" /\ Get(d))
  /\ WF_evaluationVars(part = "evaluation" /\ Evaluation!Dispatch)
  /\ WF_evaluationVars(part = "evaluation" /\ Evaluation!ProcessStep)
  /\ WF_evaluationVars(part = "evaluation" /\ Evaluation!JobEnds)
  /\ WF_evaluationVars(part = "evaluation" /\ Evaluation!StopStep)
  /\ WF_evaluationVars(part = "evaluation" /\ Evaluation!SyncStep)
-----------------------------------------------------------------------------
ASSUME RecordingsAssumption == Evaluation!EvaluationAssumption
-----------------------------------------------------------------------------
(* ScheduleBalanced of BatchEvaluation.                                    *)
ScheduleBalanced == part = "evaluation" => Evaluation!ScheduleBalanced

(* OutcomeHonest and EnvironmentAccounted of BatchEvaluation.              *)
TestAccounted ==
  part = "evaluation" =>
    Evaluation!TypeOK /\ Evaluation!OutcomeHonest /\ Evaluation!EnvironmentAccounted

(* EvaluationSettles of BatchEvaluation.                                   *)
TestSettles ==
  part = "evaluation" /\ scheduled > 0
  ~> [](part = "evaluation" /\ file.status \notin Evaluation!Open)

(* SourcesHeld of TrainingDatasets.                                        *)
DatasetSourcesHeld == part = "datasets" => TypeOK /\ SourcesHeld

(* HeldOut and LabelsKept of TrainingDatasets.                             *)
ChoicesKept == [][part = "datasets" => HeldOut /\ LabelsKept]_parts

(* DeletionShows of TrainingDatasets.                                      *)
DeletedRunShows ==
  \A d \in Datasets :
    <>[](part = "datasets" => (d \in live /\ Missing(d) # {} => ~set[d].healthy))
=============================================================================
