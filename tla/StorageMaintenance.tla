------------------------- MODULE StorageMaintenance -------------------------
(***************************************************************************)
(* One-click storage repair (services/storage_maintenance.py) while the    *)
(* backend serves requests and exports datasets                            *)
(* (services/dataset_export_service.py), and other processes use the data  *)
(* under shared storage leases.                                            *)
(***************************************************************************)
EXTENDS StorageLayout, Naturals

CONSTANTS
  Consumers,    \* processes with a shared lease: runners, stand-alone training
  MaxRequests,  \* bound: requests at once
  MaxFaults,    \* bound: crashes and failing steps
  MaxImports    \* bound: dated recordings copied in later

ASSUME MaintenanceAssumption ==
  /\ Backend \notin Consumers /\ Backend # Command
  /\ MaxRequests \in Nat /\ MaxFaults \in Nat /\ MaxImports \in Nat

VARIABLES
  sharing,    \* processes holding the shared lease
  up,         \* the backend runs
  busy,       \* StorageMaintenance.busy
  error,      \* StorageMaintenance.error is set
  requests,   \* StorageMaintenance.requests
  repair,     \* program point of _repair
  abandoned,  \* the client of the repair request has gone
  exports,    \* DatasetExportService.active
  task,       \* the export's job: "none", "queued" or "running"
  publishing, \* another local task writes results into recordings
  queue,      \* the dispatcher of the work queue runs
  faults, imports

serviceVars == <<up, busy, error, requests, repair, abandoned>>
workVars == <<exports, task, publishing, queue>>
boundVars == <<faults, imports>>
vars == <<layoutVars, sharing, serviceVars, workVars, boundVars>>
-----------------------------------------------------------------------------
(* storage_lease: LOCK_EX | LOCK_NB, and LOCK_SH | LOCK_NB together with   *)
(* the refusal of an unfinished migration.                                 *)
ExclusiveFree == mover.at = "idle" /\ sharing = {}
SharedFree == mover.at = "idle" /\ journal.status \in Final

ConsumerStarts(c) ==
  /\ c \notin sharing /\ SharedFree
  /\ sharing' = sharing \cup {c}
  /\ UNCHANGED <<layoutVars, serviceVars, workVars, boundVars>>

ConsumerWrites(c) ==
  /\ c \in sharing
  /\ \E r \in Runs : place[r] # "absent" /\ changed' = changed \cup {r}
  /\ UNCHANGED <<place, catalog, dated, registry, journal, mover, sharing, serviceVars, workVars,
                 boundVars>>

ConsumerEnds(c) ==
  /\ c \in sharing
  /\ sharing' = sharing \ {c}
  /\ UNCHANGED <<layoutVars, serviceVars, workVars, boundVars>>

(* An operator copies recordings of the old layout in: the next scan of    *)
(* the catalog finds them.                                                 *)
Import(r) ==
  /\ imports < MaxImports /\ mover.at = "idle" /\ journal.status \in Final
  /\ place[r] = "absent"
  /\ imports' = imports + 1
  /\ place' = [place EXCEPT ![r] = "old"]
  /\ catalog' = [catalog EXCEPT ![r] = "old"]
  /\ dated' = dated \cup {r}
  /\ UNCHANGED <<registry, journal, changed, mover, sharing, serviceVars, workVars, faults>>
-----------------------------------------------------------------------------
(***************************************************************************)
(* Requests (StorageRequestGate) and the exports they start.  A request    *)
(* whose client goes away is still waited for.                             *)
(***************************************************************************)
Gate == up /\ ~busy /\ ~error

RequestBegins ==
  /\ Gate /\ requests < MaxRequests
  /\ requests' = requests + 1
  /\ UNCHANGED <<layoutVars, sharing, up, busy, error, repair, abandoned, workVars, boundVars>>

RequestEnds ==
  /\ requests > 0
  /\ requests' = requests - 1
  /\ UNCHANGED <<layoutVars, sharing, up, busy, error, repair, abandoned, workVars, boundVars>>

StartExport ==
  /\ requests > 0 /\ ~exports
  /\ exports' = TRUE /\ task' = "queued"
  /\ UNCHANGED <<layoutVars, sharing, serviceVars, publishing, queue, boundVars>>

(* A stop of the waiting job: the canceled future clears the flag.         *)
CancelExport ==
  /\ requests > 0 /\ task = "queued"
  /\ exports' = FALSE /\ task' = "none"
  /\ UNCHANGED <<layoutVars, sharing, serviceVars, publishing, queue, boundVars>>

LaunchExport ==
  /\ queue /\ task = "queued" /\ ~publishing
  /\ task' = "running"
  /\ UNCHANGED <<layoutVars, sharing, serviceVars, exports, publishing, queue, boundVars>>

(* The dispatcher fails before the task runs: its future gets an           *)
(* exception, which the callback of the export does not look at.           *)
LaunchExportFails ==
  /\ queue /\ task = "queued" /\ ~publishing /\ faults < MaxFaults
  /\ faults' = faults + 1
  /\ task' = "none"
  /\ UNCHANGED <<layoutVars, sharing, serviceVars, exports, publishing, queue, imports>>

(* The copy is made or refused; either way the flag is cleared.            *)
ExportEnds ==
  /\ task = "running"
  /\ exports' = FALSE /\ task' = "none"
  /\ UNCHANGED <<layoutVars, sharing, serviceVars, publishing, queue, boundVars>>

PublicationStarts ==
  /\ queue /\ ~publishing /\ task # "running"
  /\ publishing' = TRUE
  /\ UNCHANGED <<layoutVars, sharing, serviceVars, exports, task, queue, boundVars>>

PublicationEnds ==
  /\ publishing /\ publishing' = FALSE
  /\ \E r \in Runs : changed' = IF place[r] = "absent" THEN changed ELSE changed \cup {r}
  /\ UNCHANGED <<place, catalog, dated, registry, journal, mover, sharing, serviceVars, exports,
                 task, queue, boundVars>>
-----------------------------------------------------------------------------
(***************************************************************************)
(* The repair: no new requests, the old ones end, the work queue is        *)
(* closed, the shared lease given up for the time of the migration.        *)
(***************************************************************************)
Repair(from, to) == repair = from /\ repair' = to

RepairBegins ==
  /\ up /\ ~busy /\ ~error
  /\ Repair("no", "waiting")
  /\ busy' = TRUE /\ abandoned' = FALSE
  /\ UNCHANGED <<layoutVars, sharing, up, error, requests, workVars, boundVars>>

(* Ten seconds pass, an export is active, or a simulation or a draft is:   *)
(* refused before anything is stopped.                                     *)
RepairRefused ==
  /\ Repair("waiting", "no")
  /\ busy' = FALSE
  /\ UNCHANGED <<layoutVars, sharing, up, error, requests, abandoned, workVars, boundVars>>

CloseQueue ==
  /\ Repair("waiting", "closing")
  /\ requests = 0 /\ ~exports
  /\ queue' = FALSE
  /\ UNCHANGED <<layoutVars, sharing, up, busy, error, requests, abandoned, exports, task,
                 publishing, boundVars>>

(* jobs.close() has waited for the local tasks.                            *)
\* mutant
LocalTasksUnawaited == TRUE
LocalTasksDone == ~publishing /\ task = "none"

ReleaseLease ==
  /\ Repair("closing", "released")
  /\ LocalTasksDone
  /\ sharing' = sharing \ {Backend}
  /\ UNCHANGED <<layoutVars, up, busy, error, requests, abandoned, workVars, boundVars>>

(* A session has become active in the meantime: nothing is moved.          *)
SessionBegan ==
  /\ Repair("closing", "reentering")
  /\ LocalTasksDone
  /\ UNCHANGED <<layoutVars, sharing, up, busy, error, requests, abandoned, workVars, boundVars>>

(* The exclusive lease is taken, or a consumer has it, or nothing is to    *)
(* be done, or the plan is refused.                                        *)
Migrate ==
  /\ Repair("released", "migrating")
  /\ ExclusiveFree /\ BeginMigration(Backend)
  /\ UNCHANGED <<sharing, up, busy, error, requests, abandoned, workVars, boundVars>>

MigrateRefused ==
  /\ Repair("released", "reentering")
  /\ ~ExclusiveFree \/ ~CanPlan \/ NothingToDo
  /\ UNCHANGED <<layoutVars, sharing, up, busy, error, requests, abandoned, workVars, boundVars>>

MigrateReturns ==
  /\ Repair("migrating", "reentering")
  /\ mover.at = "idle" \/ mover.by # Backend
  /\ UNCHANGED <<layoutVars, sharing, up, busy, error, requests, abandoned, workVars, boundVars>>

(* The shared lease is taken again and the dispatcher restarted; or that   *)
(* fails, and the backend serves nothing until it is restarted.            *)
\* mutant
ReenterHoldingGate ==
  /\ Repair("reentering", "no")
  /\ IF SharedFree
       THEN /\ sharing' = sharing \cup {Backend} /\ queue' = TRUE /\ busy' = FALSE
            /\ UNCHANGED error
       ELSE error' = TRUE /\ UNCHANGED <<busy, sharing, queue>>
  /\ UNCHANGED <<layoutVars, up, requests, abandoned, exports, task, publishing, boundVars>>
Reenter ==
  /\ Repair("reentering", "no")
  /\ busy' = FALSE
  /\ IF SharedFree
       THEN sharing' = sharing \cup {Backend} /\ queue' = TRUE /\ UNCHANGED error
       ELSE error' = TRUE /\ UNCHANGED <<sharing, queue>>
  /\ UNCHANGED <<layoutVars, up, requests, abandoned, exports, task, publishing, boundVars>>

(* The client disconnects: storage_thread goes on waiting for its worker.  *)
Abandon ==
  /\ repair \notin {"no", "waiting"} /\ ~abandoned
  /\ abandoned' = TRUE
  /\ UNCHANGED <<layoutVars, sharing, up, busy, error, requests, repair, workVars, boundVars>>
-----------------------------------------------------------------------------
(***************************************************************************)
(* Crashes, restarts and the operator's command.                           *)
(***************************************************************************)
BackendCrashes ==
  /\ up /\ faults < MaxFaults
  /\ faults' = faults + 1
  /\ up' = FALSE /\ busy' = FALSE /\ error' = FALSE /\ requests' = 0
  /\ repair' = "no" /\ abandoned' = FALSE
  /\ exports' = FALSE /\ task' = "none" /\ publishing' = FALSE /\ queue' = FALSE
  /\ sharing' = sharing \ {Backend}
  /\ mover' = IF mover.by = Backend THEN Idle ELSE mover
  /\ UNCHANGED <<diskVars, imports>>

(* An unfinished migration keeps the backend from starting.                *)
BackendStarts ==
  /\ ~up /\ SharedFree
  /\ up' = TRUE /\ queue' = TRUE
  /\ sharing' = sharing \cup {Backend}
  /\ UNCHANGED <<layoutVars, busy, error, requests, repair, abandoned, exports, task, publishing,
                 boundVars>>

BackendStops ==
  /\ up /\ requests = 0 /\ repair = "no" /\ ~publishing /\ task = "none"
  /\ up' = FALSE /\ error' = FALSE /\ exports' = FALSE /\ queue' = FALSE
  /\ sharing' = sharing \ {Backend}
  /\ UNCHANGED <<layoutVars, busy, requests, repair, abandoned, task, publishing, boundVars>>

CommandMigrates ==
  /\ ~up /\ ExclusiveFree
  /\ BeginMigration(Command)
  /\ UNCHANGED <<sharing, serviceVars, workVars, boundVars>>

CommandRollsBack ==
  /\ ~up /\ ExclusiveFree
  /\ BeginRollback
  /\ UNCHANGED <<sharing, serviceVars, workVars, boundVars>>

CommandCrashes ==
  /\ mover.at # "idle" /\ mover.by = Command /\ faults < MaxFaults
  /\ faults' = faults + 1
  /\ mover' = Idle
  /\ UNCHANGED <<diskVars, sharing, serviceVars, workVars, imports>>

MoverRuns ==
  /\ \/ MoverProgress /\ UNCHANGED faults
     \/ (StepFails \/ UndoFails) /\ faults < MaxFaults /\ faults' = faults + 1
  /\ UNCHANGED <<sharing, serviceVars, workVars, imports>>
-----------------------------------------------------------------------------
Init ==
  /\ InitLayout
  /\ sharing = {} /\ up = FALSE /\ busy = FALSE /\ error = FALSE /\ requests = 0
  /\ repair = "no" /\ abandoned = FALSE
  /\ exports = FALSE /\ task = "none" /\ publishing = FALSE /\ queue = FALSE
  /\ faults = 0 /\ imports = 0

RepairStep ==
  \/ CloseQueue \/ ReleaseLease \/ SessionBegan \/ Migrate \/ MigrateRefused \/ MigrateReturns \/ Reenter
RepairGivesUp == repair = "waiting" /\ (requests > 0 \/ exports) /\ RepairRefused
WorkEnds == ExportEnds \/ PublicationEnds

Next ==
  \/ \E c \in Consumers : ConsumerStarts(c) \/ ConsumerWrites(c) \/ ConsumerEnds(c)
  \/ \E r \in Runs : Import(r)
  \/ RequestBegins \/ RequestEnds \/ StartExport \/ CancelExport \/ LaunchExport
  \/ LaunchExportFails \/ WorkEnds \/ PublicationStarts
  \/ RepairBegins \/ RepairRefused \/ RepairStep \/ Abandon
  \/ BackendCrashes \/ BackendStarts \/ BackendStops
  \/ CommandMigrates \/ CommandRollsBack \/ CommandCrashes \/ MoverRuns

Spec == Init /\ [][Next]_vars

(***************************************************************************)
(* The threads of the backend and the mover go on; requests and exports    *)
(* end.  After a crash an operator runs --rollback until it succeeds.      *)
(***************************************************************************)
Fairness ==
  /\ WF_vars(RepairStep) /\ WF_vars(RepairGivesUp) /\ WF_vars(RequestEnds) /\ WF_vars(WorkEnds)
  /\ WF_vars(MoverRuns)

FairSpec == Spec /\ Fairness
-----------------------------------------------------------------------------
TypeOK ==
  /\ LayoutTypeOK
  /\ sharing \subseteq Consumers \cup {Backend}
  /\ {up, busy, error, abandoned, exports, publishing, queue} \subseteq BOOLEAN
  /\ requests \in 0..MaxRequests
  /\ repair \in {"no", "waiting", "closing", "released", "migrating", "reentering"}
  /\ task \in {"none", "queued", "running"}
  /\ faults \in 0..MaxFaults /\ imports \in 0..MaxImports

(* Whoever reads recordings finds all of them: requests, exports, result   *)
(* publication and other processes only ever see a layout in which every   *)
(* recording is where the registry and the catalog say, through crashes    *)
(* and failures at any step of a migration or of its rollback.             *)
InUse == sharing # {} \/ requests > 0 \/ publishing \/ task = "running"
ServesConsistentLayout == TypeOK /\ (InUse => Consistent /\ mover.at = "idle")

(* All or nothing: a finished journal has moved all its recordings, or     *)
(* moved them all back and restored the registry it found.                 *)
AllOrNothing ==
  mover.at = "idle" =>
    /\ journal.status = "COMPLETED" =>
         /\ \A r \in journal.moves : place[r] = "new"
         /\ registry = journal.previous \cup journal.moves
    /\ journal.status = "ROLLED_BACK" =>
         /\ \A r \in journal.moves : place[r] = "old"
         /\ registry = journal.previous

(* A rollback takes nothing back that was written to after the migration.  *)
WrittenStays == [][\A r \in changed : place'[r] = place[r] \/ r \notin changed']_vars

(* A repair ends: the gate never stays closed with nobody repairing.       *)
RepairEnds == busy ~> ~busy

(* test_failures_do_not_lock_export_service: while the service calls       *)
(* itself active there is an export that waits or runs.                    *)
ActiveMeansExporting == exports => task # "none"
=============================================================================
