---------------------------- MODULE StorageLayout ---------------------------
(***************************************************************************)
(* The migration of dated run directories and its rollback (run_layout.py  *)
(* and storage_paths.py of vla-adapter-rynn-iql): a journaled sequence of  *)
(* renames, one registry of moved directories, one catalog transaction.    *)
(*                                                                         *)
(* Everything but "mover" is on disk and survives a crash.  Only names of  *)
(* directories matter: a recording is at its dated ("old") or undated      *)
(* ("new") place, or is "absent".                                          *)
(***************************************************************************)
EXTENDS FiniteSets

CONSTANTS
  Runs,       \* recordings of the dated layout
  Backend,    \* the UI backend
  Command     \* migrate_run_layout.py, run by an operator

VARIABLES
  place,     \* where each recording is
  catalog,   \* where the catalog says it is
  dated,     \* recordings whose date directory exists
  registry,  \* recordings .run-layout.json maps from old to new
  journal,   \* .run-layout-migration.json
  changed,   \* recordings written to since their inventory was taken
  mover      \* the migration or rollback in progress, under the exclusive lease

diskVars == <<place, catalog, dated, registry, journal, changed>>
layoutVars == <<diskVars, mover>>

Final == {"COMPLETED", "ROLLED_BACK"}
NoJournal == [status |-> "ROLLED_BACK", moves |-> {}, previous |-> {}, dates |-> {}]
Journal == [status : Final \cup {"APPLYING", "ROLLING_BACK"}, moves : SUBSET Runs,
            previous : SUBSET Runs, dates : SUBSET Runs]

Idle == [at |-> "idle", by |-> Command]
Mover == [at : {"idle", "move", "registry", "catalog", "dates", "complete",
                "undo", "uncatalog", "undates", "unmove", "unregister", "undone"},
          by : {Backend, Command}]

InitLayout ==
  /\ \E dates \in SUBSET Runs :
       /\ dated = dates
       /\ \E old \in SUBSET dates :
            /\ place = [r \in Runs |-> IF r \in old THEN "old" ELSE "absent"]
            /\ catalog = place
  /\ registry = {} /\ journal = NoJournal /\ changed = {} /\ mover = Idle

Present(where) == {r \in Runs : place[r] = where}
-----------------------------------------------------------------------------
(***************************************************************************)
(* migrate_layout.  An unfinished journal refuses a new plan; so does a    *)
(* recording at its target, and a move the registry already has.           *)
(***************************************************************************)
Planned == Present("old")
CanPlan == journal.status \in Final /\ Planned \cap registry = {}
(* No recording to move, and perhaps a date directory that is not empty.   *)
NothingToDo == Planned = {}

BeginMigration(p) ==
  /\ mover.at = "idle" /\ CanPlan
  /\ Planned # {} \/ dated # {}
  /\ journal' = [status |-> "APPLYING", moves |-> Planned, previous |-> registry, dates |-> dated]
  /\ changed' = {}
  /\ mover' = [at |-> "move", by |-> p]
  /\ UNCHANGED <<place, catalog, dated, registry>>

(* From one step of the mover to the next.                                 *)
Go(from, to) == mover.at = from /\ mover' = [mover EXCEPT !.at = to]

MoveOne ==
  /\ mover.at = "move"
  /\ \E r \in journal.moves \cap Present("old") : place' = [place EXCEPT ![r] = "new"]
  /\ UNCHANGED <<catalog, dated, registry, journal, changed, mover>>

MovedAll ==
  /\ journal.moves \cap Present("old") = {}
  /\ Go("move", "registry")
  /\ UNCHANGED diskVars

WriteRegistry ==
  /\ Go("registry", "catalog")
  /\ registry' = registry \cup journal.moves
  /\ UNCHANGED <<place, catalog, dated, journal, changed>>

(* One sqlite transaction for all rows.                                    *)
ApplyCatalog ==
  /\ Go("catalog", "dates")
  /\ catalog' = [r \in Runs |-> IF r \in journal.moves THEN "new" ELSE catalog[r]]
  /\ UNCHANGED <<place, dated, registry, journal, changed>>

(* An empty date directory is removed, one with other files retained.      *)
RemoveDates ==
  /\ Go("dates", "complete")
  /\ \E retained \in SUBSET journal.dates : dated' = retained
  /\ UNCHANGED <<place, catalog, registry, journal, changed>>

Complete ==
  /\ mover.at = "complete"
  /\ journal' = [journal EXCEPT !.status = "COMPLETED"]
  /\ mover' = Idle
  /\ UNCHANGED <<place, catalog, dated, registry, changed>>

(* Any step raises: the handler rolls back.                                *)
StepFails ==
  /\ mover.at \in {"move", "registry", "catalog", "dates", "complete"}
  /\ mover' = [mover EXCEPT !.at = "undo"]
  /\ UNCHANGED diskVars
-----------------------------------------------------------------------------
(***************************************************************************)
(* _rollback, after a failure or by an operator (--rollback), also of a    *)
(* completed migration and of a rollback that was itself interrupted.      *)
(***************************************************************************)
BeginRollback ==
  /\ mover.at = "idle" /\ journal.status # "ROLLED_BACK"
  /\ mover' = [at |-> "undo", by |-> Command]
  /\ UNCHANGED diskVars

(* Nothing is reversed unless every recording is still what was moved.     *)
\* mutant
UnchangedMoves == TRUE
Reversible == journal.moves \cap changed = {}

RollbackRefused ==
  /\ mover.at = "undo" /\ ~Reversible
  /\ mover' = Idle
  /\ UNCHANGED diskVars

StartUndo ==
  /\ Go("undo", "uncatalog") /\ Reversible
  /\ journal' = [journal EXCEPT !.status = "ROLLING_BACK"]
  /\ UNCHANGED <<place, catalog, dated, registry, changed>>

UndoCatalog ==
  /\ Go("uncatalog", "undates")
  /\ catalog' = [r \in Runs |-> IF r \in journal.moves THEN "old" ELSE catalog[r]]
  /\ UNCHANGED <<place, dated, registry, journal, changed>>

MakeDates ==
  /\ Go("undates", "unmove")
  /\ dated' = dated \cup journal.dates
  /\ UNCHANGED <<place, catalog, registry, journal, changed>>

MoveOneBack ==
  /\ mover.at = "unmove"
  /\ \E r \in journal.moves \cap Present("new") : place' = [place EXCEPT ![r] = "old"]
  /\ UNCHANGED <<catalog, dated, registry, journal, changed, mover>>

MovedAllBack ==
  /\ journal.moves \cap Present("new") = {}
  /\ Go("unmove", "unregister")
  /\ UNCHANGED diskVars

\* mutant
RestoreNothing ==
  /\ Go("unregister", "undone")
  /\ UNCHANGED diskVars
RestoreRegistry ==
  /\ Go("unregister", "undone")
  /\ registry' = journal.previous
  /\ UNCHANGED <<place, catalog, dated, journal, changed>>

Undone ==
  /\ mover.at = "undone"
  /\ journal' = [journal EXCEPT !.status = "ROLLED_BACK"]
  /\ mover' = Idle
  /\ UNCHANGED <<place, catalog, dated, registry, changed>>

(* A step of the rollback raises: the journal stays unfinished.            *)
UndoFails ==
  /\ mover.at \in {"undo", "uncatalog", "undates", "unmove", "unregister", "undone"}
  /\ mover' = Idle
  /\ UNCHANGED diskVars

MoverProgress ==
  \/ MoveOne \/ MovedAll \/ WriteRegistry \/ ApplyCatalog \/ RemoveDates \/ Complete
  \/ RollbackRefused \/ StartUndo \/ UndoCatalog \/ MakeDates \/ MoveOneBack \/ MovedAllBack
  \/ RestoreRegistry \/ Undone
MoverStep == MoverProgress \/ StepFails \/ UndoFails
-----------------------------------------------------------------------------
(* storage_path() of a recorded path: the registry is applied to it.       *)
Resolved(r) == IF r \in registry THEN "new" ELSE "old"

(* Every recording is found from its historical path and from the catalog. *)
Consistent ==
  \A r \in Runs : place[r] # "absent" => place[r] = Resolved(r) /\ catalog[r] = place[r]

LayoutTypeOK ==
  /\ place \in [Runs -> {"absent", "old", "new"}]
  /\ catalog \in [Runs -> {"absent", "old", "new"}]
  /\ dated \subseteq Runs /\ registry \subseteq Runs /\ changed \subseteq Runs
  /\ journal \in Journal
  /\ mover \in Mover
=============================================================================
