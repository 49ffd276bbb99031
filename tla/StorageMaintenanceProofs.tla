---------------------- MODULE StorageMaintenanceProofs ----------------------
(***************************************************************************)
(* Theorems about storage repair, for any number of recordings, consumers, *)
(* requests, failures and imports: whoever reads recordings finds all of   *)
(* them, a finished migration is whole, and what was written to afterwards *)
(* is not taken back.                                                      *)
(***************************************************************************)
EXTENDS StorageMaintenance, TLAPS

(* Who may be at work at which point of a repair.                          *)
ServesAt == {"no", "waiting"}
GateInv ==
  /\ ~up => /\ ~error /\ repair = "no" /\ ~publishing /\ ~queue /\ ~exports
            /\ requests = 0 /\ Backend \notin sharing
  /\ repair # "no" => busy /\ ~error
  /\ requests > 0 \/ exports \/ queue => ~error /\ repair \in ServesAt
  /\ task # "none" => exports
  /\ publishing => ~error /\ repair \in ServesAt \cup {"closing"}
  /\ up /\ ~error /\ repair \in ServesAt \cup {"closing"} => Backend \in sharing

(* Under the exclusive lease, or with an unfinished journal, nobody reads. *)
LeaseInv == mover.at # "idle" \/ journal.status \notin Final => sharing = {}

(* What the journal plans, while it is carried out and taken back.         *)
Moves == journal.moves
Applied == registry = journal.previous \cup Moves
Restored == registry = journal.previous
AllAt(where) == \A r \in Moves : place[r] = where
ListedAt(where) == \A r \in Moves : catalog[r] = where

Applying == {"move", "registry", "catalog", "dates", "complete"}
RollingBack == {"uncatalog", "undates", "unmove", "unregister", "undone"}

(* What holds at each point of the migration and of the rollback.          *)
PhaseInv ==
  /\ mover.at \in Applying => journal.status = "APPLYING"
  /\ mover.at = "undo" => journal.status # "ROLLED_BACK"
  /\ mover.at \in RollingBack => journal.status = "ROLLING_BACK"
  /\ mover.at = "move" => Restored /\ changed = {}
  /\ mover.at = "registry" => Restored /\ AllAt("new")
  /\ mover.at = "catalog" => Applied /\ AllAt("new")
  /\ mover.at \in {"dates", "complete"} => Applied /\ AllAt("new") /\ ListedAt("new")
  /\ mover.at \in {"uncatalog", "undates", "unmove"} => Moves \cap changed = {}
  /\ mover.at \in {"undates", "unmove", "unregister", "undone"} => ListedAt("old")
  /\ mover.at \in {"unregister", "undone"} => AllAt("old")
  /\ mover.at = "undone" => Restored

(* What the journal says of the files, whoever works on them.              *)
JournalInv ==
  /\ journal.previous \cap Moves = {}
  /\ Applied \/ Restored
  /\ journal.status = "COMPLETED" => Applied /\ AllAt("new") /\ ListedAt("new")
  /\ journal.status = "ROLLED_BACK" => Restored /\ AllAt("old") /\ ListedAt("old")
  /\ \A r \in Runs \ Moves :
       place[r] # "absent" => place[r] = Resolved(r) /\ catalog[r] = place[r]
  /\ \A r \in Moves \cup registry \cup changed : place[r] # "absent"

StorageIInv == TypeOK /\ GateInv /\ LeaseInv /\ PhaseInv /\ JournalInv
-----------------------------------------------------------------------------
(* The journal's sets are sets of runs, and a change of its status leaves  *)
(* them.                                                                   *)
LEMMA JournalFields ==
  ASSUME LayoutTypeOK
  PROVE  /\ Moves \subseteq Runs /\ journal.previous \subseteq Runs /\ journal.dates \subseteq Runs
         /\ \A st \in Final \cup {"APPLYING", "ROLLING_BACK"} :
              LET after == [journal EXCEPT !.status = st] IN
              /\ after \in Journal /\ after.status = st /\ after.moves = journal.moves
              /\ after.previous = journal.previous /\ after.dates = journal.dates
BY DEF LayoutTypeOK, Journal, Moves, Final

(* A mover that goes on is at the place it goes to.                        *)
LEMMA MoverGoes ==
  ASSUME LayoutTypeOK, NEW from, NEW to, Go(from, to),
         to \in {"registry", "catalog", "dates", "complete", "undo", "uncatalog", "undates",
                 "unmove", "unregister", "undone"}
  PROVE  mover' \in Mover /\ mover'.at = to
BY DEF LayoutTypeOK, Mover, Go

(* The names of the steps of migration and rollback.                       *)
LEMMA LayoutTypeStep ==
  ASSUME LayoutTypeOK, MoverStep
  PROVE  LayoutTypeOK'
<1> USE DEF diskVars
<1>1. ASSUME mover' \in Mover, UNCHANGED diskVars PROVE LayoutTypeOK'
  BY <1>1 DEF LayoutTypeOK
<1>i. Idle \in Mover
  BY DEF Idle, Mover
<1>2. CASE MoveOne \/ MoveOneBack
  BY <1>2 DEF MoveOne, MoveOneBack, LayoutTypeOK
<1>3. CASE MovedAll \/ MovedAllBack
  BY <1>1, <1>3, MoverGoes DEF MovedAll, MovedAllBack
<1>4. CASE WriteRegistry \/ RestoreRegistry
  BY <1>4, MoverGoes, JournalFields DEF WriteRegistry, RestoreRegistry, LayoutTypeOK, Moves
<1>5. CASE ApplyCatalog \/ UndoCatalog
  BY <1>5, MoverGoes DEF ApplyCatalog, UndoCatalog, LayoutTypeOK
<1>6. CASE RemoveDates \/ MakeDates
  BY <1>6, MoverGoes, JournalFields DEF RemoveDates, MakeDates, LayoutTypeOK
<1>7. CASE Complete \/ Undone
  BY <1>7, <1>i, JournalFields DEF Complete, Undone, LayoutTypeOK, Final
<1>8. CASE StartUndo
  BY <1>8, MoverGoes, JournalFields DEF StartUndo, LayoutTypeOK
<1>9. CASE RollbackRefused \/ UndoFails
  BY <1>9, <1>1, <1>i DEF RollbackRefused, UndoFails
<1>10. CASE StepFails
  BY <1>10, <1>1 DEF StepFails, LayoutTypeOK, Mover
<1> QED
  BY <1>2, <1>3, <1>4, <1>5, <1>6, <1>7, <1>8, <1>9, <1>10 DEF MoverStep, MoverProgress

(***************************************************************************)
(* What any step does to the layout.                                       *)
(***************************************************************************)
Written ==
  /\ mover.at = "idle"
  /\ \E r \in Runs : place[r] # "absent" /\ changed' = changed \cup {r}
  /\ UNCHANGED <<place, catalog, dated, registry, journal, mover>>
Imported ==
  \E r \in Runs :
    /\ place[r] = "absent" /\ mover.at = "idle" /\ journal.status \in Final
    /\ place' = [place EXCEPT ![r] = "old"] /\ catalog' = [catalog EXCEPT ![r] = "old"]
    /\ dated' = dated \cup {r}
    /\ UNCHANGED <<registry, journal, changed, mover>>
Interrupted == mover' = Idle /\ UNCHANGED diskVars
LayoutStep ==
  \/ UNCHANGED layoutVars
  \/ Written \/ Imported \/ Interrupted
  \/ \E p \in {Backend, Command} : BeginMigration(p)
  \/ BeginRollback \/ MoverStep

(* Every step is, for files, registry, catalogue and journal, one of       *)
(* LayoutStep's.                                                           *)
LEMMA AnyLayoutStep ==
  ASSUME TypeOK, GateInv, LeaseInv, [Next]_vars
  PROVE  LayoutStep
<1> USE DEF layoutVars, diskVars, LayoutStep
<1>1. CASE \E c \in Consumers : ConsumerWrites(c)
  <2>1. mover.at = "idle"
    BY <1>1 DEF ConsumerWrites, LeaseInv
  <2> QED
    BY <1>1, <2>1 DEF ConsumerWrites, Written
<1>2. CASE PublicationEnds
  <2>1. publishing /\ Backend \in sharing
    BY <1>2 DEF PublicationEnds, GateInv
  <2>2. mover.at = "idle"
    BY <2>1 DEF LeaseInv
  <2> QED
    BY <1>2, <2>2 DEF PublicationEnds, Written
<1>3. CASE \E r \in Runs : Import(r)
  BY <1>3 DEF Import, Imported
<1>4. CASE Migrate \/ CommandMigrates \/ CommandRollsBack \/ MoverRuns
  BY <1>4 DEF Migrate, CommandMigrates, CommandRollsBack, MoverRuns, MoverStep
<1>5. CASE CommandCrashes \/ BackendCrashes
  BY <1>5 DEF CommandCrashes, BackendCrashes, Interrupted
<1>6. CASE \E c \in Consumers : ConsumerStarts(c) \/ ConsumerEnds(c)
  BY <1>6 DEF ConsumerStarts, ConsumerEnds
<1>7. CASE RequestBegins \/ RequestEnds \/ StartExport \/ CancelExport \/ LaunchExport
           \/ LaunchExportFails \/ ExportEnds \/ PublicationStarts
  BY <1>7 DEF RequestBegins, RequestEnds, StartExport, CancelExport, LaunchExport,
              LaunchExportFails, ExportEnds, PublicationStarts
<1>8. CASE RepairBegins \/ RepairRefused \/ CloseQueue \/ ReleaseLease \/ SessionBegan
           \/ MigrateRefused \/ MigrateReturns \/ Reenter \/ Abandon
  BY <1>8 DEF RepairBegins, RepairRefused, CloseQueue, ReleaseLease, SessionBegan,
              MigrateRefused, MigrateReturns, Reenter, Abandon
<1>9. CASE BackendStarts \/ BackendStops \/ UNCHANGED vars
  BY <1>9 DEF BackendStarts, BackendStops, vars
<1> QED
  BY <1>1, <1>2, <1>3, <1>4, <1>5, <1>6, <1>7, <1>8, <1>9 DEF Next, RepairStep, WorkEnds

(***************************************************************************)
(* Types.                                                                  *)
(***************************************************************************)
FlagsOK == {up, busy, error, abandoned, exports, publishing, queue} \subseteq BOOLEAN
CountsOK ==
  /\ sharing \subseteq Consumers \cup {Backend}
  /\ requests \in 0..MaxRequests
  /\ repair \in {"no", "waiting", "closing", "released", "migrating", "reentering"}
  /\ task \in {"none", "queued", "running"}
  /\ faults \in 0..MaxFaults /\ imports \in 0..MaxImports

(* The type invariant, the parts the provers like to have apart.           *)
LEMMA TypeParts == TypeOK <=> LayoutTypeOK /\ FlagsOK /\ CountsOK
BY DEF TypeOK, FlagsOK, CountsOK

(* The layout keeps its types.                                             *)
LEMMA LayoutTypeKept ==
  ASSUME TypeOK, LayoutStep
  PROVE  LayoutTypeOK'
<1> USE DEF layoutVars, diskVars
<1>t. LayoutTypeOK
  BY TypeParts
<1>1. CASE MoverStep
  BY <1>1, <1>t, LayoutTypeStep
<1>2. ASSUME NEW p \in {Backend, Command}, BeginMigration(p) PROVE LayoutTypeOK'
  BY <1>2, <1>t DEF BeginMigration, LayoutTypeOK, Planned, Present, Journal, Mover
<1>3. CASE BeginRollback \/ Interrupted
  BY <1>3, <1>t DEF BeginRollback, Interrupted, LayoutTypeOK, Mover, Idle
<1>4. CASE UNCHANGED layoutVars \/ Written \/ Imported
  BY <1>4, <1>t DEF Written, Imported, LayoutTypeOK
<1> QED
  BY <1>1, <1>2, <1>3, <1>4 DEF LayoutStep

(* The flags stay Booleans.                                                *)
LEMMA FlagsStep ==
  ASSUME FlagsOK, [Next]_vars
  PROVE  FlagsOK'
<1> USE DEF FlagsOK, serviceVars, workVars, boundVars
<1>1. CASE \/ \E c \in Consumers : ConsumerStarts(c) \/ ConsumerWrites(c) \/ ConsumerEnds(c)
           \/ \E r \in Runs : Import(r)
  BY <1>1, Zenon DEF ConsumerStarts, ConsumerWrites, ConsumerEnds, Import
<1>2. CASE RequestBegins \/ RequestEnds \/ StartExport \/ CancelExport \/ LaunchExport
           \/ LaunchExportFails
  BY <1>2, Zenon DEF RequestBegins, RequestEnds, StartExport, CancelExport, LaunchExport,
                     LaunchExportFails
<1>3. CASE ExportEnds \/ PublicationEnds \/ PublicationStarts
  BY <1>3, Zenon DEF ExportEnds, PublicationEnds, PublicationStarts
<1>4. CASE RepairBegins \/ RepairRefused \/ CloseQueue \/ ReleaseLease \/ SessionBegan
  BY <1>4, Zenon DEF RepairBegins, RepairRefused, CloseQueue, ReleaseLease, SessionBegan
<1>5. CASE Migrate \/ MigrateRefused \/ MigrateReturns \/ Abandon
  BY <1>5, Zenon DEF Migrate, MigrateRefused, MigrateReturns, Abandon
<1>6. CASE Reenter
  <2>1. CASE SharedFree
    BY <1>6, <2>1, Zenon DEF Reenter
  <2>2. CASE ~SharedFree
    BY <1>6, <2>2, Zenon DEF Reenter
  <2> QED
    BY <2>1, <2>2
<1>7. CASE BackendCrashes \/ BackendStarts \/ BackendStops
  BY <1>7, Zenon DEF BackendCrashes, BackendStarts, BackendStops
<1>8. CASE CommandMigrates \/ CommandRollsBack \/ CommandCrashes \/ MoverRuns \/ UNCHANGED vars
  BY <1>8, Zenon DEF CommandMigrates, CommandRollsBack, CommandCrashes, MoverRuns, vars
<1> QED
  BY <1>1, <1>2, <1>3, <1>4, <1>5, <1>6, <1>7, <1>8 DEF Next, RepairStep, WorkEnds

(* The counters stay in their bounds.                                      *)
LEMMA CountsStep ==
  ASSUME CountsOK, [Next]_vars
  PROVE  CountsOK'
<1> USE MaintenanceAssumption DEF CountsOK, serviceVars, workVars, boundVars
<1>1. CASE \/ \E c \in Consumers : ConsumerStarts(c) \/ ConsumerWrites(c) \/ ConsumerEnds(c)
           \/ \E r \in Runs : Import(r)
  BY <1>1 DEF ConsumerStarts, ConsumerWrites, ConsumerEnds, Import
<1>2. CASE RequestBegins \/ RequestEnds \/ StartExport \/ CancelExport \/ LaunchExport
           \/ LaunchExportFails
  BY <1>2 DEF RequestBegins, RequestEnds, StartExport, CancelExport, LaunchExport,
              LaunchExportFails
<1>3. CASE ExportEnds \/ PublicationEnds \/ PublicationStarts
  BY <1>3 DEF ExportEnds, PublicationEnds, PublicationStarts
<1>4. CASE RepairBegins \/ RepairRefused \/ CloseQueue \/ ReleaseLease \/ SessionBegan
  BY <1>4 DEF RepairBegins, RepairRefused, CloseQueue, ReleaseLease, SessionBegan, Repair
<1>5. CASE Migrate \/ MigrateRefused \/ MigrateReturns \/ Abandon
  BY <1>5 DEF Migrate, MigrateRefused, MigrateReturns, Abandon, Repair
<1>6. CASE Reenter
  BY <1>6 DEF Reenter, Repair
<1>7. CASE BackendCrashes \/ BackendStarts \/ BackendStops
  BY <1>7 DEF BackendCrashes, BackendStarts, BackendStops
<1>8. CASE CommandMigrates \/ CommandRollsBack \/ CommandCrashes \/ MoverRuns \/ UNCHANGED vars
  BY <1>8 DEF CommandMigrates, CommandRollsBack, CommandCrashes, MoverRuns, vars
<1> QED
  BY <1>1, <1>2, <1>3, <1>4, <1>5, <1>6, <1>7, <1>8 DEF Next, RepairStep, WorkEnds

(***************************************************************************)
(* The gate, the leases and the program points of the repair.              *)
(***************************************************************************)
LEMMA GateStep ==
  ASSUME TypeOK, GateInv, LeaseInv, [Next]_vars
  PROVE  GateInv'
<1> USE MaintenanceAssumption DEF GateInv, ServesAt, serviceVars, workVars, boundVars, TypeOK
<1>1. CASE \/ \E c \in Consumers : ConsumerStarts(c) \/ ConsumerWrites(c) \/ ConsumerEnds(c)
           \/ \E r \in Runs : Import(r)
  BY <1>1 DEF ConsumerStarts, ConsumerWrites, ConsumerEnds, Import
<1>2. CASE RequestBegins \/ RequestEnds
  BY <1>2 DEF RequestBegins, RequestEnds, Gate
<1>3. CASE StartExport \/ CancelExport \/ LaunchExport \/ LaunchExportFails
  BY <1>3 DEF StartExport, CancelExport, LaunchExport, LaunchExportFails
<1>4. CASE ExportEnds \/ PublicationEnds \/ PublicationStarts
  BY <1>4 DEF ExportEnds, PublicationEnds, PublicationStarts
<1>5. CASE RepairBegins \/ RepairRefused \/ CloseQueue \/ ReleaseLease \/ SessionBegan
  BY <1>5 DEF RepairBegins, RepairRefused, CloseQueue, ReleaseLease, SessionBegan, Repair,
              LocalTasksDone
<1>6. CASE Migrate \/ MigrateRefused \/ MigrateReturns \/ Abandon
  BY <1>6 DEF Migrate, MigrateRefused, MigrateReturns, Abandon, Repair
<1>7. CASE Reenter
  BY <1>7 DEF Reenter, Repair
<1>8. CASE BackendCrashes \/ BackendStarts \/ BackendStops
  BY <1>8 DEF BackendCrashes, BackendStarts, BackendStops
<1>9. CASE CommandMigrates \/ CommandRollsBack \/ CommandCrashes \/ MoverRuns \/ UNCHANGED vars
  BY <1>9 DEF CommandMigrates, CommandRollsBack, CommandCrashes, MoverRuns, vars
<1> QED
  BY <1>1, <1>2, <1>3, <1>4, <1>5, <1>6, <1>7, <1>8, <1>9 DEF Next, RepairStep, WorkEnds

(* Only a mover at work takes a step of the mover.                         *)
LEMMA MoverIsAtWork == MoverStep => mover.at # "idle"
BY DEF MoverStep, MoverProgress, MoveOne, MovedAll, WriteRegistry, ApplyCatalog, RemoveDates,
       Complete, RollbackRefused, StartUndo, UndoCatalog, MakeDates, MoveOneBack, MovedAllBack,
       RestoreRegistry, Undone, StepFails, UndoFails, Go

(* Every step keeps the lease with who works.                              *)
LEMMA LeaseStep ==
  ASSUME TypeOK, LeaseInv, [Next]_vars
  PROVE  LeaseInv'
<1> USE DEF LeaseInv, serviceVars, workVars, boundVars, layoutVars, diskVars
<1>s. ASSUME UNCHANGED <<journal, mover>>, sharing' \subseteq sharing \/ SharedFree PROVE LeaseInv'
  BY <1>s DEF SharedFree
<1>1. CASE \/ \E c \in Consumers : ConsumerStarts(c) \/ ConsumerWrites(c) \/ ConsumerEnds(c)
           \/ \E r \in Runs : Import(r)
  BY <1>1, <1>s DEF ConsumerStarts, ConsumerWrites, ConsumerEnds, Import
<1>2. CASE RequestBegins \/ RequestEnds \/ StartExport \/ CancelExport \/ LaunchExport
           \/ LaunchExportFails
  BY <1>2, <1>s DEF RequestBegins, RequestEnds, StartExport, CancelExport, LaunchExport,
                    LaunchExportFails
<1>3. CASE ExportEnds \/ PublicationEnds \/ PublicationStarts
  BY <1>3, <1>s DEF ExportEnds, PublicationEnds, PublicationStarts
<1>4. CASE RepairBegins \/ RepairRefused \/ CloseQueue \/ ReleaseLease \/ SessionBegan
           \/ MigrateRefused \/ MigrateReturns \/ Abandon
  BY <1>4, <1>s DEF RepairBegins, RepairRefused, CloseQueue, ReleaseLease, SessionBegan,
                    MigrateRefused, MigrateReturns, Abandon
<1>5. CASE Reenter \/ BackendStarts \/ BackendStops \/ UNCHANGED vars
  BY <1>5, <1>s DEF Reenter, BackendStarts, BackendStops, vars
<1>6. CASE Migrate \/ CommandMigrates \/ CommandRollsBack
  BY <1>6 DEF Migrate, CommandMigrates, CommandRollsBack, ExclusiveFree
<1>7. CASE MoverRuns
  BY <1>7, MoverIsAtWork DEF MoverRuns, MoverStep
<1>8. CASE BackendCrashes \/ CommandCrashes
  BY <1>8 DEF BackendCrashes, CommandCrashes, Idle
<1> QED
  BY <1>1, <1>2, <1>3, <1>4, <1>5, <1>6, <1>7, <1>8 DEF Next, RepairStep, WorkEnds

(***************************************************************************)
(* The migration and its rollback, step by step.                           *)
(***************************************************************************)
LEMMA DiskUntouched ==
  ASSUME UNCHANGED <<place, catalog, registry, journal>>, JournalInv,
         \A r \in changed' : r \in changed \/ place[r] # "absent"
  PROVE  JournalInv'
BY DEF JournalInv, Applied, Restored, AllAt, ListedAt, Moves, Resolved

(* Every step keeps what the journal says of the runs it lists.            *)
LEMMA JournalStep ==
  ASSUME LayoutTypeOK, PhaseInv, JournalInv, LayoutStep
  PROVE  JournalInv'
<1> USE DEF layoutVars, diskVars
<1>1. CASE UNCHANGED layoutVars \/ Written \/ Interrupted \/ BeginRollback
  BY <1>1, DiskUntouched DEF Written, Interrupted, BeginRollback
<1>2. CASE Imported
  <2>1. PICK r \in Runs :
          /\ place[r] = "absent" /\ place' = [place EXCEPT ![r] = "old"]
          /\ catalog' = [catalog EXCEPT ![r] = "old"] /\ UNCHANGED <<registry, journal, changed>>
    BY <1>2 DEF Imported
  <2>2. r \notin Moves \cup registry \cup changed
    BY <2>1 DEF JournalInv
  <2>3. \A q \in Runs \ {r} : place'[q] = place[q] /\ catalog'[q] = catalog[q]
    BY <2>1 DEF LayoutTypeOK
  <2>4. place'[r] = "old" /\ catalog'[r] = "old"
    BY <2>1 DEF LayoutTypeOK
  <2>5. Moves \subseteq Runs /\ registry \subseteq Runs /\ changed \subseteq Runs
    BY JournalFields DEF LayoutTypeOK
  <2> QED
    BY <2>1, <2>2, <2>3, <2>4, <2>5 DEF JournalInv, Applied, Restored, AllAt, ListedAt, Moves, Resolved
<1>3. ASSUME NEW p \in {Backend, Command}, BeginMigration(p) PROVE JournalInv'
  <2>1. /\ journal'.status = "APPLYING" /\ journal'.moves = Planned /\ journal'.previous = registry
        /\ changed' = {} /\ UNCHANGED <<place, catalog, registry>>
    BY <1>3 DEF BeginMigration
  <2>2. Planned \cap registry = {} /\ journal.status \in Final
    BY <1>3 DEF BeginMigration, CanPlan
  <2>3. \A r \in Runs : place[r] # "absent" => place[r] = Resolved(r) /\ catalog[r] = place[r]
    BY <2>2 DEF JournalInv, Final, Applied, Restored, AllAt, ListedAt, Resolved, LayoutTypeOK
  <2> QED
    BY <2>1, <2>2, <2>3 DEF JournalInv, Applied, Restored, AllAt, ListedAt, Moves, Resolved,
                            Planned, Present
<1>4. CASE MoverStep
  <2>f. /\ Moves \subseteq Runs
        /\ \A q \in Runs : \A v :
             /\ [place EXCEPT ![q] = v][q] = v
             /\ \A r \in Runs \ {q} : [place EXCEPT ![q] = v][r] = place[r]
    BY JournalFields DEF LayoutTypeOK
  <2>1. CASE MoveOne \/ MoveOneBack
    <3>1. PICK q \in Moves, v \in {"old", "new"} :
            /\ place' = [place EXCEPT ![q] = v] /\ UNCHANGED <<catalog, registry, journal, changed>>
      BY <2>1 DEF MoveOne, MoveOneBack, Moves, Present
    <3>2. journal.status \notin Final
      BY <2>1 DEF MoveOne, MoveOneBack, PhaseInv, Applying, RollingBack, Final
    <3> QED
      BY <3>1, <3>2, <2>f DEF JournalInv, Applied, Restored, AllAt, ListedAt, Moves, Resolved, Final
  <2>2. CASE MovedAll \/ MovedAllBack \/ RollbackRefused \/ StepFails \/ UndoFails
    BY <2>2, DiskUntouched DEF MovedAll, MovedAllBack, RollbackRefused, StepFails, UndoFails
  <2>3. CASE RemoveDates \/ MakeDates
    BY <2>3, DiskUntouched DEF RemoveDates, MakeDates
  <2>4. CASE WriteRegistry
    BY <2>4, <2>f DEF WriteRegistry, Go, PhaseInv, Applying, JournalInv, Applied, Restored, AllAt, ListedAt,
                      Moves, Resolved
  <2>5. CASE RestoreRegistry
    BY <2>5, <2>f DEF RestoreRegistry, Go, PhaseInv, RollingBack, JournalInv, Applied, Restored, AllAt,
                      ListedAt, Moves, Resolved
  <2>6. CASE ApplyCatalog
    <3>1. journal.status = "APPLYING"
      BY <2>6 DEF ApplyCatalog, Go, PhaseInv, Applying
    <3> QED
      BY <2>6, <3>1 DEF ApplyCatalog, JournalInv, Applied, Restored, AllAt, ListedAt, Moves, Resolved
  <2>7. CASE UndoCatalog
    <3>1. journal.status = "ROLLING_BACK"
      BY <2>7 DEF UndoCatalog, Go, PhaseInv, RollingBack
    <3> QED
      BY <2>7, <3>1 DEF UndoCatalog, JournalInv, Applied, Restored, AllAt, ListedAt, Moves, Resolved
  <2>8. CASE Complete
    <3>1. Applied /\ AllAt("new") /\ ListedAt("new")
      BY <2>8 DEF Complete, PhaseInv
    <3>2. /\ journal'.status = "COMPLETED" /\ journal'.moves = journal.moves
          /\ journal'.previous = journal.previous
      BY <2>8, JournalFields DEF Complete, Final
    <3> QED
      BY <2>8, <3>1, <3>2 DEF Complete, JournalInv, Applied, Restored, AllAt, ListedAt, Moves, Resolved
  <2>9. CASE Undone
    <3>1. Restored /\ AllAt("old") /\ ListedAt("old")
      BY <2>9 DEF Undone, PhaseInv
    <3>2. /\ journal'.status = "ROLLED_BACK" /\ journal'.moves = journal.moves
          /\ journal'.previous = journal.previous
      BY <2>9, JournalFields DEF Undone, Final
    <3> QED
      BY <2>9, <3>1, <3>2 DEF Undone, JournalInv, Applied, Restored, AllAt, ListedAt, Moves, Resolved
  <2>10. CASE StartUndo
    <3>1. /\ journal'.status = "ROLLING_BACK" /\ journal'.moves = journal.moves
          /\ journal'.previous = journal.previous
      BY <2>10, JournalFields DEF StartUndo
    <3> QED
      BY <2>10, <3>1 DEF StartUndo, JournalInv, Applied, Restored, AllAt, ListedAt, Moves, Resolved
  <2> QED
    BY <1>4, <2>1, <2>2, <2>3, <2>4, <2>5, <2>6, <2>7, <2>8, <2>9, <2>10 DEF MoverStep, MoverProgress
<1> QED
  BY <1>1, <1>2, <1>3, <1>4 DEF LayoutStep

(* Every step keeps what the place of the mover says of the layout.        *)
LEMMA PhaseStep ==
  ASSUME LayoutTypeOK, PhaseInv, JournalInv, LayoutStep
  PROVE  PhaseInv'
<1> USE DEF layoutVars, diskVars, Applying, RollingBack
<1>i. ASSUME mover'.at = "idle" PROVE PhaseInv'
  BY <1>i DEF PhaseInv
<1>f. Moves \subseteq Runs
  BY JournalFields
<1>1. CASE UNCHANGED layoutVars
  BY <1>1 DEF PhaseInv, Applied, Restored, AllAt, ListedAt, Moves
<1>2. CASE Written \/ Imported \/ Interrupted
  BY <1>2, <1>i DEF Written, Imported, Interrupted, Idle
<1>3. ASSUME NEW p \in {Backend, Command}, BeginMigration(p) PROVE PhaseInv'
  BY <1>3 DEF BeginMigration, PhaseInv, Restored
<1>4. CASE BeginRollback
  BY <1>4 DEF BeginRollback, PhaseInv
<1>5. CASE MoverStep
  <2>1. CASE MoveOne
    BY <2>1 DEF MoveOne, PhaseInv, Restored
  <2>2. CASE MoveOneBack
    BY <2>2 DEF MoveOneBack, PhaseInv, ListedAt, Moves
  <2>3. CASE MovedAll
    <3>1. mover.at = "move" /\ mover'.at = "registry" /\ UNCHANGED diskVars
      BY <2>3, MoverGoes DEF MovedAll, Go
    <3>2. AllAt("new")
      <4> SUFFICES ASSUME NEW r \in Moves PROVE place[r] = "new"
        BY DEF AllAt
      <4> QED
        BY <2>3, <1>f DEF MovedAll, Moves, Present, JournalInv, LayoutTypeOK
    <3> QED
      BY <3>1, <3>2 DEF PhaseInv, Restored, AllAt, Moves
  <2>4. CASE WriteRegistry
    <3>1. mover.at = "registry" /\ mover'.at = "catalog" /\ registry' = registry \cup Moves
          /\ UNCHANGED <<place, catalog, journal>>
      BY <2>4, MoverGoes DEF WriteRegistry, Go, Moves
    <3> QED
      BY <3>1 DEF PhaseInv, Restored, Applied, AllAt, Moves
  <2>5. CASE ApplyCatalog
    <3>1. mover.at = "catalog" /\ mover'.at = "dates" /\ UNCHANGED <<place, registry, journal>>
          /\ catalog' = [r \in Runs |-> IF r \in Moves THEN "new" ELSE catalog[r]]
      BY <2>5, MoverGoes DEF ApplyCatalog, Go, Moves
    <3> QED
      BY <3>1, <1>f DEF PhaseInv, Applied, AllAt, ListedAt, Moves
  <2>6. CASE RemoveDates
    <3>1. mover.at = "dates" /\ mover'.at = "complete" /\ UNCHANGED <<place, catalog, registry, journal>>
      BY <2>6, MoverGoes DEF RemoveDates, Go
    <3> QED
      BY <3>1 DEF PhaseInv, Applied, AllAt, ListedAt, Moves
  <2>7. CASE Complete \/ Undone \/ RollbackRefused \/ UndoFails
    BY <2>7, <1>i DEF Complete, Undone, RollbackRefused, UndoFails, Idle
  <2>8. CASE StepFails
    BY <2>8 DEF StepFails, PhaseInv, LayoutTypeOK, Mover
  <2>9. CASE StartUndo
    <3>1. mover'.at = "uncatalog" /\ journal'.status = "ROLLING_BACK" /\ journal'.moves = journal.moves
          /\ changed' = changed /\ journal.moves \cap changed = {}
      BY <2>9, MoverGoes, JournalFields DEF StartUndo, Reversible
    <3> QED
      BY <3>1 DEF PhaseInv, Moves
  <2>10. CASE UndoCatalog
    <3>1. mover.at = "uncatalog" /\ mover'.at = "undates" /\ UNCHANGED <<journal, changed>>
          /\ catalog' = [r \in Runs |-> IF r \in Moves THEN "old" ELSE catalog[r]]
      BY <2>10, MoverGoes DEF UndoCatalog, Go, Moves
    <3> QED
      BY <3>1, <1>f DEF PhaseInv, ListedAt, Moves
  <2>11. CASE MakeDates
    <3>1. mover.at = "undates" /\ mover'.at = "unmove" /\ UNCHANGED <<catalog, journal, changed>>
      BY <2>11, MoverGoes DEF MakeDates, Go
    <3> QED
      BY <3>1 DEF PhaseInv, ListedAt, Moves
  <2>12. CASE MovedAllBack
    <3>1. mover.at = "unmove" /\ mover'.at = "unregister" /\ UNCHANGED diskVars
      BY <2>12, MoverGoes DEF MovedAllBack, Go
    <3>2. AllAt("old")
      <4> SUFFICES ASSUME NEW r \in Moves PROVE place[r] = "old"
        BY DEF AllAt
      <4> QED
        BY <2>12, <1>f DEF MovedAllBack, Moves, Present, JournalInv, LayoutTypeOK
    <3> QED
      BY <3>1, <3>2 DEF PhaseInv, AllAt, ListedAt, Moves
  <2>13. CASE RestoreRegistry
    <3>1. mover.at = "unregister" /\ mover'.at = "undone" /\ registry' = journal.previous
          /\ UNCHANGED <<place, catalog, journal>>
      BY <2>13, MoverGoes DEF RestoreRegistry, Go
    <3> QED
      BY <3>1 DEF PhaseInv, Restored, AllAt, ListedAt, Moves
  <2> QED
    BY <1>5, <2>1, <2>2, <2>3, <2>4, <2>5, <2>6, <2>7, <2>8, <2>9, <2>10, <2>11, <2>12, <2>13
       DEF MoverStep, MoverProgress
<1> QED
  BY <1>1, <1>2, <1>3, <1>4, <1>5 DEF LayoutStep
-----------------------------------------------------------------------------
(* A consistent layout without a journal satisfies the invariant.          *)
LEMMA StorageInit == Init => StorageIInv
<1> SUFFICES ASSUME Init PROVE StorageIInv
  OBVIOUS
<1> USE MaintenanceAssumption
<1>1. LayoutTypeOK
  BY DEF Init, InitLayout, LayoutTypeOK, NoJournal, Journal, Idle, Mover, Final
<1>2. FlagsOK
  BY Zenon DEF Init, FlagsOK
<1>3. CountsOK
  BY DEF Init, CountsOK
<1>4. GateInv /\ LeaseInv
  BY DEF Init, InitLayout, GateInv, LeaseInv, ServesAt, Idle, NoJournal, Final
<1>5. PhaseInv
  BY DEF Init, InitLayout, PhaseInv, Idle, Applying, RollingBack
<1>6. JournalInv
  BY DEF Init, InitLayout, JournalInv, NoJournal, Moves, Applied, Restored, AllAt, ListedAt, Resolved
<1> QED
  BY <1>1, <1>2, <1>3, <1>4, <1>5, <1>6, TypeParts DEF StorageIInv

(* Every step keeps the invariant.                                         *)
LEMMA StorageStep == StorageIInv /\ [Next]_vars => StorageIInv'
<1> SUFFICES ASSUME StorageIInv, [Next]_vars PROVE StorageIInv'
  OBVIOUS
<1>1. LayoutStep
  BY AnyLayoutStep DEF StorageIInv
<1>2. LayoutTypeOK'
  BY <1>1, LayoutTypeKept DEF StorageIInv
<1>3. FlagsOK' /\ CountsOK'
  BY FlagsStep, CountsStep, TypeParts DEF StorageIInv
<1>4. GateInv' /\ LeaseInv'
  BY GateStep, LeaseStep DEF StorageIInv
<1>5. PhaseInv' /\ JournalInv'
  BY <1>1, PhaseStep, JournalStep, TypeParts DEF StorageIInv
<1>6. TypeOK'
  BY <1>2, <1>3 DEF TypeOK, FlagsOK, CountsOK
<1> QED
  BY <1>4, <1>5, <1>6 DEF StorageIInv

(* So it holds in every reachable state.                                   *)
LEMMA StorageInvariant == Spec => []StorageIInv
BY StorageInit, StorageStep, PTL DEF Spec

(***************************************************************************)
(* Requests, exports, publications and other processes only ever meet a    *)
(* layout in which every recording is where the registry and the catalog   *)
(* say it is, whatever crashes or fails at any step of a migration or of   *)
(* its rollback (storage_maintenance.py, run_layout.py, storage_lease).    *)
(***************************************************************************)
THEOREM LayoutServed == Spec => []ServesConsistentLayout
<1>1. StorageIInv => ServesConsistentLayout
  <2> SUFFICES ASSUME StorageIInv, InUse PROVE Consistent /\ mover.at = "idle"
    BY DEF StorageIInv, ServesConsistentLayout
  <2>1. up \/ sharing # {}
    BY DEF StorageIInv, GateInv, InUse
  <2>2. sharing # {}
    BY <2>1 DEF StorageIInv, GateInv, InUse, ServesAt, TypeOK
  <2>3. mover.at = "idle" /\ journal.status \in Final
    BY <2>2 DEF StorageIInv, LeaseInv
  <2>4. Consistent
    BY <2>3 DEF StorageIInv, JournalInv, Final, Applied, Restored, AllAt, ListedAt, Resolved, Consistent,
                TypeOK, LayoutTypeOK
  <2> QED
    BY <2>3, <2>4
<1> QED
  BY <1>1, StorageInvariant, PTL

(***************************************************************************)
(* A finished journal has moved all its recordings and entered them in the *)
(* registry, or taken all back and restored the registry it found          *)
(* (migrate_layout, _rollback).                                            *)
(***************************************************************************)
THEOREM MigrationWhole == Spec => []AllOrNothing
<1>1. StorageIInv => AllOrNothing
  BY DEF StorageIInv, JournalInv, AllOrNothing, Applied, Restored, AllAt, Moves
<1> QED
  BY <1>1, StorageInvariant, PTL

(***************************************************************************)
(* Neither a migration nor a rollback moves a recording that was written   *)
(* to since its inventory was taken (_rollback compares before it starts). *)
(***************************************************************************)
THEOREM WorkIsNotUndone == Spec => WrittenStays
<1>1. StorageIInv /\ [Next]_vars => [\A r \in changed : place'[r] = place[r] \/ r \notin changed']_vars
  <2> SUFFICES ASSUME StorageIInv, [Next]_vars, NEW r \in changed
               PROVE  place'[r] = place[r] \/ r \notin changed'
    OBVIOUS
  <2>1. LayoutStep
    BY AnyLayoutStep DEF StorageIInv
  <2>2. r \in Runs /\ place[r] # "absent"
    BY DEF StorageIInv, TypeOK, LayoutTypeOK, JournalInv
  <2>3. CASE MoveOne \/ MoveOneBack
    <3>1. r \notin journal.moves
      BY <2>3 DEF MoveOne, MoveOneBack, StorageIInv, PhaseInv, Moves
    <3> QED
      BY <2>2, <2>3, <3>1 DEF MoveOne, MoveOneBack, StorageIInv, TypeOK, LayoutTypeOK
  <2>4. CASE Imported
    BY <2>2, <2>4 DEF Imported, StorageIInv, TypeOK, LayoutTypeOK
  <2>5. CASE ~(MoveOne \/ MoveOneBack \/ Imported)
    <3>1. place' = place
      BY <2>1, <2>5 DEF LayoutStep, Written, Interrupted, BeginMigration, BeginRollback, MoverStep,
           MoverProgress, MovedAll, WriteRegistry, ApplyCatalog, RemoveDates, Complete, StepFails,
           UndoFails, RollbackRefused, StartUndo, UndoCatalog, MakeDates, MovedAllBack,
           RestoreRegistry, Undone, layoutVars, diskVars
    <3> QED
      BY <3>1
  <2> QED
    BY <2>3, <2>4, <2>5
<1> QED
  BY <1>1, StorageInvariant, PTL DEF Spec, WrittenStays
=============================================================================
