-------------------------- MODULE MCSessions --------------------------
(***************************************************************************)
(* Simulation sessions and the preview that draws them, in one run.  What  *)
(* the preview needs of a session it models itself, so one of the two is   *)
(* there at a time (`part`); the variables of the other are NotHere, and   *)
(* variables of one name are one variable.                                 *)
(***************************************************************************)
EXTENDS SimulationSession

CONSTANTS Shown, MaxDrafts, MaxRevisions, MaxPreviews, NoItem, Nobody,
          Preview, Replay, Other, NotHere

VARIABLES part, draft, created, revision, frame, starting, submit, slot,
          renderer, phase, event, owned, open, wasted

View == INSTANCE PreviewService WITH Sessions <- Shown

OnlySessions ==
  /\ draft = NotHere /\ created = NotHere /\ revision = NotHere
  /\ frame = NotHere /\ starting = NotHere /\ submit = NotHere
  /\ slot = NotHere /\ renderer = NotHere /\ phase = NotHere
  /\ event = NotHere /\ owned = NotHere /\ open = NotHere /\ wasted = NotHere
OnlyPreview ==
  /\ up = NotHere /\ restarts = NotHere /\ stops = NotHere /\ mgr = NotHere
  /\ svc = NotHere /\ known = NotHere /\ error = NotHere /\ stopped = NotHere
  /\ saved = NotHere /\ job = NotHere /\ step = NotHere /\ writing = NotHere
  /\ parent = NotHere /\ orphans = NotHere /\ uses = NotHere /\ ctl = NotHere

SessionsInit == part = "sessions" /\ Init /\ OnlySessions
PartsInit == SessionsInit \/ (part = "preview" /\ View!Init /\ OnlyPreview)

PartsNext ==
  \/ /\ part = "sessions" /\ Next
     /\ UNCHANGED <<part, draft, created, revision, frame, starting, submit,
                    slot, renderer, phase, event, owned, open, wasted>>
  \/ /\ part = "preview" /\ View!Next
     /\ UNCHANGED <<part, up, restarts, stops, mgr, svc, known, error,
                    stopped, saved, job, step, writing, parent, orphans,
                    uses, ctl>>

parts == <<part, up, restarts, stops, mgr, svc, known, status, error, stopped,
           saved, job, step, writing, parent, orphans, uses, active, lease,
           ctl, draft, created, revision, frame, starting, submit, slot,
           renderer, phase, event, owned, open, wasted>>
PartsSpec == PartsInit /\ [][PartsNext]_parts

\* The sessions alone, whose threads go on.
SessionsLiveSpec == SessionsInit /\ [][PartsNext]_parts /\ Fairness
-----------------------------------------------------------------------------
(* What PreviewService assumes of its constants.                           *)
Configured == View!PreviewAssumption /\ View!TargetsApart

ASSUME SessionsAssumption == Configured
-----------------------------------------------------------------------------
(* RunsAlone and ControllerFollowsSession of SimulationSession.            *)
SessionsApart == part = "sessions" => TypeOK /\ RunsAlone /\ ControllerFollowsSession

(* OutcomeHonest and ThreadGoneSessionOver of SimulationSession: what      *)
(* run.json says of a session that is over, and that it says it.           *)
RecordSettled == part = "sessions" => OutcomeHonest /\ ThreadGoneSessionOver

(* SourceKept of SimulationSession.                                        *)
BranchSourceKept == part = "sessions" => SourceKept

(* DrawsUnderLease and LeaseAccounted of PreviewService.                   *)
LeaseMatchesDrawing == part = "preview" => View!LeaseMatchesDrawing

(* ReadyShowsLatest of PreviewService.                                     *)
ReadyShowsLatest == part = "preview" => View!ReadyShowsLatest
=============================================================================
