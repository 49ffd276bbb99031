--------------------------- MODULE PreviewService ---------------------------
(***************************************************************************)
(* The shared MuJoCo preview of drafts and sessions                        *)
(* (workers/simulation_worker.py: PreviewService, the draft operations of  *)
(* SimulationManager, render_frame, and of a session what it does with its *)
(* preview, the resource lease and resource_owned).                        *)
(*                                                                         *)
(* Frames travel through a queue of one place.  submit() is not atomic     *)
(* (put, and if that is refused get and put again), its callers are the    *)
(* session thread and one short-lived thread per draft revision, and the   *)
(* single consumer puts back a draft's item it could not draw because the  *)
(* lease was taken.                                                        *)
(*                                                                         *)
(* A definition marked "mutant" is a plausible bug: it takes no part in    *)
(* the specification and stands before the definition it would replace.    *)
(***************************************************************************)
EXTENDS Naturals, FiniteSets

CONSTANTS
  Sessions,      \* policy and manual sessions alike
  MaxDrafts,     \* bound: how many drafts are created
  MaxRevisions,  \* bound: previews asked for of one draft
  MaxPreviews,   \* bound: previews asked for of all drafts
  NoSession,     \* active_session_id is None
  NoItem,        \* nothing in the queue, nothing in the renderer's hands
  Nobody, Preview, Replay, Other   \* who holds the resource lease but sessions

PreviewAssumption ==
  /\ NoSession \notin Sessions /\ NoItem \notin Sessions
  /\ MaxDrafts \in Nat /\ MaxRevisions \in Nat \ {0} /\ MaxPreviews \in Nat
  /\ {Nobody, Preview, Replay, Other} \cap Sessions = {}
  /\ Nobody \notin {Preview, Replay, Other}
  /\ Preview \notin {Replay, Other}
  /\ Replay # Other

Drafts == 1..MaxDrafts
Revisions == Drafts \X (1..MaxRevisions)

TargetsApart ==   \* a draft is not a session, and None is neither
  Sessions \cap Revisions = {} /\ NoItem \notin Revisions

ASSUME PreviewConfigured == PreviewAssumption /\ TargetsApart

(* An item of the queue is known by whose state it shows.                  *)
Targets == Revisions \cup Sessions

PreviewStatus == {"none", "PREPARING", "RENDERING", "READY", "ERROR"}
SubmitPc == {"none", "reading", "put", "evict", "retake", "done"}
Phase == {"absent", "queued", "preparing", "awaiting", "running", "ending",
          "disowning", "releasing", "done"}
RendererPc == {"idle", "taken", "drawing", "refused", "stopped"}

VARIABLES
  draft,     \* self.draft, 0 for None
  created,   \* how many drafts there have been
  revision, status, frame,  \* of each draft; frame: the revision latest_jpeg shows
  starting,  \* drafts taken by a start_draft that has not returned
  submit,    \* progress of _prepare_draft and of PreviewService.submit
  slot,      \* the queue of one place
  renderer,  \* the preview thread and its item
  phase, event,  \* of each session; event: preview_event and preview_error
  owned,     \* sessions with resource_owned
  active,    \* active_session_id
  lease,     \* holder of the resource lease
  open,      \* PreviewService.close() has not been called
  wasted     \* history: targets with an item or a frame that was thrown away

draftVars == <<draft, created, revision, status, frame, starting>>
queueVars == <<submit, slot, wasted>>
sessionVars == <<phase, event, owned, active>>
vars == <<draftVars, queueVars, renderer, sessionVars, lease, open>>
-----------------------------------------------------------------------------
(* self.manager.draft is target and target.preview_revision == revision    *)
\* mutant
IsCurrentDraft(d, r) == draft = d
IsCurrent(d, r) == draft = d /\ revision[d] = r

(* _frame_lock: the renderer holds it from the lease to the published      *)
(* frame and while it waits to retry, render_frame for a whole request.    *)
\* mutant
FrameLockIgnored == TRUE
FrameLockFree == renderer.pc \notin {"drawing", "refused"} /\ lease # Replay

(* The bound on previews.                                                  *)
MorePreviews == Cardinality({x \in Revisions : submit[x] # "none"}) < MaxPreviews

Idle == [pc |-> "idle", item |-> NoItem]
-----------------------------------------------------------------------------
(***************************************************************************)
(* Drafts.                                                                 *)
(***************************************************************************)
CreateDraft ==
  /\ open /\ active = NoSession /\ created < MaxDrafts /\ MorePreviews
  /\ created' = created + 1
  /\ draft' = created'
  /\ revision' = [revision EXCEPT ![created'] = 1]
  /\ status' = [status EXCEPT ![created'] = "PREPARING"]
  /\ submit' = [submit EXCEPT ![<<created', 1>>] = "reading"]
  /\ UNCHANGED <<frame, starting, slot, wasted, renderer, sessionVars, lease, open>>

(* An update of the task, the seed or the initial state; others leave the  *)
(* preview as it is.                                                       *)
UpdateDraft ==
  /\ open /\ active = NoSession /\ draft # 0 /\ revision[draft] < MaxRevisions /\ MorePreviews
  /\ revision' = [revision EXCEPT ![draft] = @ + 1]
  /\ status' = [status EXCEPT ![draft] = "PREPARING"]
  /\ submit' = [submit EXCEPT ![<<draft, revision[draft] + 1>>] = "reading"]
  /\ UNCHANGED <<draft, created, frame, starting, slot, wasted, renderer, sessionVars,
                 lease, open>>

DiscardDraft ==
  /\ open /\ draft # 0
  /\ draft' = 0
  /\ UNCHANGED <<created, revision, status, frame, starting, queueVars, renderer,
                 sessionVars, lease, open>>

(* start_draft takes the draft away, registers a session and puts the      *)
(* draft back if that fails and no other has been created meanwhile.       *)
StartDraft ==
  /\ open /\ active = NoSession /\ draft # 0
  /\ starting' = starting \cup {draft}
  /\ draft' = 0
  /\ UNCHANGED <<created, revision, status, frame, queueVars, renderer, sessionVars, lease, open>>

DraftStarted(d, s) ==
  /\ d \in starting /\ phase[s] = "absent"
  /\ starting' = starting \ {d}
  /\ phase' = [phase EXCEPT ![s] = "queued"]
  /\ UNCHANGED <<draft, created, revision, status, frame, queueVars, renderer, event, owned,
                 active, lease, open>>

StartFailed(d) ==
  /\ d \in starting
  /\ starting' = starting \ {d}
  /\ draft' = IF draft = 0 THEN d ELSE draft
  /\ UNCHANGED <<created, revision, status, frame, queueVars, renderer, sessionVars, lease, open>>
-----------------------------------------------------------------------------
(***************************************************************************)
(* _prepare_draft, a thread for each revision.                             *)
(***************************************************************************)
Prepare(d, r) ==
  /\ submit[<<d, r>>] = "reading"
  /\ IF IsCurrent(d, r)
       THEN /\ status' = [status EXCEPT ![d] = "RENDERING"]
            /\ submit' = [submit EXCEPT ![<<d, r>>] = "put"]
            /\ UNCHANGED wasted
       ELSE /\ submit' = [submit EXCEPT ![<<d, r>>] = "done"]
            /\ wasted' = wasted \cup {<<d, r>>}
            /\ UNCHANGED status
  /\ UNCHANGED <<draft, created, revision, frame, starting, slot, renderer, sessionVars, lease,
                 open>>

PrepareFails(d, r) ==
  /\ submit[<<d, r>>] = "reading"
  /\ submit' = [submit EXCEPT ![<<d, r>>] = "done"]
  /\ IF IsCurrent(d, r)
       THEN status' = [status EXCEPT ![d] = "ERROR"] /\ UNCHANGED wasted
       ELSE wasted' = wasted \cup {<<d, r>>} /\ UNCHANGED status
  /\ UNCHANGED <<draft, created, revision, frame, starting, slot, renderer, sessionVars, lease,
                 open>>

(***************************************************************************)
(* submit(): put_nowait; if the place is taken get_nowait and put_nowait   *)
(* again, the item being dropped if another was faster.                    *)
(***************************************************************************)
Put(x) ==
  /\ submit[x] = "put"
  /\ IF slot = NoItem
       THEN slot' = x /\ submit' = [submit EXCEPT ![x] = "done"]
       ELSE submit' = [submit EXCEPT ![x] = "evict"] /\ UNCHANGED slot
  /\ UNCHANGED <<draftVars, wasted, renderer, sessionVars, lease, open>>

Evict(x) ==
  /\ submit[x] = "evict"
  /\ slot' = NoItem
  /\ wasted' = wasted \cup ({slot} \ {NoItem, x})
  /\ submit' = [submit EXCEPT ![x] = "retake"]
  /\ UNCHANGED <<draftVars, renderer, sessionVars, lease, open>>

Retake(x) ==
  /\ submit[x] = "retake"
  /\ IF slot = NoItem
       THEN slot' = x /\ UNCHANGED wasted
       ELSE wasted' = wasted \cup {x} /\ UNCHANGED slot
  /\ submit' = [submit EXCEPT ![x] = "done"]
  /\ UNCHANGED <<draftVars, renderer, sessionVars, lease, open>>
-----------------------------------------------------------------------------
(***************************************************************************)
(* The preview thread.                                                     *)
(***************************************************************************)
Take ==
  /\ renderer.pc = "idle" /\ open /\ slot # NoItem
  /\ renderer' = [pc |-> "taken", item |-> slot]
  /\ slot' = NoItem
  /\ UNCHANGED <<draftVars, submit, wasted, sessionVars, lease, open>>

(* After the frame-rate delay only the newest item is kept.                *)
Drain ==
  /\ renderer.pc = "taken" /\ slot # NoItem
  /\ renderer' = [renderer EXCEPT !.item = slot]
  /\ wasted' = wasted \cup ({renderer.item} \ {slot})
  /\ slot' = NoItem
  /\ UNCHANGED <<draftVars, submit, sessionVars, lease, open>>

(* Under _frame_lock: a session's frame is drawn under the session's own   *)
(* lease and dropped if it has given it up, a draft's under a lease of the *)
(* preview's own.                                                          *)
BeginSession ==
  /\ renderer.pc = "taken" /\ FrameLockFree /\ renderer.item \in Sessions
  /\ renderer' = IF renderer.item \in owned THEN [renderer EXCEPT !.pc = "drawing"] ELSE Idle
  /\ UNCHANGED <<draftVars, queueVars, sessionVars, lease, open>>

BeginDraft ==
  /\ renderer.pc = "taken" /\ FrameLockFree /\ renderer.item \in Revisions
  /\ lease = Nobody
  /\ lease' = Preview
  /\ renderer' = [renderer EXCEPT !.pc = "drawing"]
  /\ UNCHANGED <<draftVars, queueVars, sessionVars, open>>

(* ConflictError: the lease is taken.  The item of a draft that is still   *)
(* the current one will be tried again.                                    *)
RefuseDraft ==
  /\ renderer.pc = "taken" /\ FrameLockFree /\ renderer.item \in Revisions
  /\ lease # Nobody
  /\ IF draft = renderer.item[1]
       THEN renderer' = [renderer EXCEPT !.pc = "refused"] /\ UNCHANGED wasted
       ELSE renderer' = Idle /\ wasted' = wasted \cup {renderer.item}
  /\ UNCHANGED <<draftVars, submit, slot, sessionVars, lease, open>>

(* "A retry must never evict a newer session's first frame."               *)
\* mutant
RetryEvicting ==
  /\ renderer.pc = "refused"
  /\ renderer' = Idle
  /\ slot' = renderer.item
  /\ UNCHANGED <<draftVars, submit, wasted, sessionVars, lease, open>>

Retry ==
  /\ renderer.pc = "refused"
  /\ renderer' = Idle
  /\ IF slot = NoItem
       THEN slot' = renderer.item /\ UNCHANGED wasted
       ELSE wasted' = wasted \cup {renderer.item} /\ UNCHANGED slot
  /\ UNCHANGED <<draftVars, submit, sessionVars, lease, open>>

(* The frame is published under the manager's lock, then the preview's own *)
(* lease and _frame_lock are given back.                                   *)

DrawDraft(d, r) ==
  /\ renderer = [pc |-> "drawing", item |-> <<d, r>>]
  /\ IF IsCurrent(d, r)
       THEN \/ status' = [status EXCEPT ![d] = "READY"] /\ frame' = [frame EXCEPT ![d] = r]
            \/ status' = [status EXCEPT ![d] = "ERROR"] /\ UNCHANGED frame
       ELSE UNCHANGED <<status, frame>>
  /\ wasted' = IF IsCurrent(d, r) THEN wasted ELSE wasted \cup {<<d, r>>}
  /\ renderer' = Idle
  /\ lease' = Nobody
  /\ UNCHANGED <<draft, created, revision, starting, submit, slot, sessionVars, open>>

DrawSession(s) ==
  /\ renderer = [pc |-> "drawing", item |-> s]
  /\ \E outcome \in {"frame", "error"} : event' = [event EXCEPT ![s] = outcome]
  /\ renderer' = Idle
  /\ UNCHANGED <<draftVars, queueVars, phase, owned, active, lease, open>>

(* The application shuts down when its requests have returned and the      *)
(* sessions that had begun are over; close() waits for this thread's end.  *)
Close ==
  /\ open /\ starting = {} /\ lease # Replay
  /\ \A s \in Sessions : phase[s] \in {"absent", "queued", "done"}
  /\ open' = FALSE
  /\ UNCHANGED <<draftVars, queueVars, renderer, sessionVars, lease>>

Stop ==
  /\ ~open /\ renderer.pc \in {"idle", "taken"}
  /\ renderer' = [pc |-> "stopped", item |-> NoItem]
  /\ UNCHANGED <<draftVars, queueVars, sessionVars, lease, open>>
-----------------------------------------------------------------------------
(***************************************************************************)
(* A session as the preview sees it.                                       *)
(***************************************************************************)
CreateSession(s) ==
  /\ open /\ phase[s] = "absent"
  /\ phase' = [phase EXCEPT ![s] = "queued"]
  /\ UNCHANGED <<draftVars, queueVars, renderer, event, owned, active, lease, open>>

Acquire(s) ==
  /\ open /\ phase[s] = "queued" /\ lease = Nobody /\ active = NoSession
  /\ lease' = s
  /\ owned' = owned \cup {s}
  /\ active' = s
  /\ phase' = [phase EXCEPT ![s] = "preparing"]
  /\ UNCHANGED <<draftVars, queueVars, renderer, event, open>>

SubmitFirst(s) ==
  /\ phase[s] = "preparing"
  /\ event' = [event EXCEPT ![s] = "clear"]
  /\ submit' = [submit EXCEPT ![s] = "put"]
  /\ phase' = [phase EXCEPT ![s] = "awaiting"]
  /\ UNCHANGED <<draftVars, slot, wasted, renderer, owned, active, lease, open>>

(* preview_event.wait(20.0)                                                *)
FirstShown(s) ==
  /\ phase[s] = "awaiting" /\ submit[s] = "done" /\ event[s] # "clear"
  /\ phase' = [phase EXCEPT ![s] = IF event[s] = "frame" THEN "running" ELSE "ending"]
  /\ UNCHANGED <<draftVars, queueVars, renderer, event, owned, active, lease, open>>

FirstTimesOut(s) ==
  /\ phase[s] = "awaiting" /\ submit[s] = "done" /\ event[s] = "clear"
  /\ phase' = [phase EXCEPT ![s] = "ending"]
  /\ UNCHANGED <<draftVars, queueVars, renderer, event, owned, active, lease, open>>

Transition(s) ==
  /\ phase[s] = "running" /\ submit[s] = "done"
  /\ submit' = [submit EXCEPT ![s] = "put"]
  /\ UNCHANGED <<draftVars, slot, wasted, renderer, sessionVars, lease, open>>

(* Any failure of the preparation, or the end of the control loop.         *)
RunEnds(s) ==
  /\ phase[s] \in {"preparing", "running"} /\ submit[s] \in {"none", "done"}
  /\ phase' = [phase EXCEPT ![s] = "ending"]
  /\ UNCHANGED <<draftVars, queueVars, renderer, event, owned, active, lease, open>>

Deactivate(s) ==
  /\ phase[s] = "ending"
  /\ active' = NoSession
  /\ phase' = [phase EXCEPT ![s] = "disowning"]
  /\ UNCHANGED <<draftVars, queueVars, renderer, event, owned, lease, open>>

Disown(s) ==
  /\ phase[s] = "disowning" /\ FrameLockFree
  /\ owned' = owned \ {s}
  /\ phase' = [phase EXCEPT ![s] = "releasing"]
  /\ UNCHANGED <<draftVars, queueVars, renderer, event, active, lease, open>>

Release(s) ==
  /\ phase[s] = "releasing"
  /\ lease' = Nobody
  /\ phase' = [phase EXCEPT ![s] = "done"]
  /\ UNCHANGED <<draftVars, queueVars, renderer, event, owned, active, open>>

(* render_frame of a finished trajectory, and any other work.              *)
ReplayBegins ==
  /\ open /\ FrameLockFree /\ lease = Nobody
  /\ lease' = Replay
  /\ UNCHANGED <<draftVars, queueVars, renderer, sessionVars, open>>

OtherBegins ==
  /\ lease = Nobody
  /\ lease' = Other
  /\ UNCHANGED <<draftVars, queueVars, renderer, sessionVars, open>>

WorkEnds ==
  /\ lease \in {Replay, Other}
  /\ lease' = Nobody
  /\ UNCHANGED <<draftVars, queueVars, renderer, sessionVars, open>>
-----------------------------------------------------------------------------
Init ==
  /\ draft = 0 /\ created = 0 /\ starting = {}
  /\ revision = [d \in Drafts |-> 0]
  /\ status = [d \in Drafts |-> "none"]
  /\ frame = [d \in Drafts |-> 0]
  /\ submit = [x \in Targets |-> "none"]
  /\ slot = NoItem /\ wasted = {}
  /\ renderer = Idle
  /\ phase = [s \in Sessions |-> "absent"]
  /\ event = [s \in Sessions |-> "clear"]
  /\ owned = {} /\ active = NoSession
  /\ lease = Nobody
  /\ open = TRUE

DraftOperation ==
  \/ CreateDraft \/ UpdateDraft \/ DiscardDraft \/ StartDraft
  \/ \E d \in Drafts : StartFailed(d) \/ (\E s \in Sessions : DraftStarted(d, s))

Preparation(d, r) == Prepare(d, r) \/ PrepareFails(d, r)
Submission(x) == Put(x) \/ Evict(x) \/ Retake(x)
Drawing == (\E d \in Drafts, r \in 1..MaxRevisions : DrawDraft(d, r))
             \/ \E s \in Sessions : DrawSession(s)
Rendering == Take \/ Drain \/ BeginSession \/ BeginDraft \/ RefuseDraft \/ Retry \/ Drawing \/ Stop

SessionStep(s) ==
  \/ CreateSession(s) \/ Acquire(s) \/ SubmitFirst(s) \/ FirstShown(s) \/ FirstTimesOut(s)
  \/ Transition(s) \/ RunEnds(s) \/ Deactivate(s) \/ Disown(s) \/ Release(s)

Next ==
  \/ DraftOperation
  \/ \E d \in Drafts, r \in 1..MaxRevisions : Preparation(d, r)
  \/ \E x \in Targets : Submission(x)
  \/ Rendering \/ Close
  \/ \E s \in Sessions : SessionStep(s)
  \/ ReplayBegins \/ OtherBegins \/ WorkEnds

(* Threads that have something to do go on; users do as they please.  A    *)
(* wait for the first frame times out and a run ends, some day.            *)
Fairness ==
  /\ \A d \in Drafts, r \in 1..MaxRevisions : WF_vars(Preparation(d, r))
  /\ \A x \in Targets : WF_vars(Submission(x))
  /\ WF_vars(Rendering)
  /\ \A s \in Sessions :
       /\ WF_vars(SubmitFirst(s) \/ FirstShown(s)) /\ WF_vars(RunEnds(s))
       /\ WF_vars(Deactivate(s)) /\ SF_vars(Disown(s)) /\ WF_vars(Release(s))
  /\ WF_vars(WorkEnds)

Spec == Init /\ [][Next]_vars /\ Fairness
-----------------------------------------------------------------------------
TypeOK ==
  /\ draft \in 0..MaxDrafts /\ created \in 0..MaxDrafts /\ starting \subseteq Drafts
  /\ revision \in [Drafts -> 0..MaxRevisions]
  /\ status \in [Drafts -> PreviewStatus]
  /\ frame \in [Drafts -> 0..MaxRevisions]
  /\ submit \in [Targets -> SubmitPc]
  /\ slot \in Targets \cup {NoItem}
  /\ renderer \in [pc : RendererPc, item : Targets \cup {NoItem}]
  /\ phase \in [Sessions -> Phase]
  /\ event \in [Sessions -> {"clear", "frame", "error"}]
  /\ owned \subseteq Sessions
  /\ active \in Sessions \cup {NoSession}
  /\ lease \in Sessions \cup {Nobody, Preview, Replay, Other}
  /\ open \in BOOLEAN
  /\ wasted \subseteq Targets

(* MuJoCo draws a preview only under the resource lease: a draft's under   *)
(* the preview's own, a session's while that session still holds it, be it *)
(* ending or timed out; resource_owned is taken back under _frame_lock     *)
(* before the lease is released.                                           *)
DrawsUnderLease ==
  renderer.pc = "drawing" =>
    lease = IF renderer.item \in Sessions THEN renderer.item ELSE Preview

(* A draft that says READY shows its latest revision, however many         *)
(* preparations of older ones are still under way and whichever of them    *)
(* the queue kept.                                                         *)
ReadyShowsLatest ==
  \A d \in Drafts : status[d] = "READY" => frame[d] = revision[d]

(* The lease is never left behind: whoever draws, runs or replays has it,  *)
(* and a finished renderer or session does not.                            *)
LeaseAccounted ==
  /\ \A s \in Sessions : lease = s <=> phase[s] \in {"preparing", "awaiting", "running",
                                                     "ending", "disowning", "releasing"}
  /\ lease = Preview <=> renderer.pc = "drawing" /\ renderer.item \in Revisions

(* The lease and what is drawn agree.                                      *)
LeaseMatchesDrawing == TypeOK /\ DrawsUnderLease /\ LeaseAccounted

(* A session whose submit() has put its first frame into the queue waits   *)
(* in vain only if another submit() or the drain threw it away.  A retry   *)
(* alone never does ("A retry must never evict a newer session's first     *)
(* frame."), though it can win the place from a submit() that has just     *)
(* evicted an item to make room for the frame (Retake).                    *)
FirstFrameComes ==
  \A s \in Sessions :
    phase[s] = "awaiting" /\ event[s] = "clear"
      ~> phase[s] # "awaiting" \/ event[s] # "clear" \/ s \in wasted

(* The preview of the current draft settles once other work leaves the     *)
(* lease alone, unless its item or its frame was thrown away: nobody gives *)
(* up retrying.  (What was thrown away is not asked for again: the draft   *)
(* then says RENDERING until its next change.)                             *)
PreviewSettled ==
  \/ draft = 0 \/ status[draft] \in {"READY", "ERROR"} \/ ~open
  \/ <<draft, revision[draft]>> \in wasted
DraftPreviewSettles == <>[](lease \in {Nobody, Preview}) => []<>PreviewSettled

(* Neither a first frame nor the preview of a draft is waited for in vain. *)
PreviewsCome == FirstFrameComes /\ DraftPreviewSettles
=============================================================================
