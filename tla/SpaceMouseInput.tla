-------------------------- MODULE SpaceMouseInput --------------------------
(***************************************************************************)
(* One handle on the SpaceMouse (devices/spacemouse.py: SpaceMouseInput,   *)
(* SpaceMouseTransform; devices/spacemouse_intent.py): a reader thread     *)
(* that turns reports into commands, the calibration that measures the     *)
(* rest position, and the session that arms the handle, asks for control   *)
(* frames and reads the latest command (workers/simulation_worker.py).     *)
(*                                                                         *)
(* The six axes are the two groups the code distinguishes.  A report gives *)
(* each group a deflection; a command is known by the oldest report that   *)
(* still contributes to it through the smoothing, 0 when it is zero.       *)
(***************************************************************************)
EXTENDS Integers

CONSTANTS
  Deflection,        \* what a group may report
  Deadzone, NeutralMax,
  Ratio,             \* intent_switch_ratio, as a pair numerator, denominator
  Exclusive,         \* motion_mode is exclusive, not combined
  Frames, ConfigFrame,
  None,
  Presses,           \* sets of the buttons "left" and "right" that may be down
  MaxReports         \* bound: reports of the device

Groups == {"translation", "rotation"}

InputAssumption ==
  /\ Deflection \subseteq Nat /\ 0 \in Deflection
  /\ {Deadzone, NeutralMax, MaxReports} \subseteq Nat
  /\ Ratio[1] \in Nat /\ Ratio[2] \in Nat \ {0} /\ Ratio[1] >= Ratio[2]
  /\ Exclusive \in BOOLEAN /\ {} \in Presses
  /\ {ConfigFrame, "world"} \subseteq Frames /\ None \notin Frames

VARIABLES
  reader,    \* the reader thread: running, failed, stopped
  seq,       \* _sequence
  raw, bias, \* _raw_axes, transform.bias
  filtered, command,  \* transform.filtered, _command_axes
  intent,    \* transform.intent.selected
  buttons, gripper,
  frame, pending,     \* _control_frame, _pending_control_frame
  quiet,     \* the latest report is stale_timeout_ms old, or there is none
  use,       \* opened, calibrating, ready, armed, gone
  seen, looked,  \* reports the calibration has collected, and the latest one it has looked at
  asked,     \* manual_requested_control_frame of the session
  cut        \* of each group the last report that must not move the robot any more

vars == <<reader, seq, raw, bias, filtered, command, intent, buttons, gripper, frame, pending,
          quiet, use, seen, looked, asked, cut>>

Zero == [g \in Groups |-> 0]
Distance(r, g) == IF r[g] >= bias[g] THEN r[g] - bias[g] ELSE bias[g] - r[g]
Strength(r, g) == IF Distance(r, g) > Deadzone THEN Distance(r, g) - Deadzone ELSE 0
AtRest(r) == \A g \in Groups : Distance(r, g) <= Deadzone

(* SpaceMouseIntent.apply: a clear winner takes over, otherwise the group  *)
(* that moves goes on.                                                     *)
Exceeds(r, g, other) == Strength(r, g) * Ratio[2] > Ratio[1] * Strength(r, other)

Selected(r, before) ==
  IF \A g \in Groups : Strength(r, g) = 0 THEN "idle"
  ELSE IF ~Exclusive THEN "combined"
  ELSE IF Exceeds(r, "translation", "rotation") THEN "translation"
  ELSE IF Exceeds(r, "rotation", "translation") THEN "rotation"
  ELSE before

Moves(r, sel) == {g \in Groups : Strength(r, g) > 0 /\ sel \in {g, "combined"}}

(* The smoothing forgets a group that is let go or loses, and otherwise    *)
(* mixes the report into what it has.                                      *)
\* mutant: the smoothing keeps what it has of a group that loses
SmoothAll(old, moving, n) ==
  [g \in Groups |-> IF old[g] # 0 THEN old[g] ELSE IF g \in moving THEN n ELSE 0]

Smooth(old, moving, n) ==
  [g \in Groups |-> IF g \notin moving THEN 0 ELSE IF old[g] # 0 THEN old[g] ELSE n]

-----------------------------------------------------------------------------
(* A report.  After silence the smoothing starts afresh, and a frame that  *)
(* was asked for is taken when the report shows the cap at rest.           *)
\* mutant: a frame is taken at the next report, whatever it shows
SwitchesAtOnce(r) == pending # None

Switches(r) == pending # None /\ AtRest(r)

Report(r, pressed) ==
  LET fresh == (quiet /\ seq > 0) \/ Switches(r)
      before == IF fresh THEN "idle" ELSE intent
      sel == Selected(r, before)
      out == Smooth(IF fresh THEN Zero ELSE filtered, Moves(r, sel), seq + 1)
  IN
  /\ reader = "running" /\ seq < MaxReports
  /\ frame' = IF Switches(r) THEN pending ELSE frame
  /\ pending' = IF Switches(r) THEN None ELSE pending
  /\ intent' = sel /\ filtered' = out /\ command' = out
  /\ gripper' = IF "left" \in pressed \ buttons THEN -1
                ELSE IF "right" \in pressed \ buttons THEN 1 ELSE gripper
  /\ raw' = r /\ buttons' = pressed /\ seq' = seq + 1 /\ quiet' = FALSE
  /\ cut' = [g \in Groups |-> IF g \notin Moves(r, sel) THEN seq + 1
                              ELSE IF quiet THEN seq ELSE cut[g]]
  /\ UNCHANGED <<reader, bias, use, seen, looked, asked>>

Silence ==
  /\ ~quiet /\ quiet' = TRUE
  /\ UNCHANGED <<reader, seq, raw, bias, filtered, command, intent, buttons, gripper, frame, pending,
                 use, seen, looked, asked, cut>>

ResetFilter == filtered' = Zero /\ intent' = "idle"

ReaderFails ==
  /\ reader = "running" /\ reader' = "failed"
  /\ command' = Zero /\ ResetFilter
  /\ UNCHANGED <<seq, raw, bias, buttons, gripper, frame, pending, quiet, use, seen, looked, asked, cut>>

(* A handle that was stopped is never used again.                          *)
Stop ==
  /\ reader # "stopped" /\ reader' = "stopped" /\ use' = "gone"
  /\ command' = Zero /\ ResetFilter
  /\ UNCHANGED <<seq, raw, bias, buttons, gripper, frame, pending, quiet, seen, looked, asked, cut>>

(* latest_snapshot: what anybody reads is zero when the report is stale or *)
(* the device gone, and reading it then resets the smoothing.              *)
Given == IF quiet \/ reader # "running" THEN Zero ELSE command

Snapshot ==
  /\ quiet \/ reader # "running"
  /\ ResetFilter
  /\ UNCHANGED <<reader, seq, raw, bias, command, buttons, gripper, frame, pending, quiet, use,
                 seen, looked, asked, cut>>

-----------------------------------------------------------------------------
(* The calibration looks at the latest report again and again, and what it *)
(* has collected is worth nothing once the cap has moved.  The device may  *)
(* be silent at rest: then the report at hand is the sample.               *)
Moved == \E g \in Groups : raw[g] > NeutralMax
Seen == IF seq # looked THEN seen \cup {raw} ELSE seen

BeginCalibration ==
  /\ use = "opened" /\ use' = "calibrating"
  /\ looked' = seq
  /\ UNCHANGED <<reader, seq, raw, bias, filtered, command, intent, buttons, gripper, frame, pending,
                 quiet, seen, asked, cut>>

Look ==
  /\ use = "calibrating" /\ reader = "running"
  /\ seen' = IF Moved THEN {} ELSE Seen
  /\ looked' = seq
  /\ UNCHANGED <<reader, seq, raw, bias, filtered, command, intent, buttons, gripper, frame, pending,
                 quiet, use, asked, cut>>

(* SpaceMouseTransform.calibrate: the bias is the median of each group, so *)
(* it lies between two of its values.                                      *)
Medians(samples) ==
  {b \in [Groups -> Deflection] :
     \A g \in Groups : \E low, high \in samples : b[g] \in low[g]..high[g]}

(* The report at hand is turned into a command, and reset_for_arm forgets  *)
(* it.                                                                     *)
Calibrate ==
  /\ use = "calibrating" /\ reader = "running" /\ ~Moved
  /\ LET samples == IF Seen = {} THEN {raw} ELSE Seen
     IN  bias' \in Medians(samples)
  /\ use' = "ready" /\ seen' = {} /\ looked' = 0
  /\ command' = Zero /\ ResetFilter /\ pending' = None /\ gripper' = -1
  /\ cut' = [g \in Groups |-> seq]
  /\ UNCHANGED <<reader, seq, raw, buttons, frame, quiet, asked>>

-----------------------------------------------------------------------------
(* The session: manual_settings and arming share the manager's lock.  The  *)
(* handle takes the frame at once when the cap is at rest.                 *)
RequestControlFrame(f) ==
  LET wanted == IF f # frame THEN f ELSE None
      switch == wanted # None /\ reader = "running" /\ AtRest(raw)
  IN  IF switch
      THEN /\ frame' = f /\ pending' = None /\ command' = Zero /\ ResetFilter
           /\ cut' = [g \in Groups |-> seq]
      ELSE pending' = wanted /\ UNCHANGED <<frame, command, filtered, intent, cut>>

ManualSettings(f) ==
  /\ asked' = f
  /\ IF use = "armed" THEN RequestControlFrame(f)
     ELSE UNCHANGED <<frame, pending, command, filtered, intent, cut>>
  /\ UNCHANGED <<reader, seq, raw, bias, buttons, gripper, quiet, use, seen, looked>>

Arm(grip) ==
  /\ use = "ready" /\ use' = "armed"
  /\ frame' = asked /\ pending' = None /\ gripper' = grip
  /\ command' = Zero /\ ResetFilter
  /\ cut' = [g \in Groups |-> seq]
  /\ UNCHANGED <<reader, seq, raw, bias, buttons, quiet, seen, looked, asked>>

Disarm ==
  /\ use = "armed"
  /\ use' = IF reader = "running" THEN "ready" ELSE "gone"
  /\ pending' = None /\ gripper' = -1
  /\ command' = Zero /\ ResetFilter
  /\ asked' = "world"
  /\ UNCHANGED <<reader, seq, raw, bias, buttons, frame, quiet, seen, looked, cut>>

-----------------------------------------------------------------------------
Init ==
  /\ reader = "running" /\ seq = 0
  /\ raw = Zero /\ bias = Zero /\ filtered = Zero /\ command = Zero
  /\ intent = "idle" /\ buttons = {} /\ gripper = -1
  /\ frame = ConfigFrame /\ pending = None
  /\ quiet = TRUE /\ use = "opened" /\ seen = {} /\ looked = 0
  /\ asked = "world" /\ cut = Zero

Next ==
  \/ \E r \in [Groups -> Deflection], pressed \in Presses : Report(r, pressed)
  \/ Silence \/ ReaderFails \/ Stop \/ Snapshot
  \/ BeginCalibration \/ Look \/ Calibrate
  \/ \E f \in Frames : ManualSettings(f)
  \/ \E grip \in {-1, 1} : Arm(grip)
  \/ Disarm

Spec == Init /\ [][Next]_vars

-----------------------------------------------------------------------------
TypeOK ==
  /\ reader \in {"running", "failed", "stopped"} /\ use \in {"opened", "calibrating", "ready", "armed", "gone"}
  /\ {raw, bias} \subseteq [Groups -> Deflection]
  /\ {filtered, command, cut} \subseteq [Groups -> 0..MaxReports]
  /\ intent \in Groups \cup {"idle", "combined"}
  /\ buttons \in Presses /\ gripper \in {-1, 1}
  /\ {frame, asked} \subseteq Frames /\ pending \in Frames \cup {None}

(* What a session is given depends only on reports since it took over,     *)
(* since the frame was switched, since the device was last silent and      *)
(* since the group last rested or lost; and in exclusive mode it moves one *)
(* group at a time ("A returning report must not inherit an old intent or  *)
(* smoothed command").                                                     *)
MotionIsFresh ==
  use = "armed" =>
    /\ \A g \in Groups : Given[g] # 0 => Given[g] > cut[g]
    /\ Exclusive => \E g \in Groups : Given[g] = 0
    /\ quiet => Given = Zero

(* The frame of control changes under a session only while the cap is      *)
(* known to be at rest, and nothing moves then.                            *)
FrameSwitchesAtRest ==
  (use = "armed" /\ use' = "armed" /\ frame' # frame) => AtRest(raw') /\ command' = Zero

(* A frame that was chosen is not lost, whenever it is chosen: before the  *)
(* takeover, while it is being armed or during it, it is in force or       *)
(* waits for the cap to rest.                                              *)
SelectionKept ==
  use = "armed" => asked = IF pending # None THEN pending ELSE frame

=============================================================================
