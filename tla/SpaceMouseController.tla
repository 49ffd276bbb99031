------------------------ MODULE SpaceMouseController ------------------------
(***************************************************************************)
(* The SpaceMouse service of the web interface                             *)
(* (services/controller_service.py: SpaceMouseControllerService): one      *)
(* state under a lock, written by the threads that poll the device (the    *)
(* monitor, every request for a status or a calibration), by the           *)
(* calibration threads and by the session that has taken over.             *)
(*                                                                         *)
(* A poll reads the state, looks for the device without the lock, and      *)
(* writes what it found whatever has happened since; a handle found dead   *)
(* is judged without the lock too.  What a handle reads is the subject of  *)
(* SpaceMouseInput, and a calibration thread opens one handle of its own,  *)
(* which here bears its name.                                              *)
(***************************************************************************)
EXTENDS FiniteSets, Naturals

CONSTANTS
  Monitors,     \* threads that only poll: the monitor, requests for the status
  Requests,     \* requests for a calibration, which poll first
  Calibrations, \* calibrations that can be started, and the handles they open
  Session,      \* the thread of the session that takes over
  None,
  MaxUnplugs    \* bound: how often the device is away

Pollers == Monitors \cup Requests
Judges == Pollers \cup {Session}

ASSUME SpaceMouseAssumption ==
  /\ Session \notin Pollers /\ Monitors \cap Requests = {}
  /\ None \notin Calibrations
  /\ MaxUnplugs \in Nat \ {0}

VARIABLES
  plugged, unplugs,  \* the device
  handle,      \* of each SpaceMouseInput: unused, open, lost (its device is gone), failed (its reader knows), stopped
  measured,    \* handles whose bias was measured
  state, connected, input, calibration,  \* _state, _connected, _input, _calibration
  armed,       \* _armed_session_id is the session
  cancel,      \* _calibration_cancel
  thread,      \* _calibration_thread
  poll,        \* of each thread that judges: what it does, for which handle, with which answer
  cal,         \* where each calibration thread is
  active,      \* the session is the active one
  closing,     \* close() has been called
  overlapped,  \* two calibrations have run at once
  overwritten  \* a poll wrote that the device is absent after a handle had been opened

vars == <<plugged, unplugs, handle, measured, state, connected, input, calibration, armed, cancel,
          thread, poll, cal, active, closing, overlapped, overwritten>>
device == <<plugged, unplugs, measured>>
ghosts == <<overlapped, overwritten>>

Idle == [at |-> "idle", of |-> None, present |-> FALSE]
Alive == {"starting", "opening", "measuring", "failing", "stopping"}
Dead(h) == handle[h] \in {"failed", "stopped"}
Stop(h) == IF h = None THEN handle ELSE [handle EXCEPT ![h] = "stopped"]

-----------------------------------------------------------------------------
(* The device.  A handle does not survive the cable being pulled; its      *)
(* reader notices when it next reads.                                      *)
Unplug ==
  /\ plugged /\ unplugs < MaxUnplugs
  /\ plugged' = FALSE /\ unplugs' = unplugs + 1
  /\ handle' = [h \in Calibrations |-> IF handle[h] = "open" THEN "lost" ELSE handle[h]]
  /\ UNCHANGED <<measured, state, connected, input, calibration, armed, cancel, thread, poll, cal,
                 active, closing, ghosts>>

Plug ==
  /\ ~plugged /\ plugged' = TRUE
  /\ UNCHANGED <<unplugs, handle, measured, state, connected, input, calibration, armed, cancel,
                 thread, poll, cal, active, closing, ghosts>>

ReaderFails(h) ==
  /\ handle[h] = "lost"
  /\ handle' = [handle EXCEPT ![h] = "failed"]
  /\ UNCHANGED <<device, state, connected, input, calibration, armed, cancel, thread, poll, cal,
                 active, closing, ghosts>>

-----------------------------------------------------------------------------
(* Polls.  A request for a calibration holds the manager's lock from its   *)
(* poll to the start of the thread, and is refused while a session is      *)
(* active, so two of them never overlap.                                   *)
Calibrating == \E p \in Requests : poll[p] # Idle

Polled(p) == IF p \in Requests THEN [Idle EXCEPT !.at = "polled"] ELSE Idle

BeginPoll(p) ==
  /\ poll[p] = Idle /\ ~closing
  /\ p \in Requests => ~Calibrating /\ ~active
  /\ poll' = [poll EXCEPT ![p] =
       IF input # None THEN [Idle EXCEPT !.at = "judging", !.of = input]
       ELSE IF state = "CALIBRATING" THEN Polled(p) ELSE [Idle EXCEPT !.at = "probing"]]
  /\ UNCHANGED <<device, handle, state, connected, input, calibration, armed, cancel, thread, cal,
                 active, closing, ghosts>>

(* SpaceMouseInput.probe lists the devices and opens none.                 *)
Detected == plugged

Probe(p) ==
  /\ poll[p].at = "probing"
  /\ poll' = [poll EXCEPT ![p].at = "probed", ![p].present = Detected]
  /\ UNCHANGED <<device, handle, state, connected, input, calibration, armed, cancel, thread, cal,
                 active, closing, ghosts>>

(* What the probe found is written over whatever the state is by now.      *)
WriteProbe(p) ==
  /\ poll[p].at = "probed"
  /\ poll' = [poll EXCEPT ![p] = Polled(p)]
  /\ connected' = poll[p].present
  /\ IF poll[p].present
     THEN /\ state' = IF state = "DISCONNECTED" \/ ~connected THEN "UNCALIBRATED" ELSE state
          /\ UNCHANGED <<calibration, armed>>
     ELSE /\ state' = "DISCONNECTED" /\ calibration' = None /\ armed' = FALSE
  /\ overwritten' = (overwritten \/ (~poll[p].present /\ (input # None \/ \E w \in Calibrations : cal[w] \in Alive)))
  /\ UNCHANGED <<device, handle, input, cancel, thread, cal, active, closing, overlapped>>

\* mutant: a dead handle stays the service's
KeepDead(p) ==
  /\ poll[p].at = "judging"
  /\ IF Dead(poll[p].of)
     THEN /\ poll' = [poll EXCEPT ![p].at = "stopping", ![p].of = input]
          /\ state' = "DISCONNECTED" /\ connected' = FALSE
          /\ calibration' = None /\ armed' = FALSE
     ELSE /\ poll' = [poll EXCEPT ![p] = Polled(p)]
          /\ UNCHANGED <<state, connected, calibration, armed>>
  /\ UNCHANGED <<device, handle, input, cancel, thread, cal, active, closing, ghosts>>

(* _invalidate_connection takes the handle the service has now, which need *)
(* not be the one that was judged.                                         *)
Judge(p) ==
  /\ poll[p].at = "judging"
  /\ IF Dead(poll[p].of)
     THEN /\ poll' = [poll EXCEPT ![p].at = "stopping", ![p].of = input]
          /\ input' = None /\ state' = "DISCONNECTED" /\ connected' = FALSE
          /\ calibration' = None /\ armed' = FALSE
     ELSE /\ poll' = [poll EXCEPT ![p] = Polled(p)]
          /\ UNCHANGED <<state, connected, input, calibration, armed>>
  /\ UNCHANGED <<device, handle, cancel, thread, cal, active, closing, ghosts>>

StopInvalid(p) ==
  /\ poll[p].at = "stopping"
  /\ handle' = Stop(poll[p].of)
  /\ poll' = [poll EXCEPT ![p] = Polled(p)]
  /\ UNCHANGED <<device, state, connected, input, calibration, armed, cancel, thread, cal, active,
                 closing, ghosts>>

-----------------------------------------------------------------------------
(* Calibrations.                                                           *)
Refused == state \in {"CALIBRATING", "ARMED"} \/ ~connected

RefuseCalibration(p) ==
  /\ poll[p].at = "polled" /\ Refused
  /\ poll' = [poll EXCEPT ![p] = Idle]
  /\ UNCHANGED <<device, handle, state, connected, input, calibration, armed, cancel, thread, cal,
                 active, closing, ghosts>>

StartCalibration(p, w) ==
  /\ poll[p].at = "polled" /\ ~Refused
  /\ cal[w] = "none" /\ w = CHOOSE v \in Calibrations : cal[v] = "none"
  /\ poll' = [poll EXCEPT ![p].at = "replacing", ![p].of = input]
  /\ cal' = [cal EXCEPT ![w] = "starting"]
  /\ input' = None /\ calibration' = None /\ cancel' = FALSE /\ state' = "CALIBRATING"
  /\ overlapped' = (overlapped \/ \E other \in Calibrations : cal[other] \in Alive)
  /\ UNCHANGED <<device, handle, connected, armed, thread, active, closing, overwritten>>

(* The previous handle is stopped before the thread starts.                *)
StartThread(p, w) ==
  /\ poll[p].at = "replacing" /\ cal[w] = "starting"
  /\ handle' = Stop(poll[p].of)
  /\ thread' = w
  /\ cal' = [cal EXCEPT ![w] = "opening"]
  /\ poll' = [poll EXCEPT ![p] = Idle]
  /\ UNCHANGED <<device, state, connected, input, calibration, armed, cancel, active, closing,
                 ghosts>>

(* Opening takes long; the handle is published as soon as it is open.      *)
Open(w) ==
  /\ cal[w] = "opening"
  /\ IF plugged
     THEN /\ handle' = [handle EXCEPT ![w] = "open"]
          /\ input' = w /\ connected' = TRUE
          /\ cal' = [cal EXCEPT ![w] = "measuring"]
     ELSE /\ cal' = [cal EXCEPT ![w] = "failing"]
          /\ UNCHANGED <<handle, input, connected>>
  /\ UNCHANGED <<device, state, calibration, armed, cancel, thread, poll, active, closing, ghosts>>

(* calibrate_until_stable measures the bias, or gives up: cancelled, the   *)
(* handle dead, or never still for long enough.                            *)
FinishCalibration(w) ==
  /\ cal[w] = "measuring" /\ ~Dead(w) /\ ~cancel
  /\ measured' = measured \cup {w}
  /\ cal' = [cal EXCEPT ![w] = "ended"]
  /\ calibration' = w /\ state' = "READY" /\ thread' = None
  /\ UNCHANGED <<plugged, unplugs, handle, connected, input, armed, cancel, poll, active, closing,
                 ghosts>>

GiveUp(w) ==
  /\ cal[w] = "measuring"
  /\ cal' = [cal EXCEPT ![w] = "failing"]
  /\ UNCHANGED <<device, handle, state, connected, input, calibration, armed, cancel, thread, poll,
                 active, closing, ghosts>>

\* mutant: a calibration that fails forgets the handle it opened
LeaveOpen(w) ==
  /\ cal[w] = "failing"
  /\ cal' = [cal EXCEPT ![w] = "stopping"]
  /\ UNCHANGED <<device, handle, state, connected, input, calibration, armed, cancel, thread, poll,
                 active, closing, ghosts>>

StopFailed(w) ==
  /\ cal[w] = "failing"
  /\ handle' = IF handle[w] = "unused" THEN handle ELSE Stop(w)
  /\ cal' = [cal EXCEPT ![w] = "stopping"]
  /\ UNCHANGED <<device, state, connected, input, calibration, armed, cancel, thread, poll, active,
                 closing, ghosts>>

(* The state is written whoever it belongs to by now, the handle only if   *)
(* it is still this thread's.                                              *)
FailCalibration(w) ==
  /\ cal[w] = "stopping"
  /\ cal' = [cal EXCEPT ![w] = "ended"]
  /\ input' = IF input = w THEN None ELSE input
  /\ state' = IF connected THEN "ERROR" ELSE "DISCONNECTED"
  /\ calibration' = None /\ thread' = None
  /\ UNCHANGED <<device, handle, connected, armed, cancel, poll, active, closing, ghosts>>

-----------------------------------------------------------------------------
(* The session.  It becomes active under the manager's lock, so not while  *)
(* a calibration is being requested; arming fails unless the service is    *)
(* ready; what it reads is judged like a poll; it disarms at its end.      *)
Activate ==
  /\ ~active /\ ~closing /\ ~Calibrating
  /\ active' = TRUE
  /\ UNCHANGED <<device, handle, state, connected, input, calibration, armed, cancel, thread, poll,
                 cal, closing, ghosts>>

Armable == state = "READY" /\ input # None /\ calibration # None

Arm ==
  /\ active /\ ~armed /\ Armable
  /\ armed' = TRUE /\ state' = "ARMED"
  /\ UNCHANGED <<device, handle, connected, input, calibration, cancel, thread, poll, cal, active,
                 closing, ghosts>>

Snapshot ==
  /\ active /\ armed /\ state = "ARMED" /\ input # None /\ poll[Session] = Idle
  /\ poll' = [poll EXCEPT ![Session] = [Idle EXCEPT !.at = "judging", !.of = input]]
  /\ UNCHANGED <<device, handle, state, connected, input, calibration, armed, cancel, thread, cal,
                 active, closing, ghosts>>

Disarm ==
  /\ active /\ poll[Session] = Idle
  /\ active' = FALSE /\ armed' = FALSE
  /\ IF ~armed THEN UNCHANGED <<state, connected, calibration>>
     ELSE IF input # None /\ ~Dead(input) /\ calibration # None
     THEN state' = "READY" /\ connected' = TRUE /\ UNCHANGED calibration
     ELSE state' = "DISCONNECTED" /\ connected' = FALSE /\ calibration' = None
  /\ UNCHANGED <<device, handle, input, cancel, thread, poll, cal, closing, ghosts>>

(* close() runs when no request is left; its handle is stopped after the   *)
(* calibration thread was waited for.                                      *)
Close ==
  /\ ~closing /\ ~active /\ \A p \in Judges \ Monitors : poll[p] = Idle
  /\ closing' = TRUE /\ cancel' = TRUE /\ input' = None
  /\ poll' = [poll EXCEPT ![Session] = [Idle EXCEPT !.at = "closing", !.of = input]]
  /\ UNCHANGED <<device, handle, state, connected, calibration, armed, thread, cal, active, ghosts>>

StopClosed ==
  /\ poll[Session].at = "closing" /\ thread = None /\ \A p \in Monitors : poll[p] = Idle
  /\ handle' = Stop(poll[Session].of)
  /\ poll' = [poll EXCEPT ![Session] = Idle]
  /\ UNCHANGED <<device, state, connected, input, calibration, armed, cancel, thread, cal, active,
                 closing, ghosts>>

-----------------------------------------------------------------------------
Init ==
  /\ plugged \in BOOLEAN /\ unplugs = IF plugged THEN 0 ELSE 1
  /\ handle = [h \in Calibrations |-> "unused"] /\ measured = {}
  /\ connected = plugged
  /\ state = IF plugged THEN "UNCALIBRATED" ELSE "DISCONNECTED"
  /\ input = None /\ calibration = None /\ armed = FALSE
  /\ cancel = FALSE /\ thread = None
  /\ poll = [p \in Judges |-> Idle]
  /\ cal = [w \in Calibrations |-> "none"]
  /\ active = FALSE /\ closing = FALSE
  /\ overlapped = FALSE /\ overwritten = FALSE

Polling(p) == Probe(p) \/ WriteProbe(p) \/ Judge(p) \/ StopInvalid(p)
CalibrationStep(w) ==
  Open(w) \/ FinishCalibration(w) \/ GiveUp(w) \/ StopFailed(w)
    \/ FailCalibration(w)
Requested(p) == RefuseCalibration(p) \/ \E w \in Calibrations : StartCalibration(p, w) \/ StartThread(p, w)

Next ==
  \/ Unplug \/ Plug \/ \E h \in Calibrations : ReaderFails(h)
  \/ \E p \in Pollers : BeginPoll(p)
  \/ \E p \in Judges : Polling(p)
  \/ \E p \in Requests : Requested(p)
  \/ \E w \in Calibrations : CalibrationStep(w)
  \/ Activate \/ Arm \/ Snapshot \/ Disarm
  \/ Close \/ StopClosed

(* The monitor polls until the service is closed; a thread that has begun  *)
(* a step of its own ends it, since every wait in it is bounded by a       *)
(* timeout; a reader of a device that is gone gets an error.  Nobody has   *)
(* to plug the device in, to ask for a calibration or to take over.        *)
Fairness ==
  /\ \A p \in Monitors : WF_vars(BeginPoll(p))
  /\ \A p \in Judges : WF_vars(Polling(p))
  /\ \A h \in Calibrations : WF_vars(ReaderFails(h)) /\ WF_vars(CalibrationStep(h))
  /\ WF_vars(StopClosed)

Spec == Init /\ [][Next]_vars /\ Fairness

-----------------------------------------------------------------------------
TypeOK ==
  /\ plugged \in BOOLEAN /\ unplugs \in 0..MaxUnplugs
  /\ handle \in [Calibrations -> {"unused", "open", "lost", "failed", "stopped"}]
  /\ measured \subseteq Calibrations
  /\ state \in {"DISCONNECTED", "UNCALIBRATED", "CALIBRATING", "READY", "ARMED", "ERROR"}
  /\ {input, calibration, thread} \subseteq Calibrations \cup {None}
  /\ {connected, armed, cancel, active, closing, overlapped, overwritten} \subseteq BOOLEAN
  /\ cal \in [Calibrations -> Alive \cup {"none", "ended"}]

(* A takeover moves the robot only with a handle whose rest position was   *)
(* measured ("SpaceMouse must be calibrated before takeover"), whatever    *)
(* polls, replugging and failing calibrations do meanwhile, unless two     *)
(* calibrations have run at once.                                          *)
ArmedIsCalibrated ==
  (state = "ARMED" /\ ~overlapped) => input \in measured /\ calibration = input /\ armed

(* The service owns one handle ("Own one HID handle"): one that is open is *)
(* its own, that of a calibration under way, or about to be stopped by the *)
(* thread that took it, unless two calibrations have run at once.          *)
HandlesOwned ==
  ~overlapped =>
    \A h \in Calibrations : handle[h] \in {"open", "lost", "failed"} =>
      \/ input = h \/ cal[h] \in Alive
      \/ \E p \in Judges : poll[p].of = h /\ poll[p].at \in {"stopping", "replacing", "closing"}

(* Once the cable stays plugged in, the device is usable again: the        *)
(* service does not go on saying that it is disconnected, unless a poll    *)
(* has written so after the device had been opened or two calibrations     *)
(* have run at once.                                                       *)
Reconnects ==
  <>[](plugged /\ ~closing) => []<>(state # "DISCONNECTED" \/ overwritten \/ overlapped)

(* The promise itself, without that exception: a poll that has looked for  *)
(* the device before it was plugged in again, and writes its answer after  *)
(* a calibration has begun, lets a second one begin beside it; the first   *)
(* then makes the service ready with the handle of the second.             *)
TakeoverIsCalibrated == state = "ARMED" => input \in measured

=============================================================================
