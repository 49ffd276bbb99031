-------------------------- MODULE MCDevices --------------------------
(***************************************************************************)
(* The devices a person takes over with, in one run: the SpaceMouse        *)
(* service, the reader of its reports, and the FACTR service.  They share  *)
(* no state, so one of them is there at a time (`part`); the variables of  *)
(* the others are NotHere, and variables of one name are one variable.     *)
(***************************************************************************)
EXTENDS SpaceMouseController

CONSTANTS Sessions, MaxClients, NoSession, Nobody, Monitor, Closer,
          Calibrator, Deflection, Deadzone, NeutralMax, Ratio, Exclusive,
          Frames, ConfigFrame, Presses, MaxReports, NotHere

VARIABLES part, clients, calibrated, aligned, unknown, op, gravity, monitor,
          stop, victim, session, worker, closed, quiet, overtaken, reader,
          seq, raw, bias, filtered, command, intent, buttons, gripper, frame,
          pending, use, seen, looked, asked, cut

Factr == INSTANCE FactrController
Input == INSTANCE SpaceMouseInput

OnlyService ==
  /\ clients = NotHere /\ calibrated = NotHere /\ aligned = NotHere
  /\ unknown = NotHere /\ op = NotHere /\ gravity = NotHere
  /\ monitor = NotHere /\ stop = NotHere /\ victim = NotHere
  /\ session = NotHere /\ worker = NotHere /\ closed = NotHere
  /\ quiet = NotHere /\ overtaken = NotHere /\ reader = NotHere
  /\ seq = NotHere /\ raw = NotHere /\ bias = NotHere /\ filtered = NotHere
  /\ command = NotHere /\ intent = NotHere /\ buttons = NotHere
  /\ gripper = NotHere /\ frame = NotHere /\ pending = NotHere
  /\ use = NotHere /\ seen = NotHere /\ looked = NotHere /\ asked = NotHere
  /\ cut = NotHere
OnlyFactr ==
  /\ plugged = NotHere /\ unplugs = NotHere /\ handle = NotHere
  /\ measured = NotHere /\ connected = NotHere /\ cancel = NotHere
  /\ thread = NotHere /\ poll = NotHere /\ cal = NotHere /\ active = NotHere
  /\ overlapped = NotHere /\ overwritten = NotHere /\ reader = NotHere
  /\ seq = NotHere /\ raw = NotHere /\ bias = NotHere /\ filtered = NotHere
  /\ command = NotHere /\ intent = NotHere /\ buttons = NotHere
  /\ gripper = NotHere /\ frame = NotHere /\ pending = NotHere
  /\ use = NotHere /\ seen = NotHere /\ looked = NotHere /\ asked = NotHere
  /\ cut = NotHere
OnlyInput ==
  /\ plugged = NotHere /\ unplugs = NotHere /\ handle = NotHere
  /\ measured = NotHere /\ state = NotHere /\ connected = NotHere
  /\ input = NotHere /\ calibration = NotHere /\ armed = NotHere
  /\ cancel = NotHere /\ thread = NotHere /\ poll = NotHere /\ cal = NotHere
  /\ active = NotHere /\ closing = NotHere /\ overlapped = NotHere
  /\ overwritten = NotHere /\ clients = NotHere /\ calibrated = NotHere
  /\ aligned = NotHere /\ unknown = NotHere /\ op = NotHere
  /\ gravity = NotHere /\ monitor = NotHere /\ stop = NotHere
  /\ victim = NotHere /\ session = NotHere /\ worker = NotHere
  /\ closed = NotHere /\ overtaken = NotHere

PartsInit ==
  \/ part = "service" /\ Init /\ OnlyService
  \/ part = "factr" /\ Factr!Init /\ OnlyFactr
  \/ part = "input" /\ Input!Init /\ OnlyInput

PartsNext ==
  \/ /\ part = "service" /\ Next
     /\ UNCHANGED <<part, clients, calibrated, aligned, unknown, op, gravity,
                    monitor, stop, victim, session, worker, closed, quiet,
                    overtaken, reader, seq, raw, bias, filtered, command,
                    intent, buttons, gripper, frame, pending, use, seen,
                    looked, asked, cut>>
  \/ /\ part = "factr" /\ Factr!Next
     /\ UNCHANGED <<part, plugged, unplugs, handle, measured, connected,
                    cancel, thread, poll, cal, active, overlapped,
                    overwritten, reader, seq, raw, bias, filtered, command,
                    intent, buttons, gripper, frame, pending, use, seen,
                    looked, asked, cut>>
  \/ /\ part = "input" /\ Input!Next
     /\ UNCHANGED <<part, plugged, unplugs, handle, measured, state,
                    connected, input, calibration, armed, cancel, thread,
                    poll, cal, active, closing, overlapped, overwritten,
                    clients, calibrated, aligned, unknown, op, gravity,
                    monitor, stop, victim, session, worker, closed, overtaken>>

parts == <<part, plugged, unplugs, handle, measured, state, connected, input,
           calibration, armed, cancel, thread, poll, cal, active, closing,
           overlapped, overwritten, clients, calibrated, aligned, unknown, op,
           gravity, monitor, stop, victim, session, worker, closed, quiet,
           overtaken, reader, seq, raw, bias, filtered, command, intent,
           buttons, gripper, frame, pending, use, seen, looked, asked, cut>>
factrVars == Factr!vars
PartsSpec ==
  /\ PartsInit /\ [][PartsNext]_parts
  /\ \A p \in Monitors : WF_vars(part = "service" /\ BeginPoll(p))
  /\ \A p \in Judges : WF_vars(part = "service" /\ Polling(p))
  /\ \A h \in Calibrations :
       /\ WF_vars(part = "service" /\ ReaderFails(h))
       /\ WF_vars(part = "service" /\ CalibrationStep(h))
  /\ WF_vars(part = "service" /\ StopClosed)
  /\ \A e \in Factr!Stoppers :
       /\ WF_factrVars(part = "factr" /\ Factr!StopEnters(e))
       /\ SF_factrVars(part = "factr" /\ Factr!StopTakes(e))
       /\ WF_factrVars(part = "factr" /\ Factr!StopCloses(e))
  /\ WF_factrVars(part = "factr" /\ Factr!GravityEnds)
  /\ WF_factrVars(part = "factr" /\ (Factr!CalibrationFails \/ Factr!CalibrationOpens
       \/ Factr!CalibrationCaptures \/ Factr!CalibrationAbandoned \/ Factr!CalibrationSucceeds))
  /\ WF_factrVars(part = "factr" /\ Factr!PollReads)
  /\ WF_factrVars(part = "factr" /\ Factr!PollChecks)
  /\ WF_factrVars(part = "factr" /\ Factr!PollProbes)
-----------------------------------------------------------------------------
ASSUME DevicesAssumption == Factr!FactrAssumption /\ Input!InputAssumption

FiveToFour == <<5, 4>>
-----------------------------------------------------------------------------
(* HandlesOwned and ArmedIsCalibrated of SpaceMouseController.             *)
TakeoverHandleSound == part = "service" => TypeOK /\ ArmedIsCalibrated /\ HandlesOwned

(* Reconnects of SpaceMouseController.                                     *)
DeviceComesBack ==
  <>[](part = "service" /\ plugged /\ ~closing)
    => []<>(part = "service" => state # "DISCONNECTED" \/ overwritten \/ overlapped)

(* MotionIsFresh and SelectionKept of SpaceMouseInput.                     *)
InputIsTheOperators == part = "input" => Input!TypeOK /\ Input!MotionIsFresh /\ Input!SelectionKept

(* FrameSwitchesAtRest of SpaceMouseInput.                                 *)
FrameSwitchesAtRest == [][part = "input" => Input!FrameSwitchesAtRest]_parts

(* OutputAccounted, TakeoverHasClient, OffAfterClose and GivenUpUnknown of *)
(* FactrController.                                                        *)
TorqueAccounted ==
  part = "factr" =>
    /\ Factr!TypeOK /\ Factr!OutputAccounted /\ Factr!TakeoverHasClient
    /\ Factr!OffAfterClose /\ Factr!GivenUpUnknown

(* ErrorEndsOutput of FactrController.                                     *)
ErrorEndsOutput ==
  part = "factr" /\ state = "ERROR" /\ Factr!OutputOn ~> (part = "factr" => ~Factr!OutputOn)
=============================================================================
