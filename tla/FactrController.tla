---------------------------- MODULE FactrController ----------------------------
(***************************************************************************)
(* The FACTR leader arm as the backend drives it: the controller service   *)
(* (services/factr_controller_service.py), the client that owns the        *)
(* isolated runtime process (devices/factr_client.py) and, as far as they  *)
(* see it, that process and the motors.                                    *)
(*                                                                         *)
(* The service has two locks.  A region under _lock is one step; _operation*)
(* is held over calls to the client, by op.  emergency_stop is called by   *)
(* the monitor, by sessions, by a calibration that fails and by close(),   *)
(* and writes ERROR before it waits for _operation, so that it meets every *)
(* operation half done.                                                    *)
(*                                                                         *)
(* A definition marked "mutant" is a plausible bug: it takes no part in    *)
(* the specification and stands before the definition it would replace.    *)
(***************************************************************************)
EXTENDS Naturals

CONSTANTS
  Sessions,                      \* simulation sessions that take over with FACTR
  MaxClients,                    \* bound: runtime processes started
  NoSession, Nobody,
  Monitor, Closer, Calibrator    \* who calls emergency_stop, but sessions

Stoppers == Sessions \cup {Monitor, Closer, Calibrator}

FactrAssumption ==
  /\ MaxClients \in Nat
  /\ NoSession \notin Sessions /\ Nobody \notin Stoppers
  /\ Monitor \notin Sessions /\ Closer \notin Sessions /\ Calibrator \notin Sessions
  /\ Monitor # Closer /\ Monitor # Calibrator /\ Closer # Calibrator
  /\ "gravity" \notin Stoppers \cup {Nobody}

Clients == 1..MaxClients
NoClient == 0

State == {"DISCONNECTED", "UNCALIBRATED", "CALIBRATING", "READY", "ALIGNING", "ARMED", "ERROR"}

(* The runtime process of a client: alive with its motors off or on, or    *)
(* ended, the motors read back as OFF ("stopped") or not: "lost" if they   *)
(* had been off, "lost on" if they had been on.                            *)
Alive == {"off", "on"}
Lost == {"lost", "lost on"}
Ended == {"stopped"} \cup Lost

CalibrationPc == {"none", "started", "opening", "capturing", "captured", "leaving"}
SessionPc == {"preparing", "aligning", "unaligning", "countdown", "arming", "armed",
              "cleanup", "disarming", "saving", "done"}

VARIABLES
  state,          \* _state
  input,          \* _input
  clients,        \* how many clients there have been
  calibrated,     \* the client whose profile is _calibration
  armed, aligned, \* _armed_session_id, _alignment_session_id
  unknown,        \* _shutdown_error is set: the motors may be on
  op,             \* holder of _operation
  closing,        \* _stop
  calibration,    \* progress of the calibration thread, and its client
  gravity,        \* the call of set_gravity under way (_gravity_busy), and its client
  monitor,        \* what _poll_once has read: the client and the state
  stop, victim,   \* progress of each caller of emergency_stop, and its client
  session,        \* progress of each session
  worker,         \* of each client, its process and motors
  closed,         \* clients with _closed
  quiet,          \* history: clients closed by an operation, not by a stop
  overtaken       \* history: a calibration has ended while a stop was waiting

owner == <<armed, aligned>>
service == <<state, input, clients, calibrated, owner, unknown>>
device == <<worker, closed, quiet>>
stops == <<stop, victim>>
vars == <<service, op, closing, calibration, gravity, monitor, stops, session, device, overtaken>>
-----------------------------------------------------------------------------
Free == op = Nobody
Ends(c) ==
  \E how \in {"stopped", IF worker[c] = "on" THEN "lost on" ELSE "lost"} :
    worker' = [worker EXCEPT ![c] = how]
Broken(c) == worker[c] \in Ended
Stopping == \E e \in Stoppers : stop[e] \in {"called", "waiting"}
Idle == [client |-> NoClient, state |-> "none"]
NoRequest == [client |-> NoClient, wants |-> "none"]
Calling(e) == stop' = [stop EXCEPT ![e] = "called"]

(* A session does one thing at a time: it returns from emergency_stop      *)
(* before it goes on.                                                      *)
Go(s, a, b) == session[s] = a /\ stop[s] = "idle" /\ session' = [session EXCEPT ![s] = b]

(* client.close(): the process is asked to stop, then terminated, then     *)
(* killed; it fails if OFF was not confirmed.  A client that has been      *)
(* closed before says nothing.                                             *)
Closes(c) ==
  /\ closed' = closed \cup {c}
  /\ IF c \notin closed /\ worker[c] \in Alive
       THEN Ends(c)
       ELSE UNCHANGED worker
Unconfirmed(c) == c \notin closed /\ worker'[c] \in Lost

(* What a failing call of a client can leave behind: nothing new if the    *)
(* request was rejected or its process had ended, a process that gave up,  *)
(* or, when the answer does not come in time, a client that closes itself. *)
CallFails(c) ==
  \/ UNCHANGED device
  \/ /\ worker[c] \in Alive
     /\ Ends(c)
     /\ UNCHANGED <<closed, quiet>>
  \/ worker[c] \in Alive /\ Closes(c) /\ quiet' = quiet \cup {c}
-----------------------------------------------------------------------------
(***************************************************************************)
(* emergency_stop.                                                         *)
(***************************************************************************)
Released == aligned' = NoSession /\ armed' = NoSession

(* "Preserve the first failure through subsequent cleanup."                *)

StopEnters(e) ==
  /\ stop[e] = "called"
  /\ IF state = "ERROR" /\ input = NoClient
       THEN stop' = [stop EXCEPT ![e] = "idle"] /\ UNCHANGED <<state, calibrated, owner>>
       ELSE /\ stop' = [stop EXCEPT ![e] = "waiting"]
            /\ state' = "ERROR" /\ calibrated' = NoClient
            /\ Released
  /\ UNCHANGED <<input, clients, unknown, op, closing, calibration, gravity, monitor, victim,
                 session, device, overtaken>>

StopTakes(e) ==
  /\ stop[e] = "waiting" /\ Free
  /\ victim' = [victim EXCEPT ![e] = input]
  /\ input' = NoClient
  /\ IF input = NoClient
       THEN stop' = [stop EXCEPT ![e] = "idle"] /\ UNCHANGED op
       ELSE stop' = [stop EXCEPT ![e] = "closing"] /\ op' = e
  /\ UNCHANGED <<state, clients, calibrated, owner, unknown, closing, calibration, gravity,
                 monitor, session, device, overtaken>>

StopCloses(e) ==
  /\ stop[e] = "closing"
  /\ Closes(victim[e])
  /\ unknown' = (unknown \/ Unconfirmed(victim[e]))
  /\ stop' = [stop EXCEPT ![e] = "idle"] /\ victim' = [victim EXCEPT ![e] = NoClient]
  /\ op' = Nobody
  /\ UNCHANGED <<state, input, clients, calibrated, owner, closing, calibration, gravity, monitor,
                 session, quiet, overtaken>>
-----------------------------------------------------------------------------
(***************************************************************************)
(* The monitor: reads the client and the state, then acts on what it read. *)
(***************************************************************************)
PollReads ==
  /\ monitor = Idle /\ stop[Monitor] = "idle"
  /\ state \notin {"CALIBRATING", "ERROR"} /\ gravity = NoRequest /\ ~closing
  /\ monitor' = [client |-> input, state |-> state]
  /\ UNCHANGED <<service, op, closing, calibration, gravity, stops, session, device, overtaken>>

(* An arm that is used must have fresh samples.                            *)
PollChecks ==
  /\ monitor # Idle /\ monitor.client # NoClient
  /\ monitor' = Idle
  /\ \/ ~Broken(monitor.client) /\ UNCHANGED stop
     \/ Broken(monitor.client) /\ Calling(Monitor)
     \/ monitor.state \in {"ARMED", "ALIGNING"} /\ Calling(Monitor)
  /\ UNCHANGED <<service, op, closing, calibration, gravity, victim, session, device, overtaken>>

\* mutant
PollProbesUnchecked ==
  /\ monitor # Idle /\ monitor.client = NoClient
  /\ monitor' = Idle
  /\ state' \in {"DISCONNECTED", "UNCALIBRATED"}
  /\ UNCHANGED <<input, clients, calibrated, owner, unknown, op, closing, calibration, gravity,
                 stops, session, device, overtaken>>

PollProbes ==
  /\ monitor # Idle /\ monitor.client = NoClient
  /\ monitor' = Idle
  /\ IF input = NoClient /\ state = monitor.state
       THEN state' \in {"DISCONNECTED", "UNCALIBRATED"}
       ELSE UNCHANGED state
  /\ UNCHANGED <<input, clients, calibrated, owner, unknown, op, closing, calibration, gravity,
                 stops, session, device, overtaken>>
-----------------------------------------------------------------------------
(***************************************************************************)
(* Calibration.                                                            *)
(***************************************************************************)
(* The manager keeps sessions and calibrations apart; here the service     *)
(* refuses what is armed, aligned, closing, calibrating or changing its    *)
(* compensation, and an arm with compensation.                             *)
Calibratable ==
  /\ ~closing /\ armed = NoSession /\ aligned = NoSession /\ gravity = NoRequest
  /\ calibration.pc = "none"
  /\ input # NoClient => worker[input] \notin {"on", "lost on"}

StartCalibration ==
  /\ \A s \in Sessions : session[s] = "done" /\ stop[s] = "idle"
  /\ Calibratable
  /\ state' = "CALIBRATING"
  /\ calibration' = [pc |-> "started", client |-> NoClient]
  /\ UNCHANGED <<input, clients, calibrated, owner, unknown, op, closing, gravity, monitor, stops,
                 session, device, overtaken>>

CalibrationEnters ==
  /\ calibration.pc = "started" /\ Free
  /\ IF closing
       THEN calibration' = [calibration EXCEPT !.pc = "leaving"] /\ UNCHANGED op
       ELSE calibration' = [calibration EXCEPT !.pc = "opening"] /\ op' = Calibrator
  /\ UNCHANGED <<service, closing, gravity, monitor, stops, session, device, overtaken>>

(* A failure of the authorization of the USB port, of the client's start,  *)
(* of the capture or of the saving of the profile.                         *)
CalibrationFails ==
  /\ calibration.pc \in {"opening", "capturing", "captured"}
  /\ calibration.pc = "opening" => input = NoClient
  /\ IF calibration.pc = "capturing" THEN CallFails(calibration.client) ELSE UNCHANGED device
  /\ calibration' = [calibration EXCEPT !.pc = "leaving"]
  /\ op' = Nobody
  /\ Calling(Calibrator)
  /\ UNCHANGED <<service, closing, gravity, monitor, victim, session, overtaken>>

(* The client in use, or a new one whose motors were found OFF.            *)
CalibrationOpens ==
  /\ calibration.pc = "opening" /\ (input = NoClient => ~closing)
  /\ IF input = NoClient
       THEN /\ clients < MaxClients
            /\ clients' = clients + 1 /\ input' = clients'
            /\ worker' = [worker EXCEPT ![clients'] = "off"]
       ELSE UNCHANGED <<clients, input, worker>>
  /\ calibration' = [pc |-> "capturing", client |-> input']
  /\ UNCHANGED <<state, calibrated, owner, unknown, op, closing, gravity, monitor, stops, session,
                 closed, quiet, overtaken>>

CalibrationCaptures ==
  /\ calibration.pc = "capturing" /\ ~closing /\ worker[calibration.client] \in Alive
  /\ calibration' = [calibration EXCEPT !.pc = "captured"]
  /\ UNCHANGED <<service, op, closing, gravity, monitor, stops, session, device, overtaken>>

(* "Closing while the worker started must not capture calibration."        *)
CalibrationAbandoned ==
  /\ calibration.pc \in {"opening", "capturing", "captured"} /\ closing
  /\ IF calibration.pc = "opening"
       THEN input = NoClient /\ UNCHANGED <<device, stop>>
       ELSE /\ Closes(calibration.client)
            /\ quiet' = quiet \cup {calibration.client}
            /\ IF Unconfirmed(calibration.client) THEN Calling(Calibrator) ELSE UNCHANGED stop
  /\ calibration' = [calibration EXCEPT !.pc = "leaving"]
  /\ op' = Nobody
  /\ UNCHANGED <<service, closing, gravity, monitor, victim, session, overtaken>>

CalibrationSucceeds ==
  /\ calibration.pc = "captured" /\ ~closing
  /\ state' = "READY" /\ calibrated' = calibration.client
  /\ unknown' = FALSE
  /\ calibration' = [calibration EXCEPT !.pc = "leaving"]
  /\ op' = Nobody
  /\ overtaken' = (overtaken \/ Stopping)
  /\ UNCHANGED <<input, clients, owner, closing, gravity, monitor, stops, session, device>>

CalibrationLeaves ==
  /\ calibration.pc = "leaving" /\ stop[Calibrator] = "idle"
  /\ calibration' = [pc |-> "none", client |-> NoClient]
  /\ UNCHANGED <<service, op, closing, gravity, monitor, stops, session, device, overtaken>>
-----------------------------------------------------------------------------
(***************************************************************************)
(* set_gravity.                                                            *)
(***************************************************************************)
GravityBegins(wants) ==
  /\ Free /\ ~closing /\ state # "CALIBRATING" /\ input # NoClient
  /\ wants = "on" => state \in {"READY", "ARMED"}
  /\ gravity' = [client |-> input, wants |-> wants]
  /\ op' = "gravity"
  /\ UNCHANGED <<service, closing, calibration, monitor, stops, session, device, overtaken>>

\* mutant
GravityEndsKeepingOp ==
  /\ gravity # NoRequest
  /\ \/ /\ worker[gravity.client] \in Alive
        /\ worker' = [worker EXCEPT ![gravity.client] = gravity.wants]
        /\ op' = Nobody
        /\ UNCHANGED <<closed, quiet>>
     \/ CallFails(gravity.client) /\ UNCHANGED op
  /\ gravity' = NoRequest
  /\ UNCHANGED <<service, closing, calibration, monitor, stops, session, overtaken>>

GravityEnds ==
  /\ gravity # NoRequest
  /\ \/ /\ worker[gravity.client] \in Alive
        /\ worker' = [worker EXCEPT ![gravity.client] = gravity.wants]
        /\ UNCHANGED <<closed, quiet>>
     \/ CallFails(gravity.client)
  /\ gravity' = NoRequest
  /\ op' = Nobody
  /\ UNCHANGED <<service, closing, calibration, monitor, stops, session, overtaken>>
-----------------------------------------------------------------------------
(***************************************************************************)
(* A session: align_for_takeover, countdown, arm, the loop and the cleanup.*)
(* A session that fails calls emergency_stop, then cleans up.  One that is *)
(* done may begin once more: it stands for the sessions after it.          *)
(***************************************************************************)
Begin(s) ==
  /\ calibration.pc = "none" /\ \A other \in Sessions : session[other] = "done"
  /\ Go(s, "done", "preparing")
  /\ UNCHANGED <<service, op, closing, calibration, gravity, monitor, stops, device, overtaken>>

Fails(s, a) == Go(s, a, "cleanup") /\ Calling(s) /\ UNCHANGED victim

StartAlignment(s) ==
  /\ Free
  /\ \/ /\ state = "READY" /\ input # NoClient /\ gravity = NoRequest /\ worker[input] = "on"
        /\ Go(s, "preparing", "aligning")
        /\ aligned' = s /\ state' = "ALIGNING"
        /\ UNCHANGED <<device, stops>>
     \/ /\ Fails(s, "preparing")
        /\ IF state = "READY" /\ input # NoClient /\ gravity = NoRequest
             THEN CallFails(input) ELSE UNCHANGED device
        /\ UNCHANGED <<aligned, state>>
  /\ UNCHANGED <<input, clients, calibrated, armed, unknown, op, closing, calibration, gravity,
                 monitor, overtaken>>

(* finish_alignment: of another session it does nothing; a client that     *)
(* fails leaves the alignment registered.                                  *)
Unaligned(s) ==
  IF aligned = s
    THEN /\ aligned' = NoSession
         /\ state' = IF state = "ERROR" THEN state ELSE "READY"
    ELSE UNCHANGED <<aligned, state>>
FinishAlignment(s, from, to) ==
  /\ Free
  /\ \/ Go(s, from, to) /\ Unaligned(s) /\ UNCHANGED <<device, stops>>
     \/ /\ aligned = s /\ input # NoClient
        /\ IF from = "cleanup" THEN Go(s, from, "saving") /\ Calling(s) /\ UNCHANGED victim
                               ELSE Fails(s, from)
        /\ CallFails(input)
        /\ UNCHANGED <<aligned, state>>
  /\ UNCHANGED <<input, clients, calibrated, armed, unknown, op, closing, calibration, gravity,
                 monitor, overtaken>>

(* An alignment that fails is finished first; it is given up by a stop or  *)
(* when compensation is switched off.                                      *)
Unalign(s) ==
  /\ Free
  /\ Fails(s, "unaligning")
  /\ \/ Unaligned(s) /\ UNCHANGED device
     \/ aligned = s /\ input # NoClient /\ CallFails(input) /\ UNCHANGED <<aligned, state>>
  /\ UNCHANGED <<input, clients, calibrated, armed, unknown, op, closing, calibration, gravity,
                 monitor, overtaken>>

Advance(s) ==
  /\ \/ Go(s, "aligning", "countdown") \/ Go(s, "aligning", "unaligning")
     \/ Go(s, "preparing", "cleanup") \/ Go(s, "aligning", "cleanup")
     \/ Go(s, "countdown", "cleanup") \/ Go(s, "armed", "cleanup") \/ Go(s, "saving", "done")
  /\ UNCHANGED <<service, op, closing, calibration, gravity, monitor, stops, device, overtaken>>

SessionFails(s) ==
  /\ Fails(s, "preparing") \/ Fails(s, "countdown") \/ Fails(s, "armed")
       \/ (Go(s, "saving", "done") /\ Calling(s) /\ UNCHANGED victim)
  /\ UNCHANGED <<service, op, closing, calibration, gravity, monitor, device, overtaken>>

Arm(s) ==
  /\ \/ /\ state = "READY" /\ input # NoClient /\ gravity = NoRequest
        /\ worker[input] \in Alive /\ calibrated = input
        /\ Go(s, "arming", "armed")
        /\ armed' = s /\ state' = "ARMED"
        /\ UNCHANGED stops
     \/ Fails(s, "arming") /\ UNCHANGED <<armed, state>>
  /\ UNCHANGED <<input, clients, calibrated, aligned, unknown, op, closing, calibration, gravity,
                 monitor, device, overtaken>>

Disarm(s) ==
  /\ Go(s, "disarming", "saving")
  /\ IF armed = s THEN armed' = NoSession /\ state' = "READY" ELSE UNCHANGED <<armed, state>>
  /\ UNCHANGED <<input, clients, calibrated, aligned, unknown, op, closing, calibration, gravity,
                 monitor, stops, device, overtaken>>
-----------------------------------------------------------------------------
(* close() of the service; it waits for the calibration and the monitor,   *)
(* but not for ever.                                                       *)
Close ==
  /\ ~closing
  /\ closing' = TRUE
  /\ Calling(Closer)
  /\ UNCHANGED <<service, op, calibration, gravity, monitor, victim, session, device, overtaken>>

(* The runtime process gives up: a bus error, its watchdog, a lost         *)
(* heartbeat, a crash.                                                     *)
WorkerFails(c) ==
  /\ worker[c] \in Alive
  /\ Ends(c)
  /\ UNCHANGED <<service, op, closing, calibration, gravity, monitor, stops, session, closed,
                 quiet, overtaken>>
-----------------------------------------------------------------------------
Init ==
  /\ state \in {"DISCONNECTED", "UNCALIBRATED"}
  /\ input = NoClient /\ clients = 0 /\ calibrated = NoClient
  /\ armed = NoSession /\ aligned = NoSession /\ unknown = FALSE
  /\ op = Nobody /\ closing = FALSE
  /\ calibration = [pc |-> "none", client |-> NoClient]
  /\ gravity = NoRequest /\ monitor = Idle
  /\ stop = [e \in Stoppers |-> "idle"] /\ victim = [e \in Stoppers |-> NoClient]
  /\ session = [s \in Sessions |-> "done"]
  /\ worker = [c \in Clients |-> "absent"]
  /\ closed = {} /\ quiet = {} /\ overtaken = FALSE

Stop(e) == StopEnters(e) \/ StopTakes(e) \/ StopCloses(e)
Poll == PollReads \/ PollChecks \/ PollProbes
Calibrate ==
  \/ CalibrationEnters \/ CalibrationFails \/ CalibrationOpens \/ CalibrationCaptures
  \/ CalibrationAbandoned \/ CalibrationSucceeds \/ CalibrationLeaves
Takeover(s) ==
  \/ StartAlignment(s) \/ FinishAlignment(s, "countdown", "arming") \/ Unalign(s)
  \/ Advance(s) \/ SessionFails(s) \/ Arm(s)
  \/ FinishAlignment(s, "cleanup", "disarming") \/ Disarm(s)

Next ==
  \/ \E e \in Stoppers : Stop(e)
  \/ Poll \/ StartCalibration \/ Calibrate
  \/ \E wants \in Alive : GravityBegins(wants)
  \/ GravityEnds
  \/ \E s \in Sessions : Begin(s) \/ Takeover(s)
  \/ Close
  \/ \E c \in Clients : WorkerFails(c)

(* Calls of a client end, by an answer or by their time limit; the wait    *)
(* for the password has a limit too.  _operation is granted to a caller of *)
(* emergency_stop some day, though other callers may be served first.      *)
Fairness ==
  /\ \A e \in Stoppers : WF_vars(StopEnters(e)) /\ SF_vars(StopTakes(e)) /\ WF_vars(StopCloses(e))
  /\ WF_vars(GravityEnds)
  /\ WF_vars(CalibrationFails \/ CalibrationOpens \/ CalibrationCaptures \/ CalibrationAbandoned
               \/ CalibrationSucceeds)
  /\ WF_vars(PollReads) /\ WF_vars(PollChecks) /\ WF_vars(PollProbes)

Spec == Init /\ [][Next]_vars /\ Fairness
-----------------------------------------------------------------------------
TypeOK ==
  /\ state \in State
  /\ input \in Clients \cup {NoClient} /\ clients \in 0..MaxClients
  /\ calibrated \in Clients \cup {NoClient}
  /\ armed \in Sessions \cup {NoSession} /\ aligned \in Sessions \cup {NoSession}
  /\ unknown \in BOOLEAN /\ closing \in BOOLEAN /\ overtaken \in BOOLEAN
  /\ op \in Stoppers \cup {Nobody, "gravity"}
  /\ calibration \in [pc : CalibrationPc, client : Clients \cup {NoClient}]
  /\ gravity \in [client : Clients \cup {NoClient}, wants : Alive \cup {"none"}]
  /\ monitor \in [client : Clients \cup {NoClient}, state : State \cup {"none"}]
  /\ stop \in [Stoppers -> {"idle", "called", "waiting", "closing"}]
  /\ victim \in [Stoppers -> Clients \cup {NoClient}]
  /\ session \in [Sessions -> SessionPc]
  /\ worker \in [Clients -> Alive \cup Ended \cup {"absent"}]
  /\ closed \subseteq Clients /\ quiet \subseteq Clients

(* Motors that are on belong to the client in use, calibrated and not in   *)
(* error, or somebody is on his way to switch them off: an enable that a   *)
(* stop overtakes, a calibration that comes out READY after a stop and a   *)
(* client that is replaced leave nothing on behind them.                   *)
OutputAccounted ==
  \A c \in Clients :
    worker[c] = "on" =>
      \/ input = c /\ (state \in {"READY", "ALIGNING", "ARMED"} \/ Stopping)
      \/ \E e \in Stoppers : stop[e] = "closing" /\ victim[e] = c

(* Who aligns or is armed has a client that is calibrated, unless a        *)
(* calibration came out READY after a stop had been asked for.             *)
TakeoverHasClient ==
  state \in {"ALIGNING", "ARMED"} => (input # NoClient /\ calibrated = input) \/ overtaken

(* Once close() has stopped the output it stays off: only a stop that      *)
(* somebody else had begun may still have to be waited for.                *)
OffAfterClose ==
  closing /\ stop[Closer] = "idle" =>
    \A c \in Clients : worker[c] = "on" => \E e \in Stoppers : stop[e] = "closing" /\ victim[e] = c

(* A client that a stop gave up without confirmation of OFF is remembered  *)
(* as unknown until the next calibration has found the motors OFF.         *)
Settled ==
  /\ Free /\ input = NoClient /\ calibration.pc = "none" /\ \A e \in Stoppers : stop[e] = "idle"
GivenUpUnknown ==
  Settled /\ clients # 0 /\ worker[clients] \in Lost /\ clients \notin quiet => unknown

(* "An unverified shutdown is shown as unknown, not falsely confirmed."    *)
UnverifiedShownUnknown ==
  Settled /\ clients # 0 /\ worker[clients] = "lost on" => unknown

(* In ERROR the output goes off.                                           *)
OutputOn == \E c \in Clients : worker[c] = "on"
ErrorEndsOutput == (state = "ERROR" /\ OutputOn) ~> ~OutputOn
=============================================================================
