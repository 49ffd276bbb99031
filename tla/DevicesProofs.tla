--------------------------- MODULE DevicesProofs ---------------------------
(***************************************************************************)
(* Proofs about the devices a person takes over with: the safety of the    *)
(* FACTR service, of the SpaceMouse service and of the SpaceMouse's        *)
(* reader, for any number of sessions, clients, pollers, calibrations and  *)
(* reports.  Each part has its inductive invariant; MCDevices has one part *)
(* at a time, so theirs together are inductive there.                      *)
(***************************************************************************)
EXTENDS MCDevices, Integers, TLAPS
-----------------------------------------------------------------------------
(***************************************************************************)
(* The FACTR service.                                                      *)
(***************************************************************************)
InUse == {"READY", "ALIGNING", "ARMED"}
Opened == {"capturing", "captured"}
Closing == \E e \in Factr!Stoppers : stop[e] = "closing"

(* _operation has one holder, who knows the client he calls; nobody asks   *)
(* for a second stop before his first one has ended.                       *)
OperationInv ==
  /\ \A e \in Factr!Stoppers : stop[e] = "closing" =>
       op = e /\ victim[e] = clients /\ clients # 0 /\ input = Factr!NoClient
  /\ calibration.pc \in Opened \cup {"opening"} => op = Calibrator
  /\ calibration.pc \in Opened => calibration.client = input /\ input # Factr!NoClient
  /\ gravity # Factr!NoRequest =>
       /\ op = "gravity" /\ gravity.client = input /\ input # Factr!NoClient
       /\ gravity.wants \in Factr!Alive
  /\ calibration.pc # "leaving" => stop[Calibrator] = "idle"
  /\ monitor # Factr!Idle => stop[Monitor] = "idle" /\ monitor.state \notin {"CALIBRATING", "ERROR"}
  /\ ~closing => stop[Closer] = "idle"

(* There is at most one client that is not closed, the newest; one that    *)
(* was given up has been closed, and its end is known or marked unknown.   *)
ClientInv ==
  /\ input \in {Factr!NoClient, clients}
  /\ \A c \in Factr!Clients : c > clients => worker[c] = "absent"
  /\ \A c \in closed : c <= clients /\ worker[c] \notin Factr!Alive
  /\ \A c \in closed :
       input = c \/ (\E e \in Factr!Stoppers : stop[e] = "closing" /\ victim[e] = c) => c \in quiet
  /\ clients # 0 /\ input = Factr!NoClient /\ ~Closing =>
       clients \in closed /\ (worker[clients] \in Factr!Lost /\ clients \notin quiet => unknown)

(* Motors on, or about to be switched on, are in use or will be stopped.   *)
OutputInv ==
  /\ Factr!OutputAccounted
  /\ gravity.wants = "on" => state \in InUse \/ Factr!Stopping

(* A calibration leaves no takeover beside it.                             *)
CalibrationInv ==
  calibration.pc \in Opened \cup {"started", "opening"} =>
    state \in {"CALIBRATING", "ERROR"} /\ armed = NoSession /\ aligned = NoSession

(* What is in use is the calibrated client, and no stop waits for it,      *)
(* unless a calibration has ended READY while one was waiting.             *)
TakeoverInv ==
  overtaken \/
    /\ state \in InUse => /\ input # Factr!NoClient /\ calibrated = input
                          /\ \A e \in Factr!Stoppers : stop[e] # "waiting"
    /\ armed # NoSession => state = "ARMED"
    /\ aligned # NoSession => state = "ALIGNING"

(* After close() has taken the client nobody gets another.                 *)
ClosedInv == closing /\ stop[Closer] \in {"idle", "closing"} => input = Factr!NoClient

FactrIInv ==
  /\ Factr!TypeOK /\ OperationInv /\ ClientInv /\ OutputInv /\ CalibrationInv
  /\ TakeoverInv /\ ClosedInv

(* Types; the flags apart from the rest, for the provers' sake.            *)
ServiceOK ==
  /\ state \in Factr!State
  /\ input \in Factr!Clients \cup {Factr!NoClient} /\ clients \in 0..MaxClients
  /\ calibrated \in Factr!Clients \cup {Factr!NoClient}
  /\ armed \in Sessions \cup {NoSession} /\ aligned \in Sessions \cup {NoSession}
  /\ op \in Factr!Stoppers \cup {Nobody, "gravity"}
  /\ calibration \in [pc : Factr!CalibrationPc, client : Factr!Clients \cup {Factr!NoClient}]
  /\ gravity \in [client : Factr!Clients \cup {Factr!NoClient}, wants : Factr!Alive \cup {"none"}]
  /\ monitor \in [client : Factr!Clients \cup {Factr!NoClient}, state : Factr!State \cup {"none"}]
  /\ victim \in [Factr!Stoppers -> Factr!Clients \cup {Factr!NoClient}]
  /\ session \in [Sessions -> Factr!SessionPc]
StopOK == stop \in [Factr!Stoppers -> {"idle", "called", "waiting", "closing"}]
DeviceOK == /\ worker \in [Factr!Clients -> Factr!Alive \cup Factr!Ended \cup {"absent"}]
            /\ closed \subseteq Factr!Clients /\ quiet \subseteq Factr!Clients
FlagsOK == unknown \in BOOLEAN /\ closing \in BOOLEAN /\ overtaken \in BOOLEAN

(* The type invariant is the conjunction of these parts.                   *)
LEMMA TypeParts == Factr!TypeOK <=> ServiceOK /\ StopOK /\ DeviceOK /\ FlagsOK
BY DEF Factr!TypeOK, ServiceOK, StopOK, DeviceOK, FlagsOK

(* A client whose motors can only go off, and callers who ask for a stop.  *)
Wear ==
  /\ \A c \in Factr!Clients : worker'[c] = worker[c] \/ (worker[c] \in Factr!Alive /\ worker'[c] \in Factr!Ended)
  /\ closed \subseteq closed' /\ quiet \subseteq quiet'
  /\ \A c \in closed' \ closed : c <= clients /\ c \in quiet' /\ worker'[c] \notin Factr!Alive
Calls(e) ==
  /\ UNCHANGED victim
  /\ \/ UNCHANGED stop
     \/ stop[e] = "idle" /\ stop' = [stop EXCEPT ![e] = "called"]

(* A process that ends leaves the others' motors alone.                    *)
LEMMA Ending ==
  ASSUME DeviceOK, NEW c \in Factr!Clients, Factr!Ends(c)
  PROVE  /\ worker' \in [Factr!Clients -> Factr!Alive \cup Factr!Ended \cup {"absent"}]
         /\ worker'[c] \in Factr!Ended /\ \A d \in Factr!Clients \ {c} : worker'[d] = worker[d]
BY DEF DeviceOK, Factr!Ends, Factr!Ended, Factr!Lost, Factr!Alive

(* A call that fails switches nothing on, and closes only its own client.  *)
LEMMA Failing ==
  ASSUME DeviceOK, ClientInv, NEW c \in Factr!Clients, c <= clients, Factr!CallFails(c)
  PROVE  DeviceOK' /\ Wear
<1> USE DEF Factr!Ended, Factr!Lost, Factr!Alive
<1>1. CASE UNCHANGED Factr!device
  BY <1>1 DEF Factr!device, DeviceOK, Wear
<1>2. CASE worker[c] \in Factr!Alive /\ Factr!Ends(c) /\ UNCHANGED <<closed, quiet>>
  BY <1>2, Ending DEF DeviceOK, Wear
<1>3. CASE worker[c] \in Factr!Alive /\ Factr!Closes(c) /\ quiet' = quiet \cup {c}
  <2>1. c \notin closed
    BY <1>3 DEF ClientInv
  <2>2. Factr!Ends(c) /\ closed' = closed \cup {c}
    BY <1>3, <2>1 DEF Factr!Closes
  <2> QED
    BY <1>3, <2>2, Ending DEF DeviceOK, Wear
<1> QED
  BY <1>1, <1>2, <1>3 DEF Factr!CallFails

(* A step that leaves the device alone wears nothing.                      *)
LEMMA NoFailing ==
  ASSUME DeviceOK, UNCHANGED Factr!device
  PROVE  DeviceOK' /\ Wear
BY DEF Factr!device, DeviceOK, Wear

(* Asking for a stop disturbs no stop that is under way.                   *)
LEMMA Called ==
  ASSUME StopOK, NEW e \in Factr!Stoppers, Calls(e)
  PROVE  /\ StopOK'
         /\ \A x \in Factr!Stoppers \ {e} : stop'[x] = stop[x]
         /\ \A x \in Factr!Stoppers : /\ stop'[x] = stop[x] \/ (stop[x] = "idle" /\ stop'[x] = "called")
                                      /\ victim'[x] = victim[x]
         /\ Factr!Stopping => Factr!Stopping'
         /\ Closing' <=> Closing
BY DEF StopOK, Calls, Factr!Stopping, Closing

(***************************************************************************)
(* Sessions.                                                               *)
(***************************************************************************)
SessionKeeps ==
  UNCHANGED <<input, clients, calibrated, unknown, op, closing, calibration, gravity, monitor, overtaken>>

(* A session asks for stops and lets clients wear out; the rest is not its *)
(* own.                                                                    *)
LEMMA SessionStep ==
  ASSUME FactrIInv, NEW s \in Sessions, Factr!Begin(s) \/ Factr!Takeover(s)
  PROVE  /\ SessionKeeps /\ Calls(s) /\ Wear /\ DeviceOK'
         /\ session' \in [Sessions -> Factr!SessionPc]
<1> USE DEF SessionKeeps, Factr!service, Factr!owner, Factr!stops, Factr!device, Calls, Factr!Calling
<1>t. ServiceOK /\ StopOK /\ DeviceOK /\ ClientInv
  BY TypeParts DEF FactrIInv
<1>s. s \in Factr!Stoppers
  BY DEF Factr!Stoppers
<1>i. input # Factr!NoClient => input \in Factr!Clients /\ input <= clients
  BY <1>t DEF ClientInv, ServiceOK, Factr!Clients, Factr!NoClient
<1>g. \A a, b : b \in Factr!SessionPc /\ Factr!Go(s, a, b) => session' \in [Sessions -> Factr!SessionPc] /\ stop[s] = "idle"
  BY <1>t DEF Factr!Go, ServiceOK
<1>p. {"preparing", "aligning", "unaligning", "countdown", "arming", "armed",
              "cleanup", "disarming", "saving", "done"} \subseteq Factr!SessionPc
  BY DEF Factr!SessionPc
<1>f. \A a : Factr!Fails(s, a) => session' \in [Sessions -> Factr!SessionPc] /\ Calls(s)
  BY <1>g, <1>p DEF Factr!Fails
<1>1. CASE Factr!Begin(s) \/ Factr!Advance(s)
  BY <1>1, <1>t, <1>g, <1>p, NoFailing DEF Factr!Begin, Factr!Advance
<1>2. CASE Factr!SessionFails(s)
  BY <1>2, <1>t, <1>g, <1>f, <1>p, NoFailing DEF Factr!SessionFails
<1>3. CASE Factr!StartAlignment(s)
  <2>1. SessionKeeps /\ Calls(s) /\ session' \in [Sessions -> Factr!SessionPc]
    BY <1>3, <1>g, <1>f, <1>p DEF Factr!StartAlignment
  <2>2. DeviceOK' /\ Wear
    BY <1>3, <1>t, <1>i, NoFailing, Failing DEF Factr!StartAlignment
  <2> QED
    BY <2>1, <2>2
<1>4. CASE Factr!Unalign(s)
  <2>1. SessionKeeps /\ Calls(s) /\ session' \in [Sessions -> Factr!SessionPc]
    BY <1>4, <1>g, <1>f, <1>p DEF Factr!Unalign
  <2>2. DeviceOK' /\ Wear
    BY <1>4, <1>t, <1>i, NoFailing, Failing DEF Factr!Unalign
  <2> QED
    BY <2>1, <2>2
<1>5. ASSUME NEW from, NEW to \in Factr!SessionPc, Factr!FinishAlignment(s, from, to)
      PROVE  /\ SessionKeeps /\ Calls(s) /\ Wear /\ DeviceOK'
             /\ session' \in [Sessions -> Factr!SessionPc]
  <2>1. SessionKeeps /\ Calls(s) /\ session' \in [Sessions -> Factr!SessionPc]
    BY <1>5, <1>g, <1>f, <1>p DEF Factr!FinishAlignment
  <2>2. DeviceOK' /\ Wear
    BY <1>5, <1>t, <1>i, NoFailing, Failing DEF Factr!FinishAlignment
  <2> QED
    BY <2>1, <2>2
<1>6. CASE Factr!Arm(s) \/ Factr!Disarm(s)
  BY <1>6, <1>t, <1>g, <1>f, <1>p, NoFailing DEF Factr!Arm, Factr!Disarm
<1> QED
  BY <1>1, <1>2, <1>3, <1>4, <1>5, <1>6, <1>p DEF Factr!Takeover

(* What they do to the state.                                              *)
SessionChanges(s) ==
  \/ UNCHANGED <<state, aligned, armed>>
  \/ /\ state = "READY" /\ input # Factr!NoClient /\ state' = "ALIGNING"
     /\ aligned' = s /\ UNCHANGED armed
  \/ /\ aligned = s /\ aligned' = NoSession /\ UNCHANGED armed
     /\ IF state = "ERROR" THEN UNCHANGED state ELSE state' = "READY"
  \/ /\ state = "READY" /\ input # Factr!NoClient /\ state' = "ARMED"
     /\ armed' = s /\ UNCHANGED aligned
  \/ armed = s /\ armed' = NoSession /\ state' = "READY" /\ UNCHANGED aligned

(* What a session may write: its own alignment and arming, on a calibrated *)
(* client.                                                                 *)
LEMMA SessionStates ==
  ASSUME NEW s \in Sessions, Factr!Begin(s) \/ Factr!Takeover(s)
  PROVE  SessionChanges(s)
<1> USE DEF Factr!service, Factr!owner, SessionChanges
<1>1. CASE Factr!Begin(s) \/ Factr!Advance(s) \/ Factr!SessionFails(s)
  BY <1>1 DEF Factr!Begin, Factr!Advance, Factr!SessionFails
<1>2. CASE Factr!StartAlignment(s)
  BY <1>2 DEF Factr!StartAlignment
<1>3. CASE Factr!Unalign(s) \/ \E from, to : Factr!FinishAlignment(s, from, to)
  BY <1>3 DEF Factr!Unalign, Factr!FinishAlignment, Factr!Unaligned
<1>4. CASE Factr!Arm(s) \/ Factr!Disarm(s)
  BY <1>4 DEF Factr!Arm, Factr!Disarm
<1> QED
  BY <1>1, <1>2, <1>3, <1>4 DEF Factr!Takeover

(* Wear keeps what is known of closed clients.                             *)
LEMMA ClientKept ==
  ASSUME ServiceOK, StopOK, DeviceOK, ClientInv, Wear, NEW e \in Factr!Stoppers, Calls(e),
         UNCHANGED <<input, clients, unknown>>
  PROVE  ClientInv'
<1>1. /\ \A x \in Factr!Stoppers : stop'[x] = "closing" <=> stop[x] = "closing"
      /\ victim' = victim /\ (Closing' <=> Closing)
  BY Called DEF Calls
<1>2. \A c \in Factr!Clients : worker[c] \notin Factr!Alive => worker'[c] = worker[c]
  BY DEF Wear
<1>3. \A c \in closed' : c <= clients /\ worker'[c] \notin Factr!Alive
  BY <1>2 DEF ClientInv, Wear, DeviceOK
<1>4. \A c \in closed' : input = c \/ (\E x \in Factr!Stoppers : stop[x] = "closing" /\ victim[x] = c) => c \in quiet'
  BY DEF ClientInv, Wear
<1>5. clients # 0 => clients \in Factr!Clients
  BY DEF ServiceOK, Factr!Clients
<1>6. clients # 0 /\ input = Factr!NoClient /\ ~Closing =>
       clients \in closed' /\ (worker'[clients] \in Factr!Lost /\ clients \notin quiet' => unknown)
  BY <1>2, <1>5 DEF ClientInv, Wear
<1>7. \A c \in Factr!Clients : c > clients => worker'[c] = "absent"
  BY <1>2 DEF ClientInv, Factr!Alive
<1> QED
  BY <1>1, <1>3, <1>4, <1>6, <1>7 DEF ClientInv

(* Wear keeps motors that are on accounted for, while the state stays in   *)
(* use or a stop is on its way.                                            *)
LEMMA OutputKept ==
  ASSUME ServiceOK, StopOK, DeviceOK, OutputInv, Wear, NEW e \in Factr!Stoppers, Calls(e), UNCHANGED input,
         state \in InUse => state' \in InUse \/ (\A c \in Factr!Clients : worker[c] = "on" => c # input),
         gravity'.wants = "on" => state' \in InUse \/ Factr!Stopping'
  PROVE  OutputInv'
<1>1. /\ \A x \in Factr!Stoppers : stop[x] = "closing" => stop'[x] = "closing"
      /\ victim' = victim /\ (Factr!Stopping => Factr!Stopping')
  BY Called DEF Calls
<1>2. \A c \in Factr!Clients : worker'[c] = "on" => worker[c] = "on"
  BY DEF Wear, Factr!Ended, Factr!Lost
<1>3. Factr!OutputAccounted'
  BY <1>1, <1>2 DEF OutputInv, Factr!OutputAccounted, InUse
<1> QED
  BY <1>3 DEF OutputInv

(* Every step of a session keeps the invariant.                            *)
LEMMA SessionPreserves ==
  ASSUME FactrIInv, NEW s \in Sessions, Factr!Begin(s) \/ Factr!Takeover(s)
  PROVE  FactrIInv'
<1>t. ServiceOK /\ StopOK /\ DeviceOK /\ FlagsOK
  BY TypeParts DEF FactrIInv
<1>s. s \in Factr!Stoppers /\ s # NoSession /\ s \notin {Monitor, Closer, Calibrator}
  BY DevicesAssumption DEF Factr!FactrAssumption, Factr!Stoppers
<1>m. {Monitor, Closer, Calibrator} \subseteq Factr!Stoppers
  BY DEF Factr!Stoppers
<1>1. /\ SessionKeeps /\ Calls(s) /\ Wear /\ DeviceOK'
      /\ session' \in [Sessions -> Factr!SessionPc]
  BY SessionStep
<1>2. SessionChanges(s)
  BY SessionStates
<1>3. /\ StopOK'
      /\ \A x \in Factr!Stoppers \ {s} : stop'[x] = stop[x]
      /\ \A x \in Factr!Stoppers : /\ stop'[x] = stop[x] \/ (stop[x] = "idle" /\ stop'[x] = "called")
                                   /\ victim'[x] = victim[x]
      /\ Factr!Stopping => Factr!Stopping'
  BY <1>1, <1>s, <1>t, Called
<1>4. Factr!TypeOK'
  <2>1. state' \in Factr!State /\ armed' \in Sessions \cup {NoSession} /\ aligned' \in Sessions \cup {NoSession}
    BY <1>2, <1>t DEF SessionChanges, ServiceOK, Factr!State
  <2>2. ServiceOK'
    BY <1>1, <1>t, <2>1 DEF ServiceOK, SessionKeeps, Calls
  <2>3. FlagsOK'
    BY <1>1, <1>t DEF FlagsOK, SessionKeeps
  <2> QED
    BY <1>1, <1>3, <2>2, <2>3 DEF Factr!TypeOK, ServiceOK, StopOK, DeviceOK, FlagsOK
<1>5. OperationInv'
  BY <1>1, <1>3, <1>s, <1>m DEF FactrIInv, OperationInv, SessionKeeps
<1>6. ClientInv'
  BY <1>1, <1>s, <1>t, ClientKept DEF FactrIInv, SessionKeeps
<1>7. OutputInv'
  <2>1. state \in InUse => state' \in InUse
    BY <1>2 DEF SessionChanges, InUse
  <2>2. gravity'.wants = "on" => state' \in InUse \/ Factr!Stopping'
    BY <1>1, <1>3, <2>1 DEF FactrIInv, OutputInv, SessionKeeps
  <2> QED
    BY <1>1, <1>s, <1>t, <2>1, <2>2, OutputKept DEF FactrIInv, SessionKeeps
<1>8. CalibrationInv'
  BY <1>1, <1>2, <1>s DEF FactrIInv, CalibrationInv, SessionKeeps, SessionChanges, Opened
<1>9. TakeoverInv'
  BY <1>1, <1>2, <1>3, <1>s DEF FactrIInv, TakeoverInv, SessionKeeps, SessionChanges, InUse
<1>10. ClosedInv'
  BY <1>1, <1>3, <1>m DEF FactrIInv, ClosedInv, SessionKeeps
<1> QED
  BY <1>4, <1>5, <1>6, <1>7, <1>8, <1>9, <1>10 DEF FactrIInv

(***************************************************************************)
(* emergency_stop.                                                         *)
(***************************************************************************)
LEMMA StopEntersPreserves ==
  ASSUME FactrIInv, NEW e \in Factr!Stoppers, Factr!StopEnters(e)
  PROVE  FactrIInv'
<1> USE DEF Factr!service, Factr!device
<1>t. ServiceOK /\ StopOK /\ DeviceOK /\ FlagsOK
  BY TypeParts DEF FactrIInv
<1>0. /\ UNCHANGED <<input, clients, unknown, op, closing, calibration, gravity, monitor, victim,
                     session, worker, closed, quiet, overtaken>>
      /\ stop[e] = "called" /\ stop'[e] \in {"idle", "waiting"}
      /\ \A x \in Factr!Stoppers \ {e} : stop'[x] = stop[x]
      /\ StopOK'
  BY <1>t DEF Factr!StopEnters, StopOK
<1>1. \/ /\ input = Factr!NoClient /\ stop'[e] = "idle" /\ UNCHANGED <<state, calibrated, armed, aligned>>
         /\ state = "ERROR"
      \/ /\ stop'[e] = "waiting" /\ state' = "ERROR" /\ calibrated' = Factr!NoClient
         /\ aligned' = NoSession /\ armed' = NoSession
  BY <1>t DEF Factr!StopEnters, StopOK, Factr!Released, Factr!owner
<1>4. Factr!TypeOK'
  <2>1. ServiceOK'
    BY <1>0, <1>1, <1>t DEF ServiceOK, Factr!State
  <2> QED
    BY <1>0, <1>t, <2>1 DEF Factr!TypeOK, ServiceOK, StopOK, DeviceOK, FlagsOK
<1>m. {Monitor, Closer, Calibrator} \subseteq Factr!Stoppers
  BY DEF Factr!Stoppers
<1>5. OperationInv'
  BY <1>0, <1>m DEF FactrIInv, OperationInv
<1>6. ClientInv'
  BY <1>0 DEF FactrIInv, ClientInv, Closing
<1>7. OutputInv'
  <2>1. \A c \in Factr!Clients : c # Factr!NoClient
    BY DEF Factr!Clients, Factr!NoClient
  <2>2. gravity.wants = "on" => input # Factr!NoClient
    BY DEF FactrIInv, OperationInv, Factr!NoRequest
  <2>3. \A x \in Factr!Stoppers : stop[x] = "closing" => stop'[x] = "closing"
    BY <1>0
  <2>4. CASE stop'[e] = "waiting"
    BY <1>0, <2>3, <2>4 DEF FactrIInv, OutputInv, Factr!OutputAccounted, Factr!Stopping
  <2>5. CASE input = Factr!NoClient
    BY <1>0, <2>1, <2>2, <2>3, <2>5 DEF FactrIInv, OutputInv, Factr!OutputAccounted
  <2> QED
    BY <1>1, <2>4, <2>5
<1>8. CalibrationInv'
  BY <1>0, <1>1 DEF FactrIInv, CalibrationInv
<1>9. TakeoverInv'
  BY <1>0, <1>1 DEF FactrIInv, TakeoverInv, InUse
<1>10. ClosedInv'
  BY <1>0, <1>1, <1>m DEF FactrIInv, ClosedInv
<1> QED
  BY <1>4, <1>5, <1>6, <1>7, <1>8, <1>9, <1>10 DEF FactrIInv

(* A stop that gets _operation takes the client and leaves none.           *)
LEMMA StopTakesPreserves ==
  ASSUME FactrIInv, NEW e \in Factr!Stoppers, Factr!StopTakes(e)
  PROVE  FactrIInv'
<1> USE DEF Factr!service, Factr!device, Factr!owner
<1>t. ServiceOK /\ StopOK /\ DeviceOK /\ FlagsOK
  BY TypeParts DEF FactrIInv
<1>a. /\ Nobody \notin Factr!Stoppers /\ Calibrator \in Factr!Stoppers /\ "gravity" # Nobody
      /\ Factr!NoClient \notin Factr!Clients
  BY DevicesAssumption DEF Factr!FactrAssumption, Factr!Stoppers, Factr!NoClient, Factr!Clients
<1>0. /\ UNCHANGED <<state, clients, calibrated, armed, aligned, unknown, closing, calibration,
                     gravity, monitor, session, worker, closed, quiet, overtaken>>
      /\ op = Nobody /\ input' = Factr!NoClient
      /\ stop[e] = "waiting"
      /\ \A x \in Factr!Stoppers \ {e} : stop'[x] = stop[x] /\ victim'[x] = victim[x]
      /\ victim'[e] = input
      /\ victim' \in [Factr!Stoppers -> Factr!Clients \cup {Factr!NoClient}]
  BY <1>t DEF Factr!StopTakes, StopOK, Factr!Free, ServiceOK
<1>1. \/ input = Factr!NoClient /\ stop'[e] = "idle" /\ op' = op
      \/ input # Factr!NoClient /\ stop'[e] = "closing" /\ op' = e
  BY <1>t DEF Factr!StopTakes, StopOK
<1>2. StopOK'
  BY <1>t DEF Factr!StopTakes, StopOK
<1>3. ~Closing /\ gravity = Factr!NoRequest /\ calibration.pc \notin Opened \cup {"opening"}
  BY <1>0, <1>a DEF FactrIInv, OperationInv, Closing
<1>4. Factr!TypeOK'
  <2>1. ServiceOK'
    BY <1>0, <1>1, <1>t DEF ServiceOK
  <2> QED
    BY <1>0, <1>2, <1>t, <2>1 DEF Factr!TypeOK, ServiceOK, StopOK, DeviceOK, FlagsOK
<1>c. input # Factr!NoClient => input = clients /\ clients \in Factr!Clients
  BY <1>t DEF FactrIInv, ClientInv, ServiceOK
<1>5. OperationInv'
  <2>1. \A x \in Factr!Stoppers : stop'[x] = "closing" => x = e /\ input # Factr!NoClient
    BY <1>0, <1>1, <1>3 DEF Closing
  <2>2. \A x \in Factr!Stoppers : stop'[x] = "closing" =>
           op' = x /\ victim'[x] = clients' /\ clients' # 0 /\ input' = Factr!NoClient
    BY <1>0, <1>1, <2>1, <1>c DEF Factr!NoClient
  <2>3. monitor # Factr!Idle => stop'[Monitor] = "idle" /\ monitor.state \notin {"CALIBRATING", "ERROR"}
    BY <1>0 DEF FactrIInv, OperationInv, Factr!Stoppers
  <2>4. ~closing => stop'[Closer] = "idle"
    BY <1>0 DEF FactrIInv, OperationInv, Factr!Stoppers
  <2>5. calibration.pc # "leaving" => stop'[Calibrator] = "idle"
    BY <1>0, <1>a DEF FactrIInv, OperationInv
  <2> QED
    BY <1>0, <1>3, <2>2, <2>3, <2>4, <2>5 DEF OperationInv
<1>6. ClientInv'
  <2>1. CASE input = Factr!NoClient
    <3>1. ~Closing' /\ \A x \in Factr!Stoppers : stop'[x] # "closing"
      BY <1>0, <1>1, <1>3, <2>1 DEF Closing
    <3> QED
      BY <1>0, <1>3, <2>1, <3>1 DEF FactrIInv, ClientInv
  <2>2. CASE input # Factr!NoClient
    <3>1. Closing' /\ \A x \in Factr!Stoppers : stop'[x] = "closing" => victim'[x] = input
      BY <1>0, <1>1, <1>3, <2>2 DEF Closing
    <3>2. \A c \in closed : c # Factr!NoClient
      BY <1>t, <1>a DEF DeviceOK
    <3> QED
      BY <1>0, <2>2, <3>1, <3>2 DEF FactrIInv, ClientInv
  <2> QED
    BY <2>1, <2>2
<1>7. OutputInv'
  <2>1. \A c \in Factr!Clients : worker[c] = "on" => stop'[e] = "closing" /\ victim'[e] = c
    BY <1>0, <1>1, <1>3, <1>a DEF FactrIInv, OutputInv, Factr!OutputAccounted, Closing
  <2> QED
    BY <1>0, <1>3, <2>1 DEF OutputInv, Factr!OutputAccounted, Factr!NoRequest
<1>8. CalibrationInv'
  BY <1>0 DEF FactrIInv, CalibrationInv
<1>9. TakeoverInv'
  BY <1>0 DEF FactrIInv, TakeoverInv
<1>10. ClosedInv'
  BY <1>0 DEF ClosedInv
<1> QED
  BY <1>4, <1>5, <1>6, <1>7, <1>8, <1>9, <1>10 DEF FactrIInv

(* A stop that has closed its client knows whether OFF was confirmed.      *)
LEMMA StopClosesPreserves ==
  ASSUME FactrIInv, NEW e \in Factr!Stoppers, Factr!StopCloses(e)
  PROVE  FactrIInv'
<1> USE DEF Factr!service, Factr!device, Factr!owner
<1>t. ServiceOK /\ StopOK /\ DeviceOK /\ FlagsOK
  BY TypeParts DEF FactrIInv
<1>a. /\ Nobody \notin Factr!Stoppers /\ "gravity" \notin Factr!Stoppers
      /\ Factr!NoClient \notin Factr!Clients
  BY DevicesAssumption DEF Factr!FactrAssumption, Factr!Stoppers, Factr!NoClient, Factr!Clients
<1>0. /\ UNCHANGED <<state, input, clients, calibrated, armed, aligned, closing, calibration,
                     gravity, monitor, session, quiet, overtaken>>
      /\ op' = Nobody
      /\ stop[e] = "closing" /\ stop'[e] = "idle"
      /\ \A x \in Factr!Stoppers \ {e} : stop'[x] = stop[x] /\ victim'[x] = victim[x]
      /\ StopOK' /\ victim' \in [Factr!Stoppers -> Factr!Clients \cup {Factr!NoClient}]
  BY <1>t DEF Factr!StopCloses, StopOK, ServiceOK
<1>1. /\ op = e /\ victim[e] = clients /\ clients # 0 /\ input = Factr!NoClient
      /\ gravity = Factr!NoRequest
      /\ \A x \in Factr!Stoppers \ {e} : stop[x] # "closing"
  BY <1>0, <1>a DEF FactrIInv, OperationInv
<1>2. clients \in Factr!Clients /\ clients <= clients
  BY <1>1, <1>t, DevicesAssumption DEF ServiceOK, Factr!Clients, Factr!FactrAssumption
<1>3. calibration.pc \notin Opened \cup {"opening"}
  <2>1. calibration.pc \in Opened \cup {"opening"} => e = Calibrator /\ stop[Calibrator] = "idle"
    BY <1>1 DEF FactrIInv, OperationInv, Opened
  <2> QED
    BY <1>0, <2>1
<1>4. /\ closed' = closed \cup {clients}
      /\ \/ clients \in closed /\ UNCHANGED worker
         \/ clients \notin closed /\ worker[clients] \in Factr!Alive /\ Factr!Ends(clients)
         \/ clients \notin closed /\ worker[clients] \notin Factr!Alive /\ UNCHANGED worker
      /\ unknown' = (unknown \/ Factr!Unconfirmed(clients))
  BY <1>1 DEF Factr!StopCloses, Factr!Closes
<1>5. /\ worker' \in [Factr!Clients -> Factr!Alive \cup Factr!Ended \cup {"absent"}]
      /\ worker'[clients] \notin Factr!Alive
      /\ \A d \in Factr!Clients \ {clients} : worker'[d] = worker[d]
  <2>1. \A v \in Factr!Ended : v \notin Factr!Alive
    BY DEF Factr!Ended, Factr!Lost, Factr!Alive
  <2>2. CASE clients \in closed /\ UNCHANGED worker
    BY <1>t, <2>2 DEF DeviceOK, FactrIInv, ClientInv
  <2>3. CASE worker[clients] \in Factr!Alive /\ Factr!Ends(clients)
    BY <1>t, <1>2, <2>1, <2>3, Ending
  <2>4. CASE worker[clients] \notin Factr!Alive /\ UNCHANGED worker
    BY <1>t, <2>4 DEF DeviceOK
  <2> QED
    BY <1>4, <2>2, <2>3, <2>4
<1>6. /\ unknown' \in BOOLEAN
      /\ unknown => unknown'
      /\ clients \notin closed /\ worker'[clients] \in Factr!Lost => unknown'
  BY <1>4, <1>t DEF FlagsOK, Factr!Unconfirmed
<1>7. Factr!TypeOK'
  <2>1. ServiceOK'
    BY <1>0, <1>t DEF ServiceOK
  <2>2. DeviceOK'
    BY <1>0, <1>2, <1>4, <1>5, <1>t DEF DeviceOK
  <2>3. FlagsOK'
    BY <1>0, <1>6, <1>t DEF FlagsOK
  <2> QED
    BY <1>0, <2>1, <2>2, <2>3 DEF Factr!TypeOK, ServiceOK, StopOK, DeviceOK, FlagsOK
<1>8. OperationInv'
  <2>1. \A x \in Factr!Stoppers : stop'[x] # "closing"
    BY <1>0, <1>1
  <2>2. \A x \in Factr!Stoppers : stop[x] = "idle" => stop'[x] = "idle"
    BY <1>0
  <2>3. {Monitor, Closer, Calibrator} \subseteq Factr!Stoppers
    BY DEF Factr!Stoppers
  <2> QED
    BY <1>0, <1>1, <1>3, <2>1, <2>2, <2>3 DEF FactrIInv, OperationInv
<1>9. ClientInv'
  <2>1. \A x \in Factr!Stoppers : stop'[x] # "closing"
    BY <1>0, <1>1
  <2>2. \A c \in closed' : c <= clients /\ worker'[c] \notin Factr!Alive
    BY <1>2, <1>4, <1>5, <1>t DEF FactrIInv, ClientInv, DeviceOK
  <2>3. \A c \in Factr!Clients : c > clients => worker'[c] = "absent"
    BY <1>2, <1>5 DEF FactrIInv, ClientInv, Factr!Clients
  <2>4. \A c \in closed' : input # c
    BY <1>1, <1>2, <1>4, <1>a, <1>t DEF DeviceOK
  <2>5. worker'[clients] \in Factr!Lost /\ clients \notin quiet => unknown'
    <3>1. clients \in closed => clients \in quiet
      BY <1>0, <1>1 DEF FactrIInv, ClientInv
    <3> QED
      BY <1>6, <3>1
  <2> QED
    BY <1>0, <1>1, <1>4, <2>1, <2>2, <2>3, <2>4, <2>5 DEF ClientInv
<1>10. OutputInv'
  <2>1. \A c \in Factr!Clients : worker'[c] # "on"
    BY <1>0, <1>1, <1>5, <1>a DEF FactrIInv, OutputInv, Factr!OutputAccounted, Factr!Alive
  <2> QED
    BY <1>0, <1>1, <2>1 DEF OutputInv, Factr!OutputAccounted, Factr!NoRequest
<1>11. CalibrationInv'
  BY <1>0 DEF FactrIInv, CalibrationInv
<1>12. TakeoverInv'
  BY <1>0 DEF FactrIInv, TakeoverInv
<1>13. ClosedInv'
  BY <1>0, <1>1 DEF ClosedInv
<1> QED
  BY <1>7, <1>8, <1>9, <1>10, <1>11, <1>12, <1>13 DEF FactrIInv

(***************************************************************************)
(* The monitor, close() and the runtime process.                           *)
(***************************************************************************)
LEMMA OthersPreserve ==
  ASSUME FactrIInv,
         Factr!Poll \/ Factr!StartCalibration \/ (\E wants \in Factr!Alive : Factr!GravityBegins(wants)) \/ Factr!Close
           \/ (\E c \in Factr!Clients : Factr!WorkerFails(c))
  PROVE  FactrIInv'
<1> USE DEF Factr!service, Factr!device, Factr!owner, Factr!stops
<1>t. ServiceOK /\ StopOK /\ DeviceOK /\ FlagsOK
  BY TypeParts DEF FactrIInv
<1>a. /\ Nobody \notin Factr!Stoppers /\ "gravity" \notin Factr!Stoppers
      /\ {Monitor, Closer, Calibrator} \subseteq Factr!Stoppers
      /\ Monitor # Closer /\ Monitor # Calibrator /\ Closer # Calibrator
      /\ Factr!NoClient \notin Factr!Clients
  BY DevicesAssumption DEF Factr!FactrAssumption, Factr!Stoppers, Factr!NoClient, Factr!Clients
<1>1. UNCHANGED <<input, clients, calibrated, unknown, armed, aligned, victim, session, overtaken>>
  BY DEF Factr!Poll, Factr!PollReads, Factr!PollChecks, Factr!PollProbes, Factr!StartCalibration,
     Factr!GravityBegins, Factr!Close, Factr!WorkerFails
<1>2. Wear /\ DeviceOK'
  <2>1. CASE \E c \in Factr!Clients : Factr!WorkerFails(c)
    BY <2>1, <1>t, Ending DEF Factr!WorkerFails, Wear, DeviceOK
  <2>2. CASE UNCHANGED Factr!device
    BY <2>2, <1>t, NoFailing
  <2> QED
    BY <2>1, <2>2 DEF Factr!Poll, Factr!PollReads, Factr!PollChecks, Factr!PollProbes,
       Factr!StartCalibration, Factr!GravityBegins, Factr!Close
<1>3. \E e \in {Monitor, Closer} : Calls(e)
  BY DEF Factr!Poll, Factr!PollReads, Factr!PollChecks, Factr!PollProbes, Factr!StartCalibration,
     Factr!GravityBegins, Factr!Close, Factr!WorkerFails, Calls, Factr!Calling, FactrIInv,
     OperationInv
<1>4. PICK e \in {Monitor, Closer} : Calls(e)
  BY <1>3
<1>5. /\ StopOK'
      /\ \A x \in Factr!Stoppers : /\ stop'[x] = stop[x] \/ (stop[x] = "idle" /\ stop'[x] = "called")
                                   /\ victim'[x] = victim[x]
      /\ stop'[Calibrator] = stop[Calibrator]
      /\ Factr!Stopping => Factr!Stopping'
  BY <1>4, <1>a, <1>t, Called
<1>6. /\ state' \in Factr!State /\ monitor' \in [client : Factr!Clients \cup {Factr!NoClient}, state : Factr!State \cup {"none"}]
      /\ op' \in Factr!Stoppers \cup {Nobody, "gravity"}
      /\ calibration' \in [pc : Factr!CalibrationPc, client : Factr!Clients \cup {Factr!NoClient}]
      /\ gravity' \in [client : Factr!Clients \cup {Factr!NoClient}, wants : Factr!Alive \cup {"none"}]
      /\ closing' \in BOOLEAN
  <2>1. CASE Factr!Poll
    BY <2>1, <1>t DEF Factr!Poll, Factr!PollReads, Factr!PollChecks, Factr!PollProbes, Factr!Idle,
       ServiceOK, FlagsOK, Factr!State
  <2>2. CASE Factr!StartCalibration
    BY <2>2, <1>t DEF Factr!StartCalibration, ServiceOK, FlagsOK, Factr!State, Factr!CalibrationPc
  <2>3. CASE \E wants \in Factr!Alive : Factr!GravityBegins(wants)
    BY <2>3, <1>t DEF Factr!GravityBegins, ServiceOK, FlagsOK
  <2>4. CASE Factr!Close \/ \E c \in Factr!Clients : Factr!WorkerFails(c)
    BY <2>4, <1>t DEF Factr!Close, Factr!WorkerFails, ServiceOK, FlagsOK
  <2> QED
    BY <2>1, <2>2, <2>3, <2>4
<1>7. Factr!TypeOK'
  <2>1. ServiceOK' /\ FlagsOK'
    BY <1>1, <1>6, <1>t DEF ServiceOK, FlagsOK
  <2> QED
    BY <1>2, <1>5, <2>1 DEF Factr!TypeOK, ServiceOK, StopOK, DeviceOK, FlagsOK
<1>8. ClientInv'
  BY <1>1, <1>2, <1>4, <1>a, <1>t, ClientKept DEF FactrIInv
<1>c. \A x \in Factr!Stoppers : stop'[x] = "closing" => stop[x] = "closing"
  BY <1>5
<1>9. CASE Factr!Poll
  <2>1. UNCHANGED <<op, closing, calibration, gravity>>
    BY <1>9 DEF Factr!Poll, Factr!PollReads, Factr!PollChecks, Factr!PollProbes
  <2>2. CASE Factr!PollReads
    <3>1. UNCHANGED <<state, stop>> /\ stop[Monitor] = "idle" /\ monitor' = [client |-> input, state |-> state]
          /\ state \notin {"CALIBRATING", "ERROR"}
      BY <2>2 DEF Factr!PollReads
    <3>2. OperationInv'
      BY <1>1, <2>1, <3>1 DEF FactrIInv, OperationInv
    <3>3. OutputInv'
      BY <1>1, <1>2, <1>4, <1>a, <1>t, <2>1, <3>1, OutputKept DEF FactrIInv, OutputInv,
         Factr!Stopping
    <3>4. CalibrationInv' /\ TakeoverInv' /\ ClosedInv'
      BY <1>1, <2>1, <3>1 DEF FactrIInv, CalibrationInv, TakeoverInv, ClosedInv, InUse
    <3> QED
      BY <1>7, <1>8, <3>2, <3>3, <3>4 DEF FactrIInv
  <2>3. CASE Factr!PollChecks
    <3>1. UNCHANGED state /\ monitor' = Factr!Idle /\ Calls(Monitor) /\ \A x \in Factr!Stoppers \ {Monitor} : stop'[x] = stop[x]
      BY <2>3, <1>t DEF Factr!PollChecks, Calls, Factr!Calling, FactrIInv, OperationInv, StopOK
    <3>2. OperationInv'
      BY <1>1, <1>a, <1>5, <1>c, <2>1, <3>1 DEF FactrIInv, OperationInv
    <3>3. OutputInv'
      BY <1>1, <1>2, <1>5, <1>a, <1>t, <2>1, <3>1, OutputKept DEF FactrIInv, OutputInv
    <3>4. CalibrationInv' /\ TakeoverInv' /\ ClosedInv'
      BY <1>1, <1>5, <1>a, <2>1, <3>1 DEF FactrIInv, CalibrationInv, TakeoverInv, ClosedInv, InUse
    <3> QED
      BY <1>7, <1>8, <3>2, <3>3, <3>4 DEF FactrIInv
  <2>4. CASE Factr!PollProbes
    <3>1. /\ monitor' = Factr!Idle /\ UNCHANGED stop /\ monitor # Factr!Idle
          /\ \/ UNCHANGED state
             \/ /\ input = Factr!NoClient /\ state = monitor.state
                /\ state' \in {"DISCONNECTED", "UNCALIBRATED"}
      BY <2>4 DEF Factr!PollProbes
    <3>2. OperationInv'
      BY <1>1, <2>1, <3>1 DEF FactrIInv, OperationInv
    <3>3. OutputInv'
      <4>1. gravity.wants = "on" => input # Factr!NoClient
        BY DEF FactrIInv, OperationInv, Factr!NoRequest
      <4>2. state \in InUse => state' \in InUse \/ (\A c \in Factr!Clients : worker[c] = "on" => c # input)
        BY <3>1, <1>a
      <4>3. gravity'.wants = "on" => state' \in InUse \/ Factr!Stopping'
        BY <2>1, <3>1, <1>5, <4>1 DEF FactrIInv, OutputInv
      <4> QED
        BY <1>1, <1>2, <1>4, <1>a, <1>t, <4>2, <4>3, OutputKept DEF FactrIInv
    <3>4. CalibrationInv'
      BY <1>1, <2>1, <3>1 DEF FactrIInv, CalibrationInv, OperationInv
    <3>5. TakeoverInv' /\ ClosedInv'
      BY <1>1, <2>1, <3>1 DEF FactrIInv, TakeoverInv, ClosedInv, InUse
    <3> QED
      BY <1>7, <1>8, <3>2, <3>3, <3>4, <3>5 DEF FactrIInv
  <2> QED
    BY <1>9, <2>2, <2>3, <2>4 DEF Factr!Poll
<1>10. CASE Factr!StartCalibration
  <2>1. /\ UNCHANGED <<op, closing, gravity, stop, monitor>>
        /\ state' = "CALIBRATING" /\ calibration' = [pc |-> "started", client |-> Factr!NoClient]
        /\ armed = NoSession /\ aligned = NoSession /\ gravity = Factr!NoRequest /\ calibration.pc = "none"
        /\ input # Factr!NoClient => worker[input] # "on"
    BY <1>10 DEF Factr!StartCalibration, Factr!Calibratable
  <2>2. OperationInv'
    BY <1>1, <2>1 DEF FactrIInv, OperationInv, Opened
  <2>3. OutputInv'
    <3>1. \A c \in Factr!Clients : worker[c] = "on" => c # input
      BY <2>1, <1>a
    <3> QED
      BY <1>1, <1>2, <1>4, <1>a, <1>t, <2>1, <3>1, OutputKept DEF FactrIInv, Factr!NoRequest
  <2>4. CalibrationInv' /\ TakeoverInv' /\ ClosedInv'
    BY <1>1, <2>1 DEF FactrIInv, CalibrationInv, TakeoverInv, ClosedInv, InUse
  <2> QED
    BY <1>7, <1>8, <2>2, <2>3, <2>4 DEF FactrIInv
<1>11. CASE \E wants \in Factr!Alive : Factr!GravityBegins(wants)
  <2>1. PICK wants \in Factr!Alive : Factr!GravityBegins(wants)
    BY <1>11
  <2>2. /\ UNCHANGED <<state, closing, calibration, stop, monitor>>
        /\ op = Nobody /\ op' = "gravity" /\ input # Factr!NoClient
        /\ gravity' = [client |-> input, wants |-> wants]
        /\ wants = "on" => state \in {"READY", "ARMED"}
    BY <2>1 DEF Factr!GravityBegins, Factr!Free
  <2>3. calibration.pc \notin Opened \cup {"opening"} /\ \A x \in Factr!Stoppers : stop[x] # "closing"
    BY <1>a, <2>2 DEF FactrIInv, OperationInv
  <2>4. OperationInv'
    BY <1>1, <2>2, <2>3 DEF FactrIInv, OperationInv
  <2>5. OutputInv'
    BY <1>1, <1>2, <1>4, <1>a, <1>t, <2>2, OutputKept DEF FactrIInv, InUse
  <2>6. CalibrationInv' /\ TakeoverInv' /\ ClosedInv'
    BY <1>1, <2>2 DEF FactrIInv, CalibrationInv, TakeoverInv, ClosedInv, InUse
  <2> QED
    BY <1>7, <1>8, <2>4, <2>5, <2>6 DEF FactrIInv
<1>12. CASE Factr!Close
  <2>1. /\ UNCHANGED <<state, op, calibration, gravity, monitor>> /\ ~closing /\ closing'
        /\ Calls(Closer) /\ stop'[Closer] = "called" /\ \A x \in Factr!Stoppers \ {Closer} : stop'[x] = stop[x]
    BY <1>12, <1>t, <1>a DEF Factr!Close, Calls, Factr!Calling, FactrIInv, OperationInv, StopOK
  <2>2. OperationInv'
    BY <1>1, <1>a, <1>5, <1>c, <2>1 DEF FactrIInv, OperationInv
  <2>3. OutputInv'
    BY <1>1, <1>2, <1>5, <1>a, <1>t, <2>1, OutputKept DEF FactrIInv, OutputInv
  <2>4. CalibrationInv' /\ TakeoverInv'
    BY <1>1, <1>5, <1>a, <2>1 DEF FactrIInv, CalibrationInv, TakeoverInv, InUse
  <2>5. ClosedInv'
    BY <2>1 DEF ClosedInv
  <2> QED
    BY <1>7, <1>8, <2>2, <2>3, <2>4, <2>5 DEF FactrIInv
<1>13. CASE \E c \in Factr!Clients : Factr!WorkerFails(c)
  <2>1. UNCHANGED <<state, op, closing, calibration, gravity, monitor, stop>>
    BY <1>13 DEF Factr!WorkerFails
  <2>2. OperationInv'
    BY <1>1, <2>1 DEF FactrIInv, OperationInv
  <2>3. OutputInv'
    BY <1>1, <1>2, <1>4, <1>5, <1>a, <1>t, <2>1, OutputKept DEF FactrIInv, OutputInv
  <2>4. CalibrationInv' /\ TakeoverInv' /\ ClosedInv'
    BY <1>1, <2>1 DEF FactrIInv, CalibrationInv, TakeoverInv, ClosedInv, InUse
  <2> QED
    BY <1>7, <1>8, <2>2, <2>3, <2>4 DEF FactrIInv
<1> QED
  BY <1>9, <1>10, <1>11, <1>12, <1>13

(***************************************************************************)
(* Calibration.                                                            *)
(***************************************************************************)
(* While _operation is the calibration's, nobody else is half done.        *)
LEMMA CalibrationAlone ==
  ASSUME FactrIInv, calibration.pc \in Opened \cup {"opening"}
  PROVE  /\ op = Calibrator /\ stop[Calibrator] = "idle" /\ gravity = Factr!NoRequest
         /\ \A x \in Factr!Stoppers : stop[x] # "closing"
         /\ calibration.pc \in Opened =>
              /\ calibration.client = input /\ input \in Factr!Clients /\ input <= clients
              /\ input # Factr!NoClient
<1>1. "gravity" # Calibrator /\ Factr!NoClient \notin Factr!Clients
  BY DevicesAssumption DEF Factr!FactrAssumption, Factr!Stoppers, Factr!NoClient, Factr!Clients
<1>2. ServiceOK
  BY TypeParts DEF FactrIInv
<1>3. op = Calibrator /\ stop[Calibrator] = "idle" /\ gravity = Factr!NoRequest
  BY <1>1 DEF FactrIInv, OperationInv, Opened
<1>4. \A x \in Factr!Stoppers : stop[x] # "closing"
  BY <1>3 DEF FactrIInv, OperationInv
<1>5. calibration.pc \in Opened => calibration.client = input /\ input # Factr!NoClient
  BY DEF FactrIInv, OperationInv
<1>6. input # Factr!NoClient => input \in Factr!Clients /\ input <= clients
  BY <1>2 DEF FactrIInv, ClientInv, ServiceOK, Factr!Clients
<1> QED
  BY <1>3, <1>4, <1>5, <1>6

(* A calibration's steps but its opening and its success keep the          *)
(* invariant.                                                              *)
LEMMA CalibratePreserves ==
  ASSUME FactrIInv, Factr!Calibrate, ~Factr!CalibrationOpens, ~Factr!CalibrationSucceeds
  PROVE  FactrIInv'
<1> USE DEF Factr!service, Factr!device, Factr!owner, Factr!stops
<1>t. ServiceOK /\ StopOK /\ DeviceOK /\ FlagsOK
  BY TypeParts DEF FactrIInv
<1>a. /\ Nobody \notin Factr!Stoppers /\ "gravity" \notin Factr!Stoppers /\ Nobody # "gravity"
      /\ {Monitor, Closer, Calibrator} \subseteq Factr!Stoppers
      /\ Monitor # Closer /\ Monitor # Calibrator /\ Closer # Calibrator
  BY DevicesAssumption DEF Factr!FactrAssumption, Factr!Stoppers
<1>1. UNCHANGED <<state, input, clients, calibrated, unknown, armed, aligned, victim, session,
                  overtaken, closing, gravity, monitor>>
  BY DEF Factr!Calibrate, Factr!CalibrationEnters, Factr!CalibrationFails,
     Factr!CalibrationCaptures, Factr!CalibrationAbandoned, Factr!CalibrationLeaves
<1>2. Wear /\ DeviceOK'
  <2>1. CASE UNCHANGED Factr!device
    BY <2>1, <1>t, NoFailing
  <2>2. CASE Factr!CalibrationFails /\ ~UNCHANGED Factr!device
    <3>1. calibration.pc = "capturing" /\ Factr!CallFails(calibration.client)
      BY <2>2 DEF Factr!CalibrationFails
    <3> QED
      BY <3>1, <1>t, CalibrationAlone, Failing DEF Opened, FactrIInv
  <2>3. CASE Factr!CalibrationAbandoned /\ ~UNCHANGED Factr!device
    <3>1. calibration.pc \in Opened /\ Factr!Closes(calibration.client) /\ quiet' = quiet \cup {calibration.client}
      BY <2>3 DEF Factr!CalibrationAbandoned, Opened
    <3>2. calibration.client \in Factr!Clients /\ calibration.client <= clients
      BY <3>1, CalibrationAlone
    <3>3. closed' = closed \cup {calibration.client}
          /\ ((worker[calibration.client] \in Factr!Alive /\ Factr!Ends(calibration.client)) \/ UNCHANGED worker)
          /\ (calibration.client \notin closed /\ worker[calibration.client] \in Factr!Alive => Factr!Ends(calibration.client))
      BY <3>1 DEF Factr!Closes
    <3>4. CASE worker[calibration.client] \in Factr!Alive /\ Factr!Ends(calibration.client)
      BY <3>1, <3>2, <3>3, <3>4, <1>t, Ending DEF Wear, DeviceOK, Factr!Ended, Factr!Lost,
         Factr!Alive
    <3>5. CASE UNCHANGED worker /\ ~(worker[calibration.client] \in Factr!Alive /\ Factr!Ends(calibration.client))
      BY <3>1, <3>2, <3>3, <3>5, <1>t DEF Wear, DeviceOK
    <3> QED
      BY <3>3, <3>4, <3>5
  <2> QED
    BY <2>1, <2>2, <2>3 DEF Factr!Calibrate, Factr!CalibrationEnters, Factr!CalibrationCaptures,
       Factr!CalibrationLeaves
<1>3. Calls(Calibrator)
  <2>1. CASE Factr!CalibrationFails \/ Factr!CalibrationAbandoned
    <3>1. stop[Calibrator] = "idle"
      BY <2>1, CalibrationAlone DEF Factr!CalibrationFails, Factr!CalibrationAbandoned, Opened
    <3> QED
      BY <2>1, <3>1 DEF Factr!CalibrationFails, Factr!CalibrationAbandoned, Calls, Factr!Calling
  <2> QED
    BY <2>1 DEF Factr!Calibrate, Factr!CalibrationEnters, Factr!CalibrationCaptures,
       Factr!CalibrationLeaves, Calls
<1>5. /\ StopOK'
      /\ \A x \in Factr!Stoppers : /\ stop'[x] = stop[x] \/ (stop[x] = "idle" /\ stop'[x] = "called")
                                   /\ victim'[x] = victim[x]
      /\ \A x \in Factr!Stoppers \ {Calibrator} : stop'[x] = stop[x]
      /\ Factr!Stopping => Factr!Stopping'
  BY <1>3, <1>a, <1>t, Called
<1>6. /\ op' \in Factr!Stoppers \cup {Nobody, "gravity"}
      /\ calibration' \in [pc : Factr!CalibrationPc, client : Factr!Clients \cup {Factr!NoClient}]
  BY <1>a, <1>t DEF Factr!Calibrate, Factr!CalibrationEnters, Factr!CalibrationFails,
     Factr!CalibrationCaptures, Factr!CalibrationAbandoned, Factr!CalibrationLeaves, ServiceOK,
     Factr!CalibrationPc
<1>7. Factr!TypeOK'
  <2>1. ServiceOK' /\ FlagsOK'
    BY <1>1, <1>6, <1>t DEF ServiceOK, FlagsOK
  <2> QED
    BY <1>2, <1>5, <2>1 DEF Factr!TypeOK, ServiceOK, StopOK, DeviceOK, FlagsOK
<1>8. ClientInv'
  BY <1>1, <1>2, <1>3, <1>a, <1>t, ClientKept DEF FactrIInv
<1>9. OutputInv'
  BY <1>1, <1>2, <1>3, <1>5, <1>a, <1>t, OutputKept DEF FactrIInv, OutputInv
<1>10. TakeoverInv' /\ ClosedInv'
  BY <1>1, <1>5, <1>a DEF FactrIInv, TakeoverInv, ClosedInv
<1>11. calibration'.pc \in Opened \cup {"started", "opening"} =>
         /\ calibration.pc \in Opened \cup {"started", "opening"}
         /\ stop' = stop
  BY <1>t DEF Factr!Calibrate, Factr!CalibrationEnters, Factr!CalibrationFails,
     Factr!CalibrationCaptures, Factr!CalibrationAbandoned, Factr!CalibrationLeaves, ServiceOK,
     Opened
<1>12. CalibrationInv'
  BY <1>1, <1>11 DEF FactrIInv, CalibrationInv
<1>13. OperationInv'
  <2>1. CASE Factr!CalibrationEnters
    <3>1. /\ op = Nobody /\ calibration.pc = "started" /\ UNCHANGED stop
          /\ \/ calibration'.pc = "leaving" /\ UNCHANGED op
             \/ calibration'.pc = "opening" /\ op' = Calibrator
      BY <2>1, <1>t DEF Factr!CalibrationEnters, Factr!Free, ServiceOK
    <3>2. gravity = Factr!NoRequest /\ \A x \in Factr!Stoppers : stop[x] # "closing"
      BY <3>1, <1>a DEF FactrIInv, OperationInv
    <3> QED
      BY <1>1, <3>1, <3>2 DEF FactrIInv, OperationInv, Opened
  <2>2. CASE Factr!CalibrationFails \/ Factr!CalibrationAbandoned
    <3>1. calibration.pc \in Opened \cup {"opening"} /\ op' = Nobody /\ calibration'.pc = "leaving"
      BY <2>2, <1>t DEF Factr!CalibrationFails, Factr!CalibrationAbandoned, Opened, ServiceOK
    <3>2. gravity = Factr!NoRequest /\ \A x \in Factr!Stoppers : stop[x] # "closing"
      BY <3>1, CalibrationAlone
    <3>3. \A x \in Factr!Stoppers : stop'[x] # "closing"
      BY <3>2, <1>5
    <3> QED
      BY <1>1, <1>5, <1>a, <3>1, <3>2, <3>3 DEF FactrIInv, OperationInv, Opened
  <2>3. CASE Factr!CalibrationCaptures
    <3>1. /\ calibration.pc = "capturing" /\ calibration'.pc = "captured" /\ UNCHANGED <<op, stop>>
          /\ calibration'.client = calibration.client
      BY <2>3, <1>t DEF Factr!CalibrationCaptures, ServiceOK
    <3> QED
      BY <1>1, <3>1 DEF FactrIInv, OperationInv, Opened
  <2>4. CASE Factr!CalibrationLeaves
    <3>1. calibration'.pc = "none" /\ stop[Calibrator] = "idle" /\ UNCHANGED <<op, stop>>
      BY <2>4 DEF Factr!CalibrationLeaves
    <3> QED
      BY <1>1, <3>1 DEF FactrIInv, OperationInv, Opened
  <2> QED
    BY <2>1, <2>2, <2>3, <2>4 DEF Factr!Calibrate
<1> QED
  BY <1>7, <1>8, <1>9, <1>10, <1>12, <1>13 DEF FactrIInv

(* A new client replaces none, and its motors are off.                     *)
LEMMA CalibrationOpensPreserves ==
  ASSUME FactrIInv, Factr!CalibrationOpens
  PROVE  FactrIInv'
<1> USE DEF Factr!service, Factr!device, Factr!owner, Factr!stops
<1>t. ServiceOK /\ StopOK /\ DeviceOK /\ FlagsOK
  BY TypeParts DEF FactrIInv
<1>a. /\ op = Calibrator /\ stop[Calibrator] = "idle" /\ gravity = Factr!NoRequest
      /\ \A x \in Factr!Stoppers : stop[x] # "closing"
      /\ calibration.pc = "opening"
  BY CalibrationAlone DEF Factr!CalibrationOpens
<1>1. /\ UNCHANGED <<state, calibrated, unknown, armed, aligned, stop, victim, session, op,
                     overtaken, closing, gravity, monitor, closed, quiet>>
      /\ calibration' = [pc |-> "capturing", client |-> input']
  BY DEF Factr!CalibrationOpens
<1>n. MaxClients \in Nat /\ Factr!NoClient = 0
  BY DevicesAssumption DEF Factr!FactrAssumption, Factr!NoClient
<1>2. CASE input # Factr!NoClient
  <2>1. UNCHANGED <<clients, input, worker>> /\ input \in Factr!Clients
    BY <1>2, <1>t DEF Factr!CalibrationOpens, ServiceOK
  <2>2. Factr!TypeOK'
    BY <1>1, <2>1, <1>t DEF Factr!TypeOK, ServiceOK, StopOK, DeviceOK, FlagsOK, Factr!CalibrationPc
  <2>3. OperationInv'
    BY <1>1, <1>2, <1>a, <2>1 DEF FactrIInv, OperationInv, Opened
  <2>4. ClientInv' /\ OutputInv'
    BY <1>1, <2>1 DEF FactrIInv, ClientInv, Closing, OutputInv, Factr!OutputAccounted,
       Factr!Stopping
  <2>5. CalibrationInv' /\ TakeoverInv' /\ ClosedInv'
    BY <1>1, <1>a, <2>1 DEF FactrIInv, CalibrationInv, TakeoverInv, ClosedInv
  <2> QED
    BY <2>2, <2>3, <2>4, <2>5 DEF FactrIInv
<1>3. CASE input = Factr!NoClient
  <2>1. /\ clients < MaxClients /\ clients' = clients + 1 /\ input' = clients + 1 /\ ~closing
        /\ worker' = [worker EXCEPT ![clients + 1] = "off"]
        /\ clients \in 0..MaxClients
    BY <1>3, <1>t DEF Factr!CalibrationOpens, ServiceOK
  <2>2. /\ clients + 1 \in Factr!Clients /\ clients + 1 # Factr!NoClient /\ clients' \in 0..MaxClients
        /\ \A c \in Factr!Clients : c > clients + 1 => c > clients /\ c # clients + 1
        /\ \A c \in Factr!Clients : c <= clients => c <= clients + 1 /\ c # clients + 1
    BY <2>1, <1>n DEF Factr!Clients
  <2>3. worker'[clients + 1] = "off" /\ \A c \in Factr!Clients \ {clients + 1} : worker'[c] = worker[c]
    BY <2>1, <2>2, <1>t DEF DeviceOK
  <2>4. Factr!TypeOK'
    <3>1. DeviceOK'
      BY <1>1, <2>1, <1>t DEF DeviceOK, Factr!Alive
    <3> QED
      BY <1>1, <2>1, <2>2, <3>1, <1>t DEF Factr!TypeOK, ServiceOK, StopOK, DeviceOK, FlagsOK,
         Factr!CalibrationPc
  <2>5. OperationInv'
    BY <1>1, <1>a, <2>1, <2>2 DEF FactrIInv, OperationInv, Opened
  <2>6. ClientInv'
    <3>1. \A c \in closed : c \in Factr!Clients /\ c <= clients
      BY <1>t DEF FactrIInv, ClientInv, DeviceOK
    <3>2. \A c \in closed : c <= clients' /\ worker'[c] \notin Factr!Alive
      BY <2>1, <2>2, <2>3, <3>1 DEF FactrIInv, ClientInv
    <3>3. \A c \in closed : input' # c
      BY <2>1, <2>2, <3>1
    <3>4. \A c \in Factr!Clients : c > clients' => worker'[c] = "absent"
      BY <2>1, <2>2, <2>3 DEF FactrIInv, ClientInv
    <3> QED
      BY <1>1, <1>a, <2>1, <2>2, <3>2, <3>3, <3>4 DEF ClientInv
  <2>7. OutputInv'
    <3>1. \A c \in Factr!Clients : worker'[c] # "on"
      BY <1>3, <1>a, <1>n, <2>3 DEF FactrIInv, OutputInv, Factr!OutputAccounted, Factr!Clients
    <3> QED
      BY <1>1, <1>a, <3>1 DEF OutputInv, Factr!OutputAccounted, Factr!NoRequest
  <2>8. CalibrationInv' /\ ClosedInv'
    BY <1>1, <1>a, <2>1 DEF FactrIInv, CalibrationInv, ClosedInv
  <2>9. TakeoverInv'
    BY <1>1, <1>3, <2>1, <2>2 DEF FactrIInv, TakeoverInv
  <2> QED
    BY <2>4, <2>5, <2>6, <2>7, <2>8, <2>9 DEF FactrIInv
<1> QED
  BY <1>2, <1>3

(* A success makes its client the calibrated one, or overtakes a stop.     *)
LEMMA CalibrationSucceedsPreserves ==
  ASSUME FactrIInv, Factr!CalibrationSucceeds
  PROVE  FactrIInv'
<1> USE DEF Factr!service, Factr!device, Factr!owner, Factr!stops
<1>t. ServiceOK /\ StopOK /\ DeviceOK /\ FlagsOK
  BY TypeParts DEF FactrIInv
<1>a. /\ op = Calibrator /\ stop[Calibrator] = "idle" /\ gravity = Factr!NoRequest
      /\ \A x \in Factr!Stoppers : stop[x] # "closing"
      /\ calibration.client = input /\ input \in Factr!Clients /\ input # Factr!NoClient
      /\ calibration.pc = "captured"
  BY CalibrationAlone DEF Factr!CalibrationSucceeds, Opened
<1>1. /\ UNCHANGED <<input, clients, armed, aligned, stop, victim, session, closing, gravity, monitor,
                     worker, closed, quiet>>
      /\ state' = "READY" /\ calibrated' = input /\ unknown' = FALSE /\ ~closing
      /\ calibration'.pc = "leaving" /\ calibration'.client = input /\ op' = Nobody
      /\ calibration' = [calibration EXCEPT !.pc = "leaving"]
  BY <1>t, <1>a DEF Factr!CalibrationSucceeds, ServiceOK
<1>2. overtaken' = (overtaken \/ Factr!Stopping)
  BY DEF Factr!CalibrationSucceeds
<1>3. /\ overtaken' \in BOOLEAN
      /\ ~overtaken' => ~overtaken /\ ~Factr!Stopping
  BY <1>2, <1>t DEF FlagsOK
<1>4. Factr!TypeOK'
  <2>1. ServiceOK' /\ FlagsOK'
    BY <1>1, <1>3, <1>a, <1>t DEF ServiceOK, FlagsOK, Factr!State, Factr!CalibrationPc
  <2> QED
    BY <1>1, <1>t, <2>1 DEF Factr!TypeOK, ServiceOK, StopOK, DeviceOK, FlagsOK
<1>5. OperationInv'
  BY <1>1, <1>a DEF FactrIInv, OperationInv, Opened
<1>6. ClientInv'
  BY <1>1, <1>a DEF FactrIInv, ClientInv, Closing
<1>7. OutputInv'
  BY <1>1, <1>a DEF FactrIInv, OutputInv, Factr!OutputAccounted, InUse, Factr!NoRequest
<1>8. CalibrationInv'
  BY <1>1 DEF CalibrationInv, Opened
<1>9. TakeoverInv'
  <2>1. armed = NoSession /\ aligned = NoSession
    BY <1>a DEF FactrIInv, CalibrationInv, Opened
  <2> QED
    BY <1>1, <1>3, <1>a, <2>1 DEF TakeoverInv, Factr!Stopping
<1>10. ClosedInv'
  BY <1>1 DEF ClosedInv
<1> QED
  BY <1>4, <1>5, <1>6, <1>7, <1>8, <1>9, <1>10 DEF FactrIInv

(***************************************************************************)
(* The end of set_gravity: what it switched on is in use, or a stop waits. *)
(***************************************************************************)
LEMMA GravityEndsPreserves ==
  ASSUME FactrIInv, Factr!GravityEnds
  PROVE  FactrIInv'
<1> USE DEF Factr!service, Factr!device, Factr!owner, Factr!stops
<1>t. ServiceOK /\ StopOK /\ DeviceOK /\ FlagsOK
  BY TypeParts DEF FactrIInv
<1>b. Nobody \notin Factr!Stoppers /\ "gravity" \notin Factr!Stoppers /\ "gravity" # Calibrator /\ Nobody # Calibrator
  BY DevicesAssumption DEF Factr!FactrAssumption, Factr!Stoppers
<1>a. /\ op = "gravity" /\ gravity.client = input /\ input # Factr!NoClient /\ gravity.wants \in Factr!Alive
      /\ \A x \in Factr!Stoppers : stop[x] # "closing"
      /\ calibration.pc \notin Opened \cup {"opening"}
      /\ input \in Factr!Clients /\ input <= clients
  <2>1. op = "gravity" /\ gravity.client = input /\ input # Factr!NoClient /\ gravity.wants \in Factr!Alive
    BY DEF Factr!GravityEnds, FactrIInv, OperationInv
  <2>2. input \in Factr!Clients /\ input <= clients
    BY <2>1, <1>t DEF FactrIInv, ClientInv, ServiceOK, Factr!Clients
  <2> QED
    BY <2>1, <2>2, <1>b DEF FactrIInv, OperationInv
<1>1. /\ UNCHANGED <<state, input, clients, calibrated, unknown, armed, aligned, stop, victim, session,
                     closing, calibration, monitor, overtaken>>
      /\ gravity' = Factr!NoRequest /\ op' = Nobody
  BY DEF Factr!GravityEnds
<1>2. OperationInv'
  BY <1>1, <1>a DEF FactrIInv, OperationInv, Opened
<1>3. CalibrationInv' /\ TakeoverInv' /\ ClosedInv'
  BY <1>1 DEF FactrIInv, CalibrationInv, TakeoverInv, ClosedInv
<1>4. ServiceOK' /\ StopOK' /\ FlagsOK'
  BY <1>1, <1>t DEF ServiceOK, StopOK, FlagsOK, Factr!NoRequest
<1>5. CASE Factr!CallFails(input)
  <2>1. DeviceOK' /\ Wear
    BY <1>5, <1>a, <1>t, Failing DEF FactrIInv
  <2>2. \E e : e \in Factr!Stoppers /\ Calls(e)
    BY <1>1 DEF Calls, Factr!Stoppers
  <2>3. ClientInv'
    BY <1>1, <1>t, <2>1, <2>2, ClientKept DEF FactrIInv
  <2>4. OutputInv'
    BY <1>1, <1>t, <2>1, <2>2, OutputKept DEF FactrIInv, Factr!NoRequest
  <2> QED
    BY <1>2, <1>3, <1>4, <2>1, <2>3, <2>4, TypeParts DEF FactrIInv, Factr!TypeOK, ServiceOK, StopOK,
       DeviceOK, FlagsOK
<1>6. CASE worker[input] \in Factr!Alive /\ worker' = [worker EXCEPT ![input] = gravity.wants] /\ UNCHANGED <<closed, quiet>>
  <2>1. worker'[input] = gravity.wants /\ \A c \in Factr!Clients \ {input} : worker'[c] = worker[c]
    BY <1>6, <1>a, <1>t DEF DeviceOK
  <2>2. DeviceOK'
    BY <1>6, <1>a, <1>t DEF DeviceOK
  <2>3. \A c \in closed : c # input /\ c \in Factr!Clients
    BY <1>6, <1>t DEF FactrIInv, ClientInv, DeviceOK
  <2>4. ClientInv'
    BY <1>1, <1>6, <1>a, <1>t, <2>1, <2>3 DEF FactrIInv, ClientInv, DeviceOK, Factr!Clients,
       ServiceOK, Factr!Alive, Closing
  <2>5. OutputInv'
    BY <1>1, <1>a, <2>1 DEF FactrIInv, OutputInv, Factr!OutputAccounted, InUse, Factr!NoRequest,
       Factr!Stopping
  <2> QED
    BY <1>2, <1>3, <1>4, <2>2, <2>4, <2>5 DEF FactrIInv, Factr!TypeOK, ServiceOK, StopOK, DeviceOK,
       FlagsOK
<1> QED
  BY <1>5, <1>6, <1>a DEF Factr!GravityEnds

(* A service without a client satisfies the invariant.                     *)
LEMMA FactrInit == Factr!Init => FactrIInv
<1> SUFFICES ASSUME Factr!Init PROVE FactrIInv
  OBVIOUS
<1> USE DevicesAssumption DEF Factr!Init, Factr!FactrAssumption
<1>1. Factr!TypeOK
  <2>1. ServiceOK
    BY DEF ServiceOK, Factr!State, Factr!CalibrationPc, Factr!SessionPc, Factr!Idle, Factr!NoRequest
  <2>2. StopOK /\ DeviceOK
    BY DEF StopOK, DeviceOK, Factr!Clients
  <2>3. FlagsOK
    BY DEF FlagsOK
  <2> QED
    BY <2>1, <2>2, <2>3, TypeParts
<1>2. OperationInv
  BY DEF OperationInv, Opened, Factr!Stoppers
<1>3. ClientInv /\ OutputInv
  BY DEF ClientInv, OutputInv, Factr!OutputAccounted, Factr!Alive, Factr!NoRequest
<1>4. CalibrationInv /\ TakeoverInv /\ ClosedInv
  BY DEF CalibrationInv, TakeoverInv, ClosedInv, Opened, InUse
<1> QED
  BY <1>1, <1>2, <1>3, <1>4 DEF FactrIInv

(* Every step keeps it.                                                    *)
LEMMA FactrStep ==
  ASSUME FactrIInv, [Factr!Next]_factrVars
  PROVE  FactrIInv'
<1>1. CASE UNCHANGED Factr!vars
  BY <1>1 DEF Factr!vars, Factr!service, Factr!owner, Factr!device, Factr!stops, FactrIInv,
     Factr!TypeOK, OperationInv, ClientInv, Closing, OutputInv, Factr!OutputAccounted,
     Factr!Stopping, CalibrationInv, TakeoverInv, ClosedInv
<1> QED
  BY <1>1, StopEntersPreserves, StopTakesPreserves, StopClosesPreserves, OthersPreserve,
     CalibratePreserves, CalibrationOpensPreserves, CalibrationSucceedsPreserves,
     GravityEndsPreserves, SessionPreserves DEF Factr!Next, Factr!Stop, factrVars

(* What the invariant says of the motors.                                  *)
LEMMA FactrAccounts ==
  ASSUME FactrIInv
  PROVE  /\ Factr!TypeOK /\ Factr!OutputAccounted /\ Factr!TakeoverHasClient
         /\ Factr!OffAfterClose /\ Factr!GivenUpUnknown
<1>t. ServiceOK /\ StopOK /\ DeviceOK /\ FlagsOK
  BY TypeParts DEF FactrIInv
<1>1. Factr!TypeOK /\ Factr!OutputAccounted
  BY DEF FactrIInv, OutputInv
<1>2. Factr!TakeoverHasClient
  BY DEF FactrIInv, TakeoverInv, Factr!TakeoverHasClient, InUse
<1>3. Factr!OffAfterClose
  <2>1. closing /\ stop[Closer] = "idle" => \A c \in Factr!Clients : input # c
    BY DEF FactrIInv, ClosedInv, Factr!Clients, Factr!NoClient
  <2> QED
    BY <1>1, <2>1 DEF Factr!OffAfterClose, Factr!OutputAccounted
<1>4. Factr!GivenUpUnknown
  BY DEF Factr!GivenUpUnknown, Factr!Settled, FactrIInv, ClientInv, Closing
<1> QED
  BY <1>1, <1>2, <1>3, <1>4
-----------------------------------------------------------------------------
(***************************************************************************)
(* The SpaceMouse service.                                                 *)
(***************************************************************************)
Owned == {"open", "lost", "failed"}
Stops(p, h) == poll[p].of = h /\ poll[p].at \in {"stopping", "replacing", "closing"}

PollAt == {"idle", "probing", "probed", "judging", "stopping", "polled", "replacing", "closing"}
PollsOK ==
  poll \in [Judges -> [at : PollAt, of : Calibrations \cup {None}, present : BOOLEAN]]

(* A session is armed with the handle and the calibration the service has. *)
ArmedInv ==
  /\ state = "ARMED" => armed /\ input # None /\ calibration # None
  /\ armed => active
  /\ calibration # None => calibration \in measured

(* A calibration that runs alone has the service's handle for itself.      *)
AloneInv ==
  ~overlapped =>
    /\ \A v, w \in Calibrations : cal[v] \in Alive /\ cal[w] \in Alive => v = w
    /\ \A w \in Calibrations : cal[w] \in Alive => input \in {None, w} /\ calibration = None
    /\ input # None /\ calibration # None => input = calibration

(* Who gives a handle up has stopped it, or leaves it to somebody who will.*)
OwnedInv ==
  /\ \A h \in Calibrations : cal[h] = "stopping" => handle[h] \notin Owned
  /\ ~overlapped =>
       \A h \in Calibrations : handle[h] \in Owned =>
         input = h \/ cal[h] = "failing" \/ \E p \in Judges : Stops(p, h)

MouseIInv == TypeOK /\ PollsOK /\ ArmedInv /\ AloneInv /\ OwnedInv

Others(p) == \A q \in Judges \ {p} : poll'[q] = poll[q]

(* Polls have their types, and who polls or judges is who.                 *)
LEMMA MousePolls ==
  ASSUME MouseIInv
  PROVE  /\ \A p \in Judges : /\ poll[p].at \in PollAt /\ poll[p].of \in Calibrations \cup {None}
                               /\ poll[p].present \in BOOLEAN
                               /\ poll[p] = [at |-> poll[p].at, of |-> poll[p].of,
                                             present |-> poll[p].present]
         /\ Idle.of = None /\ Idle.at = "idle" /\ Idle.present = FALSE
         /\ Session \in Judges /\ Pollers \subseteq Judges /\ Requests \subseteq Judges
         /\ Monitors \subseteq Judges /\ Session \notin Monitors
BY SpaceMouseAssumption DEF MouseIInv, PollsOK, Idle, Judges, Pollers

(* The flags apart from the rest, for the provers' sake.                   *)
MouseOK ==
  /\ unplugs \in 0..MaxUnplugs
  /\ handle \in [Calibrations -> Owned \cup {"unused", "stopped"}]
  /\ measured \subseteq Calibrations
  /\ state \in {"DISCONNECTED", "UNCALIBRATED", "CALIBRATING", "READY", "ARMED", "ERROR"}
  /\ {input, calibration, thread} \subseteq Calibrations \cup {None}
  /\ cal \in [Calibrations -> Alive \cup {"none", "ended"}]
SwitchesOK ==
  /\ plugged \in BOOLEAN
  /\ {connected, armed, cancel, active, closing, overlapped, overwritten} \subseteq BOOLEAN

(* The type invariant is the conjunction of these two.                     *)
LEMMA MouseTypes == TypeOK <=> MouseOK /\ SwitchesOK
BY DEF TypeOK, MouseOK, SwitchesOK, Owned

(* The flags stay Booleans.                                                *)
LEMMA MouseSwitches ==
  ASSUME MouseIInv, Next
  PROVE  SwitchesOK'
<1>1. SwitchesOK /\ \A p \in Judges : poll[p].present \in BOOLEAN
  BY MouseTypes, MousePolls DEF MouseIInv
<1> QED
  BY <1>1 DEF SwitchesOK, Next, Unplug, Plug, ReaderFails, BeginPoll, Polling, Probe, WriteProbe,
     Judge, StopInvalid, Requested, RefuseCalibration, StartCalibration, StartThread,
     CalibrationStep, Open, FinishCalibration, GiveUp, StopFailed, FailCalibration, Activate, Arm,
     Snapshot, Disarm, Close, StopClosed, device, ghosts

PollOf == [at : PollAt, of : Calibrations \cup {None}, present : BOOLEAN]

(* The records a poll can become.                                          *)
LEMMA PollRecords ==
  ASSUME NEW a \in PollAt, NEW h \in Calibrations \cup {None}
  PROVE  /\ [Idle EXCEPT !.at = a] \in PollOf /\ [Idle EXCEPT !.at = a, !.of = h] \in PollOf
         /\ Idle \in PollOf /\ \A r \in PollOf : [r EXCEPT !.at = a, !.of = h] \in PollOf
<1>1. Idle \in PollOf
  BY DEF Idle, PollOf, PollAt
<1>2. \A q \in PollOf : [q EXCEPT !.at = a] \in PollOf /\ [q EXCEPT !.at = a, !.of = h] \in PollOf
  BY DEF PollOf
<1> QED
  BY <1>1, <1>2

(* A poll that becomes one of them leaves the others alone.                *)
LEMMA PollMoves ==
  ASSUME MouseIInv, NEW p \in Judges, NEW x \in PollOf, poll' = [poll EXCEPT ![p] = x]
  PROVE  PollsOK' /\ poll'[p] = x /\ Others(p)
BY DEF MouseIInv, PollsOK, PollOf, Others

(* A poll of which two fields are replaced has the new ones.               *)
LEMMA PollChanges ==
  ASSUME MouseIInv, NEW p \in Judges, NEW a, NEW h, poll' = [poll EXCEPT ![p].at = a, ![p].of = h]
  PROVE  poll'[p].at = a /\ poll'[p].of = h
<1>1. poll = [q \in Judges |-> poll[q]] /\ poll[p] \in PollOf
  BY DEF MouseIInv, PollsOK, PollOf
<1>2. PICK x, y, z : poll[p] = [at |-> x, of |-> y, present |-> z]
  <2>1. poll[p] = [at |-> poll[p].at, of |-> poll[p].of, present |-> poll[p].present]
    BY MousePolls
  <2> WITNESS poll[p].at, poll[p].of, poll[p].present
  <2> QED
    BY <2>1
<1>3. poll'[p] = [[[at |-> x, of |-> y, present |-> z] EXCEPT !.at = a] EXCEPT !.of = h]
  BY <1>1, <1>2
<1> QED
  BY <1>3

(* Every step keeps the polls' types.                                      *)
LEMMA MousePollsKept ==
  ASSUME MouseIInv, Next
  PROVE  PollsOK'
<1> USE DEF PollAt
<1>1. input \in Calibrations \cup {None} /\ Detected \in BOOLEAN
  BY MouseTypes DEF MouseIInv, MouseOK, SwitchesOK, Detected
<1>2. \A p : Idle \in PollOf /\ Polled(p) \in PollOf
  BY MousePolls DEF Polled, Idle, PollOf
<1>3. CASE \E p \in Pollers : BeginPoll(p)
  <2>1. PICK p \in Pollers : BeginPoll(p)
    BY <1>3
  <2>2. PICK x \in PollOf : poll' = [poll EXCEPT ![p] = x]
    <3>1. /\ [Idle EXCEPT !.at = "judging", !.of = input] \in PollOf
          /\ [Idle EXCEPT !.at = "probing"] \in PollOf
      BY <1>1, PollRecords
    <3> QED
      BY <1>2, <2>1, <3>1 DEF BeginPoll
  <2> QED
    BY <2>2, PollMoves, MousePolls
<1>4. CASE \E p \in Judges : Polling(p)
  <2>1. PICK p \in Judges : Polling(p)
    BY <1>4
  <2>2. CASE Probe(p)
    BY ZenonT(40), <1>1, <2>1, <2>2 DEF MouseIInv, PollsOK, Probe
  <2>3. CASE WriteProbe(p) \/ StopInvalid(p)
    BY <1>2, <2>3, PollMoves DEF WriteProbe, StopInvalid
  <2>4. CASE Judge(p)
    BY <1>1, <1>2, <2>1, <2>4 DEF MouseIInv, PollsOK, PollOf, Judge
  <2> QED
    BY <2>1, <2>2, <2>3, <2>4 DEF Polling
<1>5. CASE \E p \in Requests : Requested(p)
  <2>1. PICK p \in Requests : Requested(p)
    BY <1>5
  <2>2. CASE RefuseCalibration(p) \/ \E w \in Calibrations : StartThread(p, w)
    BY <1>2, <2>2, PollMoves, MousePolls DEF RefuseCalibration, StartThread
  <2>3. CASE \E w \in Calibrations : StartCalibration(p, w)
    <3>1. poll' = [poll EXCEPT ![p].at = "replacing", ![p].of = input]
      BY <2>3 DEF StartCalibration
    <3> QED
      <4>1. p \in Judges
        BY <2>1, MousePolls
      <4> QED
        BY ZenonT(40), <1>1, <3>1, <4>1 DEF MouseIInv, PollsOK
  <2> QED
    BY <2>1, <2>2, <2>3 DEF Requested
<1>7. CASE Snapshot \/ Close \/ StopClosed
  <2>1. PICK x \in PollOf : poll' = [poll EXCEPT ![Session] = x]
    <3>1. /\ [Idle EXCEPT !.at = "judging", !.of = input] \in PollOf
          /\ [Idle EXCEPT !.at = "closing", !.of = input] \in PollOf
      BY <1>1, PollRecords
    <3> QED
      BY <1>2, <1>7, <3>1 DEF Snapshot, Close, StopClosed
  <2> QED
    BY <2>1, PollMoves, MousePolls
<1>6. CASE \/ Unplug \/ Plug \/ \E h \in Calibrations : ReaderFails(h) \/ CalibrationStep(h)
           \/ Activate \/ Arm \/ Disarm
  <2>1. UNCHANGED poll
    BY <1>6 DEF Unplug, Plug, ReaderFails, CalibrationStep, Open, FinishCalibration, GiveUp,
       StopFailed, FailCalibration, Activate, Arm, Disarm
  <2> QED
    BY <2>1 DEF MouseIInv, PollsOK
<1> QED
  BY <1>3, <1>4, <1>5, <1>6, <1>7 DEF Next

(* Every step keeps the other types.                                       *)
LEMMA MouseTyped ==
  ASSUME MouseIInv, Next
  PROVE  MouseOK'
<1> USE DEF MouseOK, Owned, device, ghosts
<1>1. MouseOK /\ (\A p \in Judges : poll[p].of \in Calibrations \cup {None})
  BY MouseTypes, MousePolls DEF MouseIInv
<1>2. CASE Unplug \/ Plug \/ \E h \in Calibrations : ReaderFails(h)
  BY <1>1, <1>2, SpaceMouseAssumption DEF Unplug, Plug, ReaderFails, SpaceMouseAssumption
<1>3. CASE \E p \in Pollers : BeginPoll(p)
  BY <1>1, <1>3 DEF BeginPoll
<1>7. CASE \E p \in Judges : Polling(p)
  <2>1. PICK p \in Judges : Polling(p)
    BY <1>7
  <2>2. CASE Probe(p) \/ WriteProbe(p) \/ Judge(p)
    BY <1>1, <2>2 DEF Probe, WriteProbe, Judge
  <2>3. CASE StopInvalid(p)
    BY <1>1, <2>3 DEF StopInvalid, Stop
  <2> QED
    BY <2>1, <2>2, <2>3 DEF Polling
<1>4. CASE \E p \in Requests : Requested(p)
  BY <1>1, <1>4, MousePolls DEF Requested, RefuseCalibration, StartCalibration, StartThread, Stop,
     Alive
<1>5. CASE \E w \in Calibrations : CalibrationStep(w)
  BY <1>1, <1>5 DEF CalibrationStep, Open, FinishCalibration, GiveUp, StopFailed, FailCalibration,
     Stop, Alive
<1>6. CASE Activate \/ Arm \/ Snapshot \/ Disarm \/ Close \/ StopClosed
  BY <1>1, <1>6, MousePolls DEF Activate, Arm, Snapshot, Disarm, Close, StopClosed, Stop
<1> QED
  BY <1>2, <1>3, <1>4, <1>5, <1>6, <1>7 DEF Next

(* Every step keeps an armed session's handle and calibration.             *)
LEMMA ArmedKept ==
  ASSUME MouseIInv, Next
  PROVE  ArmedInv'
<1> USE DEF ArmedInv, device, ghosts
<1>1. ArmedInv /\ None \notin Calibrations
  BY SpaceMouseAssumption DEF MouseIInv
<1>2. CASE Unplug \/ Plug \/ \E h \in Calibrations : ReaderFails(h)
  BY <1>1, <1>2 DEF Unplug, Plug, ReaderFails
<1>3. CASE \E p \in Pollers : BeginPoll(p)
  BY <1>1, <1>3 DEF BeginPoll
<1>7. CASE \E p \in Judges : Polling(p)
  <2>1. UNCHANGED <<measured, active>>
    BY <1>7 DEF Polling, Probe, WriteProbe, Judge, StopInvalid
  <2>2. \/ UNCHANGED <<state, input, calibration, armed>>
        \/ UNCHANGED <<input, calibration, armed>> /\ state' \in {state, "UNCALIBRATED"}
        \/ state' = "DISCONNECTED" /\ armed' = FALSE /\ calibration' = None
    BY <1>7 DEF Polling, Probe, WriteProbe, Judge, StopInvalid
  <2> QED
    BY <1>1, <2>1, <2>2
<1>4. CASE \E p \in Requests : Requested(p)
  BY <1>1, <1>4 DEF Requested, RefuseCalibration, StartCalibration, StartThread
<1>5. CASE \E w \in Calibrations : CalibrationStep(w)
  BY <1>1, <1>5 DEF CalibrationStep, Open, FinishCalibration, GiveUp, StopFailed, FailCalibration
<1>6. CASE Activate \/ Arm \/ Snapshot \/ Disarm \/ Close \/ StopClosed
  BY <1>1, <1>6 DEF Activate, Arm, Armable, Snapshot, Disarm, Close, StopClosed
<1> QED
  BY <1>2, <1>3, <1>4, <1>5, <1>6, <1>7 DEF Next

(* Every step keeps a calibration alone with its handle, or notes that two *)
(* overlap.                                                                *)
LEMMA AloneKept ==
  ASSUME MouseIInv, Next
  PROVE  AloneInv'
<1> USE DEF AloneInv, device, ghosts
<1>1. AloneInv /\ None \notin Calibrations /\ cal \in [Calibrations -> Alive \cup {"none", "ended"}]
  BY SpaceMouseAssumption, MouseTypes DEF MouseIInv, MouseOK
<1>2. CASE \/ Unplug \/ Plug \/ \E h \in Calibrations : ReaderFails(h)
           \/ \E p \in Pollers : BeginPoll(p)
           \/ Activate \/ Arm \/ Snapshot \/ Close \/ StopClosed
  BY <1>1, <1>2 DEF Unplug, Plug, ReaderFails, BeginPoll, Activate, Arm, Snapshot, Close, StopClosed
<1>3. CASE Disarm \/ \E p \in Judges : Polling(p)
  BY <1>1, <1>3 DEF Disarm, Polling, Probe, WriteProbe, Judge, StopInvalid
<1>4. CASE \E p \in Requests : Requested(p)
  <2>1. PICK p \in Requests : Requested(p)
    BY <1>4
  <2>2. CASE RefuseCalibration(p)
    BY <1>1, <2>2 DEF RefuseCalibration
  <2>3. CASE \E w \in Calibrations : StartCalibration(p, w)
    <3>1. PICK w \in Calibrations : StartCalibration(p, w)
      BY <2>3
    <3>2. /\ cal' = [cal EXCEPT ![w] = "starting"] /\ input' = None /\ calibration' = None
          /\ ~overlapped' => ~overlapped /\ \A v \in Calibrations : cal[v] \notin Alive
      BY <3>1 DEF StartCalibration
    <3> QED
      BY <1>1, <3>2
  <2>4. CASE \E w \in Calibrations : StartThread(p, w)
    <3>1. PICK w \in Calibrations : StartThread(p, w)
      BY <2>4
    <3>2. /\ cal[w] = "starting" /\ cal' = [cal EXCEPT ![w] = "opening"]
          /\ UNCHANGED <<input, calibration, overlapped>>
      BY <3>1 DEF StartThread
    <3>3. \A v \in Calibrations : cal'[v] \in Alive => cal[v] \in Alive
      BY <1>1, <3>2 DEF Alive
    <3> QED
      BY <1>1, <3>2, <3>3
  <2> QED
    BY <2>1, <2>2, <2>3, <2>4 DEF Requested
<1>5. CASE \E w \in Calibrations : CalibrationStep(w)
  BY <1>1, <1>5 DEF CalibrationStep, Open, FinishCalibration, GiveUp, StopFailed, FailCalibration,
     Alive
<1> QED
  BY <1>2, <1>3, <1>4, <1>5 DEF Next

(* Whoever held nothing may do what it likes with its poll, and whoever    *)
(* held a handle may let it go once that is stopped.                       *)
LEMMA OwnedElsewhere ==
  ASSUME MouseIInv, NEW p \in Judges, Others(p), UNCHANGED <<input, cal, overlapped>>,
         \A h \in Calibrations : handle'[h] \in Owned => handle[h] \in Owned /\ ~Stops(p, h)
  PROVE  OwnedInv'
BY DEF MouseIInv, OwnedInv, Others, Stops

(* Every step leaves each handle that is not stopped with somebody who     *)
(* will stop it.                                                           *)
LEMMA OwnedKept ==
  ASSUME MouseIInv, Next
  PROVE  OwnedInv'
<1> USE DEF device, ghosts
<1>1. /\ OwnedInv /\ AloneInv /\ None \notin Calibrations
      /\ cal \in [Calibrations -> Alive \cup {"none", "ended"}]
      /\ handle \in [Calibrations -> Owned \cup {"unused", "stopped"}]
      /\ input \in Calibrations \cup {None}
      /\ "stopped" \notin Owned /\ "unused" \notin Owned
      /\ poll = [p \in Judges |-> poll[p]]
  BY SpaceMouseAssumption, MouseTypes DEF MouseIInv, MouseOK, PollsOK, Owned
<1>2. CASE \/ Unplug \/ Plug \/ \E h \in Calibrations : ReaderFails(h)
           \/ Activate \/ Arm \/ Disarm
  <2>1. UNCHANGED <<input, cal, overlapped, poll>>
    BY <1>2 DEF Unplug, Plug, ReaderFails, Activate, Arm, Disarm
  <2>2. \A h \in Calibrations : handle'[h] \in Owned => handle[h] \in Owned
    BY <1>1, <1>2 DEF Unplug, Plug, ReaderFails, Activate, Arm, Disarm, Owned
  <2> QED
    BY <1>1, <2>1, <2>2 DEF OwnedInv, Stops
<1>3. CASE \E p \in Pollers : BeginPoll(p)
  <2>1. PICK p \in Pollers : BeginPoll(p)
    BY <1>3
  <2>2. poll[p].at = "idle" /\ Others(p) /\ p \in Judges
    BY <1>1, <2>1, MousePolls DEF BeginPoll, Others
  <2> QED
    BY <2>1, <2>2, OwnedElsewhere DEF BeginPoll, Stops
<1>4. CASE \E p \in Judges : Polling(p)
  <2>1. PICK p \in Judges : Polling(p)
    BY <1>4
  <2>2. Others(p)
    BY <1>1, <2>1 DEF Polling, Probe, WriteProbe, Judge, StopInvalid, Others
  <2>3. CASE Probe(p) \/ WriteProbe(p)
    BY <2>2, <2>3, OwnedElsewhere DEF Probe, WriteProbe, Stops
  <2>4. CASE StopInvalid(p)
    <3>1. \A h \in Calibrations : handle'[h] \in Owned => handle[h] \in Owned /\ ~Stops(p, h)
      BY <1>1, <2>4 DEF StopInvalid, Stop, Stops
    <3> QED
      BY <2>2, <2>4, <3>1, OwnedElsewhere DEF StopInvalid
  <2>5. CASE Judge(p)
    <3>1. /\ poll[p].at = "judging" /\ UNCHANGED <<handle, cal, overlapped>>
          /\ \/ UNCHANGED input
             \/ input' = None /\ poll'[p].at = "stopping" /\ poll'[p].of = input
      BY <1>1, <2>1, <2>5, PollChanges DEF Judge
    <3>2. CASE UNCHANGED input
      BY <2>2, <3>1, <3>2, OwnedElsewhere DEF Stops
    <3>3. CASE poll'[p].at = "stopping" /\ poll'[p].of = input
      BY <1>1, <2>2, <3>1, <3>3 DEF OwnedInv, Stops, Others
    <3> QED
      BY <3>1, <3>2, <3>3
  <2> QED
    BY <2>1, <2>3, <2>4, <2>5 DEF Polling
<1>5. CASE \E p \in Requests : Requested(p)
  <2>1. PICK p \in Requests : Requested(p)
    BY <1>5
  <2>2. Others(p) /\ p \in Judges
    BY <1>1, <2>1, MousePolls DEF Requested, RefuseCalibration, StartCalibration, StartThread,
       Others
  <2>3. CASE RefuseCalibration(p)
    BY <2>2, <2>3, OwnedElsewhere DEF RefuseCalibration, Stops
  <2>4. CASE \E w \in Calibrations : StartCalibration(p, w)
    <3>1. PICK w \in Calibrations : StartCalibration(p, w)
      BY <2>4
    <3>2. /\ cal[w] = "none" /\ cal' = [cal EXCEPT ![w] = "starting"]
          /\ UNCHANGED handle /\ (~overlapped' => ~overlapped)
          /\ poll[p].at = "polled" /\ poll'[p].at = "replacing" /\ poll'[p].of = input
      BY <1>1, <2>2, <3>1, PollChanges DEF StartCalibration
    <3> QED
      BY <1>1, <2>2, <3>2 DEF OwnedInv, Stops, Others
  <2>5. CASE \E w \in Calibrations : StartThread(p, w)
    <3>1. PICK w \in Calibrations : StartThread(p, w)
      BY <2>5
    <3>2. \A h \in Calibrations : handle'[h] \in Owned => handle[h] \in Owned /\ ~Stops(p, h)
      BY <1>1, <3>1 DEF StartThread, Stop, Stops
    <3>3. /\ cal[w] = "starting" /\ cal' = [cal EXCEPT ![w] = "opening"]
          /\ UNCHANGED <<input, overlapped>>
      BY <3>1 DEF StartThread
    <3> QED
      BY <1>1, <2>2, <3>2, <3>3 DEF OwnedInv, Stops, Others
  <2> QED
    BY <2>1, <2>3, <2>4, <2>5 DEF Requested
<1>6. CASE \E w \in Calibrations : CalibrationStep(w)
  <2>1. PICK w \in Calibrations : CalibrationStep(w)
    BY <1>6
  <2>2. UNCHANGED <<poll, overlapped>>
    BY <2>1 DEF CalibrationStep, Open, FinishCalibration, GiveUp, StopFailed, FailCalibration
  <2>3. CASE Open(w)
    <3>1. /\ cal[w] = "opening" /\ (~overlapped => input \in {None, w})
          /\ \/ /\ handle' = [handle EXCEPT ![w] = "open"] /\ input' = w
                /\ cal' = [cal EXCEPT ![w] = "measuring"]
             \/ UNCHANGED <<handle, input>> /\ cal' = [cal EXCEPT ![w] = "failing"]
      BY <1>1, <2>3 DEF Open, AloneInv, Alive
    <3> QED
      BY <1>1, <2>2, <3>1 DEF OwnedInv, Stops
  <2>4. CASE FinishCalibration(w) \/ GiveUp(w)
    <3>1. /\ cal[w] = "measuring" /\ UNCHANGED <<handle, input>>
          /\ cal' = [cal EXCEPT ![w] = "failing"] \/ cal' = [cal EXCEPT ![w] = "ended"]
      BY <2>4 DEF FinishCalibration, GiveUp
    <3> QED
      BY <1>1, <2>2, <3>1 DEF OwnedInv, Stops
  <2>5. CASE StopFailed(w)
    <3>1. /\ cal[w] = "failing" /\ cal' = [cal EXCEPT ![w] = "stopping"] /\ UNCHANGED input
          /\ handle'[w] \in {"unused", "stopped"}
          /\ \A h \in Calibrations \ {w} : handle'[h] = handle[h]
      BY <1>1, <2>1, <2>5 DEF StopFailed, Stop
    <3> QED
      BY <1>1, <2>2, <3>1 DEF OwnedInv, Stops
  <2>6. CASE FailCalibration(w)
    <3>1. /\ cal[w] = "stopping" /\ cal' = [cal EXCEPT ![w] = "ended"] /\ UNCHANGED handle
          /\ input' = input \/ input = w
      BY <2>6 DEF FailCalibration
    <3> QED
      BY <1>1, <2>2, <3>1 DEF OwnedInv, Stops
  <2> QED
    BY <2>1, <2>3, <2>4, <2>5, <2>6 DEF CalibrationStep
<1>7. CASE Snapshot
  <2>1. poll[Session].at = "idle" /\ Others(Session) /\ Session \in Judges
    BY <1>1, <1>7, MousePolls DEF Snapshot, Others
  <2> QED
    BY <1>7, <2>1, OwnedElsewhere DEF Snapshot, Stops
<1>8. CASE Close
  <2>1. poll[Session].at = "idle" /\ Others(Session) /\ Session \in Judges
    BY <1>1, <1>8, MousePolls DEF Close, Others
  <2>2. poll'[Session].at = "closing" /\ poll'[Session].of = input
    BY <1>1, <1>8, <2>1 DEF Close, Idle
  <2> QED
    BY ZenonT(40), <1>1, <1>8, <2>1, <2>2 DEF Close, OwnedInv, Stops, Others
<1>9. CASE StopClosed
  <2>1. Others(Session) /\ Session \in Judges
    BY <1>1, <1>9, MousePolls DEF StopClosed, Others
  <2>2. \A h \in Calibrations : handle'[h] \in Owned => handle[h] \in Owned /\ ~Stops(Session, h)
    BY <1>1, <1>9 DEF StopClosed, Stop, Stops
  <2> QED
    BY <1>9, <2>1, <2>2, OwnedElsewhere DEF StopClosed
<1> QED
  BY <1>2, <1>3, <1>4, <1>5, <1>6, <1>7, <1>8, <1>9 DEF Next

(* A service without a handle satisfies the invariant.                     *)
LEMMA MouseInit == Init => MouseIInv
<1> SUFFICES ASSUME Init PROVE MouseIInv
  OBVIOUS
<1> USE SpaceMouseAssumption DEF Init
<1>1. MouseOK
  BY DEF MouseOK, Alive
<1>2. SwitchesOK
  BY DEF SwitchesOK
<1>3. PollsOK
  BY DEF PollsOK, PollAt, Idle
<1>4. ArmedInv /\ AloneInv /\ OwnedInv
  BY DEF ArmedInv, AloneInv, OwnedInv, Owned, Alive
<1> QED
  BY <1>1, <1>2, <1>3, <1>4, MouseTypes DEF MouseIInv

(* Every step keeps it.                                                    *)
LEMMA MouseStep ==
  ASSUME MouseIInv, [Next]_vars
  PROVE  MouseIInv'
<1>1. CASE Next
  <2>1. TypeOK'
    BY <1>1, MouseTyped, MouseSwitches DEF TypeOK, MouseOK, SwitchesOK, Owned
  <2> QED
    BY <1>1, <2>1, MousePollsKept, ArmedKept, AloneKept, OwnedKept DEF MouseIInv
<1>2. CASE UNCHANGED vars
  BY <1>2 DEF vars, MouseIInv, TypeOK, PollsOK, ArmedInv, AloneInv, OwnedInv, Stops
<1> QED
  BY <1>1, <1>2

(* What the invariant says of armed sessions and of handles.               *)
LEMMA MouseOwns ==
  ASSUME MouseIInv
  PROVE  TypeOK /\ ArmedIsCalibrated /\ HandlesOwned
<1>1. ArmedIsCalibrated
  BY DEF MouseIInv, ArmedInv, AloneInv, ArmedIsCalibrated
<1>2. HandlesOwned
  BY DEF MouseIInv, OwnedInv, HandlesOwned, Owned, Stops, Alive
<1> QED
  BY <1>1, <1>2 DEF MouseIInv

-----------------------------------------------------------------------------
(***************************************************************************)
(* A handle of the SpaceMouse.                                             *)
(***************************************************************************)
(* What the smoothing and the command hold of a group is younger than what *)
(* last cut it off, except after a silence, when the next report starts    *)
(* afresh; exclusive mode commands one group.                              *)
InputFreshInv ==
  /\ seq \in 0..MaxReports
  /\ seq = 0 => filtered = Input!Zero
  /\ \A g \in Input!Groups :
       /\ cut[g] <= seq
       /\ ~quiet => /\ filtered[g] # 0 => filtered[g] > cut[g]
                    /\ command[g] # 0 => command[g] > cut[g]
  /\ Exclusive => intent # "combined" /\ \E g \in Input!Groups : command[g] = 0
InputIInv == Input!TypeOK /\ Input!SelectionKept /\ InputFreshInv

(* The smoothing and the command at zero need nothing more.                *)
LEMMA InputZero ==
  Input!Zero \in [Input!Groups -> 0..MaxReports] /\ \A g \in Input!Groups : Input!Zero[g] = 0
BY DevicesAssumption DEF Input!Zero, Input!InputAssumption

(* A step that zeroes the command, and cuts off what was reported, keeps   *)
(* motion fresh.                                                           *)
LEMMA InputResets ==
  ASSUME InputIInv,
         UNCHANGED seq, command' = Input!Zero, Input!ResetFilter,
         cut' = cut \/ cut' = [g \in Input!Groups |-> seq]
  PROVE  /\ {filtered, command, cut}' \subseteq [Input!Groups -> 0..MaxReports]
         /\ intent' = "idle" /\ InputFreshInv'
<1>1. Input!Zero \in [Input!Groups -> 0..MaxReports] /\ \A g \in Input!Groups : Input!Zero[g] = 0
  BY InputZero
<1>2. "translation" \in Input!Groups
  BY DEF Input!Groups
<1>3. seq \in 0..MaxReports /\ MaxReports \in Nat /\ cut \in [Input!Groups -> 0..MaxReports]
  BY DevicesAssumption DEF InputIInv, InputFreshInv, Input!TypeOK, Input!InputAssumption
<1> QED
  BY <1>1, <1>2, <1>3 DEF InputIInv, InputFreshInv, Input!ResetFilter

(* A report keeps the invariant: after a silence or a switch of the frame  *)
(* the smoothing starts at zero, and a group that loses is dropped.        *)
LEMMA InputReports ==
  ASSUME InputIInv, NEW r \in [Input!Groups -> Deflection], NEW pressed \in Presses,
         Input!Report(r, pressed)
  PROVE  InputIInv'
<1> DEFINE fresh == (quiet /\ seq > 0) \/ Input!Switches(r)
           sel == Input!Selected(r, IF fresh THEN "idle" ELSE intent)
           old == IF fresh THEN Input!Zero ELSE filtered
           moving == Input!Moves(r, sel)
<1>1. /\ filtered' = Input!Smooth(old, moving, seq + 1) /\ command' = filtered'
      /\ intent' = sel /\ seq' = seq + 1 /\ seq < MaxReports /\ quiet' = FALSE
      /\ cut' = [g \in Input!Groups |-> IF g \notin moving THEN seq + 1
                                         ELSE IF quiet THEN seq ELSE cut[g]]
      /\ frame' = IF Input!Switches(r) THEN pending ELSE frame
      /\ pending' = IF Input!Switches(r) THEN None ELSE pending
      /\ raw' = r /\ buttons' = pressed /\ gripper' \in {gripper, -1, 1}
      /\ UNCHANGED <<reader, bias, use, seen, looked, asked>>
  BY DEF Input!Report
<1>2. /\ seq \in Nat /\ seq + 1 \in 0..MaxReports /\ MaxReports \in Nat
      /\ cut \in [Input!Groups -> 0..MaxReports] /\ filtered \in [Input!Groups -> 0..MaxReports]
      /\ \A g \in Input!Groups : cut[g] <= seq
  BY <1>1, DevicesAssumption DEF InputIInv, InputFreshInv, Input!TypeOK, Input!InputAssumption
<1>3. /\ old \in [Input!Groups -> 0..MaxReports]
      /\ \A g \in Input!Groups : old[g] # 0 => ~quiet /\ old[g] > cut[g]
  BY <1>2, InputZero DEF InputIInv, InputFreshInv
<1>4. /\ sel \in Input!Groups \cup {"idle", "combined"}
      /\ Exclusive => sel # "combined"
      /\ moving \subseteq {g \in Input!Groups : sel \in {g, "combined"}}
  BY DEF InputIInv, Input!TypeOK, InputFreshInv, Input!Selected, Input!Moves, Input!Groups
<1> HIDE DEF old, sel, moving
<1>5. /\ filtered' \in [Input!Groups -> 0..MaxReports]
      /\ \A g \in Input!Groups :
           /\ g \notin moving => filtered'[g] = 0
           /\ (filtered'[g] = old[g] /\ old[g] # 0) \/ filtered'[g] \in {0, seq + 1}
  BY <1>1, <1>2, <1>3 DEF Input!Smooth
<1>6. cut' \in [Input!Groups -> 0..MaxReports]
  BY <1>1, <1>2
<1>7. \A g \in Input!Groups : cut'[g] <= seq' /\ (filtered'[g] # 0 => filtered'[g] > cut'[g])
  <2> SUFFICES ASSUME NEW g \in Input!Groups
               PROVE  cut'[g] <= seq' /\ (filtered'[g] # 0 => filtered'[g] > cut'[g])
    OBVIOUS
  <2>1. cut'[g] = IF g \notin moving THEN seq + 1 ELSE IF quiet THEN seq ELSE cut[g]
    BY <1>1
  <2>2. cut[g] \in Nat /\ old[g] \in Nat /\ cut[g] <= seq /\ seq' = seq + 1
    BY <1>1, <1>2, <1>3
  <2>3. old[g] # 0 => ~quiet /\ old[g] > cut[g]
    BY <1>3
  <2>4. /\ g \notin moving => filtered'[g] = 0
        /\ (filtered'[g] = old[g] /\ old[g] # 0) \/ filtered'[g] \in {0, seq + 1}
    BY <1>5
  <2> QED
    BY <1>2, <2>1, <2>2, <2>3, <2>4
<1>8. Exclusive => \E g \in Input!Groups : command'[g] = 0
  <2>1. Exclusive => \E g \in Input!Groups : sel \notin {g, "combined"}
    BY <1>4 DEF Input!Groups
  <2>2. Exclusive => \E g \in Input!Groups : g \notin moving
    BY <1>4, <2>1
  <2> QED
    BY <1>1, <1>5, <2>2
<1>9. InputFreshInv'
  BY <1>1, <1>2, <1>4, <1>5, <1>7, <1>8 DEF InputFreshInv
<1>10. Input!TypeOK'
  <2>1. frame' \in Frames /\ pending' \in Frames \cup {None} /\ gripper' \in {-1, 1}
    BY <1>1 DEF InputIInv, Input!TypeOK, Input!Switches
  <2> QED
    BY <1>1, <1>4, <1>5, <1>6, <2>1 DEF InputIInv, Input!TypeOK
<1>11. Input!SelectionKept'
  BY <1>1 DEF InputIInv, Input!SelectionKept, Input!Switches
<1> QED
  BY <1>9, <1>10, <1>11 DEF InputIInv

(* So does a choice of the frame, taken at once or left waiting.           *)
LEMMA InputAsks ==
  ASSUME InputIInv, NEW f \in Frames, Input!ManualSettings(f)
  PROVE  InputIInv'
<1>1. UNCHANGED <<reader, seq, raw, bias, buttons, gripper, quiet, use>> /\ asked' = f
  BY DEF Input!ManualSettings
<1>2. None \notin Frames
  BY DevicesAssumption DEF Input!InputAssumption
<1>3. CASE command' = Input!Zero
  BY <1>1, <1>2, <1>3, InputResets DEF InputIInv, Input!TypeOK, Input!SelectionKept,
     Input!ManualSettings, Input!RequestControlFrame, Input!ResetFilter, InputFreshInv
<1>4. CASE UNCHANGED <<frame, command, filtered, intent, cut>>
  BY <1>1, <1>2, <1>4 DEF InputIInv, Input!TypeOK, Input!SelectionKept, Input!ManualSettings,
     Input!RequestControlFrame, InputFreshInv
<1> QED
  BY <1>3, <1>4 DEF Input!ManualSettings, Input!RequestControlFrame

(* So does every step.                                                     *)
LEMMA InputStep ==
  ASSUME InputIInv, Input!Next
  PROVE  InputIInv'
<1>1. CASE Input!Silence
  BY <1>1 DEF Input!Silence, InputIInv, Input!TypeOK, Input!SelectionKept, InputFreshInv
<1>2. CASE Input!Snapshot
  BY <1>2, InputZero DEF Input!Snapshot, Input!ResetFilter, InputIInv, Input!TypeOK,
     Input!SelectionKept, InputFreshInv
<1>3. CASE Input!BeginCalibration \/ Input!Look
  BY <1>3 DEF Input!BeginCalibration, Input!Look, InputIInv, Input!TypeOK, Input!SelectionKept,
     InputFreshInv
<1>4. CASE Input!ReaderFails \/ Input!Stop \/ Input!Calibrate \/ Input!Disarm
             \/ \E grip \in {-1, 1} : Input!Arm(grip)
  <2>1. /\ {filtered, command, cut}' \subseteq [Input!Groups -> 0..MaxReports]
        /\ intent' = "idle" /\ InputFreshInv'
    BY <1>4, InputResets DEF Input!ReaderFails, Input!Stop, Input!Calibrate, Input!Disarm, Input!Arm
  <2>2. bias' \in [Input!Groups -> Deflection] /\ asked' \in Frames /\ frame' \in Frames
    BY <1>4, DevicesAssumption DEF Input!ReaderFails, Input!Stop, Input!Calibrate, Input!Disarm,
       Input!Arm, Input!Medians, InputIInv, Input!TypeOK, Input!InputAssumption
  <2> QED
    BY <1>4, <2>1, <2>2 DEF Input!ReaderFails, Input!Stop, Input!Calibrate, Input!Disarm,
       Input!Arm, InputIInv, Input!TypeOK, Input!SelectionKept
<1> QED
  BY <1>1, <1>2, <1>3, <1>4, InputReports, InputAsks DEF Input!Next

(* An opened handle satisfies the invariant.                               *)
LEMMA InputInit == Input!Init => InputIInv
<1> SUFFICES ASSUME Input!Init PROVE InputIInv
  OBVIOUS
<1>1. Input!TypeOK
  BY InputZero, DevicesAssumption DEF Input!Init, Input!TypeOK, Input!InputAssumption, Input!Zero
<1>2. InputFreshInv
  BY InputZero, DevicesAssumption DEF Input!Init, InputFreshInv, Input!InputAssumption, Input!Groups
<1> QED
  BY <1>1, <1>2 DEF Input!Init, Input!SelectionKept, InputIInv

(* The frame changes with the cap at rest, and the report that shows it    *)
(* commands zero.                                                          *)
LEMMA FramesAtRest ==
  ASSUME InputIInv, Input!Next
  PROVE  Input!FrameSwitchesAtRest
<1> USE DEF Input!FrameSwitchesAtRest
<1>1. CASE \E r \in [Input!Groups -> Deflection], pressed \in Presses : Input!Report(r, pressed)
  <2>1. PICK r \in [Input!Groups -> Deflection], pressed \in Presses : Input!Report(r, pressed)
    BY <1>1
  <2>2. CASE Input!Switches(r)
    <3>1. raw' = r /\ \A g \in Input!Groups : Input!Strength(r, g) = 0
      <4>1. \A g \in Input!Groups : Input!Distance(r, g) <= Deadzone
        BY <2>2 DEF Input!Switches, Input!AtRest
      <4>2. Deadzone \in Nat
        BY DevicesAssumption DEF Input!InputAssumption
      <4>3. \A g \in Input!Groups : Input!Distance(r, g) \in Int
        <5>1. \A g \in Input!Groups : r[g] \in Nat /\ bias[g] \in Nat
          BY <2>1, DevicesAssumption DEF InputIInv, Input!TypeOK, Input!InputAssumption
        <5> QED
          BY <5>1 DEF Input!Distance
      <4> QED
        BY <2>1, <4>1, <4>2, <4>3 DEF Input!Strength, Input!Report
    <3>2. \A sel : Input!Moves(r, sel) = {}
      BY <3>1 DEF Input!Moves
    <3>3. command' = Input!Zero
      BY <2>1, <2>2, <3>2 DEF Input!Report, Input!Smooth, Input!Zero
    <3> QED
      BY <2>1, <2>2, <3>1, <3>3 DEF Input!Switches, Input!Report
  <2>3. CASE ~Input!Switches(r)
    BY <2>1, <2>3 DEF Input!Report
  <2> QED
    BY <2>2, <2>3
<1>2. CASE \E f \in Frames : Input!ManualSettings(f)
  BY <1>2 DEF Input!ManualSettings, Input!RequestControlFrame
<1>3. CASE \/ Input!Silence \/ Input!ReaderFails \/ Input!Stop \/ Input!Snapshot
           \/ Input!BeginCalibration \/ Input!Look \/ Input!Calibrate \/ Input!Disarm
           \/ \E grip \in {-1, 1} : Input!Arm(grip)
  BY <1>3 DEF Input!Silence, Input!ReaderFails, Input!Stop, Input!Snapshot, Input!BeginCalibration,
     Input!Look, Input!Calibrate, Input!Disarm, Input!Arm
<1> QED
  BY <1>1, <1>2, <1>3 DEF Input!Next

(* What the invariant says of what a session is given.                     *)
LEMMA InputIsFresh ==
  ASSUME InputIInv
  PROVE  Input!TypeOK /\ Input!MotionIsFresh /\ Input!SelectionKept
<1>1. \A g \in Input!Groups : Input!Zero[g] = 0
  BY DEF Input!Zero
<1>2. "translation" \in Input!Groups
  BY DEF Input!Groups
<1>3. Input!MotionIsFresh
  BY <1>1, <1>2 DEF InputIInv, InputFreshInv, Input!MotionIsFresh, Input!Given
<1> QED
  BY <1>3 DEF InputIInv
-----------------------------------------------------------------------------
(***************************************************************************)
(* The parts of MCDevices: one of them is there for good.                  *)
(***************************************************************************)
DevicesIInv ==
  /\ part = "service" => MouseIInv
  /\ part = "factr" => FactrIInv
  /\ part = "input" => InputIInv

(* The part that is there stays, and its steps are its module's.           *)
LEMMA PartStep ==
  ASSUME [PartsNext]_parts
  PROVE  /\ part' = part
         /\ part = "service" => [Next]_vars
         /\ part = "factr" => [Factr!Next]_factrVars
         /\ part = "input" => Input!Next \/ UNCHANGED Input!vars
<1>1. CASE PartsNext
  BY <1>1 DEF PartsNext
<1>2. CASE UNCHANGED parts
  BY <1>2 DEF parts, vars, Input!vars, factrVars, Factr!vars, Factr!service, Factr!owner,
     Factr!device, Factr!stops
<1> QED
  BY <1>1, <1>2

(* The invariant of the part that is there holds in every reachable state. *)
LEMMA DevicesInvariant == PartsSpec => []DevicesIInv
<1>1. PartsInit => DevicesIInv
  BY MouseInit, FactrInit, InputInit DEF PartsInit, DevicesIInv
<1>2. DevicesIInv /\ [PartsNext]_parts => DevicesIInv'
  <2> SUFFICES ASSUME DevicesIInv, [PartsNext]_parts
               PROVE  DevicesIInv'
    OBVIOUS
  <2>1. part = "input" => InputIInv'
    <3>1. ASSUME InputIInv, UNCHANGED Input!vars PROVE InputIInv'
      BY <3>1 DEF InputIInv, Input!vars, Input!TypeOK, Input!SelectionKept, InputFreshInv
    <3> QED
      BY <3>1, PartStep, InputStep DEF DevicesIInv
  <2> QED
    BY <2>1, PartStep, MouseStep, FactrStep DEF DevicesIInv
<1>3. PartsSpec => PartsInit /\ [][PartsNext]_parts
  BY PTL DEF PartsSpec
<1> QED
  BY <1>1, <1>2, <1>3, PTL

(* Motors that are on belong to the client in use, calibrated and not in   *)
(* error, or a stop is on its way; who aligns or is armed has a calibrated *)
(* client unless a calibration overtook a stop; after close() the output   *)
(* stays off; a client given up without OFF is remembered as unknown.      *)
THEOREM MotorsAccounted == PartsSpec => []TorqueAccounted
<1>1. DevicesIInv => TorqueAccounted
  BY FactrAccounts DEF DevicesIInv, TorqueAccounted
<1> QED
  BY <1>1, DevicesInvariant, PTL

(* A takeover with the SpaceMouse has a handle whose rest position was     *)
(* measured, and an open handle is the service's, a calibration's or about *)
(* to be stopped, whatever polls, replugging and failing calibrations do,  *)
(* unless two calibrations have run at once.                               *)
THEOREM HandleIsSound == PartsSpec => []TakeoverHandleSound
<1>1. DevicesIInv => TakeoverHandleSound
  BY MouseOwns DEF DevicesIInv, TakeoverHandleSound
<1> QED
  BY <1>1, DevicesInvariant, PTL

(* What a session is given is younger than what last cut it off, for every *)
(* Deflection, Deadzone and Ratio; and a frame that was chosen is in force *)
(* or waits for the cap to rest.                                           *)
THEOREM MotionIsTheOperators == PartsSpec => []InputIsTheOperators
<1>1. DevicesIInv => InputIsTheOperators
  BY InputIsFresh DEF DevicesIInv, InputIsTheOperators
<1> QED
  BY <1>1, DevicesInvariant, PTL

(* Under a session the frame of control changes only with the cap at rest, *)
(* and with a command of zero.                                             *)
THEOREM FrameWaitsForRest == PartsSpec => FrameSwitchesAtRest
<1>1. DevicesIInv /\ [PartsNext]_parts => [part = "input" => Input!FrameSwitchesAtRest]_parts
  <2>1. ASSUME UNCHANGED Input!vars PROVE Input!FrameSwitchesAtRest
    BY <2>1 DEF Input!vars, Input!FrameSwitchesAtRest
  <2> QED
    BY <2>1, PartStep, FramesAtRest DEF DevicesIInv
<1>2. PartsSpec => [][PartsNext]_parts
  BY PTL DEF PartsSpec
<1> QED
  BY <1>1, <1>2, DevicesInvariant, PTL DEF FrameSwitchesAtRest
=============================================================================
