----------------------------- MODULE FifoServer -----------------------------
(***************************************************************************)
(* What the work queue promises: one server, clients served one at a time  *)
(* in the order they arrived, and guests (manual takeover) who never wait: *)
(* they are served at once when nobody is waiting, or not at all.          *)
(***************************************************************************)
EXTENDS Naturals

CONSTANTS
  Clients,
  Guests,
  Overtakable  \* clients that others may be served before

VARIABLES
  clock,    \* the last ticket given out
  ticket,   \* order of arrival, 0 before it
  waiting,  \* clients that arrived and were neither served nor withdrawn
  serving   \* whom the server is busy with

vars == <<clock, ticket, waiting, serving>>

Init ==
  /\ clock = 0
  /\ ticket = [c \in Clients |-> 0]
  /\ waiting = {}
  /\ serving = {}

Arrive(c) ==
  /\ ticket[c] = 0
  /\ clock' = clock + 1
  /\ ticket' = [ticket EXCEPT ![c] = clock + 1]
  /\ waiting' = waiting \cup {c}
  /\ UNCHANGED serving

Serve(c) ==
  /\ serving = {} /\ c \in waiting
  /\ \A k \in waiting \ Overtakable : ticket[c] <= ticket[k]
  /\ serving' = {c}
  /\ waiting' = waiting \ {c}
  /\ UNCHANGED <<clock, ticket>>

ServeGuest(g) ==
  /\ serving = {} /\ waiting \subseteq Overtakable
  /\ serving' = {g}
  /\ UNCHANGED <<clock, ticket, waiting>>

Finish ==
  /\ serving # {}
  /\ serving' = {}
  /\ UNCHANGED <<clock, ticket, waiting>>

(* Clients leave the queue unserved: canceled, failed or interrupted.      *)
Withdraw ==
  /\ waiting' \in SUBSET waiting
  /\ waiting' # waiting
  /\ UNCHANGED <<clock, ticket, serving>>

Next ==
  \/ \E c \in Clients : Arrive(c) \/ Serve(c)
  \/ \E g \in Guests : ServeGuest(g)
  \/ Finish
  \/ Withdraw

Spec == Init /\ [][Next]_vars
=============================================================================
