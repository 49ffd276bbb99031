------------------------- MODULE WorkQueueRefinement -------------------------
(***************************************************************************)
(* The work queue implements FifoServer: what waits is what job.json calls *)
(* QUEUED together with the job a dispatcher has selected and not yet      *)
(* started; the server is busy with what holds the lease to work.          *)
(***************************************************************************)
EXTENDS WorkQueue

InDispatch == {section[b].job : b \in {c \in Backends :
                                  section[c].at \in {"selected", "published", "indexed"}}}

Server == INSTANCE FifoServer WITH
  Clients <- Jobs,
  Guests <- Backends,
  Overtakable <- RefusedJobs,
  ticket <- arrival,
  waiting <- {j \in Jobs : manifest[j].st = "QUEUED"} \cup InDispatch,
  serving <- InUse

(* Every step of the queue, crashes and stale writes included, is a step   *)
(* of a FIFO server with one place or changes nothing it shows.            *)
ServerSpec == Server!Spec
=============================================================================
