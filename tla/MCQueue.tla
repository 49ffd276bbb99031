------------------------------- MODULE MCQueue -------------------------------
(***************************************************************************)
(* The queue and its refinement in two settings, one run: two backends on  *)
(* one project root whose crashes, restarts and failing disks meet each    *)
(* other ("restarts"), and one backend at work whose jobs are also read by *)
(* lock-free status requests and whose registrations may fail half way,    *)
(* with a crash but no restart ("races").  All of it together is too many  *)
(* states.                                                                 *)
(***************************************************************************)
EXTENDS WorkQueueRefinement

CONSTANT Working  \* the backend at work in the setting "races"

VARIABLE setting

queue == <<vars, setting>>

Idle(b) ==
  /\ section'[b] = section[b] /\ poll'[b] = poll[b]
  /\ tasks'[b] = tasks[b] /\ up'[b] = up[b]

Races ==
  /\ \A b \in Backends \ {Working} : Idle(b)
  /\ ~\E b \in Backends : LaunchFailsUnrecorded(b)
  /\ restarts' = restarts

Restarts == poll' = poll /\ refused' = refused

SettingsInit == Init /\ setting \in {"races", "restarts"}

SettingsNext ==
  /\ Next /\ setting' = setting
  /\ setting = "races" => Races
  /\ setting = "restarts" => Restarts

SettingsSpec == SettingsInit /\ [][SettingsNext]_queue
-----------------------------------------------------------------------------
(* QueuedIsIndexed, NoOvertaking and NoStrandedTask of WorkQueue: what     *)
(* waits is found, and started in its turn, and what was started is worked *)
(* on.  Where even the record of a failed launch may fail, that task is    *)
(* stranded until a restart.                                               *)
WaitingIsServed ==
  QueuedIsIndexed /\ NoOvertaking /\ (setting = "races" => NoStrandedTask)

(* CanceledNeverStarts of WorkQueue, of one backend: another backend that  *)
(* had selected a local job which the first cancels as it closes writes    *)
(* STARTING, finds no task and writes FAILED.                              *)
CanceledStaysCanceled ==
  [][setting = "races" =>
       \A j \in Jobs : manifest[j].st = "CANCELED" /\ ~Started(j)
                      => manifest'[j].st \in {"CANCELED", "FAILED", "STOPPING"} /\ ~Started(j)']_queue
=============================================================================
