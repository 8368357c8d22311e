---------------------------- MODULE TimerService ----------------------------
(***************************************************************************)
(* What the Scheduler promises its callers, without its thread, its queue  *)
(* or its clock: an event that was requested is either cancelled by its    *)
(* owner or fired, never both and never twice, or is dropped with all      *)
(* others when the service ends.  Scheduler implements this module.        *)
(***************************************************************************)
CONSTANT Events

VARIABLE status

Init == status = [e \in Events |-> "idle"]

Request(e) ==
  /\ status[e] = "idle"
  /\ status' = [status EXCEPT ![e] = "pending"]

Cancel(e) ==
  /\ status[e] = "pending"
  /\ status' = [status EXCEPT ![e] = "cancelled"]

Fire(e) ==
  /\ status[e] = "pending"
  /\ status' = [status EXCEPT ![e] = "fired"]

End ==
  status' = [e \in Events |-> IF status[e] = "pending" THEN "dropped" ELSE status[e]]

Next == (\E e \in Events : Request(e) \/ Cancel(e) \/ Fire(e)) \/ End

Spec == Init /\ [][Next]_status
=============================================================================
