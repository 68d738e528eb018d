------------------------------- MODULE TaskCall -------------------------------
(***************************************************************************)
(* What RunLifecycle.executeTask promises to the loop that calls it: while *)
(* the call goes on it only writes "in progress" statuses, it returns once,*)
(* with a final status that agrees with the returned value, and it writes  *)
(* nothing afterwards.  TaskExecution implements this specification;       *)
(* RunLifecycle relies on it.                                              *)
(***************************************************************************)
EXTENDS TaskStatus

VARIABLES status, result

Init == status \in Statuses /\ result = "none"

Mark ==
  /\ result = "none"
  /\ status' \in Marks
  /\ UNCHANGED result

Return ==
  /\ result = "none"
  /\ <<result', status'>> \in Returns

Spec == Init /\ [][Mark \/ Return]_<<status, result>>
=============================================================================
