---------------------- MODULE MrmComfortableStopOperator ----------------------
(***************************************************************************)
(* The node system/mrm_comfortable_stop_operator: operated, it asks the    *)
(* external velocity limit selector for a zero velocity limit; cancelled,  *)
(* it asks it to clear that limit again.  The two messages travel on two   *)
(* topics; cs_sent is the one published last.                              *)
(***************************************************************************)

VARIABLES
  cs_state,   \* status_.state
  cs_sent     \* "none", "limit" or "clear": the last message published

cs_vars == <<cs_state, cs_sent>>

TypeOK ==
  /\ cs_state \in {"AVAILABLE", "OPERATING"}
  /\ cs_sent \in {"none", "limit", "clear"}

Init ==
  /\ cs_state = "AVAILABLE"
  /\ cs_sent = "none"

\* Faulty variant: the state is not reset by a cancel.
OperateComfortableStopForGood(operate) ==
  /\ cs_sent' = IF operate THEN "limit" ELSE "clear"
  /\ cs_state' = IF operate THEN "OPERATING" ELSE cs_state

OperateComfortableStop(operate) ==
  /\ cs_sent' = IF operate THEN "limit" ELSE "clear"
  /\ cs_state' = IF operate THEN "OPERATING" ELSE "AVAILABLE"
=============================================================================
