------------------------------ MODULE MrmPromise ------------------------------
(***************************************************************************)
(* What the emergency handler and the MRM operators together promise to    *)
(* the rest of the system, without service calls, queues or timers: at     *)
(* most one manoeuvre runs, a manoeuvre is only replaced by the emergency  *)
(* stop, the MrmState published names the manoeuvre that runs, and a       *)
(* manoeuvre that was started or stopped is eventually reported as such.   *)
(***************************************************************************)
CONSTANTS Mrms, MrmStates

VARIABLES
  running,   \* the manoeuvre that runs, or "NONE"
  report     \* the last MrmState published

vars == <<running, report>>

Init ==
  /\ running = "NONE"
  /\ report = [state |-> "NORMAL", behavior |-> "NONE"]

\* From the report last seen, b is the first manoeuvre or an escalation.
Selectable(b) ==
  \/ report.behavior = "NONE"
  \/ report.behavior = "COMFORTABLE_STOP" /\ b = "EMERGENCY_STOP"

Start(b) ==
  /\ running = "NONE"
  /\ Selectable(b)
  /\ running' = b
  /\ UNCHANGED report

Stop ==
  /\ running # "NONE"
  /\ running = report.behavior
  /\ running' = "NONE"
  /\ UNCHANGED report

\* The state is NORMAL only when nothing runs, and MRM_OPERATING only when
\* something does.
Publish(s) ==
  /\ s = "NORMAL" => running = "NONE"
  /\ s = "MRM_OPERATING" => running # "NONE"
  /\ report' = [state |-> s, behavior |-> running]
  /\ UNCHANGED running

Next ==
  \/ \E b \in Mrms : Start(b)
  \/ Stop
  \/ \E s \in MrmStates : Publish(s)

\* A report that does not name the running manoeuvre is eventually replaced.
PublishChange == running # report.behavior /\ \E s \in MrmStates : Publish(s)

\* What never happens, without what eventually does.
Safety == Init /\ [][Next]_vars

Spec == Safety /\ WF_vars(PublishChange)
=============================================================================
