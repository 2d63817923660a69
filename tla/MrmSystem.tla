------------------------------- MODULE MrmSystem -------------------------------
(***************************************************************************)
(* The emergency handler composed with the two MRM operators.  A service   *)
(* call is a request the handler waits for; the operator serves it in a    *)
(* step of its own, at any later time, and the answer is picked up in yet  *)
(* another step of the handler.                                            *)
(***************************************************************************)
EXTENDS Integers

CONSTANTS
  EmergencyHazardLevel, TimeoutHazardStatus, TimeoutTakeoverRequest,
  UseTakeoverRequest, UseParkingAfterStopped, UseComfortableStop,
  TurningHazardOnEmergency, NoHazard,
  TargetDeceleration, TargetJerkDown, MaxSpeed, MaxBrake, MaxDrive, MaxDt

VARIABLES
  hazard, hazardAge, control_mode, velocity, available, mrm_state, behavior,
  takeover, takeoverAge, call, target, command, report,
  cs_state, cs_sent,
  es_state, es_prev, es_subscribed, es_out

H  == INSTANCE EmergencyHandler
CS == INSTANCE MrmComfortableStopOperator
ES == INSTANCE MrmEmergencyStopOperator

ASSUME MrmSystemAssumption ==
  /\ H!HandlerAssumption
  /\ H!NoHazardAssumption
  /\ ES!EmergencyStopAssumption

handlerVars == <<hazard, hazardAge, control_mode, velocity, available, mrm_state,
                 behavior, takeover, takeoverAge, call, target, command, report>>
csVars == <<cs_state, cs_sent>>
esVars == <<es_state, es_prev, es_subscribed, es_out>>
vars   == <<handlerVars, csVars, esVars>>

TypeOK == H!TypeOK /\ CS!TypeOK /\ ES!TypeOK

Init == H!Init /\ CS!Init /\ ES!Init

-----------------------------------------------------------------------------

\* The comfortable stop operator serves the request of the handler.
ServeComfortableStop ==
  /\ call.to = "COMFORTABLE_STOP"
  /\ H!Answer
  /\ CS!OperateComfortableStop(call.operate)
  /\ UNCHANGED esVars

\* The emergency stop operator serves the request of the handler.
ServeEmergencyStop ==
  /\ call.to = "EMERGENCY_STOP"
  /\ H!Answer
  /\ ES!OperateEmergencyStop(call.operate)
  /\ UNCHANGED csVars

Serve == ServeComfortableStop \/ ServeEmergencyStop

\* A step of the handler that serves no request.
HandlerStep ==
  /\ H!Subscription \/ H!Timer \/ H!Tick
  /\ UNCHANGED <<csVars, esVars>>

\* The emergency stop operator on its own: its timer and the gate's commands.
OperatorStep ==
  /\ \/ \E c \in ES!InputCommands : ES!OnControlCommand(c)
     \/ \E dt \in 0 .. MaxDt : ES!OnTimer(dt)
  /\ UNCHANGED <<handlerVars, csVars>>

Next == HandlerStep \/ Serve \/ OperatorStep

Spec == Init /\ [][Next]_vars

\* As for the handler alone: its executor does not stop and operators answer.
FairSpec ==
  /\ Spec
  /\ WF_vars(H!Timer /\ UNCHANGED <<csVars, esVars>>)
  /\ WF_vars(Serve)

-----------------------------------------------------------------------------
(* Properties. *)

\* The manoeuvres executed right now.
Running ==
  {b \in H!Mrms : \/ b = "COMFORTABLE_STOP" /\ cs_state = "OPERATING"
                  \/ b = "EMERGENCY_STOP" /\ es_state = "OPERATING"}

\* The two manoeuvres never run at the same time: operateMrm waits for the
\* cancel of the old one before it calls the new one.
AtMostOneMrmRuns ==
  ~(cs_state = "OPERATING" /\ es_state = "OPERATING")

\* Whenever onTimer is not waiting, the operator that runs is exactly the one
\* whose behavior is stored and published, whatever the order of hazards,
\* take-overs, status timeouts and answers was.
StoredBehaviorRuns ==
  call = H!Idle => /\ Running = {behavior} \ {"NONE"}
                   /\ report.behavior = behavior

\* In the middle of a change, the operators are where the pending call says.
PendingCallMatchesOperators ==
  call # H!Idle =>
    Running = (IF call.operate THEN IF call.answered THEN {target} ELSE {}
                               ELSE IF call.answered THEN {} ELSE {behavior})

\* The handler and its operators keep the promise of MrmPromise.
RunningMrm ==
  IF cs_state = "OPERATING" THEN "COMFORTABLE_STOP"
  ELSE IF es_state = "OPERATING" THEN "EMERGENCY_STOP" ELSE "NONE"

Promise == INSTANCE MrmPromise WITH
             Mrms <- H!Mrms, MrmStates <- H!MrmStates, running <- RunningMrm

PromiseKept == Promise!Spec

\* An operator that runs is only ever cancelled for one of two reasons: updateMrmState
\* decided on NORMAL because the emergency was over or the driver had taken over, or
\* the comfortable stop makes way for the emergency stop that a single point fault
\* needs.  Neither a standstill, nor a milder level, nor a hazard status that goes
\* late before or during the cancel ends a manoeuvre (updateMrmState, operateMrm).
MrmEndsOnRecoveryOrEscalation ==
  [][RunningMrm # "NONE" /\ RunningMrm' = "NONE" =>
       \/ mrm_state = "NORMAL" /\ (~H!IsEmergency \/ H!IsTakeoverDone)
       \/ /\ RunningMrm = "COMFORTABLE_STOP" /\ target = "EMERGENCY_STOP"
          /\ hazard.level = H!SinglePointFault]_vars

(* The promises of the handler, kept with the operators it really has.     *)

\* MRM_OPERATING is never published with a milder manoeuvre than a single point
\* fault needs, however long the services took (getCurrentMrmBehavior).
SinglePointFaultSelectsEmergencyStop == H!SinglePointFaultSelectsEmergencyStop

\* An emergency that stays is reported for good (updateMrmState).
PersistentEmergencyIsReported == H!PersistentEmergencyIsReported

\* An emergency that has gone for good is reported as NORMAL, no manoeuvre left
\* (updateMrmState and operateMrm).
RecoveryIsReported == H!RecoveryIsReported
=============================================================================
