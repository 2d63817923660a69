--------------------------- MODULE EmergencyHandler ---------------------------
(***************************************************************************)
(* The node system/emergency_handler: it turns the hazard status of the    *)
(* system error monitor into the state of the minimal risk manoeuvre (MRM) *)
(* and operates the two MRM operators through blocking service calls.      *)
(*                                                                         *)
(* The node runs on a multi-threaded executor, but its timer and all its   *)
(* subscriptions share the default, mutually exclusive callback group:     *)
(* while onTimer waits for the answer of an operator (future.get()), no    *)
(* message is processed and the timer does not fire.  Only the answers     *)
(* arrive, through the callback groups of the clients.                     *)
(*                                                                         *)
(* Time is counted in ticks; a stored stamp is represented by its age,     *)
(* which stops growing one tick past the timeout it is compared with.      *)
(***************************************************************************)
EXTENDS Naturals

CONSTANTS
  EmergencyHazardLevel,     \* level from which the error monitor reports an emergency
  TimeoutHazardStatus,      \* timeout_hazard_status, in ticks
  TimeoutTakeoverRequest,   \* timeout_takeover_request, in ticks
  UseTakeoverRequest,       \* use_takeover_request
  UseParkingAfterStopped,   \* use_parking_after_stopped
  UseComfortableStop,       \* use_comfortable_stop
  TurningHazardOnEmergency, \* turning_hazard_on.emergency
  NoHazard                  \* no hazard status was received yet

NoFault          == 0
SafeFault        == 1
LatentFault      == 2
SinglePointFault == 3
Levels           == NoFault .. SinglePointFault

\* What the composed modules assume of the parameters.
HandlerAssumption ==
  /\ EmergencyHazardLevel \in Levels
  /\ TimeoutHazardStatus \in Nat
  /\ TimeoutTakeoverRequest \in Nat
  /\ UseTakeoverRequest \in BOOLEAN
  /\ UseParkingAfterStopped \in BOOLEAN
  /\ UseComfortableStop \in BOOLEAN
  /\ TurningHazardOnEmergency \in BOOLEAN

Mrms         == {"COMFORTABLE_STOP", "EMERGENCY_STOP"}
Behaviors    == Mrms \cup {"NONE"}
MrmStates    == {"NORMAL", "MRM_OPERATING", "MRM_SUCCEEDED", "MRM_FAILED"}
ControlModes == {"NO_COMMAND", "AUTONOMOUS", "MANUAL"}
Velocities   == {"reverse", "standstill", "forward"}

\* What system_error_monitor publishes: the emergency flag follows the level,
\* and an emergency is only held while there is one.
HazardStatuses ==
  {h \in [level : Levels, emergency : BOOLEAN, emergency_holding : BOOLEAN] :
     /\ h.emergency = (h.level >= EmergencyHazardLevel)
     /\ h.emergency_holding => h.emergency}

NoHazardAssumption == NoHazard \notin HazardStatuses

\* onTimer waiting for an operator: which one, what was asked, answered or not.
Calls    == [to : Mrms, operate : BOOLEAN, answered : BOOLEAN]
Idle     == [to |-> "NONE", operate |-> FALSE, answered |-> FALSE]
Reports  == [state : MrmStates, behavior : Behaviors]
Commands == [hazard_light : {"NO_COMMAND", "ENABLE"}, gear : {"DRIVE", "PARK"}]

VARIABLES
  hazard,           \* hazard_status_stamped_
  hazardAge,        \* now - stamp_hazard_status_
  control_mode,     \* control_mode_
  velocity,         \* odom_: the sign of its longitudinal velocity
  available,        \* operators whose status message was received
  mrm_state,        \* mrm_state_.state
  behavior,         \* mrm_state_.behavior
  takeover,         \* is_takeover_request_
  takeoverAge,      \* now - takeover_requested_time_
  call,             \* the service call onTimer waits for, or Idle
  target,           \* current_mrm_behavior of the running operateMrm
  command,          \* the last hazard light and gear commands published
  report            \* the last MrmState published

inputs == <<hazard, hazardAge, control_mode, velocity, available>>
vars   == <<hazard, hazardAge, control_mode, velocity, available, mrm_state,
            behavior, takeover, takeoverAge, call, target, command, report>>

TypeOK ==
  /\ hazard \in HazardStatuses \cup {NoHazard}
  /\ hazardAge \in 0 .. TimeoutHazardStatus + 1
  /\ control_mode \in ControlModes
  /\ velocity \in Velocities
  /\ available \subseteq Mrms
  /\ mrm_state \in MrmStates
  /\ behavior \in Behaviors
  /\ takeover \in BOOLEAN
  /\ takeoverAge \in 0 .. TimeoutTakeoverRequest + 1
  /\ call \in Calls \cup {Idle}
  /\ target \in Behaviors
  /\ command \in Commands
  /\ report \in Reports

Init ==
  /\ hazard = NoHazard
  /\ hazardAge = 0
  /\ control_mode = "NO_COMMAND"
  /\ velocity = "standstill"
  /\ available = {}
  /\ mrm_state = "NORMAL"
  /\ behavior = "NONE"
  /\ takeover = FALSE
  /\ takeoverAge = 0
  /\ call = Idle
  /\ target = "NONE"
  /\ command = [hazard_light |-> "NO_COMMAND", gear |-> "DRIVE"]
  /\ report = [state |-> "NORMAL", behavior |-> "NONE"]

-----------------------------------------------------------------------------
(* Subscriptions.  Each only stores its message. *)

Listening == call = Idle

OnHazardStatusStamped(h) ==
  /\ Listening
  /\ hazard' = h
  /\ hazardAge' = 0
  /\ UNCHANGED <<control_mode, velocity, available, mrm_state, behavior,
                 takeover, takeoverAge, call, target, command, report>>

OnControlMode(m) ==
  /\ Listening
  /\ control_mode' = m
  /\ UNCHANGED <<hazard, hazardAge, velocity, available, mrm_state, behavior,
                 takeover, takeoverAge, call, target, command, report>>

OnOdometry(v) ==
  /\ Listening
  /\ velocity' = v
  /\ UNCHANGED <<hazard, hazardAge, control_mode, available, mrm_state, behavior,
                 takeover, takeoverAge, call, target, command, report>>

\* The operators only publish AVAILABLE or OPERATING, and the handler only
\* asks whether a status is still the NOT_AVAILABLE it starts with.
OnMrmStatus(b) ==
  /\ Listening
  /\ available' = available \cup {b}
  /\ UNCHANGED <<hazard, hazardAge, control_mode, velocity, mrm_state, behavior,
                 takeover, takeoverAge, call, target, command, report>>

-----------------------------------------------------------------------------
(* The decisions of onTimer. *)

IsDataReady ==
  /\ hazard # NoHazard
  /\ UseComfortableStop => "COMFORTABLE_STOP" \in available
  /\ "EMERGENCY_STOP" \in available

IsHazardStatusTimeout == hazardAge > TimeoutHazardStatus

IsEmergency == hazard.emergency \/ hazard.emergency_holding

\* linear.x < 0.001: driving backwards passes the test as well.
IsStopped == velocity \in {"reverse", "standstill"}

IsAutoMode     == control_mode = "AUTONOMOUS"
IsTakeoverDone == control_mode = "MANUAL"

\* Faulty variant: a standstill ends the manoeuvre.
UpdatedMrmStateEndingAtStandstill ==
  IF mrm_state = "NORMAL"
  THEN IF IsAutoMode /\ IsEmergency /\ ~UseTakeoverRequest
       THEN "MRM_OPERATING" ELSE "NORMAL"
  ELSE IF ~IsEmergency \/ IsTakeoverDone \/ IsStopped
  THEN "NORMAL"
  ELSE mrm_state

\* Faulty variant: only a manoeuvre in operation recovers.
UpdatedMrmStateSucceedingForever ==
  IF mrm_state = "NORMAL"
  THEN IF IsAutoMode /\ IsEmergency /\ ~UseTakeoverRequest
       THEN "MRM_OPERATING" ELSE "NORMAL"
  ELSE IF mrm_state = "MRM_OPERATING" /\ IsStopped
  THEN "MRM_SUCCEEDED"
  ELSE IF mrm_state = "MRM_OPERATING" /\ ~IsEmergency
  THEN "NORMAL"
  ELSE mrm_state

\* The state updateMrmState leaves.
UpdatedMrmState ==
  IF mrm_state = "NORMAL"
  THEN IF IsAutoMode /\ IsEmergency /\ ~UseTakeoverRequest
       THEN "MRM_OPERATING" ELSE "NORMAL"
  ELSE IF ~IsEmergency \/ IsTakeoverDone
  THEN "NORMAL"
  ELSE IF takeover
  THEN IF takeoverAge > TimeoutTakeoverRequest THEN "MRM_OPERATING" ELSE mrm_state
  ELSE IF mrm_state = "MRM_OPERATING" /\ IsStopped
  THEN "MRM_SUCCEEDED"
  ELSE mrm_state

\* The other assignments of updateMrmState: it asks the driver to take over.
RequestTakeover ==
  IF mrm_state = "NORMAL" /\ IsAutoMode /\ IsEmergency /\ UseTakeoverRequest
  THEN takeover' = TRUE /\ takeoverAge' = 0
  ELSE UNCHANGED <<takeover, takeoverAge>>

\* Faulty variant: the manoeuvre follows the level.
MrmBehaviorOfLevel ==
  IF hazard.level = SinglePointFault THEN "EMERGENCY_STOP"
  ELSE IF hazard.level = LatentFault /\ UseComfortableStop THEN "COMFORTABLE_STOP"
  ELSE behavior

\* Faulty variant: a manoeuvre once selected stays.
FirstMrmBehavior ==
  IF behavior = "NONE" /\ hazard.level = SinglePointFault THEN "EMERGENCY_STOP"
  ELSE IF behavior = "NONE" /\ hazard.level = LatentFault
  THEN IF UseComfortableStop THEN "COMFORTABLE_STOP" ELSE "EMERGENCY_STOP"
  ELSE behavior

\* getCurrentMrmBehavior: a manoeuvre is only ever replaced by the emergency stop.
CurrentMrmBehavior ==
  IF behavior \in {"NONE", "COMFORTABLE_STOP"} /\ hazard.level = SinglePointFault
  THEN "EMERGENCY_STOP"
  ELSE IF behavior = "NONE" /\ hazard.level = LatentFault
  THEN IF UseComfortableStop THEN "COMFORTABLE_STOP" ELSE "EMERGENCY_STOP"
  ELSE behavior

\* The behavior operateMrm establishes in state s.
OperatedBehavior(s) ==
  CASE s = "NORMAL"        -> "NONE"
    [] s = "MRM_OPERATING" -> CurrentMrmBehavior
    [] OTHER               -> behavior

PublishControlCommands ==
  command' =
    [hazard_light |-> IF \/ hazard.emergency_holding
                         \/ IsEmergency /\ TurningHazardOnEmergency
                      THEN "ENABLE" ELSE "NO_COMMAND",
     gear         |-> IF UseParkingAfterStopped /\ IsStopped THEN "PARK" ELSE "DRIVE"]

Request(b, operate) == [to |-> b, operate |-> operate, answered |-> FALSE]

\* Faulty variant: the old manoeuvre is not cancelled.
OperateMrmWithoutCancel ==
  /\ target' = OperatedBehavior(mrm_state')
  /\ \/ /\ target' = behavior
        /\ report' = [state |-> mrm_state', behavior |-> behavior]
        /\ UNCHANGED call
     \/ /\ target' # behavior
        /\ call' = IF target' = "NONE" THEN Request(behavior, FALSE)
                                       ELSE Request(target', TRUE)
        /\ UNCHANGED report

\* operateMrm up to its first service call, the cancel of the old manoeuvre if
\* there is one; without a call the cycle ends here with publishMrmState.
OperateMrm ==
  /\ target' = OperatedBehavior(mrm_state')
  /\ \/ /\ target' = behavior
        /\ report' = [state |-> mrm_state', behavior |-> behavior]
        /\ UNCHANGED call
     \/ /\ target' # behavior
        /\ call' = IF behavior # "NONE" THEN Request(behavior, FALSE)
                                        ELSE Request(target', TRUE)
        /\ UNCHANGED report

-----------------------------------------------------------------------------
(* onTimer. *)

\* A stale hazard status: the state is forced, nothing is operated and the
\* MrmState is not published.
OnTimerHazardTimeout ==
  /\ Listening
  /\ IsDataReady
  /\ IsHazardStatusTimeout
  /\ mrm_state' = "MRM_OPERATING"
  /\ PublishControlCommands
  /\ UNCHANGED <<hazard, hazardAge, control_mode, velocity, available, behavior,
                 takeover, takeoverAge, call, target, report>>

\* updateMrmState, publishControlCommands and operateMrm.
OnTimer ==
  /\ Listening
  /\ IsDataReady
  /\ ~IsHazardStatusTimeout
  /\ mrm_state' = UpdatedMrmState
  /\ RequestTakeover
  /\ PublishControlCommands
  /\ OperateMrm
  /\ UNCHANGED <<inputs, behavior>>

\* Faulty variant: the next manoeuvre is called although there is none.
CallAnyMrm ==
  /\ call # Idle
  /\ call.answered
  /\ ~call.operate
  /\ call' = Request(target, TRUE)
  /\ UNCHANGED <<inputs, mrm_state, behavior, takeover, takeoverAge, target,
                 command, report>>

\* Faulty variant: the answer to the cancel is not waited for.
CallNextMrmAtOnce ==
  /\ call # Idle
  /\ ~call.operate
  /\ target # "NONE"
  /\ call' = Request(target, TRUE)
  /\ UNCHANGED <<inputs, mrm_state, behavior, takeover, takeoverAge, target,
                 command, report>>

\* cancelMrmBehavior returned: the next manoeuvre, if any, is called.
CallNextMrm ==
  /\ call # Idle
  /\ call.answered
  /\ ~call.operate
  /\ target # "NONE"
  /\ call' = Request(target, TRUE)
  /\ UNCHANGED <<inputs, mrm_state, behavior, takeover, takeoverAge, target,
                 command, report>>

\* The last call returned: operateMrm stores the behavior, onTimer publishes.
FinishTimer ==
  /\ call # Idle
  /\ call.answered
  /\ call.operate \/ target = "NONE"
  /\ behavior' = target
  /\ report' = [state |-> mrm_state, behavior |-> target]
  /\ call' = Idle
  /\ UNCHANGED <<inputs, mrm_state, takeover, takeoverAge, target, command>>

-----------------------------------------------------------------------------
(* The environment of the node: the operator that answers, and time. *)

\* The operator asked serves the request; both operators always succeed, and
\* the handler only logs the result.
Answer ==
  /\ call # Idle
  /\ ~call.answered
  /\ call' = [call EXCEPT !.answered = TRUE]
  /\ UNCHANGED <<inputs, mrm_state, behavior, takeover, takeoverAge, target,
                 command, report>>

Older(age, timeout) == IF age > timeout THEN age ELSE age + 1

Tick ==
  /\ hazardAge' = Older(hazardAge, TimeoutHazardStatus)
  /\ takeoverAge' = IF takeover THEN Older(takeoverAge, TimeoutTakeoverRequest)
                                ELSE takeoverAge
  /\ UNCHANGED <<hazard, control_mode, velocity, available, mrm_state, behavior,
                 takeover, call, target, command, report>>

Subscription ==
  \/ \E h \in HazardStatuses : OnHazardStatusStamped(h)
  \/ \E m \in ControlModes : OnControlMode(m)
  \/ \E v \in Velocities : OnOdometry(v)
  \/ \E b \in Mrms : OnMrmStatus(b)

Timer == OnTimerHazardTimeout \/ OnTimer \/ CallNextMrm \/ FinishTimer

Next == Subscription \/ Timer \/ Answer \/ Tick

Spec == Init /\ [][Next]_vars

\* The executor keeps firing the timer and resuming the blocked callback, the
\* operators, whose only callbacks are short, keep answering, and time passes.
Fairness == WF_vars(Timer) /\ WF_vars(Answer) /\ WF_vars(Tick)

FairSpec == Spec /\ Fairness

-----------------------------------------------------------------------------
(* Properties. *)

\* Whenever MRM_OPERATING is published while the stored status is a single
\* point fault, the manoeuvre published is the emergency stop, also when the
\* comfortable stop had to be cancelled first and the cancel took long.
SinglePointFaultSelectsEmergencyStop ==
  [][(OnTimer \/ FinishTimer) /\ report' # report
       /\ report'.state = "MRM_OPERATING" /\ hazard.level = SinglePointFault
       => report'.behavior = "EMERGENCY_STOP"]_vars

\* An emergency that persists in autonomous mode is eventually reported for
\* good, although each report needs the answers of up to two operators.
PersistentEmergencyIsReported ==
  <>[](IsDataReady /\ IsEmergency /\ IsAutoMode /\ ~IsHazardStatusTimeout)
    => <>[](report.state # "NORMAL")

\* When the emergency has gone for good, the manoeuvre is cancelled and NORMAL
\* is reported.
RecoveryIsReported ==
  <>[](IsDataReady /\ ~IsEmergency /\ ~IsHazardStatusTimeout)
    => <>[](report = [state |-> "NORMAL", behavior |-> "NONE"])

\* The README: the hazard status is "used to select proper MRM from system
\* failure state".  A persistent emergency in autonomous mode ends with a
\* manoeuvre selected.
PersistentEmergencySelectsMrm ==
  <>[](IsDataReady /\ IsEmergency /\ IsAutoMode /\ ~IsHazardStatusTimeout)
    => <>[](report.behavior # "NONE")
=============================================================================
