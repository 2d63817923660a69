------------------------------- MODULE FailSafe -------------------------------
(***************************************************************************)
(* The chain that stops the vehicle: hazard status -> emergency handler -> *)
(* MRM operators and MrmState -> vehicle command gate -> vehicle, closed   *)
(* by the emergency stop operator, which listens to what the gate sends.   *)
(*                                                                         *)
(* One tick is the period of the timers of the handler and of the gate;    *)
(* each fires once per tick, in any order, unless the handler is blocked   *)
(* in a service call or has died.  A published MrmState is received before *)
(* the next tick (a topic of depth 1 in one computer).  Control commands   *)
(* may be received at any time, more than once or never.                   *)
(***************************************************************************)
EXTENDS Integers

CONSTANTS
  EmergencyHazardLevel, TimeoutHazardStatus, TimeoutTakeoverRequest,
  UseTakeoverRequest, UseParkingAfterStopped, UseComfortableStop,
  TurningHazardOnEmergency, NoHazard,
  TargetDeceleration, TargetJerkDown, MaxSpeed, MaxBrake, MaxDrive, MaxDt,
  UseEmergencyHandling, CheckExternalHeartbeat, SystemHeartbeatTimeout,
  ExternalHeartbeatTimeout, NominalVelLim, TransitionVelLim, NominalAccLim,
  TransitionAccLim, Speeds, GateModes, EngageRequests, PauseRequests,
  TransitionFlags, Never,
  HazardLevels, ModeInputs, VelocityInputs,  \* what the environment may send
  HandlerMayDie                              \* whether the handler may crash

VARIABLES
  hazard, hazardAge, control_mode, velocity, available, mrm_state, behavior,
  takeover, takeoverAge, call, target, command, report,
  cs_state, cs_sent,
  es_state, es_prev, es_subscribed, es_out,
  gate_mode, gate_mode_changed, engaged, paused, in_transition,
  system_emergency, mrmAge, mrm_timeout, external_stop, externalAge,
  external_timeout, emergency_cmd, filter_prev, filterAge, out, signals, timerDue,
  mrm_topic,       \* an MrmState is on its way to the gate
  handlerDue,      \* the timer of the handler has not fired in this tick yet
  handlerAlive,    \* the handler process runs
  silence          \* ticks since the handler last received a hazard status or
                   \* ended a blocked cycle (an observer, no state of the code)

H  == INSTANCE EmergencyHandler
CS == INSTANCE MrmComfortableStopOperator
ES == INSTANCE MrmEmergencyStopOperator
G  == INSTANCE VehicleCmdGate

ASSUME FailSafeAssumption ==
  /\ H!HandlerAssumption /\ H!NoHazardAssumption
  /\ ES!EmergencyStopAssumption
  /\ G!GateAssumption
  /\ HazardLevels \subseteq H!Levels
  /\ ModeInputs \subseteq H!ControlModes
  /\ VelocityInputs \subseteq H!Velocities
  /\ HandlerMayDie \in BOOLEAN

handlerVars == <<hazard, hazardAge, control_mode, velocity, available, mrm_state,
                 behavior, takeover, takeoverAge, call, target, command, report>>
csVars   == <<cs_state, cs_sent>>
esVars   == <<es_state, es_prev, es_subscribed, es_out>>
gateVars == <<gate_mode, gate_mode_changed, engaged, paused, in_transition,
              system_emergency, mrmAge, mrm_timeout, external_stop, externalAge,
              external_timeout, emergency_cmd, filter_prev, filterAge, out,
              signals, timerDue>>
vars     == <<handlerVars, csVars, esVars, gateVars, mrm_topic, handlerDue,
              handlerAlive, silence>>

\* Without emergency holding, the status is determined by its level.
HazardStatus(level) ==
  [level |-> level, emergency |-> level >= EmergencyHazardLevel,
   emergency_holding |-> FALSE]

\* How long hazard statuses may be missing before the gate stops the vehicle.
Patience == TimeoutHazardStatus + SystemHeartbeatTimeout

TypeOK ==
  /\ H!TypeOK /\ CS!TypeOK /\ ES!TypeOK /\ G!TypeOK
  /\ mrm_topic \in BOOLEAN /\ handlerDue \in BOOLEAN /\ handlerAlive \in BOOLEAN
  /\ silence \in 0 .. Patience + 1

Init ==
  /\ H!Init /\ CS!Init /\ ES!Init /\ G!Init
  /\ mrm_topic = FALSE
  /\ handlerDue = TRUE
  /\ handlerAlive = TRUE
  /\ silence = 0

-----------------------------------------------------------------------------

HandlerReceives ==
  /\ handlerAlive
  /\ \/ /\ \E level \in HazardLevels : H!OnHazardStatusStamped(HazardStatus(level))
        /\ silence' = 0
     \/ /\ \/ \E m \in ModeInputs : H!OnControlMode(m)
           \/ \E v \in VelocityInputs : H!OnOdometry(v)
           \/ \E b \in H!Mrms : H!OnMrmStatus(b)
        /\ UNCHANGED silence
  /\ UNCHANGED <<csVars, esVars, gateVars, mrm_topic, handlerDue, handlerAlive>>

\* Faulty variant: the handler publishes although its hazard status is late.
HandlerTimerPublishing ==
  /\ handlerAlive
  /\ handlerDue
  /\ handlerDue' = FALSE
  /\ \/ /\ ~H!IsDataReady /\ H!Listening
        /\ UNCHANGED <<handlerVars, mrm_topic>>
     \/ H!OnTimerHazardTimeout /\ mrm_topic' = TRUE
     \/ H!OnTimer /\ mrm_topic' = (mrm_topic \/ call' = H!Idle)
  /\ UNCHANGED <<csVars, esVars, gateVars, handlerAlive, silence>>

\* The timer fires: nothing without data, otherwise the whole cycle, or the
\* part of it before the first service call.
HandlerTimer ==
  /\ handlerAlive
  /\ handlerDue
  /\ handlerDue' = FALSE
  /\ \/ /\ ~H!IsDataReady /\ H!Listening
        /\ UNCHANGED <<handlerVars, mrm_topic>>
     \/ H!OnTimerHazardTimeout /\ UNCHANGED mrm_topic
     \/ H!OnTimer /\ mrm_topic' = (mrm_topic \/ call' = H!Idle)
  /\ UNCHANGED <<csVars, esVars, gateVars, handlerAlive, silence>>

\* An operator has answered: the next call, or the end of the cycle with
\* publishMrmState.
HandlerResumes ==
  /\ handlerAlive
  /\ \/ H!CallNextMrm /\ UNCHANGED <<mrm_topic, silence>>
     \/ H!FinishTimer /\ mrm_topic' = TRUE /\ silence' = 0
  /\ UNCHANGED <<csVars, esVars, gateVars, handlerDue, handlerAlive>>

HandlerDies ==
  /\ HandlerMayDie
  /\ handlerAlive
  /\ handlerAlive' = FALSE
  /\ UNCHANGED <<handlerVars, csVars, esVars, gateVars, mrm_topic, handlerDue, silence>>

ComfortableStopServes ==
  /\ call.to = "COMFORTABLE_STOP"
  /\ H!Answer
  /\ CS!OperateComfortableStop(call.operate)
  /\ UNCHANGED <<esVars, gateVars, mrm_topic, handlerDue, handlerAlive, silence>>

EmergencyStopServes ==
  /\ call.to = "EMERGENCY_STOP"
  /\ H!Answer
  /\ ES!OperateEmergencyStop(call.operate)
  /\ UNCHANGED <<csVars, gateVars, mrm_topic, handlerDue, handlerAlive, silence>>

\* The emergency stop operator hears the gate and continues its own command.
EmergencyStopHears ==
  /\ \E a \in -MaxBrake .. MaxDrive :
       ES!OnControlCommand([speed |-> out.speed, acc |-> a])
  /\ UNCHANGED <<handlerVars, csVars, gateVars, mrm_topic, handlerDue, handlerAlive, silence>>

EmergencyStopTimer ==
  /\ \E dt \in 0 .. MaxDt : ES!OnTimer(dt)
  /\ UNCHANGED <<handlerVars, csVars, gateVars, mrm_topic, handlerDue, handlerAlive, silence>>

GateReceivesMrmState ==
  /\ mrm_topic
  /\ mrm_topic' = FALSE
  /\ G!OnMrmState(report.state, report.behavior)
  /\ UNCHANGED <<handlerVars, csVars, esVars, handlerDue, handlerAlive, silence>>

GateReceivesAuto ==
  /\ \E speed \in Speeds : G!OnAutoCtrlCmd(speed)
  /\ UNCHANGED <<handlerVars, csVars, esVars, mrm_topic, handlerDue, handlerAlive, silence>>

GateReceivesEmergency ==
  /\ G!OnEmergencyCtrlCmd(es_out.speed)
  /\ UNCHANGED <<handlerVars, csVars, esVars, mrm_topic, handlerDue, handlerAlive, silence>>

GateReceivesEngage ==
  /\ \E engage \in EngageRequests : G!OnEngage(engage)
  /\ UNCHANGED <<handlerVars, csVars, esVars, mrm_topic, handlerDue, handlerAlive, silence>>

GateTimer ==
  /\ G!OnTimer
  /\ UNCHANGED <<handlerVars, csVars, esVars, mrm_topic, handlerDue, handlerAlive, silence>>

HandlerHadItsTurn == handlerAlive /\ call = H!Idle => ~handlerDue

Tick ==
  /\ HandlerHadItsTurn
  /\ ~mrm_topic
  /\ H!Tick
  /\ G!Tick
  /\ handlerDue' = TRUE
  /\ silence' = IF silence > Patience THEN silence ELSE silence + 1
  /\ UNCHANGED <<csVars, esVars, mrm_topic, handlerAlive>>

HandlerStep  == HandlerReceives \/ HandlerTimer \/ HandlerResumes \/ HandlerDies
OperatorStep == \/ ComfortableStopServes \/ EmergencyStopServes
                \/ EmergencyStopHears \/ EmergencyStopTimer
GateStep     == \/ GateReceivesMrmState \/ GateReceivesAuto
                \/ GateReceivesEmergency \/ GateReceivesEngage \/ GateTimer

Next == HandlerStep \/ OperatorStep \/ GateStep \/ Tick

Spec == Init /\ [][Next]_vars

\* The executors run and time passes.  Nothing is assumed of the services: the
\* operators may never answer, and the handler may die.
Fairness ==
  /\ WF_vars(HandlerTimer) /\ WF_vars(HandlerResumes)
  /\ WF_vars(GateReceivesMrmState) /\ WF_vars(GateTimer)
  /\ WF_vars(Tick)
  /\ WF_vars(GateReceivesAuto)

FairSpec == Spec /\ Fairness

-----------------------------------------------------------------------------
(* Properties. *)

\* The gate only takes its commands from the emergency stop operator while that
\* operator runs, while it is being cancelled, or while the MrmState that ends
\* the manoeuvre is on its way: otherwise the gate and the operator, each
\* repeating what it hears from the other, would keep the last speed for ever.
GateFollowsRunningOperator ==
  system_emergency =>
    \/ es_state = "OPERATING"
    \/ call.to = "EMERGENCY_STOP" /\ ~call.operate
    \/ mrm_topic /\ report.behavior # "EMERGENCY_STOP"

\* Conversely, an emergency stop the handler has completed is known to the gate
\* as soon as the MrmState is delivered.
CompletedEmergencyStopReachesGate ==
  behavior = "EMERGENCY_STOP" /\ ~mrm_topic => system_emergency

\* Without hazard statuses the vehicle is stopped within both timeouts, by two
\* nodes that do not know of each other's timeout: the handler falls silent and
\* the gate notices.  Only the end of a cycle in which the handler was blocked
\* is published, and believed, without a fresh hazard status behind it.  (A
\* timeout of 0 turns the supervision of the gate off.)
MissingHazardStatusStopsVehicle ==
  (/\ UseEmergencyHandling /\ SystemHeartbeatTimeout > 0
   /\ G!IsDataReady /\ ~timerDue /\ silence > Patience)
    => out.source = "emergency_stop"

\* A single point fault that persists in autonomous mode keeps the planner's
\* commands from the vehicle, also when an operator never answers, when the
\* handler is blocked for ever or has died.  (Excepted is what MRM_SUCCEEDED
\* leaves: at a standstill the handler selects no manoeuvre any more, and having
\* reached it without the emergency stop it never asks for one.)
PersistentFaultStopsPlanner ==
  <>[](/\ hazard # NoHazard /\ H!IsEmergency /\ hazard.level = H!SinglePointFault
       /\ H!IsAutoMode /\ ~(mrm_state = "MRM_SUCCEEDED" /\ behavior # "EMERGENCY_STOP"))
    => <>[](out.source # "auto")
=============================================================================
