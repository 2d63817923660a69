---------------------------- MODULE VehicleCmdGate ----------------------------
(***************************************************************************)
(* The node control/vehicle_cmd_gate: every command to the vehicle passes  *)
(* through it.  Control commands are selected and published by the         *)
(* callbacks of the three command sources; turn indicators, hazard lights  *)
(* and gear are published by the timer, which also supervises the          *)
(* heartbeats and, when one is late, publishes an emergency stop itself.   *)
(* The callbacks run one at a time.                                        *)
(*                                                                         *)
(* A control command is abstracted to its longitudinal speed, an integer;  *)
(* time is counted in ticks, and the timer fires once in each.  A stored   *)
(* time stamp is represented by its age, which stops growing where it no   *)
(* longer makes a difference.                                              *)
(***************************************************************************)
EXTENDS Integers

CONSTANTS
  UseEmergencyHandling,      \* use_emergency_handling
  CheckExternalHeartbeat,    \* check_external_emergency_heartbeat
  SystemHeartbeatTimeout,    \* system_emergency_heartbeat_timeout, in ticks
  ExternalHeartbeatTimeout,  \* external_emergency_stop_heartbeat_timeout, in ticks
  NominalVelLim,             \* nominal.vel_lim
  TransitionVelLim,          \* on_transition.vel_lim
  NominalAccLim,             \* nominal.lon_acc_lim, per tick
  TransitionAccLim,          \* on_transition.lon_acc_lim, per tick
  Speeds,                    \* speeds of the commands received
  GateModes, EngageRequests, PauseRequests, TransitionFlags,
                             \* what the environment may ask for
  Never                      \* the age of something that never happened

ASSUME GateAssumption ==
  /\ UseEmergencyHandling \in BOOLEAN
  /\ CheckExternalHeartbeat \in BOOLEAN
  /\ SystemHeartbeatTimeout \in Nat
  /\ ExternalHeartbeatTimeout \in Nat
  /\ NominalVelLim \in Nat /\ TransitionVelLim \in Nat
  /\ NominalAccLim \in Nat /\ TransitionAccLim \in Nat
  /\ Speeds \subseteq Int
  /\ GateModes \subseteq {"AUTO", "EXTERNAL"}
  /\ EngageRequests \subseteq BOOLEAN
  /\ PauseRequests \subseteq BOOLEAN
  /\ TransitionFlags \subseteq BOOLEAN
  /\ Never \notin Int

\* Where an age makes no more difference: past its timeout (one tick more for
\* the heartbeat a service looks back at), and when the rate limit allows any
\* change of speed.
MaxVelLim      == IF NominalVelLim > TransitionVelLim THEN NominalVelLim
                                                      ELSE TransitionVelLim
MaxMrmAge      == SystemHeartbeatTimeout + 1
MaxExternalAge == ExternalHeartbeatTimeout + 2
MaxFilterAge   == 2 * MaxVelLim
AgesUpTo(max)  == (0 .. max) \cup {Never}

ControlSources == {"auto", "remote", "emergency", "disengaged", "paused",
                   "emergency_stop"}
SignalSources  == {"auto", "auto_disengaged", "remote", "emergency",
                   "emergency_stop", "none"}
NoCommand      == [source |-> "disengaged", speed |-> 0]

VARIABLES
  gate_mode,              \* current_gate_mode_
  gate_mode_changed,      \* is_gate_mode_changed_
  engaged,                \* is_engaged_
  paused,                 \* pause_->is_paused()
  in_transition,          \* current_operation_mode_.is_in_transition
  system_emergency,       \* is_system_emergency_
  mrmAge,                 \* now - emergency_state_heartbeat_received_time_
  mrm_timeout,            \* is_emergency_state_heartbeat_timeout_
  external_stop,          \* is_external_emergency_stop_
  externalAge,            \* now - external_emergency_stop_heartbeat_received_time_
  external_timeout,       \* is_external_emergency_stop_heartbeat_timeout_
  emergency_cmd,          \* emergency_commands_.control
  filter_prev,            \* prev_cmd_ of both filters
  filterAge,              \* now - prev_time_ of getDt
  out,                    \* the last control command published
  signals,                \* where the last light and gear commands came from
  timerDue                \* onTimer has not fired in this tick yet

modeVars     == <<gate_mode, gate_mode_changed, engaged, paused, in_transition>>
watchVars    == <<system_emergency, mrmAge, mrm_timeout, external_stop,
                  externalAge, external_timeout>>
outputVars   == <<filter_prev, filterAge, out>>
gateVars     == <<modeVars, watchVars, emergency_cmd, outputVars, signals, timerDue>>

TypeOK ==
  /\ gate_mode \in {"AUTO", "EXTERNAL"}
  /\ gate_mode_changed \in BOOLEAN
  /\ engaged \in BOOLEAN
  /\ paused \in BOOLEAN
  /\ in_transition \in BOOLEAN
  /\ system_emergency \in BOOLEAN
  /\ mrmAge \in AgesUpTo(MaxMrmAge)
  /\ mrm_timeout \in BOOLEAN
  /\ external_stop \in BOOLEAN
  /\ externalAge \in AgesUpTo(MaxExternalAge)
  /\ external_timeout \in BOOLEAN
  /\ emergency_cmd \in Int
  /\ filter_prev \in -MaxVelLim .. MaxVelLim
  /\ filterAge \in AgesUpTo(MaxFilterAge)
  /\ out \in [source : ControlSources, speed : -MaxVelLim .. MaxVelLim]
  /\ signals \in SignalSources
  /\ timerDue \in BOOLEAN

Init ==
  /\ gate_mode = "AUTO"
  /\ gate_mode_changed = FALSE
  /\ engaged = FALSE
  /\ paused = FALSE
  /\ in_transition = FALSE
  /\ system_emergency = FALSE
  /\ mrmAge = Never
  /\ mrm_timeout = FALSE
  /\ external_stop = FALSE
  /\ externalAge = Never
  /\ external_timeout = FALSE
  /\ emergency_cmd = 0
  /\ filter_prev = 0
  /\ filterAge = Never
  /\ out = NoCommand
  /\ signals = "none"
  /\ timerDue = TRUE

-----------------------------------------------------------------------------
(* Selection of the control command. *)

\* isHeartbeatTimeout: a zero timeout disables the check.
IsHeartbeatTimeout(age, timeout) ==
  /\ timeout # 0
  /\ age = Never \/ age > timeout

IsDataReady ==
  /\ UseEmergencyHandling => mrmAge # Never
  /\ CheckExternalHeartbeat => externalAge # Never

IsEmergency == UseEmergencyHandling /\ system_emergency

Clamp(x, low, high) == IF x < low THEN low ELSE IF x > high THEN high ELSE x

VelLim == IF in_transition THEN TransitionVelLim ELSE NominalVelLim
AccLim == IF in_transition THEN TransitionAccLim ELSE NominalAccLim

\* filterControlCommand, longitudinal speed: at most lon_acc_lim * dt away from
\* the previous filtered command, then within the velocity limit, both of the
\* filter in use.
Filter(speed) ==
  LET step == AccLim * (IF filterAge = Never THEN 0 ELSE filterAge)
  IN Clamp(Clamp(speed, filter_prev - step, filter_prev + step), -VelLim, VelLim)

\* Faulty variant: the emergency command wins over everything.
SelectedEmergencyFirst(source, speed, emergencySpeed) ==
  IF IsEmergency THEN [source |-> "emergency", speed |-> emergencySpeed]
  ELSE IF paused THEN [source |-> "paused", speed |-> 0]
  ELSE IF ~engaged THEN [source |-> "disengaged", speed |-> 0]
  ELSE [source |-> source, speed |-> speed]

\* The command that replaces what the source sent: emergency, then not engaged,
\* then paused, the last replacement winning.
Selected(source, speed, emergencySpeed) ==
  IF paused THEN [source |-> "paused", speed |-> 0]
  ELSE IF ~engaged THEN [source |-> "disengaged", speed |-> 0]
  ELSE IF IsEmergency THEN [source |-> "emergency", speed |-> emergencySpeed]
  ELSE [source |-> source, speed |-> speed]

\* Faulty variant: the late MrmState is left to the timer.
PublishUnlessStopped(source, speed, emergencySpeed) ==
  IF external_stop \/ ~IsDataReady
  THEN UNCHANGED outputVars
  ELSE LET cmd == Selected(source, speed, emergencySpeed) IN
       /\ out' = [cmd EXCEPT !.speed = Filter(cmd.speed)]
       /\ filter_prev' = Filter(cmd.speed)
       /\ filterAge' = 0

\* publishControlCommands.
PublishControlCommands(source, speed, emergencySpeed) ==
  IF (UseEmergencyHandling /\ mrm_timeout) \/ external_stop \/ ~IsDataReady
  THEN UNCHANGED outputVars
  ELSE LET cmd == Selected(source, speed, emergencySpeed) IN
       /\ out' = [cmd EXCEPT !.speed = Filter(cmd.speed)]
       /\ filter_prev' = Filter(cmd.speed)
       /\ filterAge' = 0

\* publishEmergencyStopControlCommands: not filtered, and the filters keep
\* their previous command.
PublishEmergencyStop ==
  /\ out' = [source |-> "emergency_stop", speed |-> 0]
  /\ signals' = "emergency_stop"
  /\ UNCHANGED <<filter_prev, filterAge>>

-----------------------------------------------------------------------------
(* Commands received. *)

OnAutoCtrlCmd(speed) ==
  /\ IF gate_mode = "AUTO" THEN PublishControlCommands("auto", speed, emergency_cmd)
                           ELSE UNCHANGED outputVars
  /\ UNCHANGED <<modeVars, watchVars, emergency_cmd, signals, timerDue>>

OnRemoteCtrlCmd(speed) ==
  /\ IF gate_mode = "EXTERNAL" THEN PublishControlCommands("remote", speed, emergency_cmd)
                               ELSE UNCHANGED outputVars
  /\ UNCHANGED <<modeVars, watchVars, emergency_cmd, signals, timerDue>>

OnEmergencyCtrlCmd(speed) ==
  /\ emergency_cmd' = speed
  /\ IF IsEmergency THEN PublishControlCommands("emergency", speed, speed)
                    ELSE UNCHANGED outputVars
  /\ UNCHANGED <<modeVars, watchVars, signals, timerDue>>

-----------------------------------------------------------------------------
(* onTimer. *)

\* The signals published when no heartbeat is late and nothing is stopped.
SelectedSignals ==
  IF IsEmergency THEN "emergency"
  ELSE IF gate_mode = "EXTERNAL" THEN "remote"
  ELSE IF engaged THEN "auto" ELSE "auto_disengaged"

SystemTimeout ==
  UseEmergencyHandling /\ IsHeartbeatTimeout(mrmAge, SystemHeartbeatTimeout)

ExternalTimeout ==
  CheckExternalHeartbeat /\ IsHeartbeatTimeout(externalAge, ExternalHeartbeatTimeout)

TimerWaiting ==
  /\ ~IsDataReady
  /\ UNCHANGED <<watchVars, gate_mode_changed, outputVars, signals>>

\* The MrmState is late: the external heartbeat is not looked at.
TimerSystemTimeout ==
  /\ IsDataReady
  /\ SystemTimeout
  /\ mrm_timeout' = TRUE
  /\ PublishEmergencyStop
  /\ UNCHANGED <<system_emergency, mrmAge, external_stop, externalAge,
                 external_timeout, gate_mode_changed>>

\* Faulty variant: the late heartbeat does not set the external stop.
CheckExternalOnly ==
  /\ mrm_timeout' = IF UseEmergencyHandling THEN FALSE ELSE mrm_timeout
  /\ external_timeout' = IF CheckExternalHeartbeat THEN ExternalTimeout
                                                   ELSE external_timeout
  /\ UNCHANGED <<system_emergency, mrmAge, external_stop, externalAge>>

\* Faulty variant: a late MrmState is never forgiven.
CheckExternalUnforgiving ==
  /\ external_timeout' = IF CheckExternalHeartbeat THEN ExternalTimeout
                                                   ELSE external_timeout
  /\ external_stop' = (external_stop \/ ExternalTimeout)
  /\ UNCHANGED <<system_emergency, mrmAge, mrm_timeout, externalAge>>

\* No MrmState is late: the external heartbeat is looked at.
CheckExternal ==
  /\ mrm_timeout' = IF UseEmergencyHandling THEN FALSE ELSE mrm_timeout
  /\ external_timeout' = IF CheckExternalHeartbeat THEN ExternalTimeout
                                                   ELSE external_timeout
  /\ external_stop' = (external_stop \/ ExternalTimeout)
  /\ UNCHANGED <<system_emergency, mrmAge, externalAge>>

TimerExternalStop ==
  /\ IsDataReady
  /\ ~SystemTimeout
  /\ CheckExternal
  /\ external_stop'
  /\ PublishEmergencyStop
  /\ UNCHANGED gate_mode_changed

\* One loop without signals after a change of the gate mode.
TimerGateModeChanged ==
  /\ IsDataReady
  /\ ~SystemTimeout
  /\ CheckExternal
  /\ ~external_stop'
  /\ gate_mode_changed
  /\ gate_mode_changed' = FALSE
  /\ UNCHANGED <<outputVars, signals>>

TimerSignals ==
  /\ IsDataReady
  /\ ~SystemTimeout
  /\ CheckExternal
  /\ ~external_stop'
  /\ ~gate_mode_changed
  /\ signals' = SelectedSignals
  /\ UNCHANGED <<outputVars, gate_mode_changed>>

OnTimer ==
  /\ timerDue
  /\ timerDue' = FALSE
  /\ \/ TimerWaiting
     \/ TimerSystemTimeout
     \/ TimerExternalStop
     \/ TimerGateModeChanged
     \/ TimerSignals
  /\ UNCHANGED <<gate_mode, engaged, paused, in_transition, emergency_cmd>>

-----------------------------------------------------------------------------
(* Modes, heartbeats and services. *)

OnGateMode(mode) ==
  /\ gate_mode' = mode
  /\ gate_mode_changed' = TRUE
  /\ UNCHANGED <<engaged, paused, in_transition, watchVars, emergency_cmd,
                 outputVars, signals, timerDue>>

\* The engage topic and the engage service.
OnEngage(engage) ==
  /\ engaged' = engage
  /\ UNCHANGED <<gate_mode, gate_mode_changed, paused, in_transition, watchVars,
                 emergency_cmd, outputVars, signals, timerDue>>

OnPause(pause) ==
  /\ paused' = pause
  /\ UNCHANGED <<gate_mode, gate_mode_changed, engaged, in_transition, watchVars,
                 emergency_cmd, outputVars, signals, timerDue>>

OnOperationMode(transition) ==
  /\ in_transition' = transition
  /\ UNCHANGED <<gate_mode, gate_mode_changed, engaged, paused, watchVars,
                 emergency_cmd, outputVars, signals, timerDue>>

\* Faulty variant: an emergency stop that succeeded is no emergency.
OnMrmStateOperating(state, behavior) ==
  /\ system_emergency' = (state = "MRM_OPERATING" /\ behavior = "EMERGENCY_STOP")
  /\ mrmAge' = 0
  /\ UNCHANGED <<modeVars, mrm_timeout, external_stop, externalAge,
                 external_timeout, emergency_cmd, outputVars, signals, timerDue>>

\* Faulty variant: the emergency is never withdrawn.
OnMrmStateLatched(state, behavior) ==
  /\ system_emergency' = (system_emergency \/ behavior = "EMERGENCY_STOP")
  /\ mrmAge' = 0
  /\ UNCHANGED <<modeVars, mrm_timeout, external_stop, externalAge,
                 external_timeout, emergency_cmd, outputVars, signals, timerDue>>

OnMrmState(state, behavior) ==
  /\ system_emergency' = /\ state \in {"MRM_OPERATING", "MRM_SUCCEEDED", "MRM_FAILED"}
                         /\ behavior = "EMERGENCY_STOP"
  /\ mrmAge' = 0
  /\ UNCHANGED <<modeVars, mrm_timeout, external_stop, externalAge,
                 external_timeout, emergency_cmd, outputVars, signals, timerDue>>

OnExternalHeartbeat ==
  /\ externalAge' = 0
  /\ UNCHANGED <<modeVars, system_emergency, mrmAge, mrm_timeout, external_stop,
                 external_timeout, emergency_cmd, outputVars, signals, timerDue>>

OnSetExternalEmergencyStop ==
  /\ external_stop' = TRUE
  /\ UNCHANGED <<modeVars, system_emergency, mrmAge, mrm_timeout, externalAge,
                 external_timeout, emergency_cmd, outputVars, signals, timerDue>>

\* Only the successful branch of the service changes anything.
OnClearExternalEmergencyStop ==
  /\ external_stop
  /\ ~external_timeout
  /\ external_stop' = FALSE
  /\ UNCHANGED <<modeVars, system_emergency, mrmAge, mrm_timeout, externalAge,
                 external_timeout, emergency_cmd, outputVars, signals, timerDue>>

Older(age, max) == IF age = Never \/ age = max THEN age ELSE age + 1

Tick ==
  /\ ~timerDue
  /\ timerDue' = TRUE
  /\ mrmAge' = Older(mrmAge, MaxMrmAge)
  /\ externalAge' = Older(externalAge, MaxExternalAge)
  /\ filterAge' = Older(filterAge, MaxFilterAge)
  /\ UNCHANGED <<modeVars, system_emergency, mrm_timeout, external_stop,
                 external_timeout, emergency_cmd, filter_prev, out, signals>>

MrmReports ==
  {"NORMAL", "MRM_OPERATING", "MRM_SUCCEEDED"} \X
  {"NONE", "COMFORTABLE_STOP", "EMERGENCY_STOP"}

CommandReceived ==
  \E speed \in Speeds :
    OnAutoCtrlCmd(speed) \/ OnRemoteCtrlCmd(speed) \/ OnEmergencyCtrlCmd(speed)

ModeReceived ==
  \/ \E mode \in GateModes : OnGateMode(mode)
  \/ \E engage \in EngageRequests : OnEngage(engage)
  \/ \E pause \in PauseRequests : OnPause(pause)
  \/ \E transition \in TransitionFlags : OnOperationMode(transition)

\* The messages of a supervision that is switched off are left out: nothing
\* reads what they store.
SupervisionReceived ==
  \/ UseEmergencyHandling /\ \E r \in MrmReports : OnMrmState(r[1], r[2])
  \/ CheckExternalHeartbeat /\ OnExternalHeartbeat
  \/ OnSetExternalEmergencyStop
  \/ OnClearExternalEmergencyStop

Next == CommandReceived \/ ModeReceived \/ SupervisionReceived \/ OnTimer \/ Tick

Spec == Init /\ [][Next]_gateVars

\* The timer fires, time passes, and the planner keeps sending its commands.
FairSpec ==
  /\ Spec
  /\ WF_gateVars(OnTimer)
  /\ WF_gateVars(Tick)
  /\ WF_gateVars(\E speed \in Speeds : OnAutoCtrlCmd(speed))

-----------------------------------------------------------------------------
(* Properties. *)

Magnitude(x) == IF x < 0 THEN -x ELSE x

\* The timer has had all its data and published: from then on it supervises.
Supervising == signals # "none"

\* When the MrmState is late, then from the timer of that tick on, and until a
\* new one arrives, the vehicle is under the emergency stop of the gate: no
\* command callback slips a command in between two timers.
LateMrmStateStopsVehicle ==
  Supervising /\ ~timerDue /\ SystemTimeout
    => out.source = "emergency_stop" /\ signals = "emergency_stop"

\* The same for the heartbeat of the external emergency stop.  That it was late
\* is remembered until somebody clears it, unless a late MrmState has hidden it
\* from the timer.
LateExternalHeartbeatStopsVehicle ==
  Supervising /\ ~timerDue /\ ExternalTimeout
    => out.source = "emergency_stop" /\ (external_stop \/ mrm_timeout)

\* A vehicle that is not engaged, or paused, is only ever commanded towards
\* standstill: of the commands queued by three sources and the rate limit none is
\* faster than the command published before it.  There is one exception: the gate's
\* own emergency stop by-passes the filters (publishEmergencyStopControlCommands).
\* The first command after it may be faster than the 0 of the stop, but not than
\* the last command before the stop, which the filters still hold.
HeldVehicleOnlySlowsDown ==
  [][(~engaged \/ paused) /\ out' # out
       => \/ Magnitude(out'.speed) <= Magnitude(out.speed)
          \/ /\ out.source = "emergency_stop"
             /\ Magnitude(out'.speed) <= Magnitude(filter_prev)]_gateVars

\* When the supervision has nothing to object for good, the planner's commands
\* reach the vehicle again: no stale flag keeps the gate shut.
GateReopens ==
  <>[](/\ gate_mode = "AUTO" /\ engaged /\ ~paused /\ IsDataReady
       /\ ~IsEmergency /\ ~external_stop /\ ~SystemTimeout)
    => <>[](out.source = "auto")
=============================================================================
