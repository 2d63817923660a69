-------------------------- MODULE VehicleCmdGateProofs --------------------------
(***************************************************************************)
(* For every timeout, every limit and every set of commands and requests:  *)
(* the gate only holds values of its types, a late heartbeat leaves the    *)
(* vehicle under the emergency stop of the gate until something newer is   *)
(* received, and a vehicle that is held only slows down.                   *)
(***************************************************************************)
EXTENDS VehicleCmdGate, TLAPS

LEMMA LimitsTyped ==
  /\ MaxVelLim \in Nat /\ MaxMrmAge \in Nat /\ MaxExternalAge \in Nat
  /\ MaxFilterAge \in Nat
  /\ NominalVelLim \in 0 .. MaxVelLim /\ TransitionVelLim \in 0 .. MaxVelLim
<1> QED
  BY GateAssumption DEF MaxVelLim, MaxMrmAge, MaxExternalAge, MaxFilterAge

-----------------------------------------------------------------------------
(* The filter. *)

\* The change of speed that the filter admits, and the limit it keeps.
LEMMA FilterBounds ==
  ASSUME TypeOK
  PROVE  /\ VelLim \in 0 .. MaxVelLim
         /\ AccLim * (IF filterAge = Never THEN 0 ELSE filterAge) \in Nat
<1>1. VelLim \in 0 .. MaxVelLim
  BY LimitsTyped DEF VelLim
<1>2. AccLim \in Nat
  BY GateAssumption DEF AccLim
<1>3. PICK age \in Nat : age = (IF filterAge = Never THEN 0 ELSE filterAge)
  BY LimitsTyped DEF TypeOK, AgesUpTo
<1>4. AccLim * age \in Nat
  BY <1>2, <1>3
<1> QED
  BY <1>1, <1>3, <1>4

\* Whatever was asked for, the filtered speed is within the larger limit.
LEMMA FilterTyped ==
  ASSUME TypeOK, NEW speed \in Int
  PROVE  Filter(speed) \in -MaxVelLim .. MaxVelLim
<1> DEFINE step == AccLim * (IF filterAge = Never THEN 0 ELSE filterAge)
           ramped == Clamp(speed, filter_prev - step, filter_prev + step)
<1>1. filter_prev \in Int /\ MaxVelLim \in Nat
  BY LimitsTyped DEF TypeOK
<1>2. VelLim \in 0 .. MaxVelLim /\ step \in Nat
  BY FilterBounds
<1> HIDE DEF step
<1>3. ramped \in Int
  BY <1>1, <1>2 DEF Clamp
<1> HIDE DEF ramped
<1>4. Clamp(ramped, -VelLim, VelLim) \in -MaxVelLim .. MaxVelLim
  BY <1>1, <1>2, <1>3 DEF Clamp
<1> QED
  BY <1>4 DEF Filter, step, ramped

\* Asked to stand still, the filter is never faster than before.
LEMMA FilterSlowsDown ==
  ASSUME TypeOK
  PROVE  Magnitude(Filter(0)) <= Magnitude(filter_prev)
<1> DEFINE step == AccLim * (IF filterAge = Never THEN 0 ELSE filterAge)
           ramped == Clamp(0, filter_prev - step, filter_prev + step)
<1>1. filter_prev \in Int /\ MaxVelLim \in Nat
  BY LimitsTyped DEF TypeOK
<1>2. VelLim \in 0 .. MaxVelLim /\ step \in Nat
  BY FilterBounds
<1> HIDE DEF step
<1>3. ramped \in Int /\ Magnitude(ramped) <= Magnitude(filter_prev)
  BY <1>1, <1>2 DEF Clamp, Magnitude
<1> HIDE DEF ramped
<1>4. Magnitude(Clamp(ramped, -VelLim, VelLim)) <= Magnitude(filter_prev)
  BY <1>1, <1>2, <1>3 DEF Clamp, Magnitude
<1> QED
  BY <1>4 DEF Filter, step, ramped

-----------------------------------------------------------------------------
(* Types. *)

LEMMA SelectedTyped ==
  ASSUME TypeOK, NEW source \in ControlSources, NEW speed \in Int,
         NEW emergencySpeed \in Int
  PROVE  /\ Selected(source, speed, emergencySpeed).source \in ControlSources
         /\ Selected(source, speed, emergencySpeed).speed \in Int
         /\ \A v : [Selected(source, speed, emergencySpeed) EXCEPT !.speed = v]
                     = [source |-> Selected(source, speed, emergencySpeed).source,
                        speed |-> v]
<1> QED
  BY DEF Selected, ControlSources

LEMMA PublishTyped ==
  ASSUME TypeOK, NEW source \in ControlSources, NEW speed \in Int,
         NEW emergencySpeed \in Int,
         PublishControlCommands(source, speed, emergencySpeed)
  PROVE  /\ filter_prev' \in -MaxVelLim .. MaxVelLim
         /\ filterAge' \in AgesUpTo(MaxFilterAge)
         /\ out' \in [source : ControlSources, speed : -MaxVelLim .. MaxVelLim]
<1>1. CASE UNCHANGED outputVars
  BY <1>1 DEF outputVars, TypeOK
<1>2. CASE LET cmd == Selected(source, speed, emergencySpeed) IN
             /\ out' = [cmd EXCEPT !.speed = Filter(cmd.speed)]
             /\ filter_prev' = Filter(cmd.speed)
             /\ filterAge' = 0
  <2> DEFINE cmd == Selected(source, speed, emergencySpeed)
  <2>1. cmd.source \in ControlSources /\ cmd.speed \in Int
    BY SelectedTyped
  <2>2. Filter(cmd.speed) \in -MaxVelLim .. MaxVelLim
    BY <2>1, FilterTyped
  <2>3. out' = [source |-> cmd.source, speed |-> Filter(cmd.speed)]
    BY <1>2, SelectedTyped
  <2>4. filter_prev' = Filter(cmd.speed) /\ filterAge' = 0
    BY <1>2
  <2> HIDE DEF cmd
  <2> QED
    BY <2>1, <2>2, <2>3, <2>4, LimitsTyped DEF AgesUpTo
<1> QED
  BY <1>1, <1>2 DEF PublishControlCommands

LEMMA CommandTyped == TypeOK /\ CommandReceived => TypeOK'
<1> SUFFICES ASSUME TypeOK, NEW speed \in Speeds,
                    OnAutoCtrlCmd(speed) \/ OnRemoteCtrlCmd(speed) \/ OnEmergencyCtrlCmd(speed)
             PROVE  TypeOK'
  BY DEF CommandReceived
<1>1. speed \in Int /\ emergency_cmd \in Int
  BY GateAssumption DEF TypeOK
<1>2. "auto" \in ControlSources /\ "remote" \in ControlSources /\ "emergency" \in ControlSources
  BY DEF ControlSources
<1>3. /\ filter_prev' \in -MaxVelLim .. MaxVelLim
      /\ filterAge' \in AgesUpTo(MaxFilterAge)
      /\ out' \in [source : ControlSources, speed : -MaxVelLim .. MaxVelLim]
  <2>1. CASE UNCHANGED outputVars
    BY <2>1 DEF outputVars, TypeOK
  <2>2. CASE \/ PublishControlCommands("auto", speed, emergency_cmd)
             \/ PublishControlCommands("remote", speed, emergency_cmd)
             \/ PublishControlCommands("emergency", speed, speed)
    BY <1>1, <1>2, <2>2, PublishTyped
  <2> QED
    BY <2>1, <2>2 DEF OnAutoCtrlCmd, OnRemoteCtrlCmd, OnEmergencyCtrlCmd
<1>4. emergency_cmd' \in Int /\ UNCHANGED <<modeVars, watchVars, signals, timerDue>>
  BY <1>1 DEF OnAutoCtrlCmd, OnRemoteCtrlCmd, OnEmergencyCtrlCmd
<1> QED
  BY <1>3, <1>4 DEF TypeOK, modeVars, watchVars

LEMMA TimerTyped == TypeOK /\ OnTimer => TypeOK'
<1> SUFFICES ASSUME TypeOK, OnTimer PROVE TypeOK'
  OBVIOUS
<1>1. [source |-> "emergency_stop", speed |-> 0]
        \in [source : ControlSources, speed : -MaxVelLim .. MaxVelLim]
  BY LimitsTyped DEF ControlSources
<1>2. SelectedSignals \in SignalSources /\ "emergency_stop" \in SignalSources
  BY DEF SelectedSignals, SignalSources
<1>3. \/ UNCHANGED <<outputVars, signals>>
      \/ PublishEmergencyStop
      \/ UNCHANGED outputVars /\ signals' = SelectedSignals
  BY DEF OnTimer, TimerWaiting, TimerSystemTimeout, TimerExternalStop,
         TimerGateModeChanged, TimerSignals
<1>4. /\ filter_prev' \in -MaxVelLim .. MaxVelLim
      /\ filterAge' \in AgesUpTo(MaxFilterAge)
      /\ out' \in [source : ControlSources, speed : -MaxVelLim .. MaxVelLim]
      /\ signals' \in SignalSources
  BY <1>1, <1>2, <1>3 DEF TypeOK, outputVars, PublishEmergencyStop
<1>5. /\ mrm_timeout' \in BOOLEAN /\ external_timeout' \in BOOLEAN
      /\ external_stop' \in BOOLEAN /\ gate_mode_changed' \in BOOLEAN
      /\ UNCHANGED <<system_emergency, mrmAge, externalAge>>
  <2>1. ExternalTimeout \in BOOLEAN
    BY GateAssumption DEF ExternalTimeout, IsHeartbeatTimeout
  <2> QED
    BY <2>1, Zenon DEF TypeOK, OnTimer, TimerWaiting, TimerSystemTimeout, TimerExternalStop,
           TimerGateModeChanged, TimerSignals, CheckExternal, watchVars
<1> QED
  BY <1>4, <1>5 DEF OnTimer, TypeOK

LEMMA OlderTyped ==
  ASSUME NEW max \in Nat, NEW age \in AgesUpTo(max)
  PROVE  Older(age, max) \in AgesUpTo(max)
<1> QED
  BY DEF Older, AgesUpTo

LEMMA TypeNext == TypeOK /\ [Next]_gateVars => TypeOK'
<1> SUFFICES ASSUME TypeOK, [Next]_gateVars PROVE TypeOK'
  OBVIOUS
<1>1. CASE CommandReceived
  BY <1>1, CommandTyped
<1>2. CASE OnTimer
  BY <1>2, TimerTyped
<1>3. CASE ModeReceived
  <2>1. UNCHANGED <<watchVars, emergency_cmd, outputVars, signals, timerDue>>
    BY <1>3 DEF ModeReceived, OnGateMode, OnEngage, OnPause, OnOperationMode
  <2>2. gate_mode' \in {"AUTO", "EXTERNAL"} /\ gate_mode_changed' \in BOOLEAN
    BY <1>3, GateAssumption DEF ModeReceived, OnGateMode, OnEngage, OnPause,
       OnOperationMode, TypeOK
  <2>3. engaged' \in BOOLEAN /\ paused' \in BOOLEAN /\ in_transition' \in BOOLEAN
    BY <1>3, GateAssumption DEF ModeReceived, OnGateMode, OnEngage, OnPause,
       OnOperationMode, TypeOK
  <2> QED
    BY <2>1, <2>2, <2>3 DEF TypeOK, watchVars, outputVars
<1>4. CASE SupervisionReceived
  <2>1. 0 \in AgesUpTo(MaxMrmAge) /\ 0 \in AgesUpTo(MaxExternalAge)
    BY LimitsTyped DEF AgesUpTo
  <2>2. UNCHANGED <<modeVars, mrm_timeout, external_timeout, emergency_cmd, outputVars,
                    signals, timerDue>>
    BY <1>4 DEF SupervisionReceived, OnMrmState, OnExternalHeartbeat,
       OnSetExternalEmergencyStop, OnClearExternalEmergencyStop
  <2>3. system_emergency' \in BOOLEAN /\ mrmAge' \in AgesUpTo(MaxMrmAge)
    BY <1>4, <2>1 DEF SupervisionReceived, OnMrmState, OnExternalHeartbeat,
       OnSetExternalEmergencyStop, OnClearExternalEmergencyStop, TypeOK
  <2>4. external_stop' \in BOOLEAN /\ externalAge' \in AgesUpTo(MaxExternalAge)
    BY <1>4, <2>1 DEF SupervisionReceived, OnMrmState, OnExternalHeartbeat,
       OnSetExternalEmergencyStop, OnClearExternalEmergencyStop, TypeOK
  <2> QED
    BY <2>2, <2>3, <2>4 DEF TypeOK, modeVars, outputVars
<1>5. CASE Tick
  BY <1>5, OlderTyped, LimitsTyped DEF Tick, TypeOK, modeVars
<1>6. CASE UNCHANGED gateVars
  BY <1>6 DEF gateVars, modeVars, watchVars, outputVars, TypeOK
<1> QED
  BY <1>1, <1>2, <1>3, <1>4, <1>5, <1>6 DEF Next

LEMMA TypeInit == Init => TypeOK
<1> SUFFICES ASSUME Init PROVE TypeOK
  OBVIOUS
<1>1. 0 \in -MaxVelLim .. MaxVelLim
  BY LimitsTyped
<1>2. NoCommand \in [source : ControlSources, speed : -MaxVelLim .. MaxVelLim]
  BY <1>1 DEF NoCommand, ControlSources
<1>3. out \in [source : ControlSources, speed : -MaxVelLim .. MaxVelLim]
  BY <1>2 DEF Init
<1>4. filter_prev \in -MaxVelLim .. MaxVelLim
  BY <1>1 DEF Init
<1>5. \A max : Never \in AgesUpTo(max)
  BY DEF AgesUpTo
<1>6. /\ mrmAge \in AgesUpTo(MaxMrmAge) /\ externalAge \in AgesUpTo(MaxExternalAge)
      /\ filterAge \in AgesUpTo(MaxFilterAge)
  BY <1>5 DEF Init
<1>7. signals \in SignalSources
  BY DEF Init, SignalSources
<1>8. emergency_cmd \in Int /\ gate_mode \in {"AUTO", "EXTERNAL"}
  BY DEF Init
<1> QED
  BY <1>3, <1>4, <1>6, <1>7, <1>8, Zenon DEF Init, TypeOK

\* The gate only ever holds values of its types; in particular no command, however
\* large, takes the filters or the vehicle beyond the larger velocity limit.
THEOREM TypeCorrect == Spec => []TypeOK
<1> QED
  BY TypeInit, TypeNext, PTL DEF Spec

-----------------------------------------------------------------------------
(* A late heartbeat. *)

\* The inductive invariant: a gate that has supervised once keeps its data; a
\* timer that found the MrmState late has left the flag that shuts out every
\* command callback, and one that found the external heartbeat late the flag that
\* refuses the clear service, unless it stopped at the late MrmState.
LateInv ==
  /\ TypeOK
  /\ Supervising => IsDataReady
  /\ Supervising /\ ~timerDue /\ SystemTimeout =>
       /\ mrm_timeout
       /\ out.source = "emergency_stop" /\ signals = "emergency_stop"
  /\ Supervising /\ ~timerDue /\ ExternalTimeout =>
       /\ out.source = "emergency_stop"
       /\ (external_stop /\ external_timeout) \/ (UseEmergencyHandling /\ mrm_timeout)

LateFlags == <<signals, timerDue, mrmAge, externalAge, mrm_timeout, external_stop,
               external_timeout, out>>

\* A step that changes nothing the invariant is about keeps it.
LEMMA UnchangedKeepsLate ==
  ASSUME LateInv, TypeOK', UNCHANGED LateFlags
  PROVE  LateInv'
<1> QED
  BY DEF LateInv, LateFlags, Supervising, IsDataReady, SystemTimeout, ExternalTimeout,
         IsHeartbeatTimeout

\* No command callback publishes while a heartbeat is late.
LEMMA CommandKeepsLate ==
  ASSUME LateInv, TypeOK', CommandReceived
  PROVE  LateInv'
<1>1. PICK speed \in Speeds :
        OnAutoCtrlCmd(speed) \/ OnRemoteCtrlCmd(speed) \/ OnEmergencyCtrlCmd(speed)
  BY DEF CommandReceived
<1>2. UNCHANGED <<watchVars, signals, timerDue>>
  BY <1>1 DEF OnAutoCtrlCmd, OnRemoteCtrlCmd, OnEmergencyCtrlCmd
<1>3. out' # out => ~(UseEmergencyHandling /\ mrm_timeout) /\ ~external_stop
  BY <1>1 DEF OnAutoCtrlCmd, OnRemoteCtrlCmd, OnEmergencyCtrlCmd,
     PublishControlCommands, outputVars
<1>4. SystemTimeout => UseEmergencyHandling
  BY DEF SystemTimeout
<1> QED
  BY <1>2, <1>3, <1>4 DEF LateInv, watchVars, Supervising, IsDataReady, SystemTimeout,
     ExternalTimeout, IsHeartbeatTimeout

\* The timer leaves the flags of what it finds late.
LEMMA TimerKeepsLate ==
  ASSUME LateInv, TypeOK', OnTimer
  PROVE  LateInv'
<1>1. UNCHANGED <<mrmAge, externalAge>> /\ timerDue' = FALSE
  BY DEF OnTimer, TimerWaiting, TimerSystemTimeout, TimerExternalStop,
         TimerGateModeChanged, TimerSignals, CheckExternal, watchVars
<1>2. /\ IsDataReady' = IsDataReady /\ SystemTimeout' = SystemTimeout
      /\ ExternalTimeout' = ExternalTimeout
  BY <1>1 DEF IsDataReady, SystemTimeout, ExternalTimeout, IsHeartbeatTimeout
<1>3. CASE TimerWaiting
  BY <1>2, <1>3 DEF TimerWaiting, LateInv, Supervising
<1>4. CASE TimerSystemTimeout
  <2>1. /\ IsDataReady /\ mrm_timeout' /\ UseEmergencyHandling
        /\ out'.source = "emergency_stop" /\ signals' = "emergency_stop"
    BY <1>4 DEF TimerSystemTimeout, PublishEmergencyStop, SystemTimeout
  <2> QED
    BY <1>2, <2>1 DEF LateInv, Supervising
<1>5. CASE TimerExternalStop \/ TimerGateModeChanged \/ TimerSignals
  <2>1. /\ IsDataReady /\ ~SystemTimeout
        /\ ExternalTimeout => external_stop' /\ external_timeout'
    BY <1>5 DEF TimerExternalStop, TimerGateModeChanged, TimerSignals, CheckExternal,
       ExternalTimeout
  <2>2. external_stop' => out'.source = "emergency_stop"
    BY <1>5 DEF TimerExternalStop, TimerGateModeChanged, TimerSignals,
       PublishEmergencyStop
  <2>3. ~SystemTimeout' /\ IsDataReady'
    BY <1>2, <2>1
  <2>4. ExternalTimeout' => external_stop' /\ external_timeout'
    BY <1>2, <2>1
  <2> QED
    BY <2>2, <2>3, <2>4 DEF LateInv
<1> QED
  BY <1>3, <1>4, <1>5 DEF OnTimer

\* A heartbeat received is not late; the services leave what the timer remembers.
LEMMA SupervisionKeepsLate ==
  ASSUME LateInv, TypeOK', SupervisionReceived
  PROVE  LateInv'
<1>1. Never # 0 /\ SystemHeartbeatTimeout \in Nat /\ ExternalHeartbeatTimeout \in Nat
  BY GateAssumption
<1>2. UNCHANGED <<signals, timerDue, out, mrm_timeout, external_timeout>>
  BY DEF SupervisionReceived, OnMrmState, OnExternalHeartbeat,
     OnSetExternalEmergencyStop, OnClearExternalEmergencyStop, outputVars
<1>3. CASE \E r \in MrmReports : OnMrmState(r[1], r[2])
  <2>1. mrmAge' = 0 /\ UNCHANGED <<externalAge, external_stop>>
    BY <1>3 DEF OnMrmState
  <2>2. ~SystemTimeout'
    BY <1>1, <2>1 DEF SystemTimeout, IsHeartbeatTimeout
  <2> QED
    BY <1>1, <1>2, <2>1, <2>2 DEF LateInv, Supervising, IsDataReady,
       ExternalTimeout, IsHeartbeatTimeout
<1>4. CASE OnExternalHeartbeat
  <2>1. externalAge' = 0 /\ UNCHANGED <<mrmAge, external_stop>>
    BY <1>4 DEF OnExternalHeartbeat
  <2>2. ~ExternalTimeout'
    BY <1>1, <2>1 DEF ExternalTimeout, IsHeartbeatTimeout
  <2> QED
    BY <1>1, <1>2, <2>1, <2>2 DEF LateInv, Supervising, IsDataReady,
       SystemTimeout, IsHeartbeatTimeout
<1>5. CASE OnSetExternalEmergencyStop \/ OnClearExternalEmergencyStop
  <2>1. /\ UNCHANGED <<mrmAge, externalAge>>
        /\ external_stop' \/ ~external_timeout
    BY <1>5 DEF OnSetExternalEmergencyStop, OnClearExternalEmergencyStop
  <2> QED
    BY <1>2, <2>1 DEF LateInv, Supervising, IsDataReady, SystemTimeout,
       ExternalTimeout, IsHeartbeatTimeout
<1> QED
  BY <1>3, <1>4, <1>5 DEF SupervisionReceived

LEMMA TickKeepsLate ==
  ASSUME LateInv, TypeOK', Tick
  PROVE  LateInv'
<1>1. Never \notin Int /\ MaxMrmAge \in Nat /\ MaxExternalAge \in Nat
  BY GateAssumption, LimitsTyped
<1>2. /\ mrmAge' = Never => mrmAge = Never
      /\ externalAge' = Never => externalAge = Never
  BY <1>1 DEF Tick, Older, LateInv, TypeOK, AgesUpTo
<1>3. signals' = signals /\ timerDue'
  BY DEF Tick
<1> QED
  BY <1>2, <1>3 DEF LateInv, Supervising, IsDataReady

LEMMA LateNext == LateInv /\ [Next]_gateVars => LateInv'
<1> SUFFICES ASSUME LateInv, [Next]_gateVars PROVE LateInv'
  OBVIOUS
<1>1. TypeOK'
  BY TypeNext DEF LateInv
<1>2. CASE CommandReceived
  BY <1>1, <1>2, CommandKeepsLate
<1>3. CASE OnTimer
  BY <1>1, <1>3, TimerKeepsLate
<1>4. CASE SupervisionReceived
  BY <1>1, <1>4, SupervisionKeepsLate
<1>5. CASE Tick
  BY <1>1, <1>5, TickKeepsLate
<1>6. CASE ModeReceived \/ UNCHANGED gateVars
  <2>1. UNCHANGED LateFlags
    BY <1>6 DEF ModeReceived, OnGateMode, OnEngage, OnPause, OnOperationMode,
       LateFlags, gateVars, watchVars, outputVars
  <2> QED
    BY <1>1, <2>1, UnchangedKeepsLate
<1> QED
  BY <1>2, <1>3, <1>4, <1>5, <1>6 DEF Next

LEMMA LateInit == Init => LateInv
<1> QED
  BY TypeInit DEF Init, LateInv, Supervising

\* Whatever commands, modes and services are interleaved, from the timer that
\* finds the MrmState late until the next MrmState the vehicle is under the
\* emergency stop of the gate.
THEOREM LateMrmStateStops == Spec => []LateMrmStateStopsVehicle
<1>1. LateInv => LateMrmStateStopsVehicle
  BY DEF LateInv, LateMrmStateStopsVehicle
<1> QED
  BY <1>1, LateInit, LateNext, PTL DEF Spec

\* The same for the heartbeat of the external emergency stop, also when the clear
\* service is called in between.
THEOREM LateExternalHeartbeatStops == Spec => []LateExternalHeartbeatStopsVehicle
<1>1. LateInv => LateExternalHeartbeatStopsVehicle
  BY DEF LateInv, LateExternalHeartbeatStopsVehicle
<1> QED
  BY <1>1, LateInit, LateNext, PTL DEF Spec

-----------------------------------------------------------------------------
(* What a step may publish. *)

\* A command is only ever published by a command callback that nothing shuts out,
\* and filtered, or by the timer, which only knows the emergency stop.
LEMMA PublishedCommand ==
  ASSUME [Next]_gateVars, out' # out
  PROVE  \/ out' = [source |-> "emergency_stop", speed |-> 0]
         \/ \E source \in ControlSources, speed \in Int \cup {emergency_cmd},
               emergencySpeed \in Int \cup {emergency_cmd} :
              LET cmd == Selected(source, speed, emergencySpeed)
              IN out' = [cmd EXCEPT !.speed = Filter(cmd.speed)]
<1>1. CASE CommandReceived
  <2>1. PICK speed \in Speeds :
          OnAutoCtrlCmd(speed) \/ OnRemoteCtrlCmd(speed) \/ OnEmergencyCtrlCmd(speed)
    BY <1>1 DEF CommandReceived
  <2>2. PICK source \in {"auto", "remote", "emergency"}, emergencySpeed \in {speed, emergency_cmd} :
          PublishControlCommands(source, speed, emergencySpeed)
    BY <2>1 DEF OnAutoCtrlCmd, OnRemoteCtrlCmd, OnEmergencyCtrlCmd, outputVars
  <2>3. speed \in Int
    BY GateAssumption
  <2>4. source \in ControlSources
    BY DEF ControlSources
  <2> QED
    BY <2>2, <2>3, <2>4 DEF PublishControlCommands, outputVars
<1>2. CASE OnTimer
  BY <1>2 DEF OnTimer, TimerWaiting, TimerSystemTimeout, TimerExternalStop,
     TimerGateModeChanged, TimerSignals, PublishEmergencyStop, outputVars
<1>3. CASE ModeReceived \/ SupervisionReceived \/ Tick \/ UNCHANGED gateVars
  BY <1>3 DEF ModeReceived, OnGateMode, OnEngage, OnPause, OnOperationMode,
     SupervisionReceived, OnMrmState, OnExternalHeartbeat, OnSetExternalEmergencyStop,
     OnClearExternalEmergencyStop, Tick, gateVars, outputVars
<1> QED
  BY <1>1, <1>2, <1>3 DEF Next

\* What the vehicle was commanded last is what the filters hold, unless it was the
\* emergency stop of the gate, which by-passes them.
FilterInv == TypeOK /\ (out.source # "emergency_stop" => out.speed = filter_prev)

LEMMA FilterNext == FilterInv /\ [Next]_gateVars => FilterInv'
<1> SUFFICES ASSUME FilterInv, [Next]_gateVars PROVE FilterInv'
  OBVIOUS
<1>1. TypeOK'
  BY TypeNext DEF FilterInv
<1>2. CASE UNCHANGED <<out, filter_prev>>
  BY <1>1, <1>2 DEF FilterInv
<1>3. CASE out'.source = "emergency_stop"
  BY <1>1, <1>3 DEF FilterInv
<1>4. CASE CommandReceived /\ ~UNCHANGED outputVars
  <2>1. PICK speed \in Speeds :
          OnAutoCtrlCmd(speed) \/ OnRemoteCtrlCmd(speed) \/ OnEmergencyCtrlCmd(speed)
    BY <1>4 DEF CommandReceived
  <2>2. PICK source \in ControlSources, emergencySpeed \in {speed, emergency_cmd} :
          PublishControlCommands(source, speed, emergencySpeed)
    BY <1>4, <2>1 DEF OnAutoCtrlCmd, OnRemoteCtrlCmd, OnEmergencyCtrlCmd, ControlSources
  <2>3. speed \in Int /\ emergencySpeed \in Int
    BY <2>2, GateAssumption DEF FilterInv, TypeOK
  <2> DEFINE cmd == Selected(source, speed, emergencySpeed)
  <2>4. out' = [cmd EXCEPT !.speed = Filter(cmd.speed)] /\ filter_prev' = Filter(cmd.speed)
    BY <1>4, <2>2 DEF PublishControlCommands
  <2>5. out'.speed = filter_prev'
    BY <2>3, <2>4, SelectedTyped DEF FilterInv
  <2> QED
    BY <1>1, <2>5 DEF FilterInv
<1>5. CASE OnTimer
  BY <1>2, <1>3, <1>5 DEF OnTimer, TimerWaiting, TimerSystemTimeout, TimerExternalStop,
     TimerGateModeChanged, TimerSignals, PublishEmergencyStop, outputVars
<1>6. CASE UNCHANGED outputVars
  BY <1>2, <1>6 DEF outputVars
<1>7. ModeReceived \/ SupervisionReceived \/ Tick \/ UNCHANGED gateVars
        => UNCHANGED <<out, filter_prev>>
  BY DEF ModeReceived, OnGateMode, OnEngage, OnPause, OnOperationMode,
     SupervisionReceived, OnMrmState, OnExternalHeartbeat, OnSetExternalEmergencyStop,
     OnClearExternalEmergencyStop, Tick, gateVars, outputVars
<1> QED
  BY <1>2, <1>4, <1>5, <1>6, <1>7 DEF Next

LEMMA FilterInit == Init => FilterInv
<1> QED
  BY TypeInit DEF Init, FilterInv, NoCommand

\* A vehicle that is not engaged, or is paused, is never commanded faster than by
\* the command before, and after a stop of the gate itself not faster than before
\* that stop, whatever the limits, the age of the last command and the change of
\* the filter in use.
THEOREM HeldVehicleSlowsDown == Spec => HeldVehicleOnlySlowsDown
<1>1. FilterInv /\ [Next]_gateVars =>
        [(~engaged \/ paused) /\ out' # out
           => \/ Magnitude(out'.speed) <= Magnitude(out.speed)
              \/ /\ out.source = "emergency_stop"
                 /\ Magnitude(out'.speed) <= Magnitude(filter_prev)]_gateVars
  <2> SUFFICES ASSUME FilterInv, [Next]_gateVars, ~engaged \/ paused, out' # out
               PROVE  \/ Magnitude(out'.speed) <= Magnitude(out.speed)
                      \/ /\ out.source = "emergency_stop"
                         /\ Magnitude(out'.speed) <= Magnitude(filter_prev)
    OBVIOUS
  <2> TypeOK
    BY DEF FilterInv
  <2>1. CASE out' = [source |-> "emergency_stop", speed |-> 0]
    <3>1. out.speed \in Int /\ out'.speed = 0
      BY <2>1, LimitsTyped DEF TypeOK
    <3> QED
      BY <3>1 DEF Magnitude
  <2>2. ASSUME NEW source, NEW speed, NEW emergencySpeed,
               LET cmd == Selected(source, speed, emergencySpeed)
               IN out' = [cmd EXCEPT !.speed = Filter(cmd.speed)]
        PROVE  out'.speed = Filter(0)
    <3> DEFINE cmd == Selected(source, speed, emergencySpeed)
    <3>1. cmd = [source |-> "paused", speed |-> 0] \/ cmd = [source |-> "disengaged", speed |-> 0]
      BY DEF Selected
    <3>2. cmd.speed = 0 /\ "speed" \in DOMAIN cmd
      BY <3>1
    <3>3. out' = [cmd EXCEPT !.speed = Filter(cmd.speed)]
      BY <2>2
    <3> HIDE DEF cmd
    <3> QED
      BY <3>2, <3>3
  <2>3. out.source # "emergency_stop" => out.speed = filter_prev
    BY DEF FilterInv
  <2>4. Magnitude(Filter(0)) <= Magnitude(filter_prev)
    BY FilterSlowsDown
  <2> QED
    BY <2>1, <2>2, <2>3, <2>4, PublishedCommand
<1> QED
  BY <1>1, FilterInit, FilterNext, PTL DEF Spec, HeldVehicleOnlySlowsDown
=============================================================================
