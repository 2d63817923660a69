-------------------------- MODULE SystemErrorMonitor --------------------------
(***************************************************************************)
(* The node system/system_error_monitor: it judges the hazard level of the *)
(* whole system from the diagnostics of the required modules, supervises   *)
(* its own inputs, and decides whether an emergency is held until somebody *)
(* clears it.  The callbacks run one at a time.                            *)
(*                                                                         *)
(* Time is counted in ticks and the timer fires once in each; stamps are   *)
(* ages that stop growing one tick past the timeout they are compared      *)
(* with.  A diagnostic array is stamped when it is received.               *)
(***************************************************************************)
EXTENDS Integers, FiniteSets

CONSTANTS
  AutonomousModules,      \* required_modules.autonomous_driving
  ExternalModules,        \* required_modules.external_control
  SafeFaultModules,       \* of them: sf_at "warn", lf_at and spf_at "none"
  NotAutoRecoverable,     \* of them: auto_recovery "false"
  EmergencyHazardLevel,   \* emergency_hazard_level
  IgnoreMissing,          \* ignore_missing_diagnostics
  DiagTimeout,            \* diag_timeout_sec, in ticks
  DataReadyTimeout,       \* data_ready_timeout, in ticks
  DataHeartbeatTimeout,   \* data_heartbeat_timeout, in ticks
  HazardRecoveryTimeout,  \* hazard_recovery_timeout, in ticks
  UseEmergencyHold,       \* use_emergency_hold
  UseEmergencyHoldInManualDriving,
  DiagInputs, GateModes, AutowareStates, ControlModes,
                          \* what the inputs may carry
  Never                   \* never received

NoFault          == 0
SafeFault        == 1
LatentFault      == 2
SinglePointFault == 3
Levels           == NoFault .. SinglePointFault

OK         == 0
WARN       == 1
ERROR      == 2
STALE      == 3
DiagLevels == OK .. STALE

Modules == AutonomousModules \cup ExternalModules

AllAutowareStates == {"INITIALIZING", "WAITING_FOR_ROUTE", "PLANNING",
                      "WAITING_FOR_ENGAGE", "DRIVING", "ARRIVED_GOAL", "FINALIZING"}

ASSUME MonitorAssumption ==
  /\ SafeFaultModules \subseteq Modules
  /\ NotAutoRecoverable \subseteq Modules
  /\ EmergencyHazardLevel \in Levels \ {NoFault}
  /\ IgnoreMissing \in BOOLEAN
  /\ DiagTimeout \in Nat /\ DataReadyTimeout \in Nat
  /\ DataHeartbeatTimeout \in Nat /\ HazardRecoveryTimeout \in Nat
  /\ UseEmergencyHold \in BOOLEAN
  /\ UseEmergencyHoldInManualDriving \in BOOLEAN
  /\ DiagInputs \subseteq DiagLevels
  /\ GateModes \subseteq {"AUTO", "EXTERNAL"}
  /\ AutowareStates \subseteq AllAutowareStates
  /\ ControlModes \subseteq {"AUTONOMOUS", "MANUAL"}
  /\ Never \notin Int

Inputs == {"diag_array", "gate_mode", "autoware_state", "control_mode"}

VARIABLES
  diag,            \* the latest diagnostic of each module, Never without one
  diagAge,         \* the age of that diagnostic
  gate_mode,       \* current_gate_mode_
  autoware_state,  \* autoware_state_
  control_mode,    \* control_mode_
  inputAge,        \* now - *_stamp_, Never until the first message
  upAge,           \* now - initialized_time_
  hazard,          \* hazard_status_ without its diagnostics
  error_modules,   \* the modules its diagnostics blame for an emergency
  switchAge,       \* now - emergency_state_switch_time_
  current_mode,    \* current_mode_, "" until the first judgement
  published,       \* the last hazard status published
  alive,           \* the process runs
  timerDue         \* the timer has not fired in this tick yet

messages == <<diag, diagAge, gate_mode, autoware_state, control_mode, inputAge>>
status   == <<hazard, error_modules, switchAge>>
vars     == <<messages, upAge, status, current_mode, published, alive, timerDue>>

Ages(timeout) == 0 .. timeout + 1
Statuses == [level : Levels, emergency : BOOLEAN, emergency_holding : BOOLEAN]

TypeOK ==
  /\ diag \in [Modules -> DiagLevels \cup {Never}]
  /\ diagAge \in [Modules -> Ages(DiagTimeout)]
  /\ gate_mode \in {"AUTO", "EXTERNAL", "none"}
  /\ autoware_state \in AllAutowareStates \cup {"none"}
  /\ control_mode \in {"AUTONOMOUS", "MANUAL"}
  /\ inputAge \in [Inputs -> Ages(DataHeartbeatTimeout) \cup {Never}]
  /\ upAge \in Ages(DataReadyTimeout)
  /\ hazard \in Statuses
  /\ error_modules \subseteq Modules
  /\ switchAge \in Ages(HazardRecoveryTimeout)
  /\ current_mode \in {"", "autonomous_driving", "external_control"}
  /\ published \in Statuses
  /\ alive \in BOOLEAN
  /\ timerDue \in BOOLEAN

NoHazard == [level |-> NoFault, emergency |-> FALSE, emergency_holding |-> FALSE]

Init ==
  /\ diag = [m \in Modules |-> Never]
  /\ diagAge = [m \in Modules |-> 0]
  /\ gate_mode = "none"
  /\ autoware_state = "none"
  /\ control_mode = "MANUAL"
  /\ inputAge = [i \in Inputs |-> Never]
  /\ upAge = 0
  /\ hazard = NoHazard
  /\ error_modules = {}
  /\ switchAge = 0
  /\ current_mode = ""
  /\ published = NoHazard
  /\ alive = TRUE
  /\ timerDue = TRUE

-----------------------------------------------------------------------------
(* Inputs: each stores its message and its time of reception. *)

Received(input) ==
  /\ alive
  /\ inputAge' = [inputAge EXCEPT ![input] = 0]
  /\ UNCHANGED <<upAge, status, current_mode, published, alive, timerDue>>

\* The array need not carry every module: the others keep their latest one.
OnDiagArray(levels) ==
  /\ Received("diag_array")
  /\ diag' = [m \in Modules |-> IF m \in DOMAIN levels THEN levels[m] ELSE diag[m]]
  /\ diagAge' = [m \in Modules |-> IF m \in DOMAIN levels THEN 0 ELSE diagAge[m]]
  /\ UNCHANGED <<gate_mode, autoware_state, control_mode>>

OnCurrentGateMode(mode) ==
  /\ Received("gate_mode")
  /\ gate_mode' = mode
  /\ UNCHANGED <<diag, diagAge, autoware_state, control_mode>>

OnAutowareState(state) ==
  /\ Received("autoware_state")
  /\ autoware_state' = state
  /\ UNCHANGED <<diag, diagAge, gate_mode, control_mode>>

OnControlMode(mode) ==
  /\ Received("control_mode")
  /\ control_mode' = mode
  /\ UNCHANGED <<diag, diagAge, gate_mode, autoware_state>>

\* control_mode_ is initialised, so it is not waited for.
IsDataReady ==
  /\ inputAge["diag_array"] # Never
  /\ gate_mode # "none"
  /\ autoware_state # "none"

\* A stamp never set has another clock type and is not late.
IsLate(input) == inputAge[input] # Never /\ inputAge[input] > DataHeartbeatTimeout

IsDataHeartbeatTimeout == \E input \in Inputs : IsLate(input)

-----------------------------------------------------------------------------
(* Judging the diagnostics. *)

Required(mode) ==
  IF mode = "autonomous_driving" THEN AutonomousModules ELSE ExternalModules

\* The hazard level of a diagnostic of module m.
HazardLevel(m, level) ==
  IF m \in SafeFaultModules
  THEN IF level >= WARN THEN SafeFault ELSE NoFault
  ELSE IF level >= ERROR THEN SinglePointFault
  ELSE IF level >= WARN THEN LatentFault ELSE NoFault

\* The levels a module contributes: none or a stale one when it was never
\* heard of, its own and, after a time, a stale one otherwise.
HazardLevels(m) ==
  IF diag[m] = Never
  THEN IF IgnoreMissing THEN {} ELSE {HazardLevel(m, STALE)}
  ELSE {HazardLevel(m, diag[m])}
       \cup IF diagAge[m] > DiagTimeout THEN {HazardLevel(m, STALE)} ELSE {}

IsInNoFaultCondition ==
  \/ autoware_state \in {"INITIALIZING", "FINALIZING"}
  \/ gate_mode = "AUTO" /\ autoware_state \in {"WAITING_FOR_ROUTE", "PLANNING"}

JudgedLevel(mode) ==
  IF IsInNoFaultCondition THEN NoFault
  ELSE CHOOSE l \in Levels :
         LET found == (UNION {HazardLevels(m) : m \in Required(mode)}) \cup {NoFault}
         IN l \in found /\ \A k \in found : k <= l

JudgedErrorModules(mode) ==
  {m \in Required(mode) : \E l \in HazardLevels(m) : l >= EmergencyHazardLevel}

-----------------------------------------------------------------------------
(* Updating the status. *)

\* Faulty variant: every judgement restarts the duration of the emergency.
SwitchEmergencyAgain(emergency) ==
  switchAge' = IF emergency \/ hazard.emergency THEN 0 ELSE switchAge

\* emergency_state_switch_time_ is set when the emergency begins or ends.
SwitchEmergency(emergency) ==
  switchAge' = IF emergency # hazard.emergency THEN 0 ELSE switchAge

CanAutoRecovery(mode, blamed) == blamed \cap NotAutoRecoverable \cap Required(mode) = {}

IsHeldInThisMode == control_mode # "MANUAL" \/ UseEmergencyHoldInManualDriving

\* isEmergencyHoldingRequired, after level and switch time were updated.
IsHoldingRequired(held, emergency, mode) ==
  \/ held
  \/ /\ emergency
     /\ switchAge' >= HazardRecoveryTimeout \/ ~CanAutoRecovery(mode, error_modules')
     /\ IsHeldInThisMode

\* Faulty variant: the level is judged anew while an emergency is held.
UpdateHazardStatusRejudging(held, mode) ==
  LET level     == JudgedLevel(mode)
      emergency == level >= EmergencyHazardLevel
  IN /\ error_modules' = JudgedErrorModules(mode)
     /\ SwitchEmergency(emergency)
     /\ hazard' = [level |-> level, emergency |-> emergency,
                   emergency_holding |-> IF UseEmergencyHold
                                         THEN IsHoldingRequired(held, emergency, mode)
                                         ELSE held]

\* Faulty variant: an emergency only ends together with its holding.
UpdateHazardStatusSticky(held, mode) ==
  LET level     == IF held THEN hazard.level ELSE JudgedLevel(mode)
      emergency == hazard.emergency \/ level >= EmergencyHazardLevel
  IN /\ error_modules' = IF held THEN error_modules ELSE JudgedErrorModules(mode)
     /\ SwitchEmergency(emergency)
     /\ hazard' = [level |-> level, emergency |-> emergency,
                   emergency_holding |-> IF UseEmergencyHold
                                         THEN IsHoldingRequired(held, emergency, mode)
                                         ELSE held]

\* updateHazardStatus, the status being held or not when it is called.
UpdateHazardStatus(held, mode) ==
  LET level     == IF held THEN hazard.level ELSE JudgedLevel(mode)
      emergency == level >= EmergencyHazardLevel
  IN /\ error_modules' = IF held THEN error_modules ELSE JudgedErrorModules(mode)
     /\ SwitchEmergency(emergency)
     /\ hazard' = [level |-> level, emergency |-> emergency,
                   emergency_holding |-> IF UseEmergencyHold
                                         THEN IsHoldingRequired(held, emergency, mode)
                                         ELSE held]

\* Faulty variant: the level is raised without the emergency flag.
UpdateTimeoutLevelOnly ==
  /\ error_modules' = {}
  /\ SwitchEmergency(TRUE)
  /\ hazard' = [hazard EXCEPT !.level = SinglePointFault]

\* updateTimeoutHazardStatus: holding is computed anew from the duration.
UpdateTimeoutHazardStatus ==
  /\ error_modules' = {}
  /\ SwitchEmergency(TRUE)
  /\ hazard' = [level |-> SinglePointFault, emergency |-> TRUE,
                emergency_holding |-> IF UseEmergencyHold
                                      THEN switchAge' > HazardRecoveryTimeout
                                      ELSE hazard.emergency_holding]

-----------------------------------------------------------------------------
(* onTimer, the service, time. *)

TimerWaiting ==
  /\ ~IsDataReady
  /\ upAge <= DataReadyTimeout
  /\ UNCHANGED <<status, current_mode, published>>

TimerTimeout ==
  /\ IF IsDataReady THEN IsDataHeartbeatTimeout ELSE upAge > DataReadyTimeout
  /\ UpdateTimeoutHazardStatus
  /\ published' = hazard'
  /\ UNCHANGED current_mode

TimerJudges ==
  /\ IsDataReady
  /\ ~IsDataHeartbeatTimeout
  /\ current_mode' = IF gate_mode = "AUTO" THEN "autonomous_driving"
                                           ELSE "external_control"
  /\ UpdateHazardStatus(hazard.emergency_holding, current_mode')
  /\ published' = hazard'

OnTimer ==
  /\ alive
  /\ timerDue
  /\ timerDue' = FALSE
  /\ TimerWaiting \/ TimerTimeout \/ TimerJudges
  /\ UNCHANGED <<messages, upAge, alive>>

\* onClearEmergencyService updates the status from the data at hand, late or
\* not, and publishes nothing.
ClearEmergency ==
  /\ alive
  /\ current_mode # ""
  /\ UpdateHazardStatus(FALSE, current_mode)
  /\ UNCHANGED <<messages, upAge, current_mode, published, alive, timerDue>>

\* Before the first judgement required_modules_map_.at("") throws.
ClearEmergencyTooEarly ==
  /\ alive
  /\ current_mode = ""
  /\ alive' = FALSE
  /\ UNCHANGED <<messages, upAge, status, current_mode, published, timerDue>>

Older(age, timeout) ==
  IF age = Never THEN Never ELSE IF age > timeout THEN age ELSE age + 1

Tick ==
  /\ alive => ~timerDue
  /\ timerDue' = TRUE
  /\ diagAge' = [m \in Modules |-> IF diag[m] = Never THEN 0
                                   ELSE Older(diagAge[m], DiagTimeout)]
  /\ inputAge' = [i \in Inputs |-> Older(inputAge[i], DataHeartbeatTimeout)]
  /\ upAge' = Older(upAge, DataReadyTimeout)
  /\ switchAge' = Older(switchAge, HazardRecoveryTimeout)
  /\ UNCHANGED <<diag, gate_mode, autoware_state, control_mode, hazard,
                 error_modules, current_mode, published, alive>>

MessageReceived ==
  \/ \E S \in SUBSET Modules : \E levels \in [S -> DiagInputs] : OnDiagArray(levels)
  \/ \E mode \in GateModes : OnCurrentGateMode(mode)
  \/ \E state \in AutowareStates : OnAutowareState(state)
  \/ \E mode \in ControlModes : OnControlMode(mode)

Next ==
  \/ MessageReceived \/ OnTimer \/ ClearEmergency \/ ClearEmergencyTooEarly \/ Tick

Spec == Init /\ [][Next]_vars

\* The executor fires the timer and time passes; no message is promised.
FairSpec == Spec /\ WF_vars(OnTimer) /\ WF_vars(Tick)

-----------------------------------------------------------------------------
(* Properties. *)

\* What the emergency handler relies on: across judgements, input timeouts,
\* holding and clearing, the emergency flag of the status agrees with its level
\* and an emergency is only held while there is one.
Consistent(s) ==
  /\ s.emergency = (s.level >= EmergencyHazardLevel)
  /\ s.emergency_holding => s.emergency

StatusIsConsistent == Consistent(hazard) /\ Consistent(published)

\* As long as an emergency is held, its level only rises: neither the next
\* judgement nor a state in which faults are ignored turns it into less than it
\* was when it began to be held.  Only the service may.
HeldLevelNeverFalls ==
  [][hazard.emergency_holding /\ hazard'.emergency_holding /\ hazard'.level < hazard.level
       => ClearEmergency]_vars

\* Outside manual driving an emergency that stays is in the end held for good,
\* whether it comes from diagnostics, from late inputs or alternates.
FaultThatStaysIsHeld ==
  <>[](alive /\ hazard.emergency /\ control_mode # "MANUAL")
    => <>[](~alive \/ hazard.emergency_holding)

Healthy ==
  /\ IsDataReady
  /\ ~IsDataHeartbeatTimeout
  /\ \A m \in Modules : diag[m] = OK /\ diagAge[m] <= DiagTimeout

\* When all required modules are healthy again and stay so, and nothing is
\* held, the emergency is withdrawn.
HealthySystemRecovers ==
  <>[](alive /\ Healthy /\ ~hazard.emergency_holding) => <>[](published = NoHazard)
=============================================================================
