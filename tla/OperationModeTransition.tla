------------------------ MODULE OperationModeTransition ------------------------
(***************************************************************************)
(* The node control/operation_mode_transition_manager with what it talks   *)
(* to: the vehicle interface, whose control mode it requests through an    *)
(* asynchronous service, and the gate and the external command selector,   *)
(* which it brings into the mode asked for through the older topics and    *)
(* services of its compatibility layer, and from which it reads that mode  *)
(* back.                                                                   *)
(*                                                                         *)
(* The callbacks of the node run one at a time.  Its timer is the clock:   *)
(* ages count its periods and stop growing one past their timeout.  What   *)
(* the gate and the selector report of themselves is heard at once, what   *)
(* they and the vehicle are told, and the reports a transition waits for,  *)
(* are on their way for any time.                                          *)
(***************************************************************************)
EXTENDS Naturals, Sequences

CONSTANTS
  Modes,                 \* the operation modes clients ask for
  TransitionTimeout,     \* transition_timeout, in timer periods
  StableDuration,        \* stable_check.duration, in timer periods
  TimeoutMargin,         \* TIMEOUT_MARGIN
  CompatibilityTimeout,  \* compatibility_timeout_
  InitialSelector,       \* initial_selector_mode of the selector
  EngageRequests,        \* what other clients of the gate's engage service ask for
  MaxPending,            \* bound: control mode requests not yet answered
  Never                  \* the age of something that is not set

ManualModes    == {"STOP", "LOCAL", "REMOTE"}
OperationModes == ManualModes \cup {"AUTONOMOUS"}

ASSUME OperationModeAssumption ==
  /\ Modes \subseteq OperationModes
  /\ TransitionTimeout \in Nat /\ StableDuration \in Nat
  /\ TimeoutMargin \in Nat /\ CompatibilityTimeout \in Nat
  /\ InitialSelector \in {"LOCAL", "REMOTE"}
  /\ EngageRequests \subseteq BOOLEAN
  /\ MaxPending \in Nat \ {0}
  /\ Never \notin Nat

\* The constructor keeps the timeout above the duration of the stable check.
EffectiveTimeout ==
  IF TransitionTimeout < StableDuration + TimeoutMargin
  THEN StableDuration + TimeoutMargin ELSE TransitionTimeout

NoTransition ==
  [active |-> FALSE, age |-> 0, previous |-> "NONE", is_engage_requested |-> FALSE,
   is_engage_failed |-> FALSE, is_engage_completed |-> FALSE]

VARIABLES
  \* the node
  current_mode,        \* current_mode_
  transition,          \* transition_
  syncAge,             \* now - compatibility_transition_, Never when not set
  available,           \* available_mode_change_, the modes that are true
  control,             \* control_mode_report_.mode is AUTONOMOUS
  published,           \* prev_state_.is_in_transition: what was last published
  calling,             \* the selector request of is_calling_service_, or "NONE"
  heard,               \* the compatibility layer has all three messages
  \* the gate and the selector
  gate_mode,           \* current_gate_mode_
  engaged,             \* is_engaged_
  in_transition,       \* current_operation_mode_.is_in_transition
  selector,            \* current_selector_mode_
  mode_cmd,            \* gate mode on its way to the gate, or "NONE"
  engage_cmd,          \* engage on its way to the gate, or "NONE"
  \* the vehicle
  vehicle,             \* the vehicle takes the commands of Autoware
  requests,            \* control mode requests not served yet, in order
  rejections,          \* negative answers on their way
  granted              \* control was asked for since it was last given up
                       \* (an observer, no state of the code)

nodeVars    == <<current_mode, transition, syncAge, available, control,
                 published, heard>>
compatVars  == <<calling, mode_cmd, engage_cmd>>
gateVars    == <<gate_mode, engaged, in_transition, selector>>
vehicleVars == <<vehicle, requests, rejections, granted>>
vars        == <<nodeVars, compatVars, gateVars, vehicleVars>>

TypeOK ==
  /\ current_mode \in OperationModes
  /\ transition \in [active : BOOLEAN, age : 0 .. EffectiveTimeout + 1,
                     previous : OperationModes \cup {"NONE"},
                     is_engage_requested : BOOLEAN, is_engage_failed : BOOLEAN,
                     is_engage_completed : BOOLEAN]
  /\ syncAge \in (0 .. CompatibilityTimeout + 1) \cup {Never}
  /\ available \subseteq OperationModes
  /\ control \in BOOLEAN /\ published \in BOOLEAN /\ heard \in BOOLEAN
  /\ calling \in {"NONE", "LOCAL", "REMOTE"}
  /\ gate_mode \in {"AUTO", "EXTERNAL"} /\ engaged \in BOOLEAN
  /\ in_transition \in BOOLEAN /\ selector \in {"LOCAL", "REMOTE"}
  /\ mode_cmd \in {"NONE", "AUTO", "EXTERNAL"}
  /\ engage_cmd \in {"NONE", "ENGAGE", "DISENGAGE"}
  /\ vehicle \in BOOLEAN
  /\ requests \in Seq({"AUTONOMOUS", "MANUAL"}) /\ Len(requests) <= MaxPending
  /\ rejections \in 0 .. MaxPending
  /\ granted \in BOOLEAN

Init ==
  /\ current_mode = "STOP" /\ transition = NoTransition /\ syncAge = Never
  /\ available = {} /\ control = FALSE
  /\ published = FALSE /\ calling = "NONE" /\ heard = FALSE
  /\ gate_mode = "AUTO" /\ engaged = FALSE /\ in_transition = FALSE
  /\ selector = InitialSelector /\ mode_cmd = "NONE" /\ engage_cmd = "NONE"
  /\ vehicle = FALSE /\ requests = <<>> /\ rejections = 0 /\ granted = FALSE

-----------------------------------------------------------------------------
(* Control mode requests. *)

CanSend == Len(requests) + rejections < MaxPending

\* changeControlMode: the answer is only looked at when it is negative.
ChangeControlMode(mode) ==
  /\ CanSend
  /\ requests' = Append(requests, mode)

\* The callback of changeControlMode: the transition it finds is failed, be it
\* the one that asked or a later one.
OnRejected ==
  /\ rejections > 0
  /\ rejections' = rejections - 1
  /\ transition' = IF transition.active
                   THEN [transition EXCEPT !.is_engage_failed = TRUE] ELSE transition
  /\ UNCHANGED <<current_mode, syncAge, available, control,
                 published, heard, compatVars, gateVars, vehicle, requests, granted>>

-----------------------------------------------------------------------------
(* Services. *)

NewTransition(requestControl, previous) ==
  [NoTransition EXCEPT !.active = TRUE, !.previous = previous,
                       !.is_engage_requested = requestControl]

\* changeOperationMode(nullopt), the autoware_control service asking for control.
EnableControl ==
  /\ ~control
  /\ ~transition.active
  /\ current_mode \in available
  /\ transition' = NewTransition(TRUE, "NONE")
  /\ syncAge' = 0
  /\ granted' = TRUE
  /\ UNCHANGED <<current_mode, available, control, published,
                 heard, compatVars, gateVars, vehicle, requests, rejections>>

\* Faulty variant: the transition under way is left to go on.
DisableControlKeepingTransition ==
  /\ syncAge' = Never
  /\ ChangeControlMode("MANUAL")
  /\ granted' = FALSE
  /\ UNCHANGED <<current_mode, transition, available, control,
                 published, heard, compatVars, gateVars, vehicle, rejections>>

\* The autoware_control service giving control up.
DisableControl ==
  /\ syncAge' = Never
  /\ transition' = NoTransition
  /\ ChangeControlMode("MANUAL")
  /\ granted' = FALSE
  /\ UNCHANGED <<current_mode, available, control, published,
                 heard, compatVars, gateVars, vehicle, rejections>>

\* changeOperationMode(mode): a transition only when Autoware has control, and
\* only STOP while another is under way.
ChangeOperationMode(mode) ==
  /\ current_mode # mode
  /\ transition.active => mode = "STOP"
  /\ control => mode \in available
  /\ transition' = IF control THEN NewTransition(FALSE, current_mode) ELSE transition
  /\ syncAge' = 0
  /\ current_mode' = mode
  /\ UNCHANGED <<available, control, published, heard,
                 compatVars, gateVars, vehicleVars>>

-----------------------------------------------------------------------------
(* The compatibility layer. *)

\* Compatibility::get_mode.
CompatibleMode ==
  IF ~heard THEN "NONE"
  ELSE IF ~engaged THEN "STOP"
  ELSE IF gate_mode = "AUTO" THEN "AUTONOMOUS" ELSE selector

GateModeOf(mode) == IF mode \in {"LOCAL", "REMOTE"} THEN "EXTERNAL" ELSE "AUTO"
EngageOf(mode)   == mode # "STOP"

\* Compatibility::set_mode: the selector and the gate mode are asked for at the
\* same time, engagement only once the gate has its mode.
SetMode(mode) ==
  IF ~heard THEN UNCHANGED compatVars
  ELSE /\ calling' = IF mode \in {"LOCAL", "REMOTE"} /\ selector # mode /\ calling = "NONE"
                     THEN mode ELSE calling
       /\ mode_cmd' = IF gate_mode # GateModeOf(mode) THEN GateModeOf(mode) ELSE mode_cmd
       /\ engage_cmd' = IF gate_mode = GateModeOf(mode) /\ engaged # EngageOf(mode)
                        THEN IF EngageOf(mode) THEN "ENGAGE" ELSE "DISENGAGE"
                        ELSE engage_cmd

-----------------------------------------------------------------------------
(* onTimer. *)

Older(age, timeout) == IF age = Never \/ age > timeout THEN age ELSE age + 1

\* isModeChangeAvailable.  The checks of the autonomous mode may refuse a change;
\* a refused request changes nothing, so only the others are steps.
AvailableModes == OperationModes

\* isModeChangeCompleted, the stable check of the autonomous mode likewise.
Completable(mode) == IF mode = "AUTONOMOUS" THEN BOOLEAN ELSE {TRUE}

\* cancelTransition: back to the previous mode, or control is given up.
CancelTransition(previous, mode, sync) ==
  /\ transition' = NoTransition
  /\ IF previous # "NONE"
     THEN /\ syncAge' = 0 /\ current_mode' = previous
          /\ UNCHANGED <<requests, granted>>
     ELSE /\ syncAge' = Never /\ current_mode' = mode
          /\ ChangeControlMode("MANUAL")
          /\ granted' = FALSE

\* Faulty variant: a transition waits for the vehicle without a timeout.
MustCancelWithoutTimeout(t) ==
  t.is_engage_failed \/ (t.is_engage_completed /\ ~control)

\* Timeout, engage failure and override.
MustCancel(t) ==
  \/ t.age > EffectiveTimeout
  \/ t.is_engage_failed
  \/ t.is_engage_completed /\ ~control

\* The gate reflects the mode and the transition: control may be asked for.
EngageReady(t, mode) ==
  /\ ~control
  /\ mode = CompatibleMode
  /\ t.is_engage_requested
  /\ in_transition

\* The rest of processTransition.
ContinueTransition(t, mode) ==
  LET engaging == [t EXCEPT !.is_engage_completed = @ \/ control] IN
  \/ /\ EngageReady(t, mode)
     /\ transition' = [t EXCEPT !.is_engage_requested = FALSE]
     /\ ChangeControlMode("AUTONOMOUS")
  \/ /\ control /\ mode = CompatibleMode
     /\ \E completed \in Completable(mode) :
          transition' = IF completed THEN NoTransition ELSE engaging
     /\ UNCHANGED requests
  \/ /\ ~EngageReady(t, mode) /\ ~(control /\ mode = CompatibleMode)
     /\ transition' = engaging
     /\ UNCHANGED requests

ProcessTransition(t, mode, sync) ==
  \/ /\ ~t.active
     /\ transition' = t /\ syncAge' = sync /\ current_mode' = mode
     /\ UNCHANGED <<requests, granted>>
  \/ t.active /\ MustCancel(t) /\ CancelTransition(t.previous, mode, sync)
  \/ /\ t.active /\ ~MustCancel(t)
     /\ ContinueTransition(t, mode)
     /\ syncAge' = sync /\ current_mode' = mode
     /\ UNCHANGED granted

\* The synchronisation ends after its timeout.
SyncAfterTimer ==
  LET age == Older(syncAge, CompatibilityTimeout)
  IN IF age # Never /\ age > CompatibilityTimeout THEN Never ELSE age

\* Faulty variant: the mode is only read back before it was ever changed.
ReflectedModeOnlyInStop(sync) ==
  IF sync = Never /\ current_mode = "STOP" /\ CompatibleMode # "NONE"
  THEN CompatibleMode ELSE current_mode

\* The mode is read back when it is not being synchronised.
ReflectedMode(sync) ==
  IF sync = Never /\ CompatibleMode # "NONE" THEN CompatibleMode ELSE current_mode

OnTimer ==
  LET t    == [transition EXCEPT !.age = IF transition.active
                                         THEN Older(@, EffectiveTimeout) ELSE @]
      sync == SyncAfterTimer
      mode == ReflectedMode(sync)
  IN /\ available' = AvailableModes
     /\ IF sync # Never THEN SetMode(current_mode) ELSE UNCHANGED compatVars
     /\ ProcessTransition(t, mode, IF mode = CompatibleMode THEN Never ELSE sync)
     /\ published' = transition'.active
     /\ UNCHANGED <<control, heard, gateVars, vehicle, rejections>>

-----------------------------------------------------------------------------
(* What the node subscribes to. *)

OnControlModeReport ==
  /\ control' = vehicle
  /\ UNCHANGED <<current_mode, transition, syncAge, available,
                 published, heard, compatVars, gateVars, vehicleVars>>

\* The last of the messages on engage, gate mode and selector mode arrives.
OnCompatibleStatus ==
  /\ ~heard
  /\ heard' = TRUE
  /\ UNCHANGED <<current_mode, transition, syncAge, available, control,
                 published, compatVars, gateVars, vehicleVars>>

-----------------------------------------------------------------------------
(* The gate, the selector and the vehicle. *)

GateReceivesMode ==
  /\ mode_cmd # "NONE"
  /\ gate_mode' = mode_cmd
  /\ mode_cmd' = "NONE"
  /\ UNCHANGED <<nodeVars, calling, engage_cmd, engaged, in_transition, selector,
                 vehicleVars>>

GateReceivesEngage ==
  /\ engage_cmd # "NONE"
  /\ engaged' = (engage_cmd = "ENGAGE")
  /\ engage_cmd' = "NONE"
  /\ UNCHANGED <<nodeVars, calling, mode_cmd, gate_mode, in_transition, selector,
                 vehicleVars>>

\* Another client engages or disengages the gate.
OtherEngages(engage) ==
  /\ engaged' = engage
  /\ UNCHANGED <<nodeVars, compatVars, gate_mode, in_transition, selector, vehicleVars>>

GateReceivesState ==
  /\ in_transition' = published
  /\ UNCHANGED <<nodeVars, compatVars, gate_mode, engaged, selector, vehicleVars>>

\* onSelectExternalCommandService, and the answer.
SelectorServes ==
  /\ calling # "NONE"
  /\ selector' = calling
  /\ calling' = "NONE"
  /\ UNCHANGED <<nodeVars, mode_cmd, engage_cmd, gate_mode, engaged, in_transition,
                 vehicleVars>>

VehicleAccepts ==
  /\ requests # <<>>
  /\ vehicle' = (Head(requests) = "AUTONOMOUS")
  /\ requests' = Tail(requests)
  /\ UNCHANGED <<nodeVars, compatVars, gateVars, rejections, granted>>

\* A vehicle may refuse to be driven by Autoware, never to be given back.
VehicleRejects ==
  /\ requests # <<>>
  /\ Head(requests) = "AUTONOMOUS"
  /\ requests' = Tail(requests)
  /\ rejections' = rejections + 1
  /\ UNCHANGED <<nodeVars, compatVars, gateVars, vehicle, granted>>

\* The driver takes over.
DriverOverrides ==
  /\ vehicle
  /\ vehicle' = FALSE
  /\ UNCHANGED <<nodeVars, compatVars, gateVars, requests, rejections, granted>>

-----------------------------------------------------------------------------

Service == EnableControl \/ DisableControl \/ \E mode \in Modes : ChangeOperationMode(mode)

External == DriverOverrides \/ \E engage \in EngageRequests : OtherEngages(engage)

Message ==
  \/ OnRejected \/ OnControlModeReport \/ OnCompatibleStatus
  \/ GateReceivesMode \/ GateReceivesEngage \/ GateReceivesState
  \/ SelectorServes \/ VehicleAccepts \/ VehicleRejects

Next == Service \/ External \/ Message \/ OnTimer

Spec == Init /\ [][Next]_vars

\* The timer fires, and what was sent is received.
FairSpec ==
  /\ Spec
  /\ WF_vars(OnTimer) /\ WF_vars(OnRejected) /\ WF_vars(OnControlModeReport)
  /\ WF_vars(OnCompatibleStatus)
  /\ WF_vars(GateReceivesMode) /\ WF_vars(GateReceivesEngage)
  /\ WF_vars(GateReceivesState) /\ WF_vars(SelectorServes)
  /\ WF_vars(VehicleAccepts \/ VehicleRejects)

-----------------------------------------------------------------------------
(* Properties. *)

\* The vehicle only comes, and stays, under the control of Autoware on a request
\* that was not given up since: after a disable or a cancelled transition no
\* request still on its way, nor one sent for a stale report, wins in the end.
ControlNeedsGrant == vehicle /\ requests = <<>> => granted

\* When clients stop asking, the last transition ends for good, whatever the
\* driver, the vehicle and the other clients of the gate go on doing.
TransitionEnds == <>[][~Service]_vars => <>[](~transition.active)

\* When nobody asks for anything any more, the mode published is in the end the
\* one the gate and the selector are in, and no transition is left.
ModeSettles ==
  <>[][~(Service \/ External)]_vars
    => <>[](current_mode = CompatibleMode /\ ~transition.active)
=============================================================================
