-------------------------- MODULE OperationModeProofs --------------------------
(***************************************************************************)
(* For every timeout, every set of clients' requests and any number of     *)
(* control mode requests under way: Autoware only drives the vehicle on a  *)
(* request that was not given up.                                          *)
(***************************************************************************)
EXTENDS OperationModeTransition, SequenceTheorems, TLAPS

ControlModes == {"AUTONOMOUS", "MANUAL"}

Transitions ==
  [active : BOOLEAN, age : Nat, previous : OperationModes \cup {"NONE"},
   is_engage_requested : BOOLEAN, is_engage_failed : BOOLEAN,
   is_engage_completed : BOOLEAN]

\* What the argument needs of the types.
ControlTyped ==
  /\ transition \in Transitions
  /\ current_mode \in OperationModes
  /\ requests \in Seq(ControlModes)
  /\ granted \in BOOLEAN /\ vehicle \in BOOLEAN

\* Control that was given up either is given back already, or the last request
\* under way gives it back.
GivenUp ==
  IF requests = <<>> THEN ~vehicle ELSE requests[Len(requests)] = "MANUAL"

\* The inductive invariant: a transition that still has to ask for control
\* belongs to a grant, so that no AUTONOMOUS follows the MANUAL that took the
\* grant back.
ControlInv ==
  /\ ControlTyped
  /\ transition.is_engage_requested => granted
  /\ ~granted => GivenUp

-----------------------------------------------------------------------------
LEMMA NoTransitionTyped ==
  NoTransition \in Transitions /\ ~NoTransition.is_engage_requested
<1> QED
  BY DEF NoTransition, Transitions

LEMMA NewTransitionTyped ==
  ASSUME NEW requestControl \in BOOLEAN, NEW previous \in OperationModes \cup {"NONE"}
  PROVE  /\ NewTransition(requestControl, previous) \in Transitions
         /\ NewTransition(requestControl, previous).is_engage_requested = requestControl
<1> QED
  BY DEF NewTransition, NoTransition, Transitions

\* A request sent is the last one under way.
LEMMA SentIsLast ==
  ASSUME ControlTyped, NEW mode \in ControlModes, ChangeControlMode(mode)
  PROVE  /\ requests' \in Seq(ControlModes)
         /\ requests' # <<>>
         /\ requests'[Len(requests')] = mode
<1>1. requests' = Append(requests, mode) /\ requests \in Seq(ControlModes)
  BY DEF ChangeControlMode, ControlTyped
<1>2. Len(requests') = Len(requests) + 1 /\ Len(requests) \in Nat
  BY <1>1, AppendProperties, LenProperties
<1> QED
  BY <1>1, <1>2, AppendProperties

\* A request served leaves the order, and the last, of the others.
LEMMA ServedLeavesLast ==
  ASSUME ControlTyped, requests # <<>>
  PROVE  /\ Head(requests) \in ControlModes
         /\ Tail(requests) \in Seq(ControlModes)
         /\ Tail(requests) = <<>> => requests[Len(requests)] = Head(requests)
         /\ Tail(requests) # <<>> =>
              Tail(requests)[Len(Tail(requests))] = requests[Len(requests)]
<1>1. requests \in Seq(ControlModes)
  BY DEF ControlTyped
<1>2. PICK rest : rest = Tail(requests)
  OBVIOUS
<1>3. /\ Head(requests) \in ControlModes /\ rest \in Seq(ControlModes)
      /\ Len(rest) = Len(requests) - 1
      /\ \A i \in 1 .. Len(rest) : rest[i] = requests[i + 1]
  BY <1>1, <1>2, HeadTailProperties
<1>4. Head(requests) = requests[1]
  BY <1>1
<1>5. Len(requests) \in Nat /\ Len(rest) \in Nat
  BY <1>1, <1>3, LenProperties
<1>6. CASE rest = <<>>
  <2>1. Len(rest) = 0
    BY <1>6, EmptySeq
  <2>2. Len(requests) = 1
    BY <1>3, <1>5, <2>1
  <2> QED
    BY <1>2, <1>3, <1>4, <1>6, <2>2
<1>7. CASE rest # <<>>
  <2>1. Len(rest) \in Nat \ {0}
    BY <1>3, <1>7, EmptySeq
  <2>2. rest[Len(rest)] = requests[Len(requests)]
    BY <1>3, <1>5, <2>1
  <2> QED
    BY <1>2, <1>3, <1>7, <2>2
<1> QED
  BY <1>6, <1>7

-----------------------------------------------------------------------------
\* The selector is only ever asked for, and in, one of its modes.
SelectorTyped ==
  selector \in {"LOCAL", "REMOTE"} /\ calling \in {"NONE", "LOCAL", "REMOTE"}

LEMMA SelectorInit == Init => SelectorTyped
<1> QED
  BY OperationModeAssumption DEF Init, SelectorTyped

LEMMA SelectorNext == SelectorTyped /\ [Next]_vars => SelectorTyped'
<1> SUFFICES ASSUME SelectorTyped, [Next]_vars PROVE SelectorTyped'
  OBVIOUS
<1> USE DEF SelectorTyped
<1>1. CASE SelectorServes
  BY <1>1 DEF SelectorServes
<1>2. CASE OnTimer
  <2>1. CASE UNCHANGED compatVars
    BY <1>2, <2>1 DEF OnTimer, gateVars, compatVars
  <2>2. CASE SetMode(current_mode)
    BY <1>2, <2>2 DEF OnTimer, gateVars, compatVars, SetMode
  <2> QED
    BY <1>2, <2>1, <2>2 DEF OnTimer
<1>3. CASE UNCHANGED <<selector, calling>>
  BY <1>3
<1> QED
  BY <1>1, <1>2, <1>3
  DEF Next, vars, Service, External, Message, EnableControl, DisableControl,
      ChangeOperationMode, DriverOverrides, OtherEngages, OnRejected,
      OnControlModeReport, OnCompatibleStatus, GateReceivesMode,
      GateReceivesEngage, GateReceivesState, VehicleAccepts, VehicleRejects,
      gateVars, compatVars

-----------------------------------------------------------------------------
LEMMA ControlInit == Init => ControlInv
<1> SUFFICES ASSUME Init PROVE ControlInv
  OBVIOUS
<1>1. << >> \in Seq(ControlModes)
  BY EmptySeq
<1> QED
  BY <1>1, NoTransitionTyped
  DEF Init, ControlInv, ControlTyped, GivenUp, OperationModes, ManualModes

\* The services.
LEMMA ServiceKeeps == ControlInv /\ Service => ControlInv'
<1> SUFFICES ASSUME ControlInv, Service PROVE ControlInv'
  OBVIOUS
<1>1. CASE EnableControl
  <2>1. transition' = NewTransition(TRUE, "NONE") /\ granted'
    BY <1>1 DEF EnableControl
  <2>2. UNCHANGED <<current_mode, requests, vehicle>>
    BY <1>1 DEF EnableControl, vehicleVars
  <2> QED
    BY <2>1, <2>2, NewTransitionTyped DEF ControlInv, ControlTyped
<1>2. CASE DisableControl
  <2>1. /\ transition' = NoTransition /\ granted' = FALSE
        /\ ChangeControlMode("MANUAL") /\ UNCHANGED <<current_mode, vehicle>>
    BY <1>2 DEF DisableControl
  <2>2. requests' \in Seq(ControlModes) /\ GivenUp'
    BY <2>1, SentIsLast DEF ControlInv, GivenUp, ControlModes
  <2> QED
    BY <2>1, <2>2, NoTransitionTyped DEF ControlInv, ControlTyped
<1>3. ASSUME NEW mode \in Modes, ChangeOperationMode(mode)
      PROVE  ControlInv'
  <2>1. current_mode' = mode /\ UNCHANGED <<requests, vehicle, granted>>
    BY <1>3 DEF ChangeOperationMode, vehicleVars
  <2>2. transition' = NewTransition(FALSE, current_mode) \/ transition' = transition
    BY <1>3 DEF ChangeOperationMode
  <2>3. mode \in OperationModes
    BY OperationModeAssumption
  <2>4. transition' \in Transitions /\ (transition'.is_engage_requested => granted)
    BY <2>2, NewTransitionTyped DEF ControlInv, ControlTyped
  <2> QED
    BY <2>1, <2>3, <2>4 DEF ControlInv, ControlTyped, GivenUp
<1> QED
  BY <1>1, <1>2, <1>3 DEF Service

-----------------------------------------------------------------------------
\* processTransition, on the transition t that the timer has found.
LEMMA ProcessKeeps ==
  ASSUME ControlInv, NEW t \in Transitions, NEW mode \in OperationModes, NEW sync,
         t.is_engage_requested => granted,
         ProcessTransition(t, mode, sync), UNCHANGED vehicle
  PROVE  ControlInv'
<1>1. CASE UNCHANGED <<requests, granted>> /\ transition' = t /\ current_mode' = mode
  BY <1>1 DEF ControlInv, ControlTyped, GivenUp
<1>2. CASE t.active /\ CancelTransition(t.previous, mode, sync)
  <2>1. transition' = NoTransition
    BY <1>2 DEF CancelTransition
  <2>2. CASE t.previous # "NONE"
    <3>1. current_mode' = t.previous /\ UNCHANGED <<requests, granted>>
      BY <1>2, <2>2 DEF CancelTransition
    <3>2. t.previous \in OperationModes
      BY <2>2 DEF Transitions
    <3> QED
      BY <2>1, <3>1, <3>2, NoTransitionTyped DEF ControlInv, ControlTyped, GivenUp
  <2>3. CASE t.previous = "NONE"
    <3>1. current_mode' = mode /\ ChangeControlMode("MANUAL") /\ granted' = FALSE
      BY <1>2, <2>3 DEF CancelTransition
    <3>2. requests' \in Seq(ControlModes) /\ GivenUp'
      BY <3>1, SentIsLast DEF ControlInv, GivenUp, ControlModes
    <3> QED
      BY <2>1, <3>1, <3>2, NoTransitionTyped DEF ControlInv, ControlTyped
  <2> QED
    BY <2>2, <2>3
<1>3. CASE ContinueTransition(t, mode) /\ current_mode' = mode /\ UNCHANGED granted
  <2> DEFINE engaging == [t EXCEPT !.is_engage_completed = @ \/ control]
  <2>1. CASE EngageReady(t, mode) /\ ChangeControlMode("AUTONOMOUS")
             /\ transition' = [t EXCEPT !.is_engage_requested = FALSE]
    <3>1. granted
      BY <2>1 DEF EngageReady
    <3>2. requests' \in Seq(ControlModes)
      BY <2>1, SentIsLast DEF ControlInv, ControlModes
    <3>3. transition' \in Transitions
      BY <2>1 DEF Transitions
    <3> QED
      BY <1>3, <3>1, <3>2, <3>3 DEF ControlInv, ControlTyped
  <2>2. CASE transition' \in {NoTransition, engaging} /\ UNCHANGED requests
    <3>1. engaging.is_engage_requested = t.is_engage_requested
      BY DEF Transitions
    <3>2. engaging \in Transitions
      BY DEF Transitions
    <3>3. transition' \in Transitions /\ (transition'.is_engage_requested => granted)
      BY <2>2, <3>1, <3>2, NoTransitionTyped
    <3> QED
      BY <1>3, <2>2, <3>3 DEF ControlInv, ControlTyped, GivenUp
  <2> QED
    BY <1>3, <2>1, <2>2 DEF ContinueTransition
<1> QED
  BY <1>1, <1>2, <1>3 DEF ProcessTransition

LEMMA TimerKeeps == ControlInv /\ SelectorTyped /\ OnTimer => ControlInv'
<1> SUFFICES ASSUME ControlInv, SelectorTyped, OnTimer PROVE ControlInv'
  OBVIOUS
<1> DEFINE t == [transition EXCEPT !.age = IF transition.active
                                           THEN Older(@, EffectiveTimeout) ELSE @]
           sync == SyncAfterTimer
           mode == ReflectedMode(sync)
<1>1. transition \in Transitions /\ current_mode \in OperationModes
  BY DEF ControlInv, ControlTyped
<1>2. t \in Transitions /\ t.is_engage_requested = transition.is_engage_requested
  <2>1. transition.age \in Nat
    BY <1>1 DEF Transitions
  <2>2. Older(transition.age, EffectiveTimeout) \in Nat
    BY <2>1 DEF Older
  <2> QED
    BY <1>1, <2>1, <2>2 DEF Transitions
<1>3. mode \in OperationModes
  <2>1. CASE mode = current_mode
    BY <1>1, <2>1
  <2>2. CASE mode = CompatibleMode /\ CompatibleMode # "NONE"
    BY <2>2 DEF CompatibleMode, OperationModes, ManualModes, SelectorTyped
  <2> QED
    BY <2>1, <2>2 DEF ReflectedMode
<1>4. /\ ProcessTransition(t, mode, IF mode = CompatibleMode THEN Never ELSE sync)
      /\ UNCHANGED vehicle
  BY DEF OnTimer
<1> QED
  BY <1>2, <1>3, <1>4, ProcessKeeps DEF ControlInv

-----------------------------------------------------------------------------
\* The vehicle and the answers.
LEMMA VehicleKeeps == ControlInv /\ (VehicleAccepts \/ VehicleRejects) => ControlInv'
<1> SUFFICES ASSUME ControlInv, VehicleAccepts \/ VehicleRejects PROVE ControlInv'
  OBVIOUS
<1>1. /\ requests # <<>> /\ requests' = Tail(requests)
      /\ UNCHANGED <<transition, current_mode, granted>>
  BY DEF VehicleAccepts, VehicleRejects, nodeVars
<1>2. /\ Head(requests) \in ControlModes
      /\ requests' \in Seq(ControlModes)
      /\ requests' = <<>> => requests[Len(requests)] = Head(requests)
      /\ requests' # <<>> => requests'[Len(requests')] = requests[Len(requests)]
  BY <1>1, ServedLeavesLast DEF ControlInv
<1>3. vehicle' \in BOOLEAN
  BY DEF VehicleAccepts, VehicleRejects, ControlInv, ControlTyped
<1>4. ASSUME ~granted PROVE GivenUp'
  <2>1. requests[Len(requests)] = "MANUAL"
    BY <1>1, <1>4 DEF ControlInv, GivenUp
  <2>2. CASE requests' = <<>>
    <3>1. Head(requests) = "MANUAL"
      BY <1>2, <2>1, <2>2
    <3>2. vehicle' = FALSE
      BY <3>1 DEF VehicleAccepts, VehicleRejects
    <3> QED
      BY <2>2, <3>2 DEF GivenUp
  <2>3. CASE requests' # <<>>
    BY <1>2, <2>1, <2>3 DEF GivenUp
  <2> QED
    BY <2>2, <2>3
<1> QED
  BY <1>1, <1>2, <1>3, <1>4 DEF ControlInv, ControlTyped

LEMMA OverrideKeeps == ControlInv /\ DriverOverrides => ControlInv'
<1> SUFFICES ASSUME ControlInv, DriverOverrides PROVE ControlInv'
  OBVIOUS
<1>1. /\ vehicle' = FALSE
      /\ UNCHANGED <<transition, current_mode, requests, granted>>
  BY DEF DriverOverrides, nodeVars
<1>2. GivenUp => GivenUp'
  BY <1>1 DEF GivenUp
<1> QED
  BY <1>1, <1>2 DEF ControlInv, ControlTyped

LEMMA RejectedKeeps == ControlInv /\ OnRejected => ControlInv'
<1> SUFFICES ASSUME ControlInv, OnRejected PROVE ControlInv'
  OBVIOUS
<1>1. UNCHANGED <<current_mode, requests, vehicle, granted>>
  BY DEF OnRejected
<1>2. transition \in Transitions
  BY DEF ControlInv, ControlTyped
<1>3. /\ transition' \in Transitions
      /\ transition'.is_engage_requested = transition.is_engage_requested
  <2>1. \/ transition' = transition
        \/ transition' = [transition EXCEPT !.is_engage_failed = TRUE]
    BY DEF OnRejected
  <2> QED
    BY <1>2, <2>1 DEF Transitions
<1> QED
  BY <1>1, <1>3 DEF ControlInv, ControlTyped, GivenUp

LEMMA ControlNext == ControlInv /\ SelectorTyped /\ [Next]_vars => ControlInv'
<1> SUFFICES ASSUME ControlInv, SelectorTyped, [Next]_vars PROVE ControlInv'
  OBVIOUS
<1>1. CASE Service
  BY <1>1, ServiceKeeps
<1>2. CASE OnTimer
  BY <1>2, TimerKeeps
<1>3. CASE VehicleAccepts \/ VehicleRejects
  BY <1>3, VehicleKeeps
<1>4. CASE DriverOverrides
  BY <1>4, OverrideKeeps
<1>5. CASE OnRejected
  BY <1>5, RejectedKeeps
<1>6. CASE UNCHANGED <<transition, current_mode, requests, vehicle, granted>>
  BY <1>6 DEF ControlInv, ControlTyped, GivenUp
<1> QED
  BY <1>1, <1>2, <1>3, <1>4, <1>5, <1>6
  DEF Next, vars, External, Message, OtherEngages, OnControlModeReport,
      OnCompatibleStatus, GateReceivesMode, GateReceivesEngage,
      GateReceivesState, SelectorServes, nodeVars, vehicleVars

\* Whatever answers, reports, overrides and timeouts cross, the vehicle is left
\* under the control of Autoware only on a request that still stands.
THEOREM ControlIsGranted == Spec => []ControlNeedsGrant
<1>1. ControlInv => ControlNeedsGrant
  BY DEF ControlInv, GivenUp, ControlNeedsGrant
<1> QED
  BY <1>1, ControlInit, ControlNext, SelectorInit, SelectorNext, PTL DEF Spec
=============================================================================
