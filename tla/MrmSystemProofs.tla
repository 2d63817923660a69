---------------------------- MODULE MrmSystemProofs ----------------------------
(***************************************************************************)
(* Proofs about MrmSystem, for every value of its constants: type          *)
(* correctness, and that the operators run exactly the manoeuvre that the  *)
(* handler has stored or is in the middle of changing.                     *)
(***************************************************************************)
EXTENDS MrmSystem, TLAPS

USE DEF H!Mrms, H!Behaviors, H!MrmStates

\* The state of the handler stays within its types: each of its callbacks, run
\* with any message, and time.
LEMMA HandlerTyped ==
  ASSUME H!TypeOK, HandlerStep \/ Serve
  PROVE  H!TypeOK'
<1>1. H!Levels = 0 .. 3
  BY DEF H!Levels, H!NoFault, H!SinglePointFault
<1>2. /\ TimeoutHazardStatus \in Nat
      /\ TimeoutTakeoverRequest \in Nat
  BY MrmSystemAssumption DEF H!HandlerAssumption
<1>3. ASSUME NEW h \in H!HazardStatuses, H!OnHazardStatusStamped(h)
      PROVE  H!TypeOK'
  BY <1>2, <1>3 DEF H!TypeOK, H!OnHazardStatusStamped
<1>4. ASSUME NEW m \in H!ControlModes, H!OnControlMode(m)
      PROVE  H!TypeOK'
  BY <1>4 DEF H!TypeOK, H!OnControlMode
<1>5. ASSUME NEW v \in H!Velocities, H!OnOdometry(v)
      PROVE  H!TypeOK'
  BY <1>5 DEF H!TypeOK, H!OnOdometry
<1>6. ASSUME NEW b \in H!Mrms, H!OnMrmStatus(b)
      PROVE  H!TypeOK'
  BY <1>6 DEF H!TypeOK, H!OnMrmStatus
<1>7. H!PublishControlCommands => command' \in H!Commands
  BY DEF H!PublishControlCommands, H!Commands
<1>8. CASE H!OnTimerHazardTimeout
  BY <1>7, <1>8 DEF H!TypeOK, H!OnTimerHazardTimeout
<1>9. CASE H!OnTimer
  <2>1. H!UpdatedMrmState \in H!MrmStates
    BY DEF H!TypeOK, H!UpdatedMrmState
  <2>2. \A s : H!OperatedBehavior(s) \in H!Behaviors
    BY DEF H!TypeOK, H!OperatedBehavior, H!CurrentMrmBehavior
  <2>3. \/ takeover' = TRUE /\ takeoverAge' = 0
        \/ takeover' = takeover /\ takeoverAge' = takeoverAge
    BY <1>9, Zenon DEF H!OnTimer, H!RequestTakeover
  <2>4. takeover' \in BOOLEAN
    BY <2>3, Zenon DEF H!TypeOK
  <2>5. takeoverAge' \in 0 .. TimeoutTakeoverRequest + 1
    BY <1>2, <2>3 DEF H!TypeOK
  <2>6. mrm_state' \in H!MrmStates /\ target' \in H!Behaviors /\ behavior' = behavior
    BY <1>9, <2>1, <2>2, Zenon DEF H!OnTimer, H!OperateMrm
  <2>7. \/ /\ report' = [state |-> mrm_state', behavior |-> behavior]
           /\ call' = call
        \/ /\ target' # behavior
           /\ \/ behavior # "NONE" /\ call' = H!Request(behavior, FALSE)
              \/ behavior = "NONE" /\ call' = H!Request(target', TRUE)
           /\ report' = report
    BY <1>9, Zenon DEF H!OnTimer, H!OperateMrm
  <2>8. /\ behavior \in H!Behaviors
        /\ report \in H!Reports
        /\ call \in H!Calls \cup {H!Idle}
    BY DEF H!TypeOK
  <2>9. ASSUME NEW b \in H!Mrms, NEW o \in BOOLEAN
        PROVE  H!Request(b, o) \in H!Calls
    BY DEF H!Request, H!Calls
  <2>10. target' # "NONE" => target' \in H!Mrms
    BY <2>6
  <2>11. behavior # "NONE" => behavior \in H!Mrms
    BY <2>8
  <2>12. call' \in H!Calls \cup {H!Idle}
    BY <2>7, <2>8, <2>9, <2>10, <2>11
  <2>13. report' \in H!Reports
    <3>1. CASE report' = report
      BY <3>1, <2>8
    <3>2. CASE report' = [state |-> mrm_state', behavior |-> behavior]
      BY <3>2, <2>8, <2>6 DEF H!Reports
    <3> QED
      BY <3>1, <3>2, <2>7
  <2> QED
    BY <1>7, <1>9, <2>4, <2>5, <2>6, <2>12, <2>13 DEF H!OnTimer, H!TypeOK, H!inputs
<1>10. CASE H!CallNextMrm
  BY <1>10 DEF H!TypeOK, H!CallNextMrm, H!inputs, H!Request, H!Calls
<1>11. CASE H!FinishTimer
  BY <1>11 DEF H!TypeOK, H!FinishTimer, H!inputs, H!Reports
<1>12. CASE H!Answer
  BY <1>12 DEF H!TypeOK, H!Answer, H!inputs, H!Calls
<1>13. CASE H!Tick
  BY <1>2, <1>13 DEF H!TypeOK, H!Tick, H!Older
<1> QED
  BY <1>3, <1>4, <1>5, <1>6, <1>8, <1>9, <1>10, <1>11, <1>12, <1>13
  DEF HandlerStep, Serve, ServeComfortableStop, ServeEmergencyStop,
      H!Subscription, H!Timer

\* The emergency stop operator: calcTargetAcceleration and the stored commands
\* stay integers, whatever is received and however late the timer is.
LEMMA EmergencyStopTyped ==
  ASSUME ES!TypeOK
  PROVE  /\ \A operate \in BOOLEAN : ES!OperateEmergencyStop(operate) => ES!TypeOK'
         /\ \A c \in ES!InputCommands : ES!OnControlCommand(c) => ES!TypeOK'
         /\ \A dt \in 0 .. MaxDt : ES!OnTimer(dt) => ES!TypeOK'
<1>1. /\ TargetDeceleration \in Nat /\ TargetJerkDown \in Nat /\ MaxDt \in Nat
      /\ MaxSpeed \in Nat /\ MaxBrake \in Nat /\ MaxDrive \in Nat
  BY MrmSystemAssumption DEF ES!EmergencyStopAssumption
<1>2. ASSUME NEW operate \in BOOLEAN, ES!OperateEmergencyStop(operate)
      PROVE  ES!TypeOK'
  BY <1>2 DEF ES!OperateEmergencyStop, ES!TypeOK, ES!MrmBehaviorStates
<1>3. ASSUME NEW c \in ES!InputCommands, ES!OnControlCommand(c)
      PROVE  ES!TypeOK'
  <2>1. c \in [speed : Int, acc : Int]
    BY <1>1 DEF ES!InputCommands
  <2> QED
    BY <1>3, <2>1 DEF ES!OnControlCommand, ES!TypeOK
<1>4. ASSUME NEW dt \in 0 .. MaxDt, ES!OnTimer(dt)
      PROVE  ES!TypeOK'
  <2>1. ES!TargetAcceleration \in Int /\ ES!TargetJerk \in Int /\ dt \in Int
    BY <1>1 DEF ES!TargetAcceleration, ES!TargetJerk
  <2>2. es_prev.speed + es_prev.acc * dt \in Int /\ es_prev.acc + ES!TargetJerk * dt \in Int
    BY <2>1 DEF ES!TypeOK
  <2>3. ES!CalcTargetAcceleration(es_prev, dt) \in [speed : Int, acc : Int]
    BY <2>1, <2>2 DEF ES!CalcTargetAcceleration, ES!AtLeast
  <2> QED
    BY <1>4, <2>3 DEF ES!OnTimer, ES!TypeOK
<1> QED
  BY <1>2, <1>3, <1>4

\* The three nodes start within their types.
LEMMA TypeCorrectInit == Init => TypeOK
<1>1. H!Init => H!TypeOK
  <2>1. [hazard_light |-> "NO_COMMAND", gear |-> "DRIVE"] \in H!Commands
    BY DEF H!Commands
  <2>2. [state |-> "NORMAL", behavior |-> "NONE"] \in H!Reports
    BY DEF H!Reports
  <2>3. 0 \in 0 .. TimeoutHazardStatus + 1 /\ 0 \in 0 .. TimeoutTakeoverRequest + 1
    BY MrmSystemAssumption DEF H!HandlerAssumption
  <2> QED
    BY <2>1, <2>2, <2>3 DEF H!Init, H!TypeOK, H!ControlModes, H!Velocities
<1>2. CS!Init => CS!TypeOK
  BY DEF CS!Init, CS!TypeOK
<1>3. ES!Init => ES!TypeOK
  <2>1. ES!Zero \in [speed : Int, acc : Int]
    BY DEF ES!Zero
  <2> QED
    BY <2>1 DEF ES!Init, ES!TypeOK, ES!MrmBehaviorStates
<1> QED
  BY <1>1, <1>2, <1>3 DEF Init, TypeOK

\* Every callback of the three nodes keeps the types.
LEMMA TypeCorrectStep == TypeOK /\ [Next]_vars => TypeOK'
<1> SUFFICES ASSUME TypeOK, [Next]_vars
             PROVE  TypeOK'
  OBVIOUS
<1>1. CASE HandlerStep
  BY <1>1, HandlerTyped DEF HandlerStep, TypeOK, csVars, esVars, CS!TypeOK, ES!TypeOK
<1>2. CASE ServeComfortableStop
  <2>1. CS!TypeOK'
    BY <1>2 DEF ServeComfortableStop, CS!OperateComfortableStop, CS!TypeOK
  <2> QED
    BY <1>2, <2>1, HandlerTyped DEF Serve, ServeComfortableStop, TypeOK, esVars, ES!TypeOK
<1>3. CASE ServeEmergencyStop
  <2>1. call.operate \in BOOLEAN
    BY <1>3 DEF ServeEmergencyStop, TypeOK, H!TypeOK, H!Calls, H!Idle
  <2>2. ES!TypeOK'
    BY <1>3, <2>1, EmergencyStopTyped DEF ServeEmergencyStop, TypeOK
  <2> QED
    BY <1>3, <2>2, HandlerTyped DEF Serve, ServeEmergencyStop, TypeOK, csVars, CS!TypeOK
<1>4. CASE OperatorStep
  <2>1. ES!TypeOK'
    BY <1>4, EmergencyStopTyped DEF OperatorStep, TypeOK
  <2> QED
    BY <1>4, <2>1 DEF OperatorStep, TypeOK, handlerVars, csVars, H!TypeOK, CS!TypeOK
<1>5. CASE UNCHANGED vars
  BY <1>5 DEF vars, handlerVars, csVars, esVars, TypeOK, H!TypeOK, CS!TypeOK, ES!TypeOK
<1> QED
  BY <1>1, <1>2, <1>3, <1>4, <1>5 DEF Next, Serve

\* The whole system stays within its types.
THEOREM TypeCorrect == Spec => []TypeOK
BY TypeCorrectInit, TypeCorrectStep, PTL DEF Spec

-----------------------------------------------------------------------------
(* The operators and the handler agree.                                    *)
(*                                                                         *)
(* None of the three properties of MrmSystem is inductive: that at most    *)
(* one operator runs depends on which one the pending call addresses, and  *)
(* that on what was stored when the call was made.                         *)

\* The manoeuvre that runs, read off the handler alone.
Expected ==
  IF call = H!Idle THEN behavior
  ELSE IF call.answered THEN IF call.operate THEN target ELSE "NONE"
  ELSE IF call.operate THEN "NONE" ELSE behavior

Runs(b) ==
  /\ cs_state = "OPERATING" <=> b = "COMFORTABLE_STOP"
  /\ es_state = "OPERATING" <=> b = "EMERGENCY_STOP"

\* A pending call starts the target or cancels the stored behavior.
CallAddressesChange ==
  call # H!Idle =>
    /\ target # behavior
    /\ call.operate => call.to = target
    /\ ~call.operate => call.to = behavior

\* Between two cycles the behavior published is the one stored.
IdleIsReported == call = H!Idle => report.behavior = behavior

IInv == TypeOK /\ Runs(Expected) /\ CallAddressesChange /\ IdleIsReported

\* What the handler's own steps do to the manoeuvre it expects: nothing.
LEMMA HandlerKeepsExpected ==
  ASSUME IInv, HandlerStep
  PROVE  Expected' = Expected /\ CallAddressesChange' /\ IdleIsReported'
<1>1. /\ behavior \in H!Behaviors
      /\ call \in H!Calls \cup {H!Idle}
      /\ report \in H!Reports
  BY DEF IInv, TypeOK, H!TypeOK
<1>2. CASE /\ call' = call /\ behavior' = behavior
           /\ target' = target /\ report' = report
  BY <1>2 DEF IInv, Expected, CallAddressesChange, IdleIsReported
<1>3. CASE H!OnTimer
  <2>1. call = H!Idle /\ behavior' = behavior
    BY <1>3, Zenon DEF H!OnTimer, H!Listening
  <2>2. \/ /\ report' = [state |-> mrm_state', behavior |-> behavior]
           /\ call' = call
        \/ /\ target' # behavior
           /\ \/ behavior # "NONE" /\ call' = H!Request(behavior, FALSE)
              \/ behavior = "NONE" /\ call' = H!Request(target', TRUE)
    BY <1>3, Zenon DEF H!OnTimer, H!OperateMrm
  <2>3. CASE /\ report' = [state |-> mrm_state', behavior |-> behavior]
             /\ call' = call
    BY <2>1, <2>3 DEF Expected, CallAddressesChange, IdleIsReported
  <2>4. CASE target' # behavior /\ behavior # "NONE" /\ call' = H!Request(behavior, FALSE)
    BY <2>1, <2>4 DEF Expected, CallAddressesChange, IdleIsReported, H!Request, H!Idle
  <2>5. CASE target' # behavior /\ behavior = "NONE" /\ call' = H!Request(target', TRUE)
    BY <2>1, <2>5 DEF Expected, CallAddressesChange, IdleIsReported, H!Request, H!Idle
  <2> QED
    BY <2>2, <2>3, <2>4, <2>5
<1>4. CASE H!CallNextMrm
  BY <1>4 DEF H!CallNextMrm, IInv, Expected, CallAddressesChange, IdleIsReported,
              H!Request, H!Idle
<1>5. CASE H!FinishTimer
  BY <1>5 DEF H!FinishTimer, IInv, Expected, CallAddressesChange, IdleIsReported, H!Idle
<1> QED
  <2>1. CASE H!Subscription
    BY <1>2, <2>1 DEF H!Subscription, H!OnHazardStatusStamped, H!OnControlMode,
                      H!OnOdometry, H!OnMrmStatus
  <2>2. CASE H!OnTimerHazardTimeout
    BY <1>2, <2>2 DEF H!OnTimerHazardTimeout
  <2>3. CASE H!Tick
    BY <1>2, <2>3 DEF H!Tick
  <2> QED
    BY <1>3, <1>4, <1>5, <2>1, <2>2, <2>3 DEF HandlerStep, H!Timer

\* An operator that serves a call does what the handler will expect of it, and
\* the other operator was not running.
LEMMA ServeMeetsExpected ==
  ASSUME IInv, Serve
  PROVE  Runs(Expected)' /\ CallAddressesChange' /\ IdleIsReported'
<1>1. /\ behavior \in H!Behaviors
      /\ target \in H!Behaviors
      /\ call \in H!Calls
  BY DEF IInv, TypeOK, H!TypeOK, Serve, ServeComfortableStop, ServeEmergencyStop, H!Answer
<1>2. /\ call # H!Idle /\ ~call.answered
      /\ call' = [call EXCEPT !.answered = TRUE]
      /\ behavior' = behavior /\ target' = target /\ report' = report
  BY DEF Serve, ServeComfortableStop, ServeEmergencyStop, H!Answer
<1>3. /\ call'.to = call.to /\ call'.operate = call.operate /\ call'.answered
      /\ call' # H!Idle
  BY <1>1, <1>2 DEF H!Calls, H!Idle
<1>4. CallAddressesChange' /\ IdleIsReported'
  BY <1>2, <1>3 DEF IInv, CallAddressesChange, IdleIsReported
<1>5. /\ call.operate => Expected = "NONE" /\ Expected' = call.to
      /\ ~call.operate => Expected = call.to /\ Expected' = "NONE"
  BY <1>2, <1>3 DEF IInv, Expected, CallAddressesChange
<1>6. Runs(Expected)
  BY DEF IInv
<1>7. CASE ServeComfortableStop
  <2>1. /\ call.to = "COMFORTABLE_STOP" /\ es_state' = es_state
        /\ cs_state' = IF call.operate THEN "OPERATING" ELSE "AVAILABLE"
    BY <1>7 DEF ServeComfortableStop, CS!OperateComfortableStop, esVars
  <2> QED
    BY <1>4, <1>5, <1>6, <2>1 DEF Runs
<1>8. CASE ServeEmergencyStop
  <2>1. /\ call.to = "EMERGENCY_STOP" /\ cs_state' = cs_state
        /\ es_state' = IF call.operate THEN "OPERATING" ELSE "AVAILABLE"
    BY <1>8 DEF ServeEmergencyStop, ES!OperateEmergencyStop, csVars
  <2> QED
    BY <1>4, <1>5, <1>6, <2>1 DEF Runs
<1> QED
  BY <1>7, <1>8 DEF Serve

LEMMA AgreementInit == Init => IInv
<1> SUFFICES ASSUME Init PROVE IInv
  OBVIOUS
<1>1. TypeOK
  BY TypeCorrectInit
<1>2. /\ call = H!Idle /\ behavior = "NONE" /\ report.behavior = "NONE"
      /\ cs_state = "AVAILABLE" /\ es_state = "AVAILABLE"
  BY DEF Init, H!Init, CS!Init, ES!Init
<1> QED
  BY <1>1, <1>2 DEF IInv, Expected, Runs, CallAddressesChange, IdleIsReported

LEMMA AgreementStep == IInv /\ [Next]_vars => IInv'
<1> SUFFICES ASSUME IInv, [Next]_vars
             PROVE  IInv'
  OBVIOUS
<1>1. TypeOK'
  BY TypeCorrectStep DEF IInv
<1>2. CASE HandlerStep
  <2>1. cs_state' = cs_state /\ es_state' = es_state
    BY <1>2 DEF HandlerStep, csVars, esVars
  <2> QED
    BY <1>1, <1>2, <2>1, HandlerKeepsExpected DEF IInv, Runs
<1>3. CASE Serve
  BY <1>1, <1>3, ServeMeetsExpected DEF IInv
<1>4. CASE OperatorStep \/ UNCHANGED vars
  <2>1. /\ call' = call /\ behavior' = behavior /\ target' = target
        /\ report' = report /\ cs_state' = cs_state /\ es_state' = es_state
    BY <1>4 DEF OperatorStep, ES!OnControlCommand, ES!OnTimer, vars, handlerVars,
                csVars, esVars
  <2> QED
    BY <1>1, <2>1 DEF IInv, Expected, Runs, CallAddressesChange, IdleIsReported
<1> QED
  BY <1>2, <1>3, <1>4 DEF Next

\* The invariant of the composed system.
THEOREM OperatorsAgree == Spec => []IInv
<1> QED
  BY AgreementInit, AgreementStep, PTL DEF Spec

\* What the invariant says of the operators in terms of the properties.
LEMMA InvariantImpliesAgreement ==
  IInv => AtMostOneMrmRuns /\ StoredBehaviorRuns /\ PendingCallMatchesOperators
<1> SUFFICES ASSUME IInv
             PROVE  AtMostOneMrmRuns /\ StoredBehaviorRuns /\ PendingCallMatchesOperators
  OBVIOUS
<1>1. /\ behavior \in H!Behaviors /\ target \in H!Behaviors
      /\ call \in H!Calls \cup {H!Idle}
  BY DEF IInv, TypeOK, H!TypeOK
<1>2. Runs(Expected)
  BY DEF IInv
<1>3. AtMostOneMrmRuns
  BY <1>2 DEF AtMostOneMrmRuns, Runs
<1>4. Running = {Expected} \ {"NONE"}
  <2>1. Expected \in H!Behaviors
    BY <1>1 DEF Expected
  <2> QED
    BY <1>2, <2>1 DEF Running, Runs
<1>5. StoredBehaviorRuns
  BY <1>4 DEF StoredBehaviorRuns, Expected, IInv, IdleIsReported
<1>6. PendingCallMatchesOperators
  <2> SUFFICES ASSUME call # H!Idle
               PROVE  Running = (IF call.operate THEN IF call.answered THEN {target} ELSE {}
                                 ELSE IF call.answered THEN {} ELSE {behavior})
    BY DEF PendingCallMatchesOperators
  <2>1. call.to \in H!Mrms
    BY <1>1 DEF H!Calls
  <2>2. /\ call.operate => target # "NONE"
        /\ ~call.operate => behavior # "NONE"
    BY <2>1 DEF IInv, CallAddressesChange
  <2> QED
    BY <1>4, <2>2 DEF Expected
<1> QED
  BY <1>3, <1>5, <1>6

\* Never are both manoeuvres executed at once, for any timeouts, hazard levels
\* and order of service answers.
THEOREM MrmsExclude == Spec => []AtMostOneMrmRuns
BY OperatorsAgree, InvariantImpliesAgreement, PTL

\* Outside a pending call the operator that runs is the one stored by the
\* handler and published in the MrmState.
THEOREM StoredIsRunning == Spec => []StoredBehaviorRuns
BY OperatorsAgree, InvariantImpliesAgreement, PTL

\* During a pending call the operators are where the call says.
THEOREM PendingIsRunning == Spec => []PendingCallMatchesOperators
BY OperatorsAgree, InvariantImpliesAgreement, PTL

-----------------------------------------------------------------------------
(* What is selected, and what is promised.                                 *)

\* What the pending calls establish is what the state and the hazard status
\* select, neither of which changes while the handler is blocked; the report of the
\* cycle before names what was stored then; and NORMAL is only decided with a
\* manoeuvre stored when the status says so.
SelectionInv ==
  /\ IInv
  /\ report.behavior = behavior
  /\ call = H!Idle /\ mrm_state = "NORMAL" => behavior = "NONE"
  /\ call # H!Idle =>
       /\ target = H!OperatedBehavior(mrm_state)
       /\ mrm_state = "MRM_OPERATING" => H!IsEmergency
       /\ hazard # NoHazard
       /\ mrm_state = "NORMAL" /\ behavior # "NONE" => ~H!IsEmergency \/ H!IsTakeoverDone

\* updateMrmState decides on MRM_OPERATING only while there is an emergency.
LEMMA OperatingNeedsEmergency ==
  H!UpdatedMrmState = "MRM_OPERATING" => H!IsEmergency
<1> QED
  BY DEF H!UpdatedMrmState

\* updateMrmState goes back to NORMAL only at the end of the emergency or when the
\* driver has taken over.
LEMMA NormalNeedsRecovery ==
  mrm_state # "NORMAL" /\ H!UpdatedMrmState = "NORMAL" => ~H!IsEmergency \/ H!IsTakeoverDone
<1> QED
  BY DEF H!UpdatedMrmState

\* What a whole cycle of the timer selects: it either calls an operator, or ends
\* with the report of what is stored already.
LEMMA TimerSelects ==
  ASSUME SelectionInv, H!OnTimer
  PROVE  /\ call = H!Idle /\ hazard # NoHazard
         /\ UNCHANGED <<hazard, behavior, control_mode>>
         /\ mrm_state' = H!UpdatedMrmState
         /\ target' = H!OperatedBehavior(mrm_state)'
         /\ \/ target' = behavior /\ call' = call
               /\ report' = [state |-> mrm_state', behavior |-> behavior]
            \/ target' # behavior /\ call' # H!Idle /\ report' = report
<1>1. /\ call = H!Idle /\ hazard # NoHazard
      /\ UNCHANGED <<hazard, behavior, control_mode>> /\ mrm_state' = H!UpdatedMrmState
  BY Zenon DEF H!OnTimer, H!Listening, H!IsDataReady, H!inputs
<1>2. target' = H!OperatedBehavior(mrm_state')
  BY Zenon DEF H!OnTimer, H!OperateMrm
<1>3. target' = H!OperatedBehavior(mrm_state)'
  BY <1>1, <1>2 DEF H!OperatedBehavior, H!CurrentMrmBehavior
<1>4. \/ /\ target' = behavior /\ call' = call
         /\ report' = [state |-> mrm_state', behavior |-> behavior]
      \/ /\ target' # behavior /\ report' = report
         /\ \/ behavior # "NONE" /\ call' = H!Request(behavior, FALSE)
            \/ behavior = "NONE" /\ call' = H!Request(target', TRUE)
  BY Zenon DEF H!OnTimer, H!OperateMrm
<1>5. \A b : b # "NONE" => \A o : H!Request(b, o) # H!Idle
  BY DEF H!Request, H!Idle
<1>6. behavior = "NONE" /\ target' # behavior => target' # "NONE"
  OBVIOUS
<1> QED
  BY <1>1, <1>3, <1>4, <1>5, <1>6

LEMMA SelectionNext == SelectionInv /\ [Next]_vars => SelectionInv'
<1> SUFFICES ASSUME SelectionInv, [Next]_vars PROVE SelectionInv'
  OBVIOUS
<1>1. IInv'
  BY AgreementStep DEF SelectionInv
<1>2. CASE /\ UNCHANGED <<hazard, control_mode, mrm_state, behavior, target, report>>
           /\ call' # H!Idle <=> call # H!Idle
  BY <1>1, <1>2
  DEF SelectionInv, H!OperatedBehavior, H!CurrentMrmBehavior, H!IsEmergency, H!IsTakeoverDone
<1>3. CASE H!Subscription \/ H!OnTimerHazardTimeout
  <2>1. /\ call = H!Idle /\ UNCHANGED <<behavior, call, report>>
        /\ mrm_state' \in {mrm_state, "MRM_OPERATING"}
    BY <1>3 DEF H!Subscription, H!OnHazardStatusStamped, H!OnControlMode, H!OnOdometry,
                H!OnMrmStatus, H!OnTimerHazardTimeout, H!Listening
  <2> QED
    BY <1>1, <2>1 DEF SelectionInv
<1>4. CASE H!OnTimer
  <2>1. report'.behavior = behavior'
    BY <1>4, TimerSelects DEF SelectionInv
  <2>2. mrm_state' = "MRM_OPERATING" => H!IsEmergency'
    BY <1>4, TimerSelects, OperatingNeedsEmergency DEF H!IsEmergency
  <2>3. mrm_state' = "NORMAL" /\ behavior' # "NONE" => (~H!IsEmergency \/ H!IsTakeoverDone)'
    BY <1>4, TimerSelects, NormalNeedsRecovery DEF H!IsEmergency, H!IsTakeoverDone, SelectionInv
  <2>4. mrm_state' = "NORMAL" => target' = "NONE"
    BY <1>4, TimerSelects DEF H!OperatedBehavior
  <2>5. call' = H!Idle /\ mrm_state' = "NORMAL" => behavior' = "NONE"
    BY <1>4, <2>4, TimerSelects
  <2> QED
    BY <1>1, <1>4, <2>1, <2>2, <2>3, <2>5, TimerSelects DEF SelectionInv
<1>5. CASE H!FinishTimer
  <2>1. behavior' = target /\ report' = [state |-> mrm_state, behavior |-> target] /\ call' = H!Idle
    BY <1>5 DEF H!FinishTimer
  <2>2. mrm_state' = mrm_state /\ (mrm_state = "NORMAL" => target = "NONE")
    BY <1>5 DEF H!FinishTimer, SelectionInv, H!OperatedBehavior
  <2> QED
    BY <1>1, <2>1, <2>2 DEF SelectionInv
<1>6. H!CallNextMrm \/ H!Answer \/ H!Tick \/ OperatorStep \/ UNCHANGED vars =>
        /\ UNCHANGED <<hazard, control_mode, mrm_state, behavior, target, report>>
        /\ call' # H!Idle <=> call # H!Idle
  BY DEF H!CallNextMrm, H!Answer, H!Tick, H!inputs, H!Request, H!Idle, H!Calls, OperatorStep,
         handlerVars, vars, SelectionInv, IInv, TypeOK, H!TypeOK
<1> QED
  BY <1>2, <1>3, <1>4, <1>5, <1>6
  DEF Next, HandlerStep, Serve, ServeComfortableStop, ServeEmergencyStop, H!Timer

LEMMA SelectionInit == Init => SelectionInv
<1> QED
  BY AgreementInit DEF Init, H!Init, SelectionInv

\* A single point fault that is stored when MRM_OPERATING is published is always
\* answered by the emergency stop, however long the services took.
THEOREM SinglePointFaultStops == Spec => SinglePointFaultSelectsEmergencyStop
<1>1. SelectionInv /\ [Next]_vars =>
        [(H!OnTimer \/ H!FinishTimer) /\ report' # report
           /\ report'.state = "MRM_OPERATING" /\ hazard.level = H!SinglePointFault
           => report'.behavior = "EMERGENCY_STOP"]_(H!vars)
  <2> SUFFICES ASSUME SelectionInv, H!OnTimer \/ H!FinishTimer, report' # report,
                      report'.state = "MRM_OPERATING", hazard.level = H!SinglePointFault
               PROVE  report'.behavior = "EMERGENCY_STOP"
    OBVIOUS
  <2>1. behavior \in H!Behaviors
    BY DEF SelectionInv, IInv, TypeOK, H!TypeOK
  <2>2. H!OperatedBehavior("MRM_OPERATING") = "EMERGENCY_STOP"
    BY <2>1 DEF H!OperatedBehavior, H!CurrentMrmBehavior
  <2>3. CASE H!OnTimer
    <3>1. mrm_state' = "MRM_OPERATING" /\ report'.behavior = target'
      BY <2>3, TimerSelects
    <3>2. H!OperatedBehavior(mrm_state)' = H!OperatedBehavior("MRM_OPERATING")
      BY <2>3, <3>1, TimerSelects DEF H!OperatedBehavior, H!CurrentMrmBehavior
    <3> QED
      BY <2>2, <2>3, <3>1, <3>2, TimerSelects
  <2>4. CASE H!FinishTimer
    <3>1. call # H!Idle /\ report' = [state |-> mrm_state, behavior |-> target]
      BY <2>4 DEF H!FinishTimer
    <3> QED
      BY <2>2, <3>1 DEF SelectionInv
  <2> QED
    BY <2>3, <2>4
<1> QED
  BY <1>1, SelectionInit, SelectionNext, PTL
  DEF Spec, SinglePointFaultSelectsEmergencyStop, H!SinglePointFaultSelectsEmergencyStop

-----------------------------------------------------------------------------
(* The refinement of MrmPromise.                                           *)

\* The manoeuvre that runs, seen from outside, is the one expected.
LEMMA RunningIsExpected == IInv => RunningMrm = Expected
<1> SUFFICES ASSUME IInv PROVE RunningMrm = Expected
  OBVIOUS
<1>1. Expected \in H!Behaviors
  BY DEF IInv, TypeOK, H!TypeOK, Expected
<1> QED
  BY <1>1 DEF IInv, Runs, RunningMrm

LEMMA RunningWillBeExpected == (IInv => RunningMrm = Expected)'
<1> QED
  BY RunningIsExpected, PTL

\* A manoeuvre that the handler starts is the first one or the escalation to the
\* emergency stop.
LEMMA StartedIsSelectable ==
  ASSUME SelectionInv, call # H!Idle, call.operate
  PROVE  target \in H!Mrms /\ Promise!Selectable(target)
<1>1. /\ behavior \in H!Behaviors /\ target \in H!Behaviors
      /\ call \in H!Calls /\ mrm_state \in H!MrmStates
  BY DEF SelectionInv, IInv, TypeOK, H!TypeOK
<1>2. target # behavior /\ target \in H!Mrms
  BY <1>1 DEF SelectionInv, IInv, CallAddressesChange, H!Calls
<1>3. target = H!CurrentMrmBehavior
  BY <1>1, <1>2 DEF SelectionInv, H!OperatedBehavior
<1>4. behavior = "NONE" \/ (behavior = "COMFORTABLE_STOP" /\ target = "EMERGENCY_STOP")
  BY <1>1, <1>2, <1>3 DEF H!CurrentMrmBehavior
<1> QED
  BY <1>2, <1>4 DEF Promise!Selectable, SelectionInv

\* Between two reports an operator starts what may start, or stops what runs.
LEMMA ServeKeepsPromise ==
  ASSUME SelectionInv, Serve
  PROVE  Promise!Next
<1>1. /\ call \in H!Calls /\ call # H!Idle /\ ~call.answered
      /\ call' = [call EXCEPT !.answered = TRUE]
      /\ behavior' = behavior /\ target' = target /\ report' = report
  BY DEF SelectionInv, IInv, TypeOK, H!TypeOK, Serve, ServeComfortableStop,
         ServeEmergencyStop, H!Answer
<1>2. /\ call'.operate = call.operate /\ call'.answered /\ call' # H!Idle
  BY <1>1 DEF H!Calls, H!Idle
<1>3. RunningMrm = Expected /\ RunningMrm' = Expected'
  <2>1. IInv /\ IInv'
    BY AgreementStep DEF SelectionInv, Next
  <2> QED
    BY <2>1, RunningIsExpected, RunningWillBeExpected
<1>4. CASE call.operate
  <2>1. RunningMrm = "NONE" /\ RunningMrm' = target
    BY <1>1, <1>2, <1>3, <1>4 DEF Expected
  <2>2. Promise!Start(target)
    BY <1>1, <1>4, <2>1, StartedIsSelectable DEF Promise!Start
  <2> QED
    BY <1>1, <1>4, <2>2, StartedIsSelectable DEF Promise!Next
<1>5. CASE ~call.operate
  <2>1. RunningMrm = behavior /\ RunningMrm' = "NONE"
    BY <1>1, <1>2, <1>3, <1>5 DEF Expected
  <2>2. behavior # "NONE"
    BY <1>1, <1>5 DEF SelectionInv, IInv, CallAddressesChange, H!Calls
  <2>3. Promise!Stop
    BY <1>1, <2>1, <2>2 DEF Promise!Stop, SelectionInv
  <2> QED
    BY <2>3 DEF Promise!Next
<1> QED
  BY <1>4, <1>5

\* In an emergency that the error monitor reports from LATENT_FAULT on, there is
\* always a manoeuvre to select.
LEMMA EmergencySelectsMrm ==
  ASSUME EmergencyHazardLevel >= H!LatentFault, H!TypeOK, hazard # NoHazard,
         H!IsEmergency
  PROVE  H!OperatedBehavior("MRM_OPERATING") # "NONE"
<1>1. EmergencyHazardLevel \in 0 .. 3
  BY MrmSystemAssumption
  DEF H!HandlerAssumption, H!Levels, H!NoFault, H!SinglePointFault
<1>2. hazard \in H!HazardStatuses /\ behavior \in H!Behaviors
  BY DEF H!TypeOK
<1>3. hazard.level \in 0 .. 3 /\ hazard.level >= EmergencyHazardLevel
  BY <1>2 DEF H!HazardStatuses, H!IsEmergency, H!Levels, H!NoFault, H!SinglePointFault
<1>4. hazard.level = 2 \/ hazard.level = 3
  BY <1>1, <1>3 DEF H!LatentFault
<1> QED
  BY <1>2, <1>4
  DEF H!OperatedBehavior, H!CurrentMrmBehavior, H!LatentFault, H!SinglePointFault

\* What the handler publishes names the manoeuvre that runs, NORMAL without one
\* and MRM_OPERATING with one.
LEMMA PublishKeepsPromise ==
  ASSUME EmergencyHazardLevel >= H!LatentFault, SelectionInv, SelectionInv',
         HandlerStep, H!OnTimer \/ H!FinishTimer
  PROVE  [Promise!Next]_(Promise!vars)
<1>1. RunningMrm' = RunningMrm /\ RunningMrm = Expected
  <2>1. IInv /\ IInv' /\ Expected' = Expected
    BY HandlerKeepsExpected DEF SelectionInv
  <2> QED
    BY <2>1, RunningIsExpected, RunningWillBeExpected
<1>2. /\ H!TypeOK /\ mrm_state' \in H!MrmStates
      /\ behavior \in H!Behaviors
  BY DEF SelectionInv, IInv, TypeOK, H!TypeOK
<1>3. CASE report' = report
  BY <1>1, <1>3 DEF Promise!vars
<1>4. CASE H!OnTimer /\ report' # report
  <2>1. /\ call = H!Idle /\ target' = behavior /\ hazard # NoHazard
        /\ UNCHANGED <<hazard, behavior>>
        /\ target' = H!OperatedBehavior(mrm_state)'
        /\ report' = [state |-> mrm_state', behavior |-> behavior]
        /\ mrm_state' = "MRM_OPERATING" => H!IsEmergency
    BY <1>4, TimerSelects, OperatingNeedsEmergency
  <2>2. RunningMrm = behavior
    BY <1>1, <2>1 DEF Expected
  <2>3. H!OperatedBehavior(mrm_state)' = H!OperatedBehavior(mrm_state')
    BY <2>1 DEF H!OperatedBehavior, H!CurrentMrmBehavior
  <2>4. mrm_state' = "NORMAL" => behavior = "NONE"
    BY <2>1, <2>3 DEF H!OperatedBehavior
  <2>5. mrm_state' = "MRM_OPERATING" => behavior # "NONE"
    BY <1>2, <2>1, <2>3, EmergencySelectsMrm
  <2>6. Promise!Publish(mrm_state')
    BY <1>1, <2>1, <2>2, <2>4, <2>5 DEF Promise!Publish
  <2> QED
    BY <1>2, <2>6 DEF Promise!Next
<1>5. CASE H!FinishTimer
  <2>1. /\ call # H!Idle /\ call.answered /\ (call.operate \/ target = "NONE")
        /\ report' = [state |-> mrm_state, behavior |-> target]
        /\ mrm_state' = mrm_state /\ hazard' = hazard /\ behavior' = target
    BY <1>5 DEF H!FinishTimer, H!inputs
  <2>2. RunningMrm = target
    BY <1>1, <2>1 DEF Expected
  <2>3. /\ target = H!OperatedBehavior(mrm_state) /\ hazard # NoHazard
        /\ mrm_state = "MRM_OPERATING" => H!IsEmergency
    BY <2>1 DEF SelectionInv
  <2>4. mrm_state = "NORMAL" => target = "NONE"
    BY <2>3 DEF H!OperatedBehavior
  <2>5. mrm_state = "MRM_OPERATING" => target # "NONE"
    BY <1>2, <2>1, <2>3, EmergencySelectsMrm
  <2>6. Promise!Publish(mrm_state')
    BY <1>1, <2>1, <2>2, <2>4, <2>5 DEF Promise!Publish
  <2> QED
    BY <1>2, <2>6 DEF Promise!Next
<1> QED
  BY <1>3, <1>4, <1>5

\* Every step is a step of the promise, or none that it sees.
LEMMA StepKeepsPromise ==
  ASSUME EmergencyHazardLevel >= H!LatentFault, SelectionInv, [Next]_vars
  PROVE  [Promise!Next]_(Promise!vars)
<1>1. SelectionInv'
  BY SelectionNext
<1>2. CASE Serve
  BY <1>2, ServeKeepsPromise
<1>3. CASE HandlerStep /\ (H!OnTimer \/ H!FinishTimer)
  BY <1>1, <1>3, PublishKeepsPromise
<1>4. CASE report' = report /\ (HandlerStep \/ OperatorStep \/ UNCHANGED vars)
  <2>1. cs_state' = cs_state /\ es_state' = es_state
    BY <1>4 DEF HandlerStep, OperatorStep, ES!OnControlCommand, ES!OnTimer, vars,
       csVars, esVars
  <2>2. RunningMrm' = RunningMrm
    BY <2>1 DEF RunningMrm
  <2> QED
    BY <1>4, <2>2 DEF Promise!vars
<1>5. CASE HandlerStep /\ ~(H!OnTimer \/ H!FinishTimer)
  <2>1. report' = report
    BY <1>5 DEF HandlerStep, H!Subscription, H!OnHazardStatusStamped, H!OnControlMode,
       H!OnOdometry, H!OnMrmStatus, H!Timer, H!OnTimerHazardTimeout, H!CallNextMrm, H!Tick
  <2> QED
    BY <1>4, <1>5, <2>1
<1>6. CASE OperatorStep \/ UNCHANGED vars
  <2>1. report' = report
    BY <1>6 DEF OperatorStep, handlerVars, vars
  <2> QED
    BY <1>4, <1>6, <2>1
<1> QED
  BY <1>2, <1>3, <1>5, <1>6 DEF Next

\* What a pending cancel ends is only ended for a recovery or an escalation.
LEMMA CancelHasReason ==
  ASSUME SelectionInv, call # H!Idle, behavior # "NONE"
  PROVE  \/ mrm_state = "NORMAL" /\ (~H!IsEmergency \/ H!IsTakeoverDone)
         \/ /\ behavior = "COMFORTABLE_STOP" /\ target = "EMERGENCY_STOP"
            /\ hazard.level = H!SinglePointFault
<1>1. behavior \in H!Behaviors /\ mrm_state \in H!MrmStates
  BY DEF SelectionInv, IInv, TypeOK, H!TypeOK
<1>2. target # behavior /\ target = H!OperatedBehavior(mrm_state)
  BY DEF SelectionInv, IInv, CallAddressesChange
<1>3. CASE mrm_state = "NORMAL"
  BY <1>3 DEF SelectionInv
<1>4. CASE mrm_state # "NORMAL"
  BY <1>1, <1>2, <1>4 DEF H!OperatedBehavior, H!CurrentMrmBehavior
<1> QED
  BY <1>3, <1>4

\* No manoeuvre ends without a reason that the stored status gave: not when the
\* vehicle stands, the level falls or the status goes late during the cancel.
THEOREM MrmsEndWithReason == Spec => MrmEndsOnRecoveryOrEscalation
<1>1. SelectionInv /\ [Next]_vars =>
        [RunningMrm # "NONE" /\ RunningMrm' = "NONE" =>
           \/ mrm_state = "NORMAL" /\ (~H!IsEmergency \/ H!IsTakeoverDone)
           \/ /\ RunningMrm = "COMFORTABLE_STOP" /\ target = "EMERGENCY_STOP"
              /\ hazard.level = H!SinglePointFault]_vars
  <2> SUFFICES ASSUME SelectionInv, [Next]_vars, RunningMrm # "NONE", RunningMrm' = "NONE"
               PROVE  \/ mrm_state = "NORMAL" /\ (~H!IsEmergency \/ H!IsTakeoverDone)
                      \/ /\ RunningMrm = "COMFORTABLE_STOP" /\ target = "EMERGENCY_STOP"
                         /\ hazard.level = H!SinglePointFault
    OBVIOUS
  <2>1. RunningMrm = Expected
    BY RunningIsExpected DEF SelectionInv
  <2>2. CASE Serve
    <3>1. call # H!Idle /\ ~call.answered /\ IInv
      BY <2>2 DEF Serve, ServeComfortableStop, ServeEmergencyStop, H!Answer, SelectionInv
    <3>2. ~call.operate /\ RunningMrm = behavior /\ behavior # "NONE"
      BY <2>1, <3>1 DEF Expected
    <3> QED
      BY <3>1, <3>2, CancelHasReason
  <2>3. CASE UNCHANGED <<cs_state, es_state>>
    BY <2>3 DEF RunningMrm
  <2>4. HandlerStep \/ OperatorStep \/ UNCHANGED vars => UNCHANGED <<cs_state, es_state>>
    BY DEF HandlerStep, OperatorStep, ES!OnControlCommand, ES!OnTimer, csVars, esVars, vars
  <2> QED
    BY <2>2, <2>3, <2>4 DEF Next
<1> QED
  BY <1>1, SelectionInit, SelectionNext, PTL DEF Spec, MrmEndsOnRecoveryOrEscalation

\* The safety part of PromiseKept: in an installation whose error monitor reports
\* an emergency from LATENT_FAULT on (as shipped), handler, services and operators
\* implement MrmPromise.  With an emergency from SAFE_FAULT on the handler may
\* publish MRM_OPERATING without any manoeuvre.
THEOREM PromiseIsKept ==
  ASSUME EmergencyHazardLevel >= H!LatentFault
  PROVE  Spec => Promise!Safety
<1>1. Init => Promise!Init
  BY DEF Init, H!Init, CS!Init, ES!Init, Promise!Init, RunningMrm
<1>2. SelectionInv /\ [Next]_vars => [Promise!Next]_(Promise!vars)
  BY StepKeepsPromise
<1> QED
  BY <1>1, <1>2, SelectionInit, SelectionNext, PTL DEF Spec, Promise!Safety

-----------------------------------------------------------------------------
(* The ramp of the emergency stop.                                         *)

\* One timer of a running emergency stop, however late it fires.
LEMMA RampStep ==
  ASSUME ES!TypeOK, NEW dt \in 0 .. MaxDt, ES!OnTimer(dt), es_state = "OPERATING"
  PROVE  /\ es_prev.acc >= ES!TargetAcceleration
              => es_prev'.acc \in ES!TargetAcceleration .. es_prev.acc
         /\ es_prev.acc <= 0 /\ es_prev.speed >= 0
              => es_prev'.speed \in 0 .. es_prev.speed
<1>1. dt \in Nat /\ ES!TargetAcceleration \in Int
  BY MrmSystemAssumption DEF ES!EmergencyStopAssumption, ES!TargetAcceleration
<1>2. ES!TargetJerk \in Int /\ ES!TargetJerk <= 0
  BY MrmSystemAssumption DEF ES!EmergencyStopAssumption, ES!TargetJerk
<1>3. es_prev.speed \in Int /\ es_prev.acc \in Int
  BY DEF ES!TypeOK
<1>4. \A x \in Int : x <= 0 => x * dt \in Int /\ x * dt <= 0
  BY <1>1
<1>5. es_prev' = ES!CalcTargetAcceleration(es_prev, dt)
  BY DEF ES!OnTimer
<1>6. CASE ~es_subscribed
  <2>1. es_prev'.speed = 0 /\ es_prev'.acc = ES!TargetAcceleration
    BY <1>5, <1>6 DEF ES!CalcTargetAcceleration
  <2> QED
    BY <1>1, <1>3, <2>1
<1>7. CASE es_subscribed
  <2>1. /\ es_prev'.speed = ES!AtLeast(es_prev.speed + es_prev.acc * dt, 0)
        /\ es_prev'.acc = ES!AtLeast(es_prev.acc + ES!TargetJerk * dt, ES!TargetAcceleration)
    BY <1>5, <1>7 DEF ES!CalcTargetAcceleration
  <2>2. ES!TargetJerk * dt \in Int /\ ES!TargetJerk * dt <= 0
    BY <1>2, <1>4
  <2>3. es_prev.acc <= 0 => es_prev.acc * dt \in Int /\ es_prev.acc * dt <= 0
    BY <1>3, <1>4
  <2> QED
    BY <1>1, <1>3, <2>1, <2>2, <2>3 DEF ES!AtLeast
<1> QED
  BY <1>6, <1>7

\* Only its own timer changes the command that a running emergency stop continues.
LEMMA OnlyTheTimerRamps ==
  ASSUME TypeOK, [Next]_vars, es_state = "OPERATING"
  PROVE  es_prev' = es_prev \/ \E dt \in 0 .. MaxDt : ES!OnTimer(dt)
<1>1. CASE OperatorStep
  BY <1>1 DEF OperatorStep, ES!OnControlCommand
<1>2. CASE HandlerStep \/ Serve \/ UNCHANGED vars
  BY <1>2 DEF HandlerStep, Serve, ServeComfortableStop, ServeEmergencyStop,
     ES!OperateEmergencyStop, vars, esVars
<1> QED
  BY <1>1, <1>2 DEF Next

\* Operated by the handler and fed by the gate with whatever commands, the operator
\* only brakes harder until it brakes as it should.
THEOREM BrakingIsRamped == Spec => ES!BrakingRampsToTarget
<1>1. TypeOK /\ [Next]_vars =>
        [es_state = "OPERATING" /\ es_state' = "OPERATING"
           /\ es_prev.acc >= ES!TargetAcceleration
           => es_prev'.acc \in ES!TargetAcceleration .. es_prev.acc]_(ES!es_vars)
  <2> SUFFICES ASSUME TypeOK, [Next]_vars, es_state = "OPERATING",
                      es_prev.acc >= ES!TargetAcceleration
               PROVE  es_prev'.acc \in ES!TargetAcceleration .. es_prev.acc
    OBVIOUS
  <2>1. es_prev.acc \in Int /\ ES!TargetAcceleration \in Int
    BY MrmSystemAssumption
    DEF ES!EmergencyStopAssumption, ES!TargetAcceleration, TypeOK, ES!TypeOK
  <2> QED
    BY <2>1, OnlyTheTimerRamps, RampStep DEF TypeOK
<1> QED
  BY <1>1, TypeCorrectInit, TypeCorrectStep, PTL DEF Spec, ES!BrakingRampsToTarget

\* Once it brakes, the speed it commands never rises and never turns negative.
THEOREM BrakingSlowsDown == Spec => ES!SpeedFallsWhileBraking
<1>1. TypeOK /\ [Next]_vars =>
        [es_state = "OPERATING" /\ es_state' = "OPERATING"
           /\ es_prev.acc <= 0 /\ es_prev.speed >= 0
           => es_prev'.speed \in 0 .. es_prev.speed]_(ES!es_vars)
  <2> SUFFICES ASSUME TypeOK, [Next]_vars, es_state = "OPERATING",
                      es_prev.acc <= 0, es_prev.speed >= 0
               PROVE  es_prev'.speed \in 0 .. es_prev.speed
    OBVIOUS
  <2>1. es_prev.speed \in Int
    BY DEF TypeOK, ES!TypeOK
  <2> QED
    BY <2>1, OnlyTheTimerRamps, RampStep DEF TypeOK
<1> QED
  BY <1>1, TypeCorrectInit, TypeCorrectStep, PTL DEF Spec, ES!SpeedFallsWhileBraking
=============================================================================
