----------------------------- MODULE FailSafeProofs -----------------------------
(***************************************************************************)
(* For every timeout, hazard level and parameter of the four nodes, with   *)
(* a handler that may be blocked for ever or die at any moment: the gate   *)
(* takes commands from the emergency stop operator exactly as the handler  *)
(* has completed it, and it stops the vehicle when hazard statuses stop.   *)
(***************************************************************************)
EXTENDS FailSafe, TLAPS

USE DEF H!Mrms, H!Behaviors

\* What the argument needs of the types of the handler.
HandlerTyped ==
  /\ behavior \in H!Behaviors /\ target \in H!Behaviors
  /\ call \in H!Calls \cup {H!Idle}
  /\ mrm_state \in H!MrmStates
  /\ report.state \in H!MrmStates

\* A pending call cancels the stored manoeuvre or starts the one selected; the
\* emergency stop is only replaced by none, and NORMAL selects none.
PendingChange ==
  call # H!Idle =>
    /\ target # behavior
    /\ call.to = IF call.operate THEN target ELSE behavior
    /\ behavior = "EMERGENCY_STOP" => target = "NONE"
    /\ mrm_state = "NORMAL" => target = "NONE"

\* The report names the stored behavior, and no manoeuvre is reported as NORMAL.
ReportNamesStored ==
  /\ report.behavior = behavior
  /\ behavior # "NONE" => report.state # "NORMAL"

\* The emergency stop operator runs from the service of its call to the service of
\* its cancel.
StopRunsAsCalled ==
  es_state = "OPERATING" <=>
    IF call = H!Idle THEN behavior = "EMERGENCY_STOP"
    ELSE IF call.answered THEN call.operate /\ target = "EMERGENCY_STOP"
    ELSE ~call.operate /\ behavior = "EMERGENCY_STOP"

\* What the gate was told last.
GateKnowsReport ==
  ~mrm_topic => (system_emergency <=> behavior = "EMERGENCY_STOP")

\* The inductive invariant of the way from the handler to the gate.
AgreementInv ==
  HandlerTyped /\ PendingChange /\ ReportNamesStored /\ StopRunsAsCalled /\ GateKnowsReport

agreementVars == <<behavior, target, call, mrm_state, report, es_state, mrm_topic,
                   system_emergency>>

LEMMA AgreementInit == Init => AgreementInv
<1> SUFFICES ASSUME Init PROVE AgreementInv
  OBVIOUS
<1>1. /\ behavior = "NONE" /\ target = "NONE" /\ call = H!Idle /\ mrm_state = "NORMAL"
      /\ report = [state |-> "NORMAL", behavior |-> "NONE"]
      /\ es_state = "AVAILABLE" /\ mrm_topic = FALSE /\ system_emergency = FALSE
  BY DEF Init, H!Init, ES!Init, G!Init
<1> QED
  BY <1>1 DEF AgreementInv, HandlerTyped, PendingChange, ReportNamesStored,
     StopRunsAsCalled, GateKnowsReport, H!MrmStates

LEMMA AgreementUnchanged == AgreementInv /\ UNCHANGED agreementVars => AgreementInv'
<1> QED
  BY DEF agreementVars, AgreementInv, HandlerTyped, PendingChange, ReportNamesStored,
     StopRunsAsCalled, GateKnowsReport

-----------------------------------------------------------------------------
(* The steps of the handler. *)

\* What one whole cycle of the timer selects, stores and reports.
LEMMA TimerSelects ==
  ASSUME HandlerTyped, H!OnTimer
  PROVE  /\ call = H!Idle /\ behavior' = behavior
         /\ mrm_state' \in H!MrmStates /\ target' \in H!Behaviors
         /\ mrm_state' = "NORMAL" => target' = "NONE"
         /\ behavior = "EMERGENCY_STOP" => target' \in {"NONE", "EMERGENCY_STOP"}
         /\ \/ /\ target' = behavior /\ call' = call
               /\ report' = [state |-> mrm_state', behavior |-> behavior]
            \/ /\ target' # behavior /\ report' = report
               /\ \/ behavior # "NONE" /\ call' = H!Request(behavior, FALSE)
                  \/ behavior = "NONE" /\ call' = H!Request(target', TRUE)
<1>1. /\ call = H!Idle /\ behavior' = behavior /\ mrm_state' = H!UpdatedMrmState
      /\ target' = H!OperatedBehavior(mrm_state')
  BY Zenon DEF H!OnTimer, H!OperateMrm, H!Listening
<1>2. H!UpdatedMrmState \in H!MrmStates
  BY DEF HandlerTyped, H!UpdatedMrmState, H!MrmStates
<1>3. \A s : /\ H!OperatedBehavior(s) \in H!Behaviors
             /\ s = "NORMAL" => H!OperatedBehavior(s) = "NONE"
             /\ behavior = "EMERGENCY_STOP" => H!OperatedBehavior(s) \in {"NONE", "EMERGENCY_STOP"}
  BY DEF HandlerTyped, H!OperatedBehavior, H!CurrentMrmBehavior
<1>4. \/ /\ target' = behavior /\ call' = call
         /\ report' = [state |-> mrm_state', behavior |-> behavior]
      \/ /\ target' # behavior /\ report' = report
         /\ \/ behavior # "NONE" /\ call' = H!Request(behavior, FALSE)
            \/ behavior = "NONE" /\ call' = H!Request(target', TRUE)
  BY Zenon DEF H!OnTimer, H!OperateMrm
<1> QED
  BY <1>1, <1>2, <1>3, <1>4

LEMMA RequestTyped ==
  ASSUME NEW b \in H!Mrms, NEW operate \in BOOLEAN
  PROVE  /\ H!Request(b, operate) \in H!Calls /\ H!Request(b, operate) # H!Idle
         /\ H!Request(b, operate).to = b /\ H!Request(b, operate).operate = operate
         /\ ~H!Request(b, operate).answered
<1> QED
  BY DEF H!Request, H!Calls, H!Idle

LEMMA TimerKeepsAgreement ==
  ASSUME AgreementInv, H!OnTimer, mrm_topic' = (mrm_topic \/ call' = H!Idle),
         UNCHANGED <<es_state, system_emergency>>
  PROVE  AgreementInv'
<1>1. /\ call = H!Idle /\ behavior' = behavior
      /\ mrm_state' \in H!MrmStates /\ target' \in H!Behaviors
      /\ mrm_state' = "NORMAL" => target' = "NONE"
      /\ behavior = "EMERGENCY_STOP" => target' \in {"NONE", "EMERGENCY_STOP"}
  BY TimerSelects DEF AgreementInv
<1>2. CASE /\ target' = behavior /\ call' = call
           /\ report' = [state |-> mrm_state', behavior |-> behavior]
  BY <1>1, <1>2 DEF AgreementInv, HandlerTyped, PendingChange, ReportNamesStored,
     StopRunsAsCalled, GateKnowsReport
<1>3. CASE /\ target' # behavior /\ report' = report
           /\ \/ behavior # "NONE" /\ call' = H!Request(behavior, FALSE)
              \/ behavior = "NONE" /\ call' = H!Request(target', TRUE)
  <2>1. PICK b \in H!Mrms, operate \in BOOLEAN :
          /\ call' = H!Request(b, operate)
          /\ b = IF operate THEN target' ELSE behavior
          /\ operate => behavior = "NONE"
    BY <1>1, <1>3 DEF AgreementInv, HandlerTyped
  <2>2. /\ call' \in H!Calls /\ call' # H!Idle /\ call'.to = b
        /\ call'.operate = operate /\ ~call'.answered
    BY <2>1, RequestTyped
  <2>3. HandlerTyped' /\ ReportNamesStored'
    BY <1>1, <1>3, <2>2 DEF AgreementInv, HandlerTyped, ReportNamesStored
  <2>4. PendingChange'
    BY <1>1, <1>3, <2>1, <2>2 DEF PendingChange
  <2>5. StopRunsAsCalled'
    BY <1>1, <2>1, <2>2 DEF AgreementInv, StopRunsAsCalled
  <2>6. GateKnowsReport'
    BY <1>1, <2>2 DEF AgreementInv, GateKnowsReport
  <2> QED
    BY <2>3, <2>4, <2>5, <2>6 DEF AgreementInv
<1> QED
  BY <1>2, <1>3, TimerSelects DEF AgreementInv

LEMMA ResumeKeepsAgreement ==
  ASSUME AgreementInv, HandlerResumes
  PROVE  AgreementInv'
<1>1. UNCHANGED <<es_state, system_emergency>>
  BY DEF HandlerResumes, esVars, gateVars
<1>2. CASE H!CallNextMrm /\ UNCHANGED mrm_topic
  <2>1. /\ call # H!Idle /\ call.answered /\ ~call.operate /\ target # "NONE"
        /\ call' = H!Request(target, TRUE)
        /\ UNCHANGED <<behavior, target, mrm_state, report>>
    BY <1>2 DEF H!CallNextMrm
  <2>2. target \in H!Mrms
    BY <2>1 DEF AgreementInv, HandlerTyped
  <2>3. /\ call' \in H!Calls /\ call' # H!Idle /\ call'.to = target
        /\ call'.operate = TRUE /\ ~call'.answered
    BY <2>1, <2>2, RequestTyped
  <2>4. HandlerTyped' /\ ReportNamesStored' /\ GateKnowsReport'
    BY <1>1, <1>2, <2>1, <2>3 DEF AgreementInv, HandlerTyped, ReportNamesStored, GateKnowsReport
  <2>5. PendingChange'
    BY <2>1, <2>3 DEF AgreementInv, PendingChange
  <2>6. StopRunsAsCalled'
    BY <1>1, <2>1, <2>3 DEF AgreementInv, StopRunsAsCalled
  <2> QED
    BY <2>4, <2>5, <2>6 DEF AgreementInv
<1>3. CASE H!FinishTimer /\ mrm_topic' = TRUE
  <2>1. /\ call # H!Idle /\ call.answered /\ (call.operate \/ target = "NONE")
        /\ behavior' = target /\ call' = H!Idle /\ UNCHANGED <<target, mrm_state>>
        /\ report' = [state |-> mrm_state, behavior |-> target]
    BY <1>3 DEF H!FinishTimer
  <2> QED
    BY <1>1, <1>3, <2>1 DEF AgreementInv, HandlerTyped, PendingChange,
       ReportNamesStored, StopRunsAsCalled, GateKnowsReport
<1> QED
  BY <1>2, <1>3 DEF HandlerResumes

LEMMA HandlerKeepsAgreement ==
  ASSUME AgreementInv, HandlerStep
  PROVE  AgreementInv'
<1>1. CASE HandlerReceives
  <2>1. UNCHANGED agreementVars
    BY <1>1 DEF HandlerReceives, H!OnHazardStatusStamped, H!OnControlMode, H!OnOdometry,
       H!OnMrmStatus, agreementVars, esVars, gateVars
  <2> QED
    BY <2>1, AgreementUnchanged
<1>2. CASE HandlerTimer
  <2>1. UNCHANGED <<es_state, system_emergency>>
    BY <1>2 DEF HandlerTimer, esVars, gateVars
  <2>2. CASE UNCHANGED <<handlerVars, mrm_topic>>
    BY <2>1, <2>2, AgreementUnchanged DEF handlerVars, agreementVars
  <2>3. CASE H!OnTimerHazardTimeout /\ UNCHANGED mrm_topic
    <3>1. /\ call = H!Idle /\ mrm_state' = "MRM_OPERATING"
          /\ UNCHANGED <<behavior, target, call, report>>
      BY <2>3 DEF H!OnTimerHazardTimeout, H!Listening
    <3> QED
      BY <2>1, <2>3, <3>1 DEF AgreementInv, HandlerTyped, PendingChange,
         ReportNamesStored, StopRunsAsCalled, GateKnowsReport, H!MrmStates
  <2>4. CASE H!OnTimer /\ mrm_topic' = (mrm_topic \/ call' = H!Idle)
    BY <2>1, <2>4, TimerKeepsAgreement
  <2> QED
    BY <1>2, <2>2, <2>3, <2>4 DEF HandlerTimer
<1>3. CASE HandlerResumes
  BY <1>3, ResumeKeepsAgreement
<1>4. CASE HandlerDies
  BY <1>4, AgreementUnchanged DEF HandlerDies, handlerVars, esVars, gateVars, agreementVars
<1> QED
  BY <1>1, <1>2, <1>3, <1>4 DEF HandlerStep

-----------------------------------------------------------------------------
(* The steps of the operators and of the gate. *)

LEMMA ServeKeepsAgreement ==
  ASSUME AgreementInv, ComfortableStopServes \/ EmergencyStopServes
  PROVE  AgreementInv'
<1>1. /\ call # H!Idle /\ ~call.answered /\ call' = [call EXCEPT !.answered = TRUE]
      /\ UNCHANGED <<behavior, target, mrm_state, report>>
      /\ UNCHANGED <<mrm_topic, system_emergency>>
  BY DEF ComfortableStopServes, EmergencyStopServes, H!Answer, gateVars
<1>2. call \in H!Calls
  BY <1>1 DEF AgreementInv, HandlerTyped
<1>3. /\ call' \in H!Calls /\ call' # H!Idle /\ call'.answered
      /\ call'.to = call.to /\ call'.operate = call.operate
  BY <1>1, <1>2 DEF H!Calls, H!Idle
<1>4. HandlerTyped' /\ PendingChange' /\ ReportNamesStored' /\ GateKnowsReport'
  BY <1>1, <1>3 DEF AgreementInv, HandlerTyped, PendingChange, ReportNamesStored,
     GateKnowsReport
<1>5. CASE ComfortableStopServes
  <2>1. call.to = "COMFORTABLE_STOP" /\ es_state' = es_state
    BY <1>5 DEF ComfortableStopServes, esVars
  <2>2. StopRunsAsCalled'
    BY <1>1, <1>2, <1>3, <2>1 DEF AgreementInv, StopRunsAsCalled, PendingChange, H!Calls
  <2> QED
    BY <1>4, <2>2 DEF AgreementInv
<1>6. CASE EmergencyStopServes
  <2>1. /\ call.to = "EMERGENCY_STOP"
        /\ es_state' = IF call.operate THEN "OPERATING" ELSE "AVAILABLE"
    BY <1>6 DEF EmergencyStopServes, ES!OperateEmergencyStop
  <2>2. StopRunsAsCalled'
    BY <1>1, <1>2, <1>3, <2>1 DEF AgreementInv, StopRunsAsCalled, PendingChange, H!Calls
  <2> QED
    BY <1>4, <2>2 DEF AgreementInv
<1> QED
  BY <1>5, <1>6

\* The MrmState delivered is the one the handler published last.
LEMMA DeliveryKeepsAgreement ==
  ASSUME AgreementInv, GateReceivesMrmState
  PROVE  AgreementInv'
<1>1. /\ UNCHANGED <<behavior, target, call, mrm_state, report, es_state>>
      /\ mrm_topic' = FALSE
      /\ system_emergency' = /\ report.state \in {"MRM_OPERATING", "MRM_SUCCEEDED", "MRM_FAILED"}
                             /\ report.behavior = "EMERGENCY_STOP"
  BY DEF GateReceivesMrmState, G!OnMrmState, handlerVars, esVars
<1>2. system_emergency' <=> behavior = "EMERGENCY_STOP"
  BY <1>1 DEF AgreementInv, ReportNamesStored, HandlerTyped, H!MrmStates
<1>3. HandlerTyped' /\ PendingChange' /\ ReportNamesStored' /\ StopRunsAsCalled'
  BY <1>1 DEF AgreementInv, HandlerTyped, PendingChange, ReportNamesStored, StopRunsAsCalled
<1>4. GateKnowsReport'
  BY <1>1, <1>2 DEF GateKnowsReport
<1> QED
  BY <1>3, <1>4 DEF AgreementInv

LEMMA AgreementNext == AgreementInv /\ [Next]_vars => AgreementInv'
<1> SUFFICES ASSUME AgreementInv, [Next]_vars PROVE AgreementInv'
  OBVIOUS
<1>1. CASE HandlerStep
  BY <1>1, HandlerKeepsAgreement
<1>2. CASE ComfortableStopServes \/ EmergencyStopServes
  BY <1>2, ServeKeepsAgreement
<1>3. CASE GateReceivesMrmState
  BY <1>3, DeliveryKeepsAgreement
<1>4. CASE UNCHANGED agreementVars
  BY <1>4, AgreementUnchanged
<1>5. EmergencyStopHears \/ EmergencyStopTimer => UNCHANGED agreementVars
  BY DEF EmergencyStopHears, EmergencyStopTimer, ES!OnControlCommand, ES!OnTimer,
     handlerVars, gateVars, agreementVars
<1>6. GateReceivesAuto \/ GateReceivesEmergency \/ GateReceivesEngage
        => UNCHANGED agreementVars
  BY DEF GateReceivesAuto, GateReceivesEmergency, GateReceivesEngage, G!OnAutoCtrlCmd,
     G!OnEmergencyCtrlCmd, G!OnEngage, G!watchVars, handlerVars, esVars, agreementVars
<1>7. GateTimer => UNCHANGED agreementVars
  BY DEF GateTimer, G!OnTimer, G!TimerWaiting, G!TimerSystemTimeout, G!TimerExternalStop,
     G!TimerGateModeChanged, G!TimerSignals, G!CheckExternal, G!watchVars, handlerVars,
     esVars, agreementVars
<1>8. Tick \/ UNCHANGED vars => UNCHANGED agreementVars
  BY DEF Tick, H!Tick, G!Tick, vars, handlerVars, esVars, gateVars, agreementVars
<1> QED
  BY <1>1, <1>2, <1>3, <1>4, <1>5, <1>6, <1>7, <1>8 DEF Next, OperatorStep, GateStep

\* The gate never follows an emergency stop operator that does not run, except
\* while that operator is being cancelled or the MrmState that says so is on its
\* way, wherever the handler is blocked or dies.
THEOREM GateFollowsOperator == Spec => []GateFollowsRunningOperator
<1>1. AgreementInv => GateFollowsRunningOperator
  <2> SUFFICES ASSUME AgreementInv, system_emergency,
                      ~(mrm_topic /\ report.behavior # "EMERGENCY_STOP")
               PROVE  es_state = "OPERATING" \/ (call.to = "EMERGENCY_STOP" /\ ~call.operate)
    BY DEF GateFollowsRunningOperator
  <2>1. behavior = "EMERGENCY_STOP"
    BY DEF AgreementInv, GateKnowsReport, ReportNamesStored
  <2>2. CASE call = H!Idle
    BY <2>1, <2>2 DEF AgreementInv, StopRunsAsCalled
  <2>3. CASE call # H!Idle
    BY <2>1, <2>3 DEF AgreementInv, PendingChange, HandlerTyped, H!Calls
  <2> QED
    BY <2>2, <2>3
<1> QED
  BY <1>1, AgreementInit, AgreementNext, PTL DEF Spec

\* An emergency stop that the handler has stored is one the gate follows as soon as
\* the MrmState is delivered.
THEOREM CompletedStopReachesGate == Spec => []CompletedEmergencyStopReachesGate
<1>1. AgreementInv => CompletedEmergencyStopReachesGate
  BY DEF AgreementInv, GateKnowsReport, CompletedEmergencyStopReachesGate
<1> QED
  BY <1>1, AgreementInit, AgreementNext, PTL DEF Spec

-----------------------------------------------------------------------------
(* Missing hazard statuses. *)

SilenceTyped ==
  /\ silence \in 0 .. Patience + 1
  /\ hazardAge \in Nat
  /\ mrmAge \in G!AgesUpTo(G!MaxMrmAge)

\* The hazard status is as old as the silence, or late.
StatusIsOld == hazardAge >= silence \/ hazardAge > TimeoutHazardStatus

\* Only a cycle with a timely status sends an MrmState.
ReportIsTimely == mrm_topic => silence <= TimeoutHazardStatus

\* The last MrmState the gate received was sent by such a cycle.
ReceivedIsTimely == mrmAge # Never => mrmAge >= silence - TimeoutHazardStatus

\* After its timer, the gate with a late MrmState has published its stop, and lets no
\* command pass.
LateStateStops ==
  (/\ UseEmergencyHandling /\ SystemHeartbeatTimeout > 0
   /\ G!IsDataReady /\ ~timerDue /\ G!SystemTimeout)
    => mrm_timeout /\ out.source = "emergency_stop"

\* The inductive invariant of the two supervisions.
SilenceInv ==
  SilenceTyped /\ StatusIsOld /\ ReportIsTimely /\ ReceivedIsTimely /\ LateStateStops

silenceVars == <<silence, hazardAge, mrm_topic>>
lateVars    == <<mrmAge, externalAge, timerDue, mrm_timeout, out>>

LEMMA TimeoutsTyped ==
  /\ TimeoutHazardStatus \in Nat /\ SystemHeartbeatTimeout \in Nat /\ Never \notin Int
  /\ Patience = TimeoutHazardStatus + SystemHeartbeatTimeout
  /\ G!MaxMrmAge = SystemHeartbeatTimeout + 1
<1> QED
  BY FailSafeAssumption DEF H!HandlerAssumption, G!GateAssumption, Patience, G!MaxMrmAge

LEMMA SilenceInit == Init => SilenceInv
<1> SUFFICES ASSUME Init PROVE SilenceInv
  OBVIOUS
<1>1. /\ silence = 0 /\ hazardAge = 0 /\ mrm_topic = FALSE /\ mrmAge = Never
      /\ timerDue = TRUE
  BY DEF Init, H!Init, G!Init
<1> QED
  BY <1>1, TimeoutsTyped DEF SilenceInv, SilenceTyped, StatusIsOld, ReportIsTimely,
     ReceivedIsTimely, LateStateStops, G!AgesUpTo

\* The three clocks and the flag of the gate are all the invariant reads.
LEMMA SilenceUnchanged ==
  ASSUME SilenceInv, UNCHANGED <<silenceVars, lateVars>>
  PROVE  SilenceInv'
<1> QED
  BY DEF silenceVars, lateVars, SilenceInv, SilenceTyped, StatusIsOld, ReportIsTimely,
     ReceivedIsTimely, LateStateStops, G!AgesUpTo, G!IsDataReady, G!SystemTimeout,
     G!IsHeartbeatTimeout

LEMMA HandlerKeepsSilence ==
  ASSUME SilenceInv, HandlerStep
  PROVE  SilenceInv'
<1>1. UNCHANGED lateVars
  BY DEF HandlerStep, HandlerReceives, HandlerTimer, HandlerResumes, HandlerDies, gateVars,
     lateVars
<1>2. LateStateStops'
  BY <1>1 DEF lateVars, SilenceInv, LateStateStops, G!IsDataReady, G!SystemTimeout,
     G!IsHeartbeatTimeout
<1>3. CASE UNCHANGED silenceVars
  BY <1>1, <1>3, SilenceUnchanged
<1>4. CASE /\ silence' = 0 /\ hazardAge' \in {0, hazardAge}
           /\ mrm_topic' \in {mrm_topic, TRUE}
  <2>1. SilenceTyped' /\ StatusIsOld' /\ ReportIsTimely' /\ ReceivedIsTimely'
    BY <1>1, <1>4, TimeoutsTyped DEF lateVars, SilenceInv, SilenceTyped, StatusIsOld,
       ReportIsTimely, ReceivedIsTimely, G!AgesUpTo
  <2> QED
    BY <1>2, <2>1 DEF SilenceInv
<1>5. CASE /\ hazardAge <= TimeoutHazardStatus
           /\ UNCHANGED <<silence, hazardAge>>
  <2>1. SilenceTyped' /\ StatusIsOld' /\ ReportIsTimely' /\ ReceivedIsTimely'
    BY <1>1, <1>5, TimeoutsTyped DEF lateVars, SilenceInv, SilenceTyped, StatusIsOld,
       ReportIsTimely, ReceivedIsTimely, G!AgesUpTo
  <2> QED
    BY <1>2, <2>1 DEF SilenceInv
<1>6. HandlerReceives => UNCHANGED silenceVars \/ (/\ silence' = 0 /\ hazardAge' = 0
                                                   /\ mrm_topic' = mrm_topic)
  BY DEF HandlerReceives, H!OnHazardStatusStamped, H!OnControlMode, H!OnOdometry,
     H!OnMrmStatus, silenceVars
<1>7. HandlerTimer => UNCHANGED silenceVars \/ (/\ hazardAge <= TimeoutHazardStatus
                                                /\ UNCHANGED <<silence, hazardAge>>)
  <2>1. H!OnTimer => hazardAge <= TimeoutHazardStatus /\ hazardAge' = hazardAge
    BY TimeoutsTyped DEF H!OnTimer, H!IsHazardStatusTimeout, H!inputs, SilenceInv, SilenceTyped
  <2> QED
    BY <2>1 DEF HandlerTimer, H!OnTimerHazardTimeout, handlerVars, silenceVars
<1>8. HandlerResumes => UNCHANGED silenceVars \/ (/\ silence' = 0 /\ hazardAge' = hazardAge
                                                  /\ mrm_topic' = TRUE)
  BY DEF HandlerResumes, H!CallNextMrm, H!FinishTimer, H!inputs, silenceVars
<1>9. HandlerDies => UNCHANGED silenceVars
  BY DEF HandlerDies, handlerVars, silenceVars
<1> QED
  BY <1>3, <1>4, <1>5, <1>6, <1>7, <1>8, <1>9 DEF HandlerStep

\* Two clocks that grow by one tick each keep their distance.
LEMMA OneTickEach ==
  ASSUME NEW age \in Int, NEW old \in Int, NEW new \in Int, NEW timeout \in Int,
         age >= old - timeout, new <= old + 1
  PROVE  age + 1 >= new - timeout
<1> QED
  OBVIOUS

\* A tick lets the silence and both ages grow, and makes the gate look again.
LEMMA TickKeepsSilence ==
  ASSUME SilenceInv, Tick
  PROVE  SilenceInv'
<1>1. /\ ~mrm_topic /\ mrm_topic' = mrm_topic /\ timerDue' = TRUE
      /\ silence' = IF silence > Patience THEN silence ELSE silence + 1
      /\ mrmAge' = IF mrmAge = Never \/ mrmAge = G!MaxMrmAge THEN mrmAge ELSE mrmAge + 1
  BY DEF Tick, G!Tick, G!Older
<1>2. hazardAge' \in Nat /\ (hazardAge' = hazardAge + 1 \/ hazardAge' > TimeoutHazardStatus)
  BY TimeoutsTyped DEF Tick, H!Tick, H!Older, SilenceInv, SilenceTyped
<1>3. mrmAge = Never \/ mrmAge \in 0 .. SystemHeartbeatTimeout + 1
  BY TimeoutsTyped DEF SilenceInv, SilenceTyped, G!AgesUpTo
<1>4. silence \in Nat /\ silence' \in 0 .. Patience + 1 /\ silence' <= silence + 1
  BY <1>1, TimeoutsTyped DEF SilenceInv, SilenceTyped
<1>5. SilenceTyped' /\ ReceivedIsTimely'
  <2>1. CASE mrmAge = Never
    BY <1>1, <1>2, <1>4, <2>1 DEF SilenceTyped, ReceivedIsTimely, G!AgesUpTo
  <2>2. CASE mrmAge = SystemHeartbeatTimeout + 1
    BY <1>1, <1>2, <1>4, <2>2, TimeoutsTyped DEF SilenceTyped, ReceivedIsTimely, G!AgesUpTo
  <2>3. CASE mrmAge \in 0 .. SystemHeartbeatTimeout
    <3>1. mrmAge >= silence - TimeoutHazardStatus
      BY <2>3, TimeoutsTyped DEF SilenceInv, ReceivedIsTimely
    <3>2. mrmAge' = mrmAge + 1
      BY <1>1, <2>3, TimeoutsTyped
    <3>3. mrmAge' \in 0 .. G!MaxMrmAge
      BY <2>3, <3>2, TimeoutsTyped
    <3>4. mrmAge' >= silence' - TimeoutHazardStatus
      <4>1. silence' \in Int /\ silence \in Int /\ mrmAge \in Int /\ TimeoutHazardStatus \in Int
        BY <1>4, <2>3, TimeoutsTyped
      <4>2. silence' <= silence + 1
        BY <1>4
      <4>3. mrmAge + 1 >= silence' - TimeoutHazardStatus
        BY <3>1, <4>1, <4>2, OneTickEach
      <4> QED
        BY <3>2, <4>3
    <3> QED
      BY <1>2, <1>4, <3>3, <3>4 DEF SilenceTyped, ReceivedIsTimely, G!AgesUpTo
  <2> QED
    BY <1>3, <2>1, <2>2, <2>3, TimeoutsTyped
<1>6. StatusIsOld'
  BY <1>2, <1>4, TimeoutsTyped DEF SilenceInv, SilenceTyped, StatusIsOld
<1>7. ReportIsTimely' /\ LateStateStops'
  BY <1>1 DEF ReportIsTimely, LateStateStops
<1> QED
  BY <1>5, <1>6, <1>7 DEF SilenceInv

\* No command callback passes a late MrmState, and the timer stops the vehicle.
LEMMA GateKeepsStop ==
  ASSUME SilenceInv,
         GateReceivesAuto \/ GateReceivesEmergency \/ GateReceivesEngage \/ GateTimer
  PROVE  SilenceInv'
<1>1. UNCHANGED <<silenceVars, mrmAge, externalAge>>
  BY DEF GateReceivesAuto, GateReceivesEmergency, GateReceivesEngage, GateTimer,
     G!OnAutoCtrlCmd, G!OnEmergencyCtrlCmd, G!OnEngage, G!OnTimer, G!TimerWaiting,
     G!TimerSystemTimeout, G!TimerExternalStop, G!TimerGateModeChanged, G!TimerSignals,
     G!CheckExternal, G!watchVars, handlerVars, silenceVars
<1>2. SilenceTyped' /\ StatusIsOld' /\ ReportIsTimely' /\ ReceivedIsTimely'
  BY <1>1 DEF silenceVars, SilenceInv, SilenceTyped, StatusIsOld, ReportIsTimely,
     ReceivedIsTimely, G!AgesUpTo
<1>3. SUFFICES ASSUME UseEmergencyHandling, SystemHeartbeatTimeout > 0, G!IsDataReady,
                      ~timerDue', G!SystemTimeout
               PROVE  mrm_timeout' /\ out'.source = "emergency_stop"
  BY <1>1, <1>2 DEF silenceVars, SilenceInv, LateStateStops, G!IsDataReady, G!SystemTimeout,
     G!IsHeartbeatTimeout
<1>4. CASE GateTimer
  BY <1>3, <1>4 DEF GateTimer, G!OnTimer, G!TimerWaiting, G!TimerSystemTimeout,
     G!TimerExternalStop, G!TimerGateModeChanged, G!TimerSignals, G!PublishEmergencyStop
<1>5. CASE GateReceivesAuto \/ GateReceivesEmergency \/ GateReceivesEngage
  <2>1. timerDue' = timerDue /\ mrm_timeout' = mrm_timeout
    BY <1>5 DEF GateReceivesAuto, GateReceivesEmergency, GateReceivesEngage, G!OnAutoCtrlCmd,
       G!OnEmergencyCtrlCmd, G!OnEngage, G!watchVars
  <2>2. mrm_timeout /\ out.source = "emergency_stop"
    BY <1>3, <2>1 DEF SilenceInv, LateStateStops
  <2>3. out' = out
    BY <1>3, <1>5, <2>2 DEF GateReceivesAuto, GateReceivesEmergency, GateReceivesEngage,
       G!OnAutoCtrlCmd, G!OnEmergencyCtrlCmd, G!OnEngage, G!PublishControlCommands,
       G!outputVars
  <2> QED
    BY <2>1, <2>2, <2>3
<1> QED
  BY <1>4, <1>5

LEMMA DeliveryKeepsSilence ==
  ASSUME SilenceInv, GateReceivesMrmState
  PROVE  SilenceInv'
<1>1. /\ mrm_topic /\ mrm_topic' = FALSE /\ mrmAge' = 0
      /\ UNCHANGED <<silence, hazardAge>>
  BY DEF GateReceivesMrmState, G!OnMrmState, handlerVars
<1>2. SilenceTyped' /\ StatusIsOld' /\ ReportIsTimely' /\ ReceivedIsTimely'
  BY <1>1, TimeoutsTyped DEF SilenceInv, SilenceTyped, StatusIsOld, ReportIsTimely,
     ReceivedIsTimely, G!AgesUpTo
<1>3. LateStateStops'
  BY <1>1, TimeoutsTyped DEF LateStateStops, G!SystemTimeout, G!IsHeartbeatTimeout
<1> QED
  BY <1>2, <1>3 DEF SilenceInv

LEMMA SilenceNext == SilenceInv /\ [Next]_vars => SilenceInv'
<1> SUFFICES ASSUME SilenceInv, [Next]_vars PROVE SilenceInv'
  OBVIOUS
<1>1. CASE HandlerStep
  BY <1>1, HandlerKeepsSilence
<1>2. CASE Tick
  BY <1>2, TickKeepsSilence
<1>3. CASE GateReceivesMrmState
  BY <1>3, DeliveryKeepsSilence
<1>4. CASE GateReceivesAuto \/ GateReceivesEmergency \/ GateReceivesEngage \/ GateTimer
  BY <1>4, GateKeepsStop
<1>5. OperatorStep \/ UNCHANGED vars => UNCHANGED <<silenceVars, lateVars>>
  BY DEF OperatorStep, ComfortableStopServes, EmergencyStopServes, EmergencyStopHears,
     EmergencyStopTimer, H!Answer, H!inputs, vars, handlerVars, gateVars, silenceVars, lateVars
<1> QED
  BY <1>1, <1>2, <1>3, <1>4, <1>5, SilenceUnchanged DEF Next, GateStep

\* Whatever the two timeouts are, and however the timers of the two nodes interleave,
\* a vehicle without hazard statuses is stopped within their sum.
THEOREM MissingStatusStops == Spec => []MissingHazardStatusStopsVehicle
<1>1. SilenceInv => MissingHazardStatusStopsVehicle
  <2> SUFFICES ASSUME SilenceInv, UseEmergencyHandling, SystemHeartbeatTimeout > 0,
                      G!IsDataReady, ~timerDue, silence > Patience
               PROVE  out.source = "emergency_stop"
    BY DEF MissingHazardStatusStopsVehicle
  <2>1. mrmAge # Never
    BY DEF G!IsDataReady
  <2>2. mrmAge > SystemHeartbeatTimeout
    BY <2>1, TimeoutsTyped DEF SilenceInv, SilenceTyped, ReceivedIsTimely, G!AgesUpTo
  <2>3. G!SystemTimeout
    BY <2>2, TimeoutsTyped DEF G!SystemTimeout, G!IsHeartbeatTimeout
  <2> QED
    BY <2>3 DEF SilenceInv, LateStateStops
<1> QED
  BY <1>1, SilenceInit, SilenceNext, PTL DEF Spec
=============================================================================
