----------------------- MODULE SystemErrorMonitorProofs -----------------------
(***************************************************************************)
(* Proofs about SystemErrorMonitor, for every set of modules and every     *)
(* value of the parameters: the statuses it publishes are those the        *)
(* emergency handler relies on, and a held emergency never becomes milder. *)
(***************************************************************************)
EXTENDS SystemErrorMonitor, TLAPS

\* The four hazard levels of HazardStatus; an emergency is never NO_FAULT.
LEMMA LevelsAre == Levels = {0, 1, 2, 3} /\ EmergencyHazardLevel \in {1, 2, 3}
<1>1. Levels = {0, 1, 2, 3}
  BY DEF Levels, NoFault, SinglePointFault
<1> QED
  BY <1>1, MonitorAssumption DEF NoFault

\* A diagnostic always has a hazard level.
LEMMA HazardLevelTyped ==
  ASSUME NEW m, NEW level
  PROVE  HazardLevel(m, level) \in Levels
BY LevelsAre DEF HazardLevel, NoFault, SafeFault, LatentFault, SinglePointFault

\* judgeHazardStatus finds a level: the worst of what it found, or no fault.
LEMMA JudgedLevelTyped ==
  ASSUME NEW mode
  PROVE  JudgedLevel(mode) \in Levels
<1> DEFINE found == (UNION {HazardLevels(m) : m \in Required(mode)}) \cup {NoFault}
<1>1. ASSUME NEW m PROVE HazardLevels(m) \subseteq Levels
  BY HazardLevelTyped DEF HazardLevels
<1>2. found \subseteq Levels /\ NoFault \in found
  <2>1. NoFault \in Levels
    BY LevelsAre DEF NoFault
  <2> QED
    BY <1>1, <2>1, Zenon
<1>3. \E l \in Levels : l \in found /\ \A k \in found : k <= l
  <2> HIDE DEF found
  <2>1. CASE 3 \in found
    BY <1>2, <2>1, LevelsAre
  <2>2. CASE 3 \notin found /\ 2 \in found
    BY <1>2, <2>2, LevelsAre
  <2>3. CASE 3 \notin found /\ 2 \notin found /\ 1 \in found
    BY <1>2, <2>3, LevelsAre
  <2>4. CASE 3 \notin found /\ 2 \notin found /\ 1 \notin found
    BY <1>2, <2>4, LevelsAre DEF NoFault
  <2> QED
    BY <2>1, <2>2, <2>3, <2>4
<1>4. (CHOOSE l \in Levels : l \in found /\ \A k \in found : k <= l) \in Levels
  <2> HIDE DEF found
  <2> QED
    BY <1>3
<1> QED
  BY <1>4, LevelsAre DEF JudgedLevel, NoFault

\* The status kept and the status published are well formed and consistent.
StatusInv == hazard \in Statuses /\ published \in Statuses /\ StatusIsConsistent

\* updateHazardStatus, from the timer or from the service, leaves a consistent
\* status: the flag follows the level also when the level is kept by a hold.
LEMMA JudgedStatus ==
  ASSUME StatusInv, NEW held \in BOOLEAN, NEW mode,
         held => hazard.emergency_holding,
         UpdateHazardStatus(held, mode)
  PROVE  /\ hazard' \in Statuses
         /\ Consistent(hazard')
         /\ held => hazard'.level = hazard.level
<1> DEFINE level     == IF held THEN hazard.level ELSE JudgedLevel(mode)
           emergency == level >= EmergencyHazardLevel
           holding   == IF UseEmergencyHold
                        THEN IsHoldingRequired(held, emergency, mode) ELSE held
<1>1. level \in Levels
  BY JudgedLevelTyped DEF StatusInv, Statuses
<1>2. holding \in BOOLEAN
  BY DEF IsHoldingRequired
<1>3. held => emergency
  BY DEF StatusInv, StatusIsConsistent, Consistent
<1>4. holding => emergency
  BY <1>3 DEF IsHoldingRequired
<1>5. hazard' = [level |-> level, emergency |-> emergency, emergency_holding |-> holding]
  BY DEF UpdateHazardStatus
<1>6. emergency \in BOOLEAN
  OBVIOUS
<1>7. held => level = hazard.level
  OBVIOUS
<1> HIDE DEF holding
<1>8. Consistent(hazard')
  BY <1>4, <1>5 DEF Consistent
<1> HIDE DEF level, emergency
<1> QED
  BY <1>1, <1>2, <1>5, <1>6, <1>7, <1>8 DEF Statuses

\* So does updateTimeoutHazardStatus, which writes the three fields itself.
LEMMA TimeoutStatus ==
  ASSUME StatusInv, UpdateTimeoutHazardStatus
  PROVE  hazard' \in Statuses /\ Consistent(hazard') /\ hazard'.level = SinglePointFault
<1> DEFINE holding == IF UseEmergencyHold THEN switchAge' > HazardRecoveryTimeout
                                          ELSE hazard.emergency_holding
<1>1. holding \in BOOLEAN
  <2>1. hazard.emergency_holding \in BOOLEAN
    BY DEF StatusInv, Statuses
  <2>2. (switchAge' > HazardRecoveryTimeout) \in BOOLEAN
    OBVIOUS
  <2> QED
    BY <2>1, <2>2, Zenon
<1>2. hazard' = [level |-> SinglePointFault, emergency |-> TRUE, emergency_holding |-> holding]
  BY DEF UpdateTimeoutHazardStatus
<1> HIDE DEF holding
<1>3. SinglePointFault \in Levels /\ SinglePointFault >= EmergencyHazardLevel
  BY LevelsAre DEF SinglePointFault
<1>4. [level |-> SinglePointFault, emergency |-> TRUE, emergency_holding |-> holding]
        \in [level : Levels, emergency : BOOLEAN, emergency_holding : BOOLEAN]
  BY <1>1, <1>3
<1>5. hazard' \in Statuses
  BY <1>2, <1>4, Zenon DEF Statuses
<1> QED
  BY <1>2, <1>3, <1>5 DEF Consistent

\* Every step leaves a consistent status, published or not.
LEMMA StatusStep ==
  ASSUME StatusInv, [Next]_vars
  PROVE  StatusInv'
<1>1. CASE hazard' = hazard /\ published' = published
  BY <1>1 DEF StatusInv, StatusIsConsistent, Consistent
<1>2. CASE OnTimer
  <2>1. CASE TimerWaiting
    BY <1>1, <2>1 DEF TimerWaiting, status
  <2>2. CASE TimerTimeout
    BY <2>2, TimeoutStatus DEF TimerTimeout, StatusInv, StatusIsConsistent, Consistent
  <2>3. CASE TimerJudges
    <3>1. hazard.emergency_holding \in BOOLEAN
      BY DEF StatusInv, Statuses
    <3>2. hazard' \in Statuses /\ Consistent(hazard')
      BY <2>3, <3>1, JudgedStatus DEF TimerJudges
    <3> QED
      BY <2>3, <3>2 DEF TimerJudges, StatusInv, StatusIsConsistent, Consistent
  <2> QED
    BY <1>2, <2>1, <2>2, <2>3 DEF OnTimer
<1>3. CASE ClearEmergency
  <2>1. hazard' \in Statuses /\ Consistent(hazard')
    BY <1>3, JudgedStatus DEF ClearEmergency
  <2> QED
    BY <1>3, <2>1 DEF ClearEmergency, StatusInv, StatusIsConsistent, Consistent
<1>4. CASE MessageReceived \/ ClearEmergencyTooEarly \/ Tick \/ UNCHANGED vars
  <2>1. hazard' = hazard /\ published' = published
    BY <1>4 DEF MessageReceived, OnDiagArray, OnCurrentGateMode, OnAutowareState,
                OnControlMode, Received, ClearEmergencyTooEarly, Tick, vars, status
  <2> QED
    BY <1>1, <2>1
<1> QED
  BY <1>2, <1>3, <1>4 DEF Next

\* The status and its published copy are consistent from the start on.
LEMMA StatusHolds == Spec => []StatusInv
<1>1. Init => StatusInv
  <2>1. NoHazard \in Statuses
    BY LevelsAre DEF NoHazard, Statuses, NoFault
  <2>2. Consistent(NoHazard)
    <3>1. ~(NoFault >= EmergencyHazardLevel)
      BY LevelsAre DEF NoFault
    <3>2. (NoFault >= EmergencyHazardLevel) = FALSE
      BY <3>1
    <3>3. /\ NoHazard.level = NoFault
          /\ NoHazard.emergency = FALSE
          /\ NoHazard.emergency_holding = FALSE
      BY DEF NoHazard
    <3> QED
      BY <3>2, <3>3, Zenon DEF Consistent
  <2> QED
    <3> SUFFICES ASSUME Init PROVE StatusInv
      OBVIOUS
    <3>1. hazard = NoHazard /\ published = NoHazard
      BY DEF Init
    <3> QED
      BY <2>1, <2>2, <3>1, Zenon DEF StatusInv, StatusIsConsistent
<1> QED
  BY <1>1, StatusStep, PTL DEF Spec

\* Every status published satisfies what the emergency handler assumes of it:
\* across judgements, timeouts, holding, clearing and a crash.
THEOREM PublishesConsistentStatus == Spec => []StatusIsConsistent
<1>1. StatusInv => StatusIsConsistent
  BY DEF StatusInv
<1> QED
  BY <1>1, StatusHolds, PTL

\* A held emergency only becomes milder through the service.
THEOREM HeldLevelIsKept == Spec => HeldLevelNeverFalls
<1>1. ASSUME StatusInv, [Next]_vars, hazard.emergency_holding,
             hazard'.emergency_holding, hazard'.level < hazard.level
      PROVE  ClearEmergency
  <2>1. hazard.level \in Levels
    BY <1>1 DEF StatusInv, Statuses
  <2>2. ~(hazard' = hazard)
    BY <1>1, <2>1, LevelsAre
  <2>3. ~TimerTimeout
    BY <1>1, <2>1, TimeoutStatus, LevelsAre DEF TimerTimeout, SinglePointFault
  <2>4. ~TimerJudges
    <3>1. hazard.emergency_holding \in BOOLEAN
      BY <1>1 DEF StatusInv, Statuses
    <3>2. TimerJudges => hazard'.level = hazard.level
      BY <1>1, <3>1, JudgedStatus DEF TimerJudges
    <3> QED
      BY <1>1, <2>1, <3>2, LevelsAre
  <2>5. CASE OnTimer
    BY <2>2, <2>3, <2>4, <2>5 DEF OnTimer, TimerWaiting, status
  <2>6. CASE MessageReceived \/ ClearEmergencyTooEarly \/ Tick \/ UNCHANGED vars
    BY <2>2, <2>6 DEF MessageReceived, OnDiagArray, OnCurrentGateMode, OnAutowareState,
                      OnControlMode, Received, ClearEmergencyTooEarly, Tick, vars, status
  <2> QED
    BY <1>1, <2>5, <2>6 DEF Next
<1>2. StatusInv /\ [Next]_vars
        => [hazard.emergency_holding /\ hazard'.emergency_holding
              /\ hazard'.level < hazard.level => ClearEmergency]_vars
  BY <1>1
<1> QED
  BY <1>2, StatusHolds, PTL DEF Spec, HeldLevelNeverFalls
=============================================================================
