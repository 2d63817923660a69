SPECIFICATION FairSpec
CONSTANTS
  EmergencyHazardLevel = 2
  TimeoutHazardStatus = 1
  TimeoutTakeoverRequest = 1
  UseTakeoverRequest = FALSE
  UseParkingAfterStopped = TRUE
  UseComfortableStop = TRUE
  TurningHazardOnEmergency = TRUE
  NoHazard = NoHazard
  TargetDeceleration = 1
  TargetJerkDown = 1
  MaxSpeed = 0
  MaxBrake = 0
  MaxDrive = 0
  MaxDt = 1
INVARIANTS TypeOK AtMostOneMrmRuns StoredBehaviorRuns PendingCallMatchesOperators
PROPERTIES PromiseKept MrmEndsOnRecoveryOrEscalation SinglePointFaultSelectsEmergencyStop PersistentEmergencyIsReported RecoveryIsReported
