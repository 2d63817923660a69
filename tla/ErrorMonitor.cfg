SPECIFICATION FairSpec
CONSTANTS
  AutonomousModules = {a, b}
  ExternalModules = {a}
  SafeFaultModules = {}
  NotAutoRecoverable = {b}
  EmergencyHazardLevel = 2
  IgnoreMissing = FALSE
  DiagTimeout = 1
  DataReadyTimeout = 0
  DataHeartbeatTimeout = 1
  HazardRecoveryTimeout = 2
  UseEmergencyHold = TRUE
  UseEmergencyHoldInManualDriving = FALSE
  DiagInputs = {0, 2}
  GateModes = {"AUTO"}
  AutowareStates = {"DRIVING", "PLANNING"}
  ControlModes = {"AUTONOMOUS"}
  Never = Never
  a = a
  b = b
INVARIANTS StatusIsConsistent
PROPERTIES HeldLevelNeverFalls FaultThatStaysIsHeld HealthySystemRecovers
