SPECIFICATION FairSpec
CONSTANTS
  EmergencyHazardLevel = 2
  TimeoutHazardStatus = 0
  TimeoutTakeoverRequest = 0
  UseTakeoverRequest = FALSE
  UseParkingAfterStopped = FALSE
  UseComfortableStop = TRUE
  TurningHazardOnEmergency = FALSE
  NoHazard = NoHazard
  TargetDeceleration = 1
  TargetJerkDown = 1
  MaxSpeed = 0
  MaxBrake = 0
  MaxDrive = 0
  MaxDt = 1
  UseEmergencyHandling = TRUE
  CheckExternalHeartbeat = FALSE
  SystemHeartbeatTimeout = 1
  ExternalHeartbeatTimeout = 0
  NominalVelLim = 0
  TransitionVelLim = 0
  NominalAccLim = 1
  TransitionAccLim = 1
  Speeds = {0}
  GateModes = {"AUTO"}
  EngageRequests = {TRUE}
  PauseRequests = {}
  TransitionFlags = {}
  Never = Never
  HazardLevels = {0, 2, 3}
  ModeInputs = {"AUTONOMOUS"}
  VelocityInputs = {"forward"}
  HandlerMayDie = TRUE
INVARIANTS GateFollowsRunningOperator CompletedEmergencyStopReachesGate MissingHazardStatusStopsVehicle
PROPERTIES PersistentFaultStopsPlanner
