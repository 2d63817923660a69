SPECIFICATION FairSpec
CONSTANTS
  UseEmergencyHandling = TRUE
  CheckExternalHeartbeat = TRUE
  SystemHeartbeatTimeout = 1
  ExternalHeartbeatTimeout = 1
  NominalVelLim = 1
  TransitionVelLim = 0
  NominalAccLim = 1
  TransitionAccLim = 1
  Speeds = {0, 2}
  GateModes = {"AUTO", "EXTERNAL"}
  EngageRequests = {TRUE, FALSE}
  PauseRequests = {TRUE, FALSE}
  TransitionFlags = {TRUE, FALSE}
  Never = Never
INVARIANTS LateMrmStateStopsVehicle LateExternalHeartbeatStopsVehicle
PROPERTIES HeldVehicleOnlySlowsDown GateReopens
