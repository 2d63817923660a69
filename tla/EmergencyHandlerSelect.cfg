SPECIFICATION FairSpec
CONSTANTS
  EmergencyHazardLevel = 2
  TimeoutHazardStatus = 1
  TimeoutTakeoverRequest = 1
  UseTakeoverRequest = FALSE
  UseParkingAfterStopped = TRUE
  UseComfortableStop = TRUE
  TurningHazardOnEmergency = TRUE
  NoHazard = NoHazard
PROPERTIES PersistentEmergencySelectsMrm
