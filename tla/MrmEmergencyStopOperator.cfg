SPECIFICATION FairSpec
CONSTANTS
  TargetDeceleration = 3
  TargetJerkDown = 2
  MaxSpeed = 4
  MaxBrake = 4
  MaxDrive = 2
  MaxDt = 2
PROPERTIES BrakingRampsToTarget SpeedFallsWhileBraking OperatingReachesStandstill
