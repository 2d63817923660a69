SPECIFICATION FairSpec
CONSTANTS
  MaxGoals = 1
  MaxWaypoints = 0
  MaxReroutes = 1
  MaxRoutes = 1
PROPERTIES RelayedCallReturns
CHECK_DEADLOCK FALSE
