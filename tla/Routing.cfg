SPECIFICATION FairSpec
CONSTANTS
  MaxGoals = 2
  MaxWaypoints = 1
  MaxReroutes = 1
  MaxRoutes = 2
INVARIANTS ArrivalGoalBelongsToRoute
PROPERTIES LatestRequestReachesPlanner ArrivalStopsDriving
CHECK_DEADLOCK FALSE
