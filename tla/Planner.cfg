SPECIFICATION FairSpec
CONSTANTS
  LaneChanges = {"lane_change_left", "lane_change_right"}
  Avoidances = {"avoidance"}
  Others = {"side_shift"}
  Priority <- MCPriority
  SimultaneousApproved = {"lane_change_left", "lane_change_right", "avoidance"}
  SimultaneousCandidate = {"lane_change_left", "lane_change_right"}
  Demands = {"none", "kept", "ahead", "at_ego", "yield"}
INVARIANTS ListsAgree LaneChangeIsAuthorised CompatibleModulesTogether
PROPERTIES CycleEnds
