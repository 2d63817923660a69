SPECIFICATION FairSpec
CONSTANTS
  Modes = {"STOP", "REMOTE"}
  TransitionTimeout = 3
  StableDuration = 1
  TimeoutMargin = 1
  CompatibilityTimeout = 1
  InitialSelector = "LOCAL"
  EngageRequests = {TRUE}
  MaxPending = 2
  Never = Never
INVARIANTS ControlNeedsGrant
PROPERTIES TransitionEnds ModeSettles
