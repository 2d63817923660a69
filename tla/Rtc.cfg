SPECIFICATION FairSpec
CONSTANTS
    Uuids = {u1}
    u1 = u1
    OtherUuids = {x1}
    x1 = x1
    SafeInputs = {TRUE}
    MaxCommands = 2
    DefaultEnable = TRUE
    RelayDepth = 2
INVARIANTS TypeOK CycleSeesOneCommand NoCommandOutlivesItsPlan
PROPERTIES StoredCommandIsApplied AutoModeSettles
