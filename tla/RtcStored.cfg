SPECIFICATION Spec
CONSTANTS
    Uuids = {u1, u2}
    u1 = u1
    u2 = u2
    OtherUuids = {}
    SafeInputs = {TRUE}
    MaxCommands = 1
    DefaultEnable = FALSE
    RelayDepth = 1
PROPERTIES UnlockKeepsReceivedCommand
