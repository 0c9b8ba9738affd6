CONSTANTS
    MaxPackets = 2
    MaxCommands = 1
    Values = {TRUE, FALSE}
    MaxFaults = 0
    FaultKinds = {}
    GatewayCodes = {}
    Extras = {}
    MaxInbox = 1
    UserCodes = {}
    MaxCloses = 0
    Heartbeats = FALSE
SPECIFICATION Spec
CHECK_DEADLOCK FALSE
INVARIANT FlushMeansSent
