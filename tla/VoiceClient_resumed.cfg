CONSTANTS
    MaxPackets = 0
    MaxCommands = 0
    Values = {}
    MaxFaults = 1
    FaultKinds = {"lose"}
    GatewayCodes = {}
    Extras = {}
    MaxInbox = 1
    UserCodes = {}
    MaxCloses = 0
    Heartbeats = FALSE
SPECIFICATION Spec
CHECK_DEADLOCK FALSE
INVARIANT ResumedIsTrue
