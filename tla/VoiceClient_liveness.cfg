CONSTANTS
    MaxPackets = 1
    MaxCommands = 1
    Values = {TRUE, FALSE}
    MaxFaults = 1
    FaultKinds = {"lose"}
    GatewayCodes = {}
    Extras = {"Other"}
    MaxInbox = 1
    UserCodes = {}
    MaxCloses = 0
    Heartbeats = FALSE
SPECIFICATION FairSpec
CHECK_DEADLOCK FALSE
PROPERTIES
    Settles
    PacketsLeave
    CommandsServed
