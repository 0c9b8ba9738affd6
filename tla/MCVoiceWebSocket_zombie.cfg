CONSTANTS
    MaxInbox = 1
    MaxFaults = 1
    FaultKinds = {"silence"}
    GatewayOps = {}
    GatewayCodes = {}
    Endpoints = {e1}
    NoEndpoint = NoEndpoint
    UserCodes = {}
    UserCalls = {}
    MaxCalls = 0
SPECIFICATION FairSpec
PROPERTY CloseIsSent
CHECK_DEADLOCK FALSE
