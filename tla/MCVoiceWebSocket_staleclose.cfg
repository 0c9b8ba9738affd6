CONSTANTS
    MaxInbox = 1
    MaxFaults = 1
    FaultKinds = {"eof"}
    GatewayOps = {}
    GatewayCodes = {}
    Endpoints = {e1}
    NoEndpoint = NoEndpoint
    UserCodes = {}
    UserCalls = {}
    MaxCalls = 0
SPECIFICATION Spec
INVARIANT ConnectedIsOpen
CHECK_DEADLOCK FALSE
