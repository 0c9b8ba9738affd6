CONSTANTS
    MaxInbox = 1
    MaxFaults = 1
    FaultKinds = {"block", "break"}
    GatewayOps = {}
    GatewayCodes = {}
    Endpoints = {e1}
    NoEndpoint = NoEndpoint
    UserCodes = {}
    UserCalls = {}
    MaxCalls = 0
SPECIFICATION Spec
INVARIANT HeartbeaterDefined
CHECK_DEADLOCK FALSE
