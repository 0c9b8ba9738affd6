CONSTANTS
    MaxInbox = 2
    MaxFaults = 1
    FaultKinds = {"block", "break", "silence", "eof", "refuse"}
    GatewayOps = {"Event", "Unknown", "Malformed", "Binary"}
    GatewayCodes = {4004, 4015}
    Endpoints = {e1, e2}
    NoEndpoint = NoEndpoint
    UserCodes = {1000, 4000}
    UserCalls = {"send", "close", "reconnect"}
    MaxCalls = 2
SYMMETRY EndpointSymmetry
SPECIFICATION Spec
INVARIANTS
    TypeOK
    PollsSafely
    ReconnectionAnnounced
    NoEventLost
    HeartbeaterOfConnection
    HeartbeatsAccounted
PROPERTIES
    ClosedIsFinal
    DialsTheEndpointAskedFor
    ImplementsStream
CHECK_DEADLOCK FALSE
