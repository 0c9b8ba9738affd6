CONSTANTS
    MaxInbox = 2
    MaxFaults = 1
    FaultKinds = {"block", "break", "eof", "refuse"}
    GatewayOps = {"Event"}
    GatewayCodes = {4004, 4015}
    Endpoints = {e1}
    NoEndpoint = NoEndpoint
    UserCodes = {1000, 4000}
    UserCalls = {"close", "reconnect"}
    MaxCalls = 1
SPECIFICATION FairSpec
INVARIANT
    NoLostWakeup
PROPERTIES
    Reconnects
    ClosedIsReported
    CloseIsSent
    ReconnectionDelivered
    TicksAreServed
CHECK_DEADLOCK FALSE
