CONSTANTS
    MaxPackets = 2
    MaxCommands = 2
    Values = {TRUE}
    MaxFaults = 1
    FaultKinds = {"lose", "close", "connect", "datagram", "udp", "encrypt"}
    GatewayCodes = {4014}
    Extras = {}
    MaxInbox = 1
    UserCodes = {}
    MaxCloses = 0
    Heartbeats = FALSE
SPECIFICATION Spec
CHECK_DEADLOCK FALSE
INVARIANTS
    TypeOK
    SentInOrder
    KeyOfSession
    NonceUnique
    NoPanic
    CleanHandshake
PROPERTIES
    UsesPacketQueues
