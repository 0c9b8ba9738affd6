CONSTANTS
    MaxPackets = 1
    MaxCommands = 0
    Values = {}
    MaxFaults = 2
    FaultKinds = {"lose", "refuse", "close", "block", "malformed", "silence",
                  "connect", "datagram", "udp", "encrypt", "mode"}
    GatewayCodes = {4014}
    Extras = {"ClientConnect", "ClientDisconnect"}
    MaxInbox = 1
    UserCodes = {1000}
    MaxCloses = 1
    Heartbeats = TRUE
SPECIFICATION Spec
CHECK_DEADLOCK FALSE
INVARIANTS
    Equipped
    NoLostWakeup
