CONSTANTS
    MaxPackets = 3
    MaxRequests = 2
    MaxTicks = 1
    MaxSwitches = 2
    MaxFaults = 2
SPECIFICATION FairSpec
INVARIANTS
    TypeOK
    SentInOrder
    FlushMeansSent
    NoLostWakeup
PROPERTIES
    Implements
    PacketsAreSent
    FlushIsAnswered
