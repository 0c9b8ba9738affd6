CONSTANTS
    OtherNames = {"xsalsa20_poly1305", "aead_other"}
    MaxOffers = 3
    MaxEntries = 3
    SampleRates = {100, 120}
    ChannelCounts = {1, 2, 3}
    MaxSamples = 14
    PacketSizes = {1, 2, 3, 5, 7}
    samples_per_twenty_ms = 4
    MaxDecoded = 14
SPECIFICATION Spec
CHECK_DEADLOCK FALSE
INVARIANTS
    NegotiatesBest
    EncryptsAsDescribed
    EventRight
    NothingLost
    ChannelsKept
    CutInOrder
