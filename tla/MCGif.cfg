SPECIFICATION Spec
CONSTANTS
    GifPackets <- MCGifPackets
    KickPackets <- MCKickPackets
    Streams <- MCStreams
    MaxCount = 1024
    MaxPackets = 3
INVARIANTS
    Path3InOrder
    BuffersAlternate
    VifInStep
PROPERTIES
    DrainedInOrder
