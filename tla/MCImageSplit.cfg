SPECIFICATION Spec
CONSTANTS
    GifPackets <- NoPackets
    KickPackets <- NoPackets
    Streams <- MCStreams
    MaxCount = 1024
    MaxPackets = 3
INVARIANTS
    ReadAsSent
