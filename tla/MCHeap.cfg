SPECIFICATION Spec
CONSTANTS
    u1 = u1
    u2 = u2
    u3 = u3
    t1 = t1
    HardLimit = 9
    ProgramEnd = 1
    StackSize = 2
    Users <- MCUsers
    Threads <- MCThreads
    Bases <- MCBases
    Sizes <- MCSizes
    Aligns <- MCAligns
SYMMETRY Symmetry
INVARIANTS
    BlocksTile
    AllocationsExact
    ContentsKept
    LiveOwnsStack
