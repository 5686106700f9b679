SPECIFICATION Spec
CONSTANTS
    Threads <- MCOne
    Dispatchers <- MCDispatchers
    Semas <- MCNone
    LowestPriority = 2
    MaxCount = 1
    MaxSuspend = 1
    MaxWakeup = 0
    MaxTicks = 1
    MaxFrames = 2
INVARIANTS
    StrictPriority
    RetiredIsClean
PROPERTIES
    PreemptedKeepsItsTurn
