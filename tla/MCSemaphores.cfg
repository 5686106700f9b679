SPECIFICATION ClientSpec
CONSTANTS
    Threads <- MCTwo
    Dispatchers <- MCNone
    Semas <- MCSemas
    LowestPriority = 1
    MaxCount = 2
    MaxSuspend = 2
    MaxWakeup = 1
    MaxTicks = 0
    MaxFrames = 0
INVARIANTS
    ReadyQueuesExact
    SuspensionExact
    SleeperHasNoWakeup
PROPERTIES
    SemaphoreContract
