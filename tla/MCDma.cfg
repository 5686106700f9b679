SPECIFICATION Spec
CONSTANTS
    Memories <- MCMemories
    Starts <- MCStarts
    Blocks <- MCBlocks
    Chains <- MCChains
    StatWrites <- MCStatWrites
    MaxTags = 6
    SetupQwc = 1
    MaxTransfers = 2
    MaxCalls = 1
INVARIANTS
    InterruptsExact
    ShortCutsAgree
PROPERTIES
    ImplementsSource
CHECK_DEADLOCK FALSE
