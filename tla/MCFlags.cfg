SPECIFICATION FlagsSpec
CONSTANTS
    t1 = t1
    t2 = t2
    t3 = t3
    Threads <- MCThreads
    Flags <- MCFlags
    Bits <- MCBits
    Modes <- MCModes
SYMMETRY Symmetry
INVARIANTS
    NoneSatisfied
PROPERTIES
    NoOvertaking
    ConsumedOnce
