SPECIFICATION Spec
CONSTANTS
    Programs <- MCPrograms
INVARIANTS
    NeverLost
PROPERTIES
    ImplementsProgram
    StopHonoured
CHECK_DEADLOCK FALSE
