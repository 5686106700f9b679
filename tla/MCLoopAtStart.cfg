SPECIFICATION Spec
CONSTANTS
    Programs <- MCLoopAtStart
PROPERTIES
    ImplementsProgram
CHECK_DEADLOCK FALSE
