SPECIFICATION Spec
CONSTANTS
    Period = 3
    Duration = 1
    Alarms <- MCAlarms
    MaxDelay = 2
    MaxPosts = 2
    MaxLate = 2
INVARIANTS
    EventsInOrder
    CheckpointNotLost
    NoLostWakeup
    NextIsEarliest
    AlarmsExact
PROPERTIES
    StopEndsRun
    VBlanksGoOn
