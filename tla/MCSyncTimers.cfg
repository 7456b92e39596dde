SPECIFICATION FairSpec
CONSTANTS
    MaxTimer = 5
    MaxFault = 2
INVARIANTS
    OwedHasTimer
PROPERTIES
    WakeupComes
CHECK_DEADLOCK FALSE
