SPECIFICATION DbSpec
CONSTANTS
    k1 = k1
    k2 = k2
    Kb = {k1}
    MaxTask = 3
    MaxTime = 2
    MaxTransientTaskRetries = 2
    SyncDeletedFiles = TRUE
SYMMETRY Symmetry
INVARIANTS ChainContinues NoGap
PROPERTIES CancelIsFinal
CHECK_DEADLOCK FALSE
