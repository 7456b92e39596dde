SPECIFICATION Spec
CONSTANTS
    p1 = p1
    p2 = p2
    w1 = w1
    w2 = w2
    k1 = k1
    Proc = {p1}
    Worker = {w1, w2}
    ProcOf <- Pool
    Kb = {k1}
    MaxTask = 2
    MaxTime = 1
    MaxTransientTaskRetries = 2
    SyncDeletedFiles = FALSE
    MaxCopies = 2
    MaxFault = 0
    MaxDbFault = 1
    MaxStop = 1
    MaxRequest = 1
SYMMETRY Siblings
INVARIANTS ExclusiveRun
PROPERTIES DoneIsFinal
CHECK_DEADLOCK FALSE
