SPECIFICATION Spec
CONSTANTS
    p1 = p1
    p2 = p2
    w1 = w1
    w2 = w2
    k1 = k1
    Proc = {p1, p2}
    Worker = {w1, w2}
    ProcOf <- OneEach
    Kb = {k1}
    MaxTask = 3
    MaxTime = 1
    MaxTransientTaskRetries = 2
    SyncDeletedFiles = TRUE
    MaxCopies = 1
    MaxFault = 0
    MaxDbFault = 0
    MaxStop = 1
    MaxRequest = 0
SYMMETRY Swapped
INVARIANTS ExclusiveRun OwnedRunning
PROPERTIES DbSpec
CHECK_DEADLOCK FALSE
