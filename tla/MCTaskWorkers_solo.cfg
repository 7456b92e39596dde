SPECIFICATION FairSpec
CONSTANTS
    p1 = p1
    p2 = p2
    w1 = w1
    w2 = w2
    k1 = k1
    Proc = {p1}
    Worker = {w1, w2}
    ProcOf <- Pool
    Kb = {k1}
    MaxTask = 3
    MaxTime = 2
    MaxTransientTaskRetries = 2
    SyncDeletedFiles = FALSE
    MaxCopies = 2
    MaxFault = 2
    MaxDbFault = 0
    MaxStop = 0
    MaxRequest = 0
INVARIANTS NoLostWakeup
PROPERTIES ScheduledSettles
CHECK_DEADLOCK FALSE
