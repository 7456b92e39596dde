SPECIFICATION FairSpec
CONSTANTS
    t1 = t1
    t2 = t2
    t3 = t3
    w1 = w1
    NoTask = NoTask
    Task <- ThreeTasks
    Worker <- OneWorker
    PerTaskQueueSize = 1
    JobQueueSize = 1
INVARIANTS
    BoundedBypass
PROPERTIES
    Served
    CloseReturns
CHECK_DEADLOCK FALSE
