SPECIFICATION FairSpec
CONSTANTS
    N = 2
    D = 2
    Marked <- MarkAll
    ItemRetryCount = 2
    QueueSize = 1
    JobWorkers = 2
    MaxRun = 2
    MaxFault = 1
INVARIANTS
    CkptPrefix
    DoneComplete
    StatsExact
PROPERTIES
    CkptForward
    RunEnds
CHECK_DEADLOCK FALSE
