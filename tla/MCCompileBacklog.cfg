SPECIFICATION FairSpec
CONSTANTS
    Doc <- MCDoc
    Worker <- MCWorker
    BatchSize = 2
    MaxWrite = 2
    MaxFault = 1
INVARIANTS Converged
PROPERTIES WriteFence ImplementsLog Drains
CHECK_DEADLOCK FALSE
