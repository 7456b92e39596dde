SPECIFICATION Spec
CONSTANTS
    Doc <- MCDoc
    Worker <- MCWorker
    BatchSize = 2
    MaxWrite = 2
    MaxFault = 1
INVARIANT LastEventWins
CHECK_DEADLOCK FALSE
