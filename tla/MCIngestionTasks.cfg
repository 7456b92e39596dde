SPECIFICATION FairSpec
CONSTANTS
    Task = {1}
    DocOf <- OneDoc
    Client = {1, 2}
    Proc = {1}
    Worker = {1}
    ProcOf <- OneProc
    None = None
    ChanCap = 1
    MaxRequest = 3
    MaxFault = 1
INVARIANTS ClaimExact CarriedUnlessExcused
PROPERTIES Settles
CHECK_DEADLOCK FALSE
