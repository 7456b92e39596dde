SPECIFICATION FairSpec
CONSTANTS
    Task = {1}
    DocOf <- OneDoc
    Client = {1}
    Proc = {1}
    Worker = {1}
    ProcOf <- OneProc
    None = None
    ChanCap = 1
    MaxRequest = 2
    MaxFault = 0
PROPERTIES NeverStuck
CHECK_DEADLOCK FALSE
