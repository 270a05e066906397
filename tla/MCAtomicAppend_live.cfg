SPECIFICATION FairSpec
CONSTANTS
    Procs = {p1, p2}
    NoProc = NoProc
    Keys = {k1}
    MaxLockAttempts = 3
CHECK_DEADLOCK FALSE
PROPERTIES
    OperationsEnd
