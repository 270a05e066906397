SPECIFICATION FairSpec
CONSTANTS
    Procs = {p1, p2, p3}
    Calls = {c1}
    NoProc = NoProc
    Fingerprints = {f1}
    NoFp = NoFp
    MaxRestartAttempts = 2
CHECK_DEADLOCK FALSE
PROPERTIES
    CallsSettle
    LoadingEnds
    ShutdownEnds
