SPECIFICATION Spec
CONSTANTS
    Procs = {p1, p2, p3}
    Calls = {c1, c2}
    NoProc = NoProc
    Fingerprints = {f1, f2}
    NoFp = NoFp
    MaxRestartAttempts = 2
SYMMETRY Symmetry
CHECK_DEADLOCK FALSE
INVARIANTS
    TypeOK
    LiveHasProcess
    LoadingHasHandshake
    ToolsMatchState
    PendingHasWaiter
    RestartBudget
PROPERTIES
    SpawnNeedsConsent
    UnloadedIsFinal
    ImplementsService
