SPECIFICATION HookSpec
CONSTANTS
    e1 = e1
    e2 = e2
    A = A
    B = B
    k1 = k1
    k2 = k2
    g1 = g1
    Events = {e1, e2}
    Installs = {A, B}
    Procs <- ThreeProcs
    Keys = {k1, k2}
    KeyOf <- DistinctKeyOf
    Window = 0
    GcAge = 0
    MaxClock = 1
    MaxFaults = 1
    GuardKeys = {g1}
    GuardKeyOf <- SharedGuardKeyOf
    Ttl = 0
CONSTRAINT OneTrouble
ACTION_CONSTRAINTS
    BodyNext
    KillsLast
CHECK_DEADLOCK FALSE
INVARIANTS
    HookTypeOK
    SilenceHasWitness
    SuppressionFollowsPass
    SilentOnlyOnSharedKey
PROPERTIES
    ImplementsGate
