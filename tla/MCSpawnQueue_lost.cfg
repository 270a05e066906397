SPECIFICATION Spec
CONSTANTS
    w1 = w1
    t1 = t1
    t2 = t2
    d1 = d1
    d2 = d2
    q1 = q1
    q2 = q2
    o1 = o1
    o2 = o2
    Workers = {w1}
    Triggers = {t1}
    Drains = {d1}
    Prompts = {q1}
    Nobody = Nobody
    Orchs = {o1, o2}
    NoOrch = NoOrch
    Quota = 2
    BlockRows = 1
    MaxFaults = 0
CHECK_DEADLOCK FALSE
INVARIANTS
    QueuedRequestKept
