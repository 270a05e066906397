SPECIFICATION Spec
CONSTANTS
    c1 = c1
    c2 = c2
    c3 = c3
    r1 = r1
    Callers = {c1, c2, c3}
    Resetters = {r1}
    Nobody = Nobody
    Absent = Absent
    Corrupt = Corrupt
    Max = 1
    MaxWindows = 2
    MaxFaults = 0
SYMMETRY Symmetry
CHECK_DEADLOCK FALSE
INVARIANTS
    TripCoolsDown
