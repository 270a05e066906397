SPECIFICATION Spec
CONSTANTS
    Own = {a, b}
    Others = {x}
    Early = Early
    Done = Done
    Hooks = {h1, h2}
CONSTRAINT FewMishaps
SYMMETRY Symmetry
CHECK_DEADLOCK FALSE
INVARIANTS
    TypeOK
    OwnRowsKept
    OtherRowsKept
    SafeToTruncate
    PartialIsMarked
PROPERTIES
    ImplementsTrail
