CONSTANTS
    p1 = p1
    p2 = p2
    Procs = {p1, p2}
    Keep = 2
    TtlMs = 1
    MaxBytes = 5
    StaleMs = 1
    Sizes = {1, 3, 6}
    MaxTime = 2
    MaxCaptures = 3
SPECIFICATION Spec
SYMMETRY Siblings
INVARIANT TypeOK
INVARIANT RetentionHolds
CHECK_DEADLOCK FALSE
