CONSTANTS
    p1 = p1
    p2 = p2
    Procs = {p1, p2}
    Active = {"fastCompaction", "sharedKey"}
    EnvActive = {"fastCompaction"}
    StartLimit = 3
    EditLimit = 3
    HandEditLimit = 1
    Failures = TRUE
SPECIFICATION Spec
SYMMETRY Symmetry
INVARIANT TypeOK
INVARIANT LiveValuesAgree
INVARIANT ViewShowsLive
PROPERTY RestartKeepsChoices
CHECK_DEADLOCK FALSE
