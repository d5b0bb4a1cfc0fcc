CONSTANTS
    p1 = p1
    p2 = p2
    Procs = {p1}
    Active = {"anchor", "fastCompaction"}
    EnvActive = {"anchor"}
    StartLimit = 2
    EditLimit = 1
    HandEditLimit = 0
    Failures = FALSE
SPECIFICATION Spec
PROPERTY EnvBeatsStored
CHECK_DEADLOCK FALSE
