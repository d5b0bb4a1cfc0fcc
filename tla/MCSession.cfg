CONSTANTS
    Unit = 20
    Sessions = {s1, s2}
    NoSession = none
    Tunables <- MCTunables
    Requests <- MCRequests
    Refreshes <- MCRefreshes
    ShortTtl = 1
    LongTtl = 2
    GapCap = 2
    ColdRatio = 1
    WarmShare = 10
    MinMissInput = 2
    FlapTolerance = 5
    PartialDrop = 4
    MaxRows = 2
    MaxTime = 3
    MaxEntries = 3
    MaxStarts = 1
SPECIFICATION Spec
INVARIANT TypeOK
INVARIANT MissesClassified
INVARIANT DecisionsGrounded
SYMMETRY AnySession
CHECK_DEADLOCK FALSE
