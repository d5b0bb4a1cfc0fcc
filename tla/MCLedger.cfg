CONSTANTS
    Procs = {p, q}
    MaxRows = 2
    RowLimit = 3
    FaultSets = {{}, {"race", "stall", "torn"}}
SPECIFICATION Spec
SYMMETRY Symmetry
INVARIANT TypeOK
INVARIANT Conserved
INVARIANT Serialized
INVARIANT TotalsHonest
