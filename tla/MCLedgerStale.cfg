CONSTANTS
    Procs = {p, q}
    MaxRows = 2
    RowLimit = 3
    FaultSets = {{"race"}}
SPECIFICATION Spec
SYMMETRY Symmetry
INVARIANT FileCountsAppended
