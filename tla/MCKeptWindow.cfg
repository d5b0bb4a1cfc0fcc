CONSTANTS
    Sizes = {1, 4}
    Budgets = {1, 2}
    DefaultBudget = 1
    Ratio = 2
    MaxTurns = 2
    MaxBlocks = 2
    MaxRegion = 2
    MessageLimit = 5
    HiddenLimit = 1
    CompactionLimit = 3
SPECIFICATION Spec
INVARIANT TypeOK
INVARIANT NoOrphanResult
INVARIANT NothingLost
INVARIANT Chronological
INVARIANT ShedsToCap
CHECK_DEADLOCK FALSE
