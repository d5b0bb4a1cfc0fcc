CONSTANTS
    Quantum = 3
    Margin = 2
    MinDepth = 3
    MaxMarkers = 4
    Profiles <- MCProfiles
    Tools <- MCTools
    Listings <- MCListings
    BlockCounts = {0, 1, 3}
    Switches <- MCSwitches
    HistoryLimit = 4
    RequestLimit = 2
    CompactLimit = 1
SPECIFICATION Spec
INVARIANT TypeOK
INVARIANT MarkersKept
INVARIANT AnchorSteady
INVARIANT WireHeadCanonical
INVARIANT UnchurnedHeadIsStable
CHECK_DEADLOCK FALSE
