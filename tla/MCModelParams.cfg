CONSTANTS
    Models = {"m", "n"}
    Urls = {"a", "b"}
    NoUrl = "none"
    Lists <- MCLists
    OriginOf <- MCOrigin
    ServedFrom <- MCServed
    PiRates <- MCPi
    Tokens = {0, 2, 3, 5}
    EnvMaxAge <- Two
    EnvRetry <- Unset
    EnvTimeout <- Zero
    EnvMaxModels <- One
    LongestDelay = 9
    Latency = 1
    TtlTables <- MCTables
    RestartLimit = 2
SPECIFICATION FairSpec
INVARIANT TypeOK
INVARIANT SingleFlight
INVARIANT RatesAreThePublished
INVARIANT LastGoodKept
PROPERTY StaysFresh
CHECK_DEADLOCK FALSE
