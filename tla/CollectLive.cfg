CONSTANTS
    Workers = {w1}
    N = 3
    Items <- MCItems
    Kinds = {"incremental", "snapshot", "table"}
    CommitOns = {TRUE}
    Windows = {TRUE}
    Matching = {1, 2}
    Stamp <- MCStamp
    FirstCap = 1
    SteadyCap = 3
    PageSize = 1
    MaxPages = 2
    Returns = FALSE
    MaxFaults = 1
    BusFault = 1
    FlagChange = 1
    None = None
SPECIFICATION FairSpec
PROPERTY EveryItemCollected
