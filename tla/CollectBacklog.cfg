CONSTANTS
    Workers = {w1}
    N = 3
    Items <- MCItems
    Kinds = {"table"}
    CommitOns = {TRUE}
    Windows = {TRUE, FALSE}
    Matching <- MCItems
    Stamp <- MCStamp
    FirstCap = 1
    SteadyCap = 2
    PageSize = 1
    MaxPages = 3
    Returns = FALSE
    MaxFaults = 0
    BusFault = 1
    FlagChange = 1
    None = None
SPECIFICATION FairSpec
PROPERTY EveryItemCollected
