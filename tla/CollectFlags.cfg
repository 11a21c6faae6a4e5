CONSTANTS
    Workers = {w1}
    N = 2
    Items <- MCItems
    Kinds = {"incremental"}
    CommitOns = {TRUE}
    Windows = {FALSE}
    Matching <- MCItems
    Stamp <- MCStamp
    FirstCap = 2
    SteadyCap = 2
    PageSize = 1
    MaxPages = 3
    Returns = FALSE
    MaxFaults = 1
    BusFault = 2
    FlagChange = 1
    None = None
SPECIFICATION FairSpec
PROPERTY CommittedNeverReruns
