CONSTANTS
    Workers = {w1, w2}
    N = 2
    Items <- MCItems
    Kinds = {"incremental", "snapshot"}
    CommitOns = {TRUE, FALSE}
    Windows = {FALSE}
    Matching <- MCItems
    Stamp <- MCStamp
    FirstCap = 2
    SteadyCap = 2
    PageSize = 1
    MaxPages = 3
    Returns = FALSE
    MaxFaults = 2
    BusFault = 2
    FlagChange = 1
    None = None
SYMMETRY Alike
SPECIFICATION Spec
INVARIANTS TypeOK OneCollector NothingLost PaidOnce
PROPERTY CommittedNotRerun
