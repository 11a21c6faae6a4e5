CONSTANTS
    j1 = j1
    j2 = j2
    w1 = w1
    w2 = w2
    NoJob = NoJob
    Row = j1
    Jobs = {j1, j2}
    Workers = {w1, w2}
    Capable <- OneLacksContext
    MaxAttempts = 3
    VisibilityTimeout = 2
    BackoffBase = 1
    MaxLag = 2
SPECIFICATION FairSpec
INVARIANTS TypeOK AttemptsAccounted DoneMeansHandled OneExecutor
PROPERTIES TerminalIsFinal KeepsPromise EveryJobSettles
