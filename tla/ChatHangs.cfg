CONSTANTS
    t1 = t1
    t2 = t2
    ask = ask
    retry = retry
    again = again
    next = next
    p1 = p1
    p2 = p2
    s1 = s1
    Pods = {p1, p2}
    Turns = {t1, t2}
    Runs = {ask, retry, again, next}
    Regenerates = {again}
    Sockets = {s1}
    Scenes <- OneMessage
    Key <- MCKey
    Home <- MCHome
    MaxTokens = 1
    Overlap = FALSE
    MaxFaults = 1
    None = None
SPECIFICATION FairSpec
PROPERTY EveryForwarderUnwinds
CHECK_DEADLOCK FALSE
