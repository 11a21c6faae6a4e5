CONSTANTS
    p1 = p1
    p2 = p2
    chatA = chatA
    chatB = chatB
    id1 = id1
    Pods = {p1, p2}
    N = 3
    Source <- MCSource
    MsgId <- MCMsgId
    NoId = NoId
    MaxFaults = 3
    None = None
    Gone = Gone
SPECIFICATION FairSpec
INVARIANTS DispatchedOnce YieldedIsDispatched
PROPERTIES AlwaysLedAgain
CHECK_DEADLOCK FALSE
