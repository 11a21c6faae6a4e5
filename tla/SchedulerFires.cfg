CONSTANTS
    p1 = p1
    p2 = p2
    cron = cron
    cal = cal
    graph = graph
    coll = coll
    NoFire = NoFire
    Pods = {p1, p2}
    Autos = {cron, cal, graph, coll}
    Kind <- MCKind
    Triggers <- MCTriggers
    Span <- MCSpan
    Skew <- P2Ahead
    MaxSkew = 1
    SleepTime = 2
    MaxPeriod = 3
    FireTTL = 4
    Faults = {"crash", "lock", "list", "enqueue"}
    Horizon = 6
SPECIFICATION Spec
CHECK_DEADLOCK FALSE
INVARIANTS TypeOK SingleFire EveryOccurrenceFires
