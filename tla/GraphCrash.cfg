CONSTANTS
    MaxAttempts = 2
    Graph <- MailGraph
    Slots <- MailSlots
    Kind <- MailKind
    Entry = {1}
    Items <- MailItems
    NotArray = NotArray
    MaxIterations = 2
    MaxBodyNodes = 2
    OrdBase = 20
    NoNode = NoNode
    Grants = {}
    NoGrant = NoGrant
    AlreadyStored = TRUE
    Redelivery = FALSE
SPECIFICATION GraphSpec
INVARIANTS TypeOK RoutingMatchesJournal OneDuplicatePerResume LoopIsComplete SuccessIsComplete
PROPERTIES FinishedStepsStand LatchSurvivesResume
