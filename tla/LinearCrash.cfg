CONSTANTS
    MaxAttempts = 2
    Slots = {1, 2, 3}
    Kind <- WriteThenEffects
    Grants = {g1}
    NoGrant = NoGrant
    AlreadyStored = FALSE
    Redelivery = FALSE
    CondResults = {"pass", "off", "error"}
SPECIFICATION FairLinearSpec
INVARIANTS TypeOK OneDuplicatePerResume RecordedAuthority InOrder SuccessIsComplete
PROPERTIES FinishedStepsStand JobSettles
