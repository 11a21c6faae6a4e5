CONSTANTS
    MaxAttempts = 2
    Slots = {1, 2}
    Kind <- WriteThenNotify
    Grants = {g1}
    NoGrant = NoGrant
    AlreadyStored = FALSE
    Redelivery = FALSE
    CondResults = {"pass"}
SPECIFICATION LinearSpec
PROPERTIES NoRefireAfterSuccess
