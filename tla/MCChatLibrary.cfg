SPECIFICATION Spec
CONSTANTS
    MaxThreads = 3
    ReadOnly = {}
    MaxKeys = 3
    MaxRequests = 1
INVARIANTS
    TypeOK
    OwnSavesAgree
    NewestAutosaveKept
    TurnHasItsEnd
PROPERTIES
    NothingUnseenOverwritten
    FailedTurnLeavesNothing
CHECK_DEADLOCK FALSE
