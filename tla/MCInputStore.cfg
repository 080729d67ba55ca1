SPECIFICATION FairSpec
CONSTANTS
    u1 = u1
    u2 = u2
    u3 = u3
    Uploads <- MCUploads
    Bytes <- MCBytes
    Jobs = {j1}
    Store = store
    Handler = handler
    Capacity = 4
    JobLimit = 3
    Lifetime = 1
    OneLock = FALSE
    MaxTime = 1
INVARIANTS
    TypeOK
    BytesWithinBudget
    JobsOwnWhatTheyResolved
PROPERTIES
    UploadsAnswered
CHECK_DEADLOCK FALSE
