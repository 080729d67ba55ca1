SPECIFICATION Spec
CONSTANTS
    MaxThreads = 3
    ReadOnly = {}
    MaxKeys = 4
    MaxRequests = 0
INVARIANTS
    TranscriptsStayApart
CHECK_DEADLOCK FALSE
