CONSTANTS
    MaxEvents = 2
    MaxBytes = 3
    Readers = {r1, r2}
    Starts = {0, 1, 6}
    Sizes = {1, 2, 4}
    MaxPublish = 4
SPECIFICATION Spec
INVARIANTS
    TypeOK
    LogIsTail
PROPERTIES
    ImplementsFeed
    StreamsEnd
CHECK_DEADLOCK FALSE
