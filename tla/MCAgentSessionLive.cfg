CONSTANTS
    Clients = {c1}
    Tools = {t1, t2}
    MaxTurns = 1
    MaxAsks = 2
    MaxQuizzes = 1
    Closing = TRUE
SPECIFICATION Spec
INVARIANTS
    DestroyedLast
PROPERTIES
    CancelledTurnEnds
    QuietCloseComesToRest
CHECK_DEADLOCK FALSE
