CONSTANTS
    Clients = {c1}
    Tools = {t1}
    MaxTurns = 1
    MaxAsks = 1
    MaxQuizzes = 0
    Closing = TRUE
SPECIFICATION Spec
PROPERTIES
    ClosedComesToRest
CHECK_DEADLOCK FALSE
