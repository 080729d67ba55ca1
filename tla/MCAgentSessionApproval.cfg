CONSTANTS
    Clients = {c1, c2}
    Tools = {t1}
    MaxTurns = 2
    MaxAsks = 2
    MaxQuizzes = 1
    Closing = FALSE
SPECIFICATION Spec
INVARIANTS
    ApprovalDecidesItsRequest
CHECK_DEADLOCK FALSE
