CONSTANTS
    Clients = {c1, c2}
    Tools = {t1, t2}
    MaxTurns = 2
    MaxAsks = 2
    MaxQuizzes = 2
    Closing = FALSE
SPECIFICATION Spec
INVARIANTS
    TypeOK
    TurnsApart
    NothingStale
    AskersAreServed
    AnswersAreFresh
    ApprovalIdSingleUse
    NobodyWaitsUnseen
CHECK_DEADLOCK FALSE
SYMMETRY Symmetry
