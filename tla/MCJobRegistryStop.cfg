CONSTANTS
    MaxJobs = 2
    ProviderConcurrency = 1
    MaxSubmits = 2
    MaxProgress = 1
    MaxShutdowns = 1
    WorkOutcomes = {"ok", "error", "cancelled"}
    Keys = {}
    NoKey = NoKey
SPECIFICATION Spec
INVARIANTS
    ShutdownIsFinal
PROPERTIES
    CancelTakesEffect
    ShutdownReturns
    JobsEnd
