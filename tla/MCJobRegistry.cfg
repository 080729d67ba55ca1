CONSTANTS
    MaxJobs = 2
    ProviderConcurrency = 1
    MaxSubmits = 3
    MaxProgress = 0
    MaxShutdowns = 0
    WorkOutcomes = {"ok"}
    Keys = {k1, k2}
    NoKey = NoKey
SPECIFICATION Spec
INVARIANTS
    TypeOK
    RegistryInStep
    ProviderSlots
    OneAgentRun
    StreamEndsWithState
PROPERTIES
    EvictsOnlyEnded
    EndedStaysEnded
CHECK_DEADLOCK FALSE
SYMMETRY Symmetry
