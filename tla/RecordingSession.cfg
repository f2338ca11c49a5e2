SPECIFICATION SessionFairSpec
CONSTANTS
    None = None
    Failures <- AllFailures
    MaxCommands = 3
    JoinTimesOut = TRUE
    EnsureFails = TRUE
INVARIANTS
    NoTransitionSpansAnEvent
    SourceIsPersisted
    FaultsAreLocal
    RuntimeSettles
    CompletedIsWhole
PROPERTY EveryEndIsReached
CHECK_DEADLOCK FALSE
