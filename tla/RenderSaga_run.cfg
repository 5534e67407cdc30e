SPECIFICATION FairSpec
CONSTANTS
    MaxRequests = 4
    SynthesisRetries = 1
    HumanPace = TRUE
    StartWhileRunning = FALSE
    StaleDeadLetters = FALSE
INVARIANTS
    RowsAgree
    NeverStranded
PROPERTIES
    OnlyRequestsWake
    ImplementsPipeline
    RunningSettles
CHECK_DEADLOCK FALSE
