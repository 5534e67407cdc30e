SPECIFICATION HandlersSpec
CONSTANTS
    MaxRequests = 0
    SynthesisRetries = 1
    HumanPace = TRUE
    StartWhileRunning = FALSE
    StaleDeadLetters = FALSE
    Threads = {t1}
    MaxHandled = 3
    maxEventAttempts = 2
    PurgeTargets = {}
    Serial = {}
    Dispatchers = {}
    MaxDeletes = 0
    MaxClock = 0
    Scripts <- MCScripts
    Rewordings = {3}
    Configs <- MCConfigs
    Uploads <- MCUploads
    Estimate = 2
    ShotGap = 1
    LineGap = 0
    LeadIn = 1
    LeadOut = 1
    MaxProduced = 0
INVARIANTS
    DispatchedOncePerRequest
PROPERTIES
    ImplementsRenderSaga
    EventsSettle
CHECK_DEADLOCK FALSE
