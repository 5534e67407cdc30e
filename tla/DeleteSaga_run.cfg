SPECIFICATION DeletionSpec
CONSTANTS
    MaxRequests = 0
    SynthesisRetries = 1
    HumanPace = TRUE
    StartWhileRunning = FALSE
    StaleDeadLetters = FALSE
    Threads = {t1}
    MaxHandled = 0
    maxEventAttempts = 2
    PurgeTargets = {tts, rendering}
    Serial = {rendering}
    Dispatchers = {rendering}
    MaxDeletes = 2
    MaxClock = 2
    Scripts <- MCScripts
    Rewordings = {3}
    Configs <- MCConfigs
    Uploads <- MCUploads
    Estimate = 2
    ShotGap = 1
    LineGap = 0
    LeadIn = 1
    LeadOut = 1
    MaxProduced = 0
PROPERTIES
    GoneAfterPurges
    DeleteSettles
CHECK_DEADLOCK FALSE
