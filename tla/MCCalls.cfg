SPECIFICATION OneOfSpec
CONSTANTS
    Lines = {l1, l2}
    Texts = {x1, x2}
    Voices = {v1, v2}
    Threads = {t1, t2}
    MaxSpeaks = 2
    MaxChanges = 1
    MaxLates = 1
    MaxCancels = 1
    MaxFaults = 1
    CallIds = {x, y}
    Pages = {p, q}
    MaxRestarts = 1
    MaxVisits = 2
    Hasty = FALSE
    Sleepy = TRUE
    None = None
INVARIANTS
    ReadyFileIsOfWording
    
PROPERTIES
    OperationsTellTruth
SYMMETRY Alike
CHECK_DEADLOCK FALSE
