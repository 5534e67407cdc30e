SPECIFICATION Spec
CONSTANTS
    Beats = {b1}
    Threads = {t1, t2}
    Wordings = {1, 2}
    Flagged = {1}
    Notes = {n1}
    Terms = {g1}
    MaxFindings = 1
    MaxChanges = 1
    MaxRequests = 4
INVARIANTS
    
    FixedWasDone
CHECK_DEADLOCK FALSE
