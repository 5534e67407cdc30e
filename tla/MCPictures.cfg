SPECIFICATION OneOfSpec
CONSTANTS
    Threads = {t1, t2}
    Projects = {p1}
    Names = {n1, n2}
    Codes = {c1, c2}
    MaxExemplars = 2
    MaxDrawings = 5
    MaxRows = 3
    MaxRequests = 3
    MaxRestarts = 1
    Languages = {phatsang, mine}
    Phatsang = phatsang
    Rules = {warm, cold}
    Videos = {p1}
    PageRequests = {r1, r2}
    MaxVersions = 3
    None = None
    Gone = Gone
    Order <- FigThenSpace
    LanguagePages = {page}
    Keeper = loop
    MaxKit = 3
    PageWhilePruning = FALSE
INVARIANTS
    ExemplarsBounded
    ApprovedWasApproved
    PreviewIsOfCode
    SamplesStand
PROPERTIES
    
    LanguagesStand
CHECK_DEADLOCK FALSE
