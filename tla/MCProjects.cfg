SPECIFICATION OneOfSpec
CONSTANTS
    Default = default
    Short = short
    LongScript = longscript
    ShortScript = shortscript
    Renders = {plain, fine}
    Track = track
    BurnIn = burnin
    MaxSaves = 1
    PatchOverlaps = FALSE
    None = None
    ProjectIds = {a, b, c}
    Topics = {t}
    Collected = {plain, tall}
    DefaultChoice = plain
    ShortChoice = tall
    MaxVersionsOfStory = 2
    MaxRequests = 4
    Overlaps = FALSE
    Breaks = TRUE
    Threads = {t1}
    ChainSteps = 1
    TargetSeconds = 60
    ReplySeconds = {1, 10, 50}
    EditSeconds = {25, 1000}
    MaxBeats = 3
    MaxStories = 2
    MaxSheetRequests = 5
    Beats = {b1, b2}
    MaxLines = 2
    MaxVersions = 2
    MaxChanges = 1
    MaxScriptRequests = 4
INVARIANTS
    SettingsStand
    ValidatedAgainst
PROPERTIES
    
    RowsStand
    ContentRunFitsTarget
    RunsSpareTheCreators
    SparedDialogueStands
    StaleUntilRewritten
SYMMETRY Alike
CHECK_DEADLOCK FALSE
