SPECIFICATION Spec
CONSTANTS
    Default = default
    Short = short
    LongScript = longscript
    ShortScript = shortscript
    Renders = {plain, fine}
    Track = track
    BurnIn = burnin
    MaxSaves = 0
    PatchOverlaps = FALSE
    None = None
PROPERTIES
    RetryReadsSettings
