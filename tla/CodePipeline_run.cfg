SPECIFICATION FairSpec
CONSTANTS
    ShotCount = 3
    ChunkShots = 2
    Concurrency = 2
    RepairRounds = 1
    MaxRuns = 2
    MaxEdits = 1
INVARIANTS
    CodeIsOfFingerprint
    EveryShotAccounted
PROPERTIES
    RunEnds
CHECK_DEADLOCK FALSE
