SPECIFICATION FairSpec
CONSTANTS
    Profiles <- AllShapes
    Duration = 4
    MaxConcurrency = 2
    Steps = 2
INVARIANTS
    ResultComplete
    ThinningSound
PROPERTIES
    ShedHonest
    RunEnds
CHECK_DEADLOCK FALSE
