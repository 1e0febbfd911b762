SPECIFICATION FairSpec
CONSTANTS
    NumUsers = 3
    Width = 2
    MaxAttempts = 2
INVARIANTS
    LoneSignup
    FullyAuthenticated
    Accounted
PROPERTIES
    RunEnds
CHECK_DEADLOCK FALSE
