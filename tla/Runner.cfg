SPECIFICATION FairSpec
CONSTANTS
    Callers <- TwoUsers
    MaxRPS = 2
    MaxConc = 1
    TicksPerSec = 1
    MaxTime = 1
    MinSamples = 0
    ErrNum = 1
    ErrDen = 2
    NumUsers = 2
    MaxSessions = 2
    Walks <- MixedWalks
    Thinks = TRUE
    Refreshes = TRUE
    MayCancel = TRUE
INVARIANTS
    ReturnQuiescent
    ResultsExact
    PromptStop
PROPERTIES
    GuardSpec
    Terminates
CHECK_DEADLOCK FALSE
