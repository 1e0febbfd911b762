SPECIFICATION FairSpec
CONSTANTS
    Sessions = {s1, s2}
    Warmers = {w1}
    Transport = TRUE
    MaxGen = 3
    MaxCalls = 3
    NoOne = NoOne
INVARIANTS
    RefreshSound
PROPERTIES
    SingleFlight
    CallersReturn
CHECK_DEADLOCK FALSE
