SPECIFICATION Spec
CONSTANTS
    Inputs <- AllInputs
    NumUsers = 3
    MaxPattern = 2
INVARIANTS
    NoSilentAnonymous
    ReplaySame
CHECK_DEADLOCK FALSE
