SPECIFICATION GuardSpec
CONSTANTS
    Callers = {c1, c2, c3}
    MaxRPS = 2
    MaxConc = 2
    TicksPerSec = 3
    MaxTime = 5
    MinSamples = 3
    ErrNum = 1
    ErrDen = 2
SYMMETRY CallerSymmetry
INVARIANTS
    InFlightExact
    RateWindow
    WindowExact
PROPERTIES
    KillFinal
CHECK_DEADLOCK FALSE
