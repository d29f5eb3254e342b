SPECIFICATION Spec
CONSTANTS
    Instance = {i1, i2}
    Limit = 2
    Window = 4
    Burst = 1
    Ahead = 1
    Lag = 1
    MaxTime = 6
    MaxErrors = 2
    MaxEvictions = 1
SYMMETRY Symmetry
INVARIANTS TypeOK AtMostLimit OutageBounded
PROPERTIES RefusedOnlyIfBusy
