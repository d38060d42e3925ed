SPECIFICATION Spec
CONSTANTS
    Calls = {c1, c2}
    MaxMatches = 1
    MaxSteps = 1
    MaxTime = 1
    MaxDrops = 0
    MaxLosses = 0
    Interleaved = FALSE
PROPERTIES
    ScreenShowsAccepted
CHECK_DEADLOCK FALSE
