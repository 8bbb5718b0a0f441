SPECIFICATION Spec
CONSTANTS
    MaxCandidates = 2
    Contents = {{a, b, d}, {a, c}, {a, x}}
    Markers = {x}
    MaxAttempts = 2
    BaseDelay = 1
    MaxCrashes = 1
    MaxFaults = 2
INVARIANTS
    MemorySurvives
CHECK_DEADLOCK FALSE
