SPECIFICATION FairSpec
CONSTANTS
    MaxCandidates = 3
    Contents = {{a, b, d}, {a, c}, {a, x}}
    Markers = {x}
    MaxAttempts = 2
    BaseDelay = 1
    MaxCrashes = 1
    MaxFaults = 2
INVARIANTS
    TypeOK
    AttemptsBounded
    VersionsAreChained
    CompletedIsStored
    NothingForgotten
PROPERTIES
    QueueSettles
CHECK_DEADLOCK FALSE
