SPECIFICATION FairSpec
CONSTANTS
    Papers = {p1, p2}
    NoPaper = NoPaper
    MaxRuns = 3
    MaxCrashes = 1
    MaxFaults = 2
INVARIANTS
    TypeOK
    PassedStepsHaveContent
    StepsAgree
    OutputIsComplete
PROPERTIES
    RunsEnd
CHECK_DEADLOCK FALSE
