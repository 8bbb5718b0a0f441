SPECIFICATION FairSpec
CONSTANTS
    Tasks = {t1, t2}
    NumPhases = 2
    Parsing = 2
    MaxRevisions = 1
    MaxAttempts = 2
    Contents = 1
    StepIds = {s1}
    MaxSteps = 1
    Long = {}
    MaxFaults = 0
    MaxCrashes = 0
PROPERTIES
    NobodyIsRefused
CHECK_DEADLOCK FALSE
