SPECIFICATION Spec
CONSTANTS
    Tasks = {t1, t2}
    NumPhases = 2
    Parsing = 2
    MaxRevisions = 1
    MaxAttempts = 2
    Contents = 1
    StepIds = {s1}
    MaxSteps = 2
    Long = {t1}
    MaxFaults = 1
    MaxCrashes = 1
INVARIANTS
    TypeOK
    PromptsAreRight
    StepsAreRecorded


CHECK_DEADLOCK FALSE
