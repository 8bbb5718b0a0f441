SPECIFICATION Spec
CONSTANTS
    NumPhases = 2
    Messages = {m1}
    MaxTokens = 1
    MaxTasks = 2
    MaxRuns = 2
    MaxCrashes = 0
INVARIANT TokenStartsOneTask
CHECK_DEADLOCK FALSE
