SPECIFICATION Spec
CONSTANTS
    NumPhases = 2
    Messages = {m1}
    MaxTokens = 1
    MaxTasks = 1
    MaxRuns = 2
    MaxCrashes = 0
INVARIANT OneRunPerTask
CHECK_DEADLOCK FALSE
