SPECIFICATION Spec
CONSTANTS
    NumPhases = 1
    Messages = {m1}
    MaxTokens = 1
    MaxTasks = 2
    MaxRuns = 2
    MaxCrashes = 1
INVARIANTS
    TypeOK
    RequestsReachTheRun
    SessionAgrees
PROPERTIES
    RequestsAreObeyed
CHECK_DEADLOCK FALSE
