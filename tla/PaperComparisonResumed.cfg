SPECIFICATION Spec
CONSTANTS
    NumRefs = 2
    LivePaper = 1
    Finished = {2, 5}
    MaxTakeovers = 1
INVARIANT CompletedIsCompared
CHECK_DEADLOCK FALSE
