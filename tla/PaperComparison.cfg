SPECIFICATION Spec
CONSTANTS
    NumRefs = 2
    LivePaper = 1
    Finished = {0, 2, 5}
    MaxTakeovers = 1
INVARIANTS
    TypeOK
    ReportsAreTrue
    PassedContentIsKept
    CompletedIsSaved
CHECK_DEADLOCK FALSE
