SPECIFICATION FairSpec
CONSTANTS
    NumPhases = 3
    MaxRevisions = 1
    Limits = {2}
    MaxWall = 3
    MaxCrashes = 2
    MaxFaults = 1
INVARIANTS
    TypeOK
    BoundedReexecution
    ManifestCoversCheckpoint
    FilesAgree
PROPERTIES
    NoPhaseAfterCancel
    ImplementsLifecycle
    Settles
CHECK_DEADLOCK FALSE
