SPECIFICATION LeaseSpec
CONSTANTS
    Owners = {o1, o2, o3}
    TTL = 1
    MaxClock = 2
INVARIANTS
    LeaseTypeOK
    HolderOwnsFile
    LeaseHasOwner
    NotAllRefused
CHECK_DEADLOCK FALSE
