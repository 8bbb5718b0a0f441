SPECIFICATION Spec
CONSTANTS
    Slots = {c1, c2}
    Ids = {r1, r2}
    Messages = {hello}
    Actions = {confirm}
    MaxCalls = 3
    MaxFaults = 2
    MaxEvents = 1
    MaxDrops = 1
SYMMETRY Symmetry
INVARIANTS TypeOK Idempotent CountAgrees StreamIsComplete
CHECK_DEADLOCK FALSE
