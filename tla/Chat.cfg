SPECIFICATION Spec
CONSTANTS
    Papers = {p1, p2}
    NoPaper = none
    Handlers = {h1, h2}
    MaxRefs = 2
    MaxVisible = 1
    MaxFound = 2
    MaxMessages = 3
INVARIANTS TypeOK StartedIsNamed SelectionIsChosen
CHECK_DEADLOCK FALSE
