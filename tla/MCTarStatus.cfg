SPECIFICATION Spec
CONSTANTS
    Members = 3
    StdinSize = 2
    Faults = {"source", "disk", "start", "kill"}
INVARIANT
    StatusTellsSuccess
CHECK_DEADLOCK FALSE
