SPECIFICATION Spec
CONSTANTS
    Members = 3
    StdinSize = 2
    Faults = {"source", "disk", "start", "kill"}
INVARIANTS
    TypeOK
    OkIsComplete
    FailsOnlyOnFailure
PROPERTY
    AlwaysEnds
CHECK_DEADLOCK FALSE
