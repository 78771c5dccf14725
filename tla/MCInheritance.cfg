SPECIFICATION Spec
CONSTANTS
    Layer = {n1, n2, n3, n4}
    NoBase = NoBase
    Spelling <- Spelled
    Separator <- Slash
INVARIANTS
    CheckInheritanceIsExact
    ChainIsComplete
    OrderIsTopological
