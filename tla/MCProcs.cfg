SPECIFICATION Spec
CONSTANTS
    Layer = {a, b, c}
    NoBase = NoBase
    Process = {p, q}
    Imports <- NoImports
    Ops <- TreeOps
    Start <- NoLayers
    MaxDisturbed = 2
    MaxHarmed = 3
    a = a
    b = b
SYMMETRY Symmetry
VIEW WithoutTorn
INVARIANTS
    OverlaysFollowTree
    ChainsMounted
    TreeInheritable
CHECK_DEADLOCK FALSE
