SPECIFICATION Spec
CONSTANTS
    Layer = {a, b}
    NoBase = NoBase
    Process = {p, q}
    Imports <- TwoImports
    Ops <- MountOps
    Start <- OnePair
    MaxDisturbed = 1
    MaxHarmed = 1
    a = a
    b = b
SYMMETRY ProcessSymmetry
VIEW WithTorn
INVARIANTS
    TypeOK
    MountedIsComplete
PROPERTIES
    ShellsKeepMounts
CHECK_DEADLOCK FALSE
