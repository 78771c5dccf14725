SPECIFICATION Spec
CONSTANTS
    Layer = {a, b, c}
    NoBase = NoBase
    Import = {pkgs}
    BaseImport = {pkgs}
    Configs <- FullConfig
    Installs <- FullInstall
    MaxUsers = 1
    MaxFilled = 2
    Faults = {}
SYMMETRY Symmetry
INVARIANTS
    TypeOK
    TreeInheritable
    OverlayMatchesBase
    ChainMounted
    BindsFromRoot
    MountsAreSeen
    NeverError
    ExportsFollowLayers
PROPERTIES
    UsedMountsKept
    UnmountAllIsThorough
    ImplementsTree
