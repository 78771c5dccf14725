SPECIFICATION Spec
CONSTANTS
    Layer = {a, b, c}
    NoBase = NoBase
    Import = {}
    BaseImport = {}
    Configs <- FullConfig
    Installs <- FullInstall
    MaxUsers = 0
    MaxFilled = 6
    Faults = {"write", "crash", "loss"}
SYMMETRY Symmetry
INVARIANTS
    NoCycle
    OverlayMatchesBase
    ChainMounted
