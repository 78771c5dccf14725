SPECIFICATION Spec
CONSTANTS
    Layer = {a, b}
    NoBase = NoBase
    Import = {pkgs, dev}
    BaseImport = {pkgs}
    Configs <- FullConfig
    Installs <- StagedInstalls
    MaxUsers = 1
    MaxFilled = 2
    Faults = {}
SYMMETRY Symmetry
PROPERTIES
    MountCompletes
