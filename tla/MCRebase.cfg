SPECIFICATION Spec
CONSTANTS
    Layer = {a, b}
    NoBase = NoBase
    Import = {pkgs}
    BaseImport = {pkgs}
    Configs <- FullConfig
    Installs <- FullInstall
    MaxUsers = 1
    MaxFilled = 2
    Faults = {}
INVARIANT
    RebaseChecksSuffice
