SPECIFICATION Spec
CONSTANTS
    Radix = 2
    Width = 2
    Entry <- Packages
    Grouping = "version"
    Version <- SomeVersions
    MaxSize = 3
INVARIANTS
    MatchIsExact
PROPERTIES
    ImplementsKeyedSet
