SPECIFICATION Spec
CONSTANTS
    Radix = 2
    Width = 2
    Package <- Ids
    Requested = Requested
    Dep <- Deps
    Candidates <- MCCandidates
    FlagIsSet <- MCFlagIsSet
    Entered <- MCEntered
    Blocks <- MCBlocks
    Meaning <- MCMeaning
    Start <- MCStart
    Depth <- MCDepth
CHECK_DEADLOCK FALSE
INVARIANTS
    TypeOK
    NeverBlockedAndAdded
    FailsOnlyIfUnsolvable
PROPERTIES
    ImplementsSelection
    AlwaysEnds
