SPECIFICATION Spec
CONSTANTS
    NameOrder <- MCNameOrder
    Outside <- MCOutside
    DevDirSetup <- MCDevDirSetup
    DevDirExtend <- MCDevDirExtend
    StageMagic <- MCStageMagic
    StandardStageDirs <- MCStandardStageDirs
    NogoPaths <- MCNogoPaths
    NogoNames = {"tmp"}
    MaxSymlinkChain = 3
    VdbDir <- MCVdbDir
    Matches <- MCMatches
    None = None
    Start <- MCStart
CHECK_DEADLOCK FALSE
INVARIANTS
    TypeOK
    UnstagedStayOut
    ParentsListed
    FoundLinksLead
    HardlinksFollowFiles
