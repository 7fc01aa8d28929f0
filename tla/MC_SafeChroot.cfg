CONSTANTS
    tools = tools
    image = image
    NoChroot = NoChroot
    Chroots <- MCChroots
    ExistingDirs <- MCExistingDirs
    NumMounts = 2
    Nested <- MCNested
    HostMounts <- MCToolsFirst
    TotalAttempts = 2
SPECIFICATION FairSpec
INVARIANTS
    TypeOK
    ExclusiveUnmount
    RemoveOnlyUnmounted
    MountsAccountedFor
    NoProcessInTeardown
    ExitLeavesNoMounts
PROPERTIES
    SignalEndsProgram
