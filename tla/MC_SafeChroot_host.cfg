CONSTANTS
    tools = tools
    image = image
    NoChroot = NoChroot
    Chroots <- MCChroots
    ExistingDirs <- MCExistingDirs
    NumMounts = 2
    Nested <- MCNotNested
    HostMounts <- MCToolsLast
    TotalAttempts = 2
SPECIFICATION Spec
INVARIANTS
    HostMountsKept
