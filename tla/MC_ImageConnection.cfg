CONSTANTS
    NumProbes = 2
    UnmountAttempts = 2
    DetachAttempts = 2
SPECIFICATION Spec
INVARIANTS
    TypeOK
    CleanCloseComplete
    ClosedOrReported
PROPERTIES
    OwnMountOnly
    ForeignDeviceKept
    ImplementsImageFile
