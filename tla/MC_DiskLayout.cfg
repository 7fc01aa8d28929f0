SPECIFICATION Spec
CONSTANTS
    MaxPartitions = 3
    Written <- MCWritten
    DiskSizes <- MCDiskSizes
    Modulus = 6
INVARIANTS
    TypeOK
    AcceptedLayoutOrdered
    RevalidationStable
    SfdiskNeverRefuses
