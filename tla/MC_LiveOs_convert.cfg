CONSTANTS
    k1 = k1
    k2 = k2
    Kernels = {k1, k2}
    MaxRuns = 3
    DiskImages <- MCDiskImages
    Requests <- MCRequests
SPECIFICATION Spec
INVARIANTS
    EntriesNameOwnInitrd
