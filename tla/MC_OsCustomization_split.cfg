CONSTANTS
    k1 = k1
    k2 = k2
    Kernels = {k1, k2}
    RpmSources = {s1, s2}
    MaxRuns = 2
    RootHashes <- MCRootHashes
    BaseImages <- MCBaseImages
    Chains <- MCChains
SPECIFICATION Spec
INVARIANT
    KeptUkisHaveDrivers
