SPECIFICATION MCSpec
CONSTANTS
    MaxPages = 5
    Data = {"a", "b"}
    IoFailures = TRUE
    Keys = {1, 2, 3, 4, 5, 6, 7, 8, 9, 10}
    MaxKeys = 3
    PoolFrames = 9
    Workloads <- MCWorkloads
INVARIANTS
    AckedCovered
    AllocationFresh
    AckedIntact
    TreeSound
    KeysFound
