SPECIFICATION BpSpec
CONSTANTS
    Clients = {c1, c2}
    Frames = {0, 1}
    MaxPages = 3
    MaxLoads = 5
    MaxChanges = 1
    MaxPins = 2
    Workloads <- OverlapOnly
SYMMETRY ClientSymmetry
INVARIANTS
    NoLockCycle
CHECK_DEADLOCK FALSE
