SPECIFICATION BpSpec
CONSTANTS
    Clients = {c1, c2}
    Frames = {0, 1}
    MaxPages = 3
    MaxLoads = 4
    MaxChanges = 1
    MaxPins = 2
    Workloads <- MCWorkloads
SYMMETRY ClientSymmetry
INVARIANTS
    HandlesSafe
    ChangesKept
    NoCrossWrite
CHECK_DEADLOCK FALSE
