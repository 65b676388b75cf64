SPECIFICATION MCSpec
CONSTANTS
    Workers = {0, 1}
    MaxPolls = 1
    RebalanceOver = 1
    MaxTasks = 4
    Workloads <- MCWorkloads
    Requesters = {r1, r2}
    Limit <- MCLimit
    Demands <- MCDemands
    MaxGrants = 4
    ScanWorkers = {s1, s2}
    ScanConfigs <- MCScanConfigs
    Rows = 5
    MinPartition = 1
    LargeTable = 8
INVARIANTS
    TaskInOnePlace
    DependenciesFirst
    OvercommitBounded
    UsageCoversGrants
    ScanExact
PROPERTIES
    TasksComplete
    MCQueryReturns
    RequestReturns
CHECK_DEADLOCK FALSE
