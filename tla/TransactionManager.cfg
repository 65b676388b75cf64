SPECIFICATION TmSpec
CONSTANTS
    TxIds = {1, 2}
    NoTx = NoTx
    Records = {r1}
    VersionNos = {1}
    MaxTs = 8
    MaxPos = 2
    VacuumPoints = {1, 2, 3, 4, 5, 6, 7, 8}
    Threads = {th1, th2}
    NoThread = NoThread
    LogBufferSize = 2
    LogNoLsn = LogNoLsn
    LogMaxLsn = 10
    Workloads <- MCWorkloads
SYMMETRY ThreadSymmetry
INVARIANTS
    WriteAheadCommit
    OutcomesAgree
PROPERTIES
    ImplementsOutcome
CHECK_DEADLOCK FALSE
