SPECIFICATION MCSpec
CONSTANTS
    TxIds = {t1, t2, t3}
    NoTx = NoTx
    Records = {r1, r2}
    VersionNos = {1, 2}
    MaxTs = 6
    MaxPos = 3
    VacuumPoints = {2, 3, 4, 5, 6}
    Kinds = {"Begin", "Modify", "Checkpoint"}
    LogTxs = {1}
    SystemTx = 0
    PrevLsns = {NoLsn, 1}
    NoLsn = NoLsn
    BufferSize = 2
    MaxLsn = 3
    IoFailures = TRUE
    Restarts = 2
SYMMETRY Symmetry
INVARIANTS
    SnapshotExact
    CreatedTogether
    AbortedInvisible
    LatestNotStale
    WalInv
    FlushDurable
PROPERTIES
    SnapshotStable
CHECK_DEADLOCK FALSE
