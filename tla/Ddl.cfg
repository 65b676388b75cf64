SPECIFICATION MCSpec
CONSTANTS
    Sessions = {s1, s2}
    Statements <- MCStatements
    InitialCatalogs <- MCInitialCatalogs
    MaxStatements = 2
    MaxClock = 2
    Threads = {t1, t2}
    ViewNames = {"orders", "v"}
    KnownTables = {"users", "orders"}
    Queries <- MCQueries
    ChangeLimit = 1
SYMMETRY Symmetric
INVARIANTS
    CreateDurable
    DdlWalChain
    CatalogAgrees
    FreshUnchanged
PROPERTIES
    StatementAtomic
CHECK_DEADLOCK FALSE
