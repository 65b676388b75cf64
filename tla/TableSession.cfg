SPECIFICATION TsSpec
CONSTANTS
    Sessions = {s1, s2}
    Tables = {"t", "u"}
    Vals = {1, 2}
    ValueLists <- MCValueLists
    Workloads <- MCWorkloads
INVARIANTS
    StatementExact
    UndoExact
CHECK_DEADLOCK FALSE
