SPECIFICATION TsSpec
CONSTANTS
    Sessions = {s1}
    Tables = {"t", "u"}
    Vals = {1, 2}
    ValueLists <- MCValueLists
    Workloads <- Undisturbed
INVARIANTS
    WritesUndone
CHECK_DEADLOCK FALSE
