SPECIFICATION TCSpec
CONSTANTS
    Keys = {1}
    CKey <- FileKeys
    Values <- MCTables
    Capacity = 2
    Threads = {t1, t2}
    Null = Null
    MaxId = 0
    Base = 4
    Width = 3
    MaxTables = 2
INVARIANTS
    NeverUsesFreed
CHECK_DEADLOCK FALSE
