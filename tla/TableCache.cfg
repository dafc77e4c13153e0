SPECIFICATION TCSpec
CONSTANTS
    Keys = {1, 5, 17}
    CKey <- FileKeys
    Values <- MCTables
    Capacity = 2
    Threads = {t1, t2}
    Null = Null
    MaxId = 0
    Base = 4
    Width = 3
    MaxTables = 3
SYMMETRY Symmetry
INVARIANTS
    ReadsItsFile
CHECK_DEADLOCK FALSE
