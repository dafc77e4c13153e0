SPECIFICATION Spec
CONSTANTS
    k1 = k1
    k2 = k2
    k3 = k3
    k1x = k1x
    Keys <- MCKeys
    CKey <- MCCKey
    Values = {v1, v2}
    Capacity = 2
    Threads = {t1, t2}
    Null = Null
    MaxId = 2
INVARIANTS
    Consistent
PROPERTY
    KeepsRecent
CHECK_DEADLOCK FALSE
