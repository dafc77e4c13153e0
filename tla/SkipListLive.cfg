SPECIFICATION FairSpec
CONSTANTS
    t1 = t1
    t2 = t2
    n1 = n1
    n2 = n2
    k0 = k0
    Threads <- MCThreads
    Keys <- MCKeys
    Node <- MCNode
    Head = head
    Nil = nil
    NoThread = nobody
    NoKey = k0
    MaxLevel = 2
    Ops = {"insert", "find", "begin"}
PROPERTIES
    FindEndsAlways
    LockReleased
    InsertIsAtomic
