SPECIFICATION ReadsSpec
CONSTANTS
    Keys = {1}
    Values = {v1}
    Nobody = Nobody
    SeqMod = 4
    Batches = {b1, b2}
    Threads = {t1, t2}
    Seqs = {1}
    Counts = {0}
    MaxRecords = 2
    MaxRuns = 2
SYMMETRY Symmetry
ACTION_CONSTRAINT FillFirst
INVARIANTS
    PlainIsSound
    AppliedInOrder
    WalkShowsAll
    NewestLast
CHECK_DEADLOCK FALSE
