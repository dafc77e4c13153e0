SPECIFICATION FairSpec
CONSTANTS
    BlockSize = 8
    HeaderSize = 3
    ChecksumSize = 1
    Lengths <- MCLengths
    MaxRecords = 3
    MaxOpens = 2
    MaxFaults = 1
    MaxReused = 1
INVARIANTS
    WriterAssertsHold
    BlockAligned
PROPERTIES
    ImplementsLog
    ReaderEnds
CHECK_DEADLOCK FALSE
