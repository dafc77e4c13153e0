SPECIFICATION ItFairSpec
CONSTANTS
    RestartInterval = 2
    KeyBytes <- MCKeys
    BlockSizes <- MCBlockSizes
    MaxAdds = 5
    MaxFlushFails = 1
    MaxLost = 1
    MaxReadFails = 1
ACTION_CONSTRAINT WalkIfFlushed
INVARIANTS
    HandlesLead
    IteratorsReach
    FinishedIsReadable
    BlocksHoldAdded
    SeparatorsSplit
    FindIsSound
    WalksInOrder
PROPERTIES
    WalkEnds
CHECK_DEADLOCK FALSE
