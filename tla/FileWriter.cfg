SPECIFICATION Spec
CONSTANTS
    KBufferSize = 3
    Lengths <- MCLengths
    MaxBytes = 10
    MaxShort = 1
INVARIANTS
    PlacedRight
    BytesInOrder
    FlushedIsRead
CHECK_DEADLOCK FALSE
