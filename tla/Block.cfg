SPECIFICATION Spec
CONSTANTS
    RestartInterval = 2
    KeyBytes <- MCKeys
    Sizes <- MCSizes
    MaxAdds = 7
    Reuse = FALSE
INVARIANTS
    RoundTrip
    FindsAll
    LowerBoundIsLeast
CHECK_DEADLOCK FALSE
