SPECIFICATION FormatSpec
CONSTANTS
    Radix = 2
    Top = 2
    Lengths <- MCLengths
    MaxStrings = 2
    Seqs <- MCSeqs
    MaxEntries = 2
INVARIANTS
    EntriesReadBack
    GetsWholeStrings
CHECK_DEADLOCK FALSE
