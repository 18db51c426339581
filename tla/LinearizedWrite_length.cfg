SPECIFICATION Spec
CONSTANTS
    Files <- MCFiles
    Sizes = {1, 2, 3}
    HintSizes = {3, 7}
    MaxEdits = 2
    Radix = 11
    Wide = 3
    Frame = 4
    RowSize = 2
INVARIANT
    LengthExact
