SPECIFICATION Spec
CONSTANTS
    Family = "zero"
    Documents <- MCDocuments
    Positions = {1, 2, 3}
    MaxNumber = 3
    MaxEdits = 0
INVARIANT
    Prepared
