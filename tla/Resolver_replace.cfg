SPECIFICATION Spec
CONSTANTS
    Family = "edits"
    Documents <- MCDocuments
    Positions = {1, 2, 3}
    MaxNumber = 3
    MaxEdits = 1
PROPERTY
    ReplacementKept
