SPECIFICATION Spec
CONSTANTS
    Family = "all"
    Documents <- MCDocuments
    Positions = {1, 2, 3}
    MaxNumber = 3
    MaxEdits = 2
INVARIANTS
    TypeOK
    MarksMatchStack
    ServedUnderOwnNumber
    OrderIndependent
    Prepared
    LiveUnlessRebuilt
PROPERTIES
    ReplacementSafe
    CallsEnd
