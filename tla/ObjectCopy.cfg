SPECIFICATION Spec
CONSTANTS
    a = a
    b = b
    c = c
    d = d
    Nodes <- MCNodes
    Keys <- MCKeys
    Items <- MCItems
    Sources <- MCSources
    Edits <- MCEdits
    MaxNumber = 3
    MaxEdits = 1
    MaxQueue = 2
CHECK_DEADLOCK FALSE
INVARIANTS
    NothingLeftReserved
PROPERTIES
    CopyFaithful
    EarlierCopiesKept
    CallsEnd
