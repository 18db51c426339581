SPECIFICATION Spec
CHECK_DEADLOCK FALSE
CONSTANTS
    Files <- MCFiles
    Offsets = {1, 2, 3}
    ObjNums = {1, 2}
    Gens = {0, 1, 2}
    GenLimit = 2
INVARIANTS
    TypeOK
    ChainTable
    RecoveredTable
    SingleGeneration
    DocumentReady
PROPERTIES
    TrailerStable
    Terminates
