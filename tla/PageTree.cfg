SPECIFICATION Spec
CONSTANTS
    Documents <- MCDocuments
    Changes <- MCChanges
    NewPages <- MCNewPages
    Contents <- MCContents
    MaxNumber = 7
    MaxCalls = 2
CHECK_DEADLOCK FALSE
INVARIANTS
    KnownExact
PROPERTIES
    CountExact
    PageListSpec
    CallsEnd
    FlatBare
