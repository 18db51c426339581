SPECIFICATION Spec
CONSTANTS
    Documents <- MCDocuments
    Options <- MCOptions
    Cap = 2
    MaxKids = 3
    MaxEdits = 1
INVARIANTS
    RowsExact
    ReferencesLead
    NothingLost
    SoundSucceeds
PROPERTIES
    WriteEnds
