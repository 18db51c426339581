SPECIFICATION Spec
CONSTANTS
    Keys = {1, 2, 3, 4, 5}
    Values = {1, 2}
    Threshold = 2
    MaxNumber = 10
    AutoRepair = FALSE
    Family = "sound"
    Trees <- MCTrees
INVARIANTS
    TreeSound
    CursorLive
    NeverOutOfNumbers
    SearchExact
PROPERTY
    OrderedMapSpec
VIEW UpToNames
CONSTRAINT Small
