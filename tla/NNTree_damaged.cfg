CONSTANTS
    Keys = {1, 2, 3, 4}
    Values = {1}
    Threshold = 2
    MaxNumber = 6
    AutoRepair = TRUE
    Family = "damaged"
    Trees <- MCTrees
SPECIFICATION Spec
PROPERTIES RepairExact FailureKeepsEntries
VIEW UpToNames
