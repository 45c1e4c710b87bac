SPECIFICATION Spec
CONSTANTS
    Jobs = {j1, j2}
    ModArgs <- NoMods
    TagValues = {}
    Commands = {"add", "start", "complete", "lost"}
    Defer = TRUE
    NoJob = NoJob
    NoSave = NoSave
    Unset = Unset
    MaxRecords = 4
    MaxRev = 6
    MaxCrashes = 2
    MaxFails = 1
CHECK_DEADLOCK FALSE
INVARIANTS  NeverRunAgain AddsSurvive
PROPERTY DurableSpec
SYMMETRY JobSymmetry
