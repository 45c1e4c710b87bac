SPECIFICATION Spec
CONSTANTS
    Jobs = {j1, j2}
    ModArgs <- SomeMods
    TagValues = {}
    Commands = {"add", "mod"}
    Defer = FALSE
    NoJob = NoJob
    NoSave = NoSave
    Unset = Unset
    MaxRecords = 4
    MaxRev = 6
    MaxCrashes = 1
    MaxFails = 0
CHECK_DEADLOCK FALSE
PROPERTY RecoversJobs
