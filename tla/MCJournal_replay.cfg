SPECIFICATION FairSpec
CONSTANTS
    Jobs = {j1}
    ModArgs <- SomeMods
    TagValues = {t1}
    Commands = {"add", "mod", "del", "settag", "deltag", "start", "complete", "lost", "unsent", "sig", "recon"}
    Defer = FALSE
    NoJob = NoJob
    NoSave = NoSave
    Unset = Unset
    MaxRecords = 3
    MaxRev = 4
    MaxCrashes = 1
    MaxFails = 1
CHECK_DEADLOCK FALSE
 
PROPERTY ReadonlyEnds
