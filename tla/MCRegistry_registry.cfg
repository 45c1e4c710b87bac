CONSTANTS
  Queues = {1}
  Resources = {r1}
  Jobs = {j1}
  Commands = {"add", "del", "mod", "default", "refused", "job", "movejob"}
  MaxRecords = 3
  MaxCrashes = 1
  None = None
  Freed = Freed
  r1 = r1
  r2 = r2
  j1 = j1
  j2 = j2
SPECIFICATION Spec
INVARIANTS JobsHaveTheirObjects FilesResolve  AddsRestored
PROPERTY SavesKeepTheirObjects
CHECK_DEADLOCK FALSE
