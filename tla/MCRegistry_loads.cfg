CONSTANTS
  Queues = {1, 2}
  Resources = {}
  Jobs = {j1}
  Commands = {"add", "del", "job", "movejob"}
  MaxRecords = 3
  MaxCrashes = 0
  None = None
  Freed = Freed
  r1 = r1
  r2 = r2
  j1 = j1
  j2 = j2
SPECIFICATION Spec
INVARIANT FilesAlwaysResolve
CHECK_DEADLOCK FALSE
