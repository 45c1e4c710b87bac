SPECIFICATION Spec
CONSTANTS
    j1 = j1
    j2 = j2
    MaxCuts = 2
    MaxRestarts = 1
    MaxReboots = 1
    MaxCrashes = 2
INVARIANTS NeverTwice RunningAccounted RunningKnown  ReapedIsReported
PROPERTIES RunningEnds  JobsReported
CHECK_DEADLOCK FALSE
