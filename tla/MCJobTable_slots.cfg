SPECIFICATION Spec
CONSTANTS
    MaxJobId = 1
    Queues = {q1}
    DefaultQueue = q1
    Agents = {a1}
    Resources = {}
    ResCount <- MCOneEach
    AddArgs <- PlainAdd
    ModArgs <- NoMod
    QueueArgs <- OpenQueues
    MaxRunJobs <- MCUnlimited
    SchedMax = 1
    MaxCleanup = 2
    NoSave = TRUE
    InitLimit = 1
    NoQueue = NoQueue
    NoAgent = NoAgent
    NoJob = NoJob
    Unset = Unset
    MaxTime = 1
    MaxConnects = 1
    LeakBound = 0
INVARIANT
    StartSlotsExact
