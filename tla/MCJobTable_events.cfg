SPECIFICATION FairSpec
CONSTANTS
    MaxJobId = 2
    Queues = {q1}
    DefaultQueue = q1
    Agents = {a1}
    Resources = {}
    ResCount <- MCOneEach
    AddArgs <- EventAdd
    ModArgs <- EventMod
    QueueArgs <- NoQueueArgs
    MaxRunJobs <- MCUnlimited
    SchedMax = 500
    MaxCleanup = 4
    NoSave = FALSE
    InitLimit = 2
    NoQueue = NoQueue
    NoAgent = NoAgent
    NoJob = NoJob
    Unset = Unset
    MaxTime = 2
    MaxConnects = 0
    LeakBound = 0
INVARIANTS
    PoolHoldsLiveJobs
PROPERTIES
    DeletedJobsFreed
    
