SPECIFICATION Spec
CONSTANTS
    MaxJobId = 2
    Queues = {q1, q2}
    DefaultQueue = q1
    Agents = {a1}
    Resources = {r1}
    ResCount <- MCOneEach
    AddArgs <- LimitAdd
    ModArgs <- LimitMod
    QueueArgs <- OpenQueues
    MaxRunJobs <- MCUnlimited
    SchedMax = 500
    MaxCleanup = 2
    NoSave = TRUE
    InitLimit = 1
    NoQueue = NoQueue
    NoAgent = NoAgent
    NoJob = NoJob
    Unset = Unset
    MaxTime = 1
    MaxConnects = 2
    LeakBound = 0
INVARIANTS
    TypeOK
    
    

    
