SPECIFICATION Spec
SYMMETRY AgentSymmetry
CONSTANTS
    MaxJobId = 1
    Queues = {q1}
    DefaultQueue = q1
    Agents = {a1, a2}
    Resources = {}
    ResCount <- MCOneEach
    AddArgs <- LinkAdd
    ModArgs <- LinkMod
    QueueArgs <- LinkQueue
    MaxRunJobs <- MCUnlimited
    SchedMax = 500
    MaxCleanup = 2
    NoSave = FALSE
    InitLimit = 1
    NoQueue = NoQueue
    NoAgent = NoAgent
    NoJob = NoJob
    Unset = Unset
    MaxTime = 1
    MaxConnects = 2
    LeakBound = 0
INVARIANTS
    CountsSound
    SavedJobsProtected
    
