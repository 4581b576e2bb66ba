SPECIFICATION Spec
CONSTANTS
    x = x
    cx = cx
    NoExec = NoExec
    Execs = {x}
    CompileOf <- NoCompile
    Capacity = 20
    LogCapacity = 1
    MaxNodes = 2
    MaxAttempts = 2
    StaticCount <- OneNode
    StaticParents <- Chain
    MaxFaults = 1
    MaxRetries = 1
    Slots = 1
    Producers <- Node1
    Delegators <- Node1
    Approvals <- NoNodes
    Deadlines = FALSE
    Controls <- AllControls
    MaxControls = 2
    MaxCrashes = 1
CHECK_DEADLOCK FALSE
INVARIANTS
    TypeOK
    DependenciesDone
    DoneIsDone
    OneAttemptAtATime
    AnnouncedIsDurable
