SPECIFICATION LiveSpec
CONSTANTS
    x = x
    cx = cx
    NoExec = NoExec
    Execs = {x}
    CompileOf <- NoCompile
    Capacity = 4
    LogCapacity = 1
    MaxNodes = 3
    MaxAttempts = 2
    StaticCount <- OneNode
    StaticParents <- Chain
    MaxFaults = 1
    MaxRetries = 2
    Slots = 1
    Producers <- Node1
    Delegators <- Node1
    Approvals <- Node2
    Deadlines = TRUE
    Controls <- PauseKill
    MaxControls = 1
    MaxCrashes = 0
CHECK_DEADLOCK FALSE
INVARIANTS
    KilledStaysDead
PROPERTIES
    ExecutionEnds
    KillEndsWork
    RecordedBeforeDispatch
