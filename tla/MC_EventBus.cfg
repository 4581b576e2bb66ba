SPECIFICATION LiveSpec
CONSTANTS
    a = a
    w = w
    All = All
    Subs = {a, w}
    Topic <- Topics
    Capacity = 2
    LogCapacity = 1
    MaxEvents = 4
CHECK_DEADLOCK FALSE
INVARIANTS
    NoSilentLoss
PROPERTIES
    EachIsCalledInOrder
    DispatchGetsThere
