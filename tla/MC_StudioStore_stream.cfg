SPECIFICATION Spec
CONSTANTS
    None = None
    BufferSizes = {1, 2}
    Templates <- TwoEvents
    Sessions = {1, 2}
    LogLimit = 3
    BackfillLimit = 1
    MaxEvents = 2
    MaxOperations = 2
CHECK_DEADLOCK FALSE
INVARIANTS
    FoldIgnoresBatches
    SelectedLogsComplete
    PlayheadAtTheEndIsLive
    ScreenIsCurrent
