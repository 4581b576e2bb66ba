CONSTANTS
    Targets = {t1, t2}
    FirstTarget = t1
    MaxAttempt = 1
    MaxStarts = 2
    MaxRuns = 2
    MaxTimers = 1
SPECIFICATION SessionSpec
INVARIANT DisconnectHolds
CHECK_DEADLOCK FALSE
