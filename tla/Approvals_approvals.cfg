SPECIFICATION Spec
CONSTANTS
    None = None
    Runs = {a}
    MaxFaults = 1
    MaxToasts = 1
    MaxCalls = 2
CHECK_DEADLOCK FALSE
INVARIANTS
    NobodyIsAskedInVain
    AnnouncedExactlyOnce
    StatusesRestored
    FirstDecisionStands
