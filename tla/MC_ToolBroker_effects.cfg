SPECIFICATION Spec
CONSTANTS
    Requests = {1, 2, 3}
    Attempts = {"a", "b"}
    Executions = {"e"}
    CallIds = {"c"}
    Ops = {"x"}
    Att <- AttOf
    CallId <- CallIdOf
    Op <- OpOf
    Exec <- ExecOf
    NoRequest = 0
    GlobalSlots = 3
    SessionSlots = 2
    AdapterSlots = 2
    MaxControls = 1
    MaxSaveFailures = 1
    MaxCrashes = 1
INVARIANTS
    EntryIsRecorded
PROPERTIES
    CallsKeepTheRules
    LedgerMovesForward
    IntentSpec
CHECK_DEADLOCK FALSE
