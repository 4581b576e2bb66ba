SPECIFICATION PrefsSpec
CONSTANTS
    Addresses = {"local", "other", "foreign"}
    Local = {"local", "other"}
    Roots = {"here", "there"}
    Found = "here"
    SchemeIds = {"s1", "s2"}
    ProfileIds = {"p1"}
    LayoutIds = {"l1"}
    Files = {"f1", "f2"}
    Inline = {"f2"}
    MaxFailures = 1
    MaxPushes = 2
    MaxEdits = 3
CHECK_DEADLOCK FALSE
INVARIANTS
    EditsAreKept
    CopyCatchesUp
    SettingsAreSound
    ArrangementIsTheUsers
