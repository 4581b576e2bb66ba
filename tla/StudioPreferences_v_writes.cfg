SPECIFICATION PrefsFair
CONSTANTS
    Addresses = {"local", "foreign"}
    Local = {"local"}
    Roots = {"here", "there"}
    Found = "here"
    SchemeIds = {"s1", "s2"}
    ProfileIds = {"p1"}
    LayoutIds = {"l1"}
    Files = {"f1", "f2"}
    Inline = {"f2"}
    MaxFailures = 0
    MaxPushes = 2
    MaxEdits = 1
CHECK_DEADLOCK FALSE
PROPERTIES
    WritesStop
