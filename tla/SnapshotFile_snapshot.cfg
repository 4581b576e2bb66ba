SPECIFICATION Spec
CONSTANTS
    Tries = 5
    Faults <- Survivable
    MaxVersion = 4
CHECK_DEADLOCK FALSE
PROPERTIES
    CellSpec
