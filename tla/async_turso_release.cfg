CONSTANTS
    Dialect = "Turso"
    Faults = {"error"}
    Pool = "bb8"
    Recycling = "Verified"
    DebugAssertions = FALSE
    CancelWhole = FALSE
    MaxDepth = 2
    MaxWrites = 2
    MaxFailures = 3
SPECIFICATION Spec
CHECK_DEADLOCK FALSE
PROPERTY HandedOutClean
