CONSTANTS
    Dialect = "Pg"
    Faults = {"error"}
    Pool = "mobc"
    Recycling = "Verified"
    DebugAssertions = TRUE
    CancelWhole = TRUE
    MaxDepth = 2
    MaxWrites = 2
    MaxFailures = 2
SPECIFICATION Spec
CHECK_DEADLOCK FALSE
PROPERTY HandedOutClean
