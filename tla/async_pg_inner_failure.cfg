CONSTANTS
    Dialect = "Pg"
    Faults = {"error"}
    Pool = "bb8"
    Recycling = "Verified"
    DebugAssertions = TRUE
    CancelWhole = TRUE
    MaxDepth = 2
    MaxWrites = 3
    MaxFailures = 3
SPECIFICATION Spec
CHECK_DEADLOCK FALSE
INVARIANT KeptIsDurable
