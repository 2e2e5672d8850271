CONSTANTS
    Dialect = "Sqlite"
    Faults = {"refuse"}
    MaxDepth = 3
    MaxWrites = 3
    MaxFailures = 3
    StatementVias = {"query"}
SPECIFICATION Spec
CHECK_DEADLOCK FALSE
INVARIANT KeptIsDurable
