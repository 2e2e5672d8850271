CONSTANTS
    Dialect = "Pg"
    Faults = {"error", "serialization", "refuse", "lost"}
    Pool = "deadpool"
    Recycling = "Fast"
    DebugAssertions = FALSE
    CancelWhole = TRUE
    MaxDepth = 2
    MaxWrites = 3
    MaxFailures = 3
SPECIFICATION MCSpec
CHECK_DEADLOCK FALSE
INVARIANT TypeOK
PROPERTY HandedOutClean
INVARIANT CleanWhenIdleOnServers
INVARIANT KeptIsDurableOnTurso
INVARIANT UndoneOffMysql
INVARIANT NoStaleCommitOffMysql
