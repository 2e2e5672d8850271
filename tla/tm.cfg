CONSTANTS
    Dialect = "Pg"
    Faults = {"error", "serialization", "refuse", "lost"}
    MaxDepth = 3
    MaxWrites = 3
    MaxFailures = 3
    StatementVias = {"query", "copy"}
SPECIFICATION MCSpec
CHECK_DEADLOCK FALSE
INVARIANT TypeOK
INVARIANT CleanWhenIdle
INVARIANT DepthFollowsScopes
INVARIANT NoSilentAutocommitOnServers
INVARIANT LevelsHoldTheirWork
INVARIANT PoolIsClean
INVARIANT KeptIsDurableOnPg
INVARIANT DroppedIsUndoneOffMysql
PROPERTY KeepsThePromise
