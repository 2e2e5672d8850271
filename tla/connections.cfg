CONSTANTS
    Queries = {"q1", "q2"}
    Keys = {"safe", "unsafe"}
    Cacheable = {"safe"}
    Texts = {"a?", "a??", "b", "c"}
    FamilyOf <- MCFamilyOf
    MaxCachedStatements = 2
    MaxProbationFamilies = 2
    MaxExecutions = 7
    MaxProduced = 3
    MaxLoads = 2
SPECIFICATION MCSpec
CHECK_DEADLOCK FALSE
INVARIANT TypeOK
INVARIANT CacheIsExact
INVARIANT FailureIsNoted
PROPERTY EveryQueryEnds
INVARIANT RowsKeep
INVARIANT LeftReset
PROPERTY StaysUnderFields
INVARIANT Bounded
INVARIANT OneSlotEachTime
