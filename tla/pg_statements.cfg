CONSTANTS
    Keys = {"safe", "other", "unsafe"}
    Cacheable = {"safe", "other"}
    Kinds = {"execute", "load", "row_by_row", "copy_to", "copy_from", "batch"}
    MaxRows = 2
    MaxCalls = 4
SPECIFICATION Spec
CHECK_DEADLOCK FALSE
INVARIANT TypeOK
INVARIANT NamesAgree
INVARIANT ReadyForNext
INVARIANT OkIsDone
INVARIANT ReportedOnce
PROPERTY EveryCallReturns
