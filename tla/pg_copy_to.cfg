CONSTANTS
    Keys = {"safe", "unsafe"}
    Cacheable = {"safe"}
    Kinds = {"execute", "copy_to", "batch"}
    MaxRows = 1
    MaxCalls = 3
SPECIFICATION Spec
CHECK_DEADLOCK FALSE
INVARIANT ReadToTheEnd
