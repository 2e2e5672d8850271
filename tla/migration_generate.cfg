CONSTANTS
    Procs = {"a", "b", "c"}
    Explicit = {"a"}
    Seconds = {1, 2}
    MaxSub = 1
SPECIFICATION Spec
CHECK_DEADLOCK FALSE
INVARIANT VersionsUnique
