CONSTANTS
    Procs = {"old", "new"}
    Versions = {1, 2, 3}
    Source <- MCSource
    Locking = {2, 3}
    RunInTransaction = {1, 2}
    Number = 2
    MaxCommands = 4
SPECIFICATION Spec
CHECK_DEADLOCK FALSE
INVARIANT TypeOK
INVARIANT AppliedOnce
INVARIANT RecordedIsApplied
INVARIANT NoHoles
PROPERTY RedoKeeps
PROPERTY EveryCommandEnds
