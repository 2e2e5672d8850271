CONSTANT MaxCalls = 3
SPECIFICATION WrapperSpec
CHECK_DEADLOCK FALSE
INVARIANT WrapperTypeOK
INVARIANT ExclusiveWhenIdle
INVARIANT HandedOutClean
PROPERTY EveryCallEnds
