SPECIFICATION Safety
CONSTANTS
    NoJob = NoJob
    Job = {j1}
    Proc <- MCProc
    Kinds = {"live"}
    MaxTrace = 1
    MaxAttempts = 2
    MaxCrashes = 0
    MaxZombies = 0
INVARIANTS
    StopIsFinal
CHECK_DEADLOCK FALSE
