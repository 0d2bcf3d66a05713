SPECIFICATION Safety
CONSTANTS
    NoJob = NoJob
    NoReplica = NoReplica
    Job = {j1}
    Proc = {r1, r2}
    Kinds = {"live", "rescore"}
    MaxTrace = 2
    MaxCrashes = 1
    MaxLockLosses = 1
    MaxWriteFaults = 1
INVARIANTS
    StopIsFinal
    ExecutorsConsistent
    EachOverlapIsALostLock
PROPERTIES
    LifecycleSpec
CHECK_DEADLOCK FALSE
