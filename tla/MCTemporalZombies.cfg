SPECIFICATION StartedSafety
CONSTANTS
    NoJob = NoJob
    Job = {j1}
    Proc <- MCProc
    Kinds = {"live", "static", "rescore"}
    MaxTrace = 2
    MaxAttempts = 2
    MaxCrashes = 1
    MaxZombies = 1
INVARIANTS
    CompletedHasResult
PROPERTIES
    NoPublicationAfterStop
    OnlyRecheckReplaces
CHECK_DEADLOCK FALSE
