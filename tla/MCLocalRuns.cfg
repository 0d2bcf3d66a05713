SPECIFICATION Spec
CONSTANTS
    NoJob = NoJob
    NoReplica = NoReplica
    Job = {j1}
    Proc = {r1, r2}
    Kinds = {"live", "static", "rescore", "span_score"}
    MaxTrace = 2
    MaxCrashes = 2
    MaxLockLosses = 0
    MaxWriteFaults = 0
INVARIANTS
    TypeOK
    TargetInvokedAtMostOnce
    CompleteScoreIsCurrent
    RunningHasExecutor
PROPERTIES
    EvidenceNeverRegresses
    EventuallySettled
CHECK_DEADLOCK FALSE
