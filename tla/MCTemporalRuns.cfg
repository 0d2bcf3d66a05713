SPECIFICATION Spec
CONSTANTS
    NoJob = NoJob
    Job = {j1}
    Proc <- MCProc
    Kinds = {"live", "static", "rescore", "span_score"}
    MaxTrace = 1
    MaxAttempts = 2
    MaxCrashes = 1
    MaxZombies = 0
INVARIANTS
    TypeOK
    TargetInvokedAtMostOnce
    WorkflowAnswersForJob
PROPERTIES
    RunsFollowLifecycle
    EventuallySettled
CHECK_DEADLOCK FALSE
