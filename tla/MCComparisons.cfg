SPECIFICATION MCSpec
CONSTANTS
    NoTab = NoTab
    NoLocks = NoLocks
    NoRecord = NoRecord
    Tab = {t1, t2}
    Launcher = {t1}
    Launch = {l1, l2, l3}
    FirstLaunch = l1
    SecondLaunch = l2
    OtherTab = t2
    RefusedArm = a2
    Arm = {a1, a2}
    MaxRemembered = 2
    MaxAttempts = 2
    MinRuns = 1
    MaxLosses = 1
    MaxCloses = 1
    MaxMisses = 1
    MaxFull = 1
INVARIANTS
    TypeOK
    WorkspaceMintedOnce
    GroupedWhole
PROPERTIES
    OwedLaunchIsKept
    EventuallyResolved
CHECK_DEADLOCK FALSE
