SPECIFICATION Spec
CHECK_DEADLOCK FALSE
CONSTANTS
    u1 = u1
    j1 = j1
    j2 = j2
    r1 = r1
    r2 = r2
    good = good
    Client = {u1, j1, j2}
    Reviewer = {u1}
    Editor = {}
    Content <- MCContent
    Grade <- MCGrade
    MaxName = 2
    MaxVersion = 3
    Job = {j1, j2}
    Replica = {r1, r2}
    Target <- MCTarget
    Slots = 1
    MaxStops = 1
    MaxMutes = 1
INVARIANTS
    GenTypeOK
    OutcomeTellsWhatWasWritten
    LiveJobIsNotSwept
PROPERTIES
    PhasesFollowDiagram
    EventuallyEnds
