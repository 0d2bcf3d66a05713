SPECIFICATION RegistrySpec
CONSTANTS
    c1 = c1
    c2 = c2
    good = good
    fair = fair
    Client = {c1, c2}
    Reviewer = {c1, c2}
    Editor = {c1, c2}
    Content <- MCContent
    Grade <- MCGrade
    MaxName = 2
    MaxVersion = 3
SYMMETRY ClientSymmetry
CHECK_DEADLOCK FALSE
INVARIANT RegistryTypeOK
PROPERTIES
    LifecycleRespected
    OnlyDraftsChange
    VersionNamesRecords
    RuledOutIsNotBranched
