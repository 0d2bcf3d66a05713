SPECIFICATION Spec
CONSTANTS
    Nothing = Nothing
    m1 = m1
    m2 = m2
    m3 = m3
    m4 = m4
    m5 = m5
    m6 = m6
    m7 = m7
INVARIANTS
    ReviewConsoleTypeOK
    ResultsAreTold
    ListsKeepTheirPlace
CHECK_DEADLOCK FALSE
