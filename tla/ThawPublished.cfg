SPECIFICATION RegistrySpec
CHECK_DEADLOCK FALSE
CONSTANTS
    c1 = c1
    c2 = c2
    good = good
    fair = fair
    Client = {c1, c2}
    Reviewer = {c1}
    Editor = {c2}
    Content <- MCContent
    Grade <- MCGrade
    MaxName = 2
    MaxVersion = 2
PROPERTY PublishedIsFrozen
