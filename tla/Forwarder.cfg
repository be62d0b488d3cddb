CONSTANTS
    a = a
    b = b
    Controllers = {a, b}
    Active = a
    None = None
    Modes = {TRUE, FALSE}
    MayExpire = TRUE
    MayDie = TRUE
    MaxLines = 2
    MaxCrashes = 2
SPECIFICATION FairSpec
INVARIANTS TypeOK NothingSkipped SentInOrder
PROPERTY AllForwarded
