CONSTANTS
    a = a
    b = b
    Controllers = {a, b}
    Active = a
    None = None
    Modes = {FALSE}
    MayExpire = FALSE
    MayDie = FALSE
    MaxLines = 2
    MaxCrashes = 1
SPECIFICATION FairSpec
PROPERTY RetryForwards
