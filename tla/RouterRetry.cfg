CONSTANTS
    p1 = p1
    p2 = p2
    p3 = p3
    r1 = r1
    active = active
    standby = standby
    receiver = receiver
    pipeline = pipeline
    Policies = {p1}
    Sequence <- Single
    Routes = {r1}
    Initial = Initial
    MaxFaults = 2
    MaxEdits = 0
    MaxPublished = 1
    MaxDecisions = 0
    Down = Down
    None = None
SPECIFICATION Spec
INVARIANT RestoresBoth
