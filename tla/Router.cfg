CONSTANTS
    p1 = p1
    p2 = p2
    p3 = p3
    r1 = r1
    active = active
    standby = standby
    receiver = receiver
    pipeline = pipeline
    Policies = {p1, p2, p3}
    Sequence <- SplitThenLater
    Routes = {r1}
    Initial = Initial
    MaxFaults = 2
    MaxEdits = 1
    MaxPublished = 3
    MaxDecisions = 1
    Down = Down
    None = None
SPECIFICATION FairSpec
INVARIANTS TypeOK RolledBack EditsKept DecidedFirst RouteIsServed CommittedVerified
PROPERTIES NeverBack Converges
