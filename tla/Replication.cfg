CONSTANTS
    a = a
    b = b
    Node = {a, b}
    First = a
    NoRow = NoRow
    NoRequest = NoRequest
    Envelope <- PoliciesAndReport
    InitEpoch = 1
    MaxEpoch = 1
    MaxSeq = 5
    MaxRestarts = 1
SPECIFICATION Spec
INVARIANTS AckedOnBoth CommittedOnBoth OutboxIsPending ComparedAndSwapped
