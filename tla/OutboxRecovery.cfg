CONSTANTS
    a = a
    b = b
    Node = {a, b}
    First = a
    NoRow = NoRow
    NoRequest = NoRequest
    Envelope <- OnePolicy
    InitEpoch = 1
    MaxEpoch = 1
    MaxSeq = 5
    MaxRestarts = 0
SPECIFICATION Spec
INVARIANT OutboxIsRecoverable
