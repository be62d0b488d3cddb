CONSTANTS
    a = a
    b = b
    Node = {a, b}
    First = a
    NoRow = NoRow
    NoRequest = NoRequest
    Envelope <- OnePolicy
    InitEpoch = 1
    MaxEpoch = 3
    MaxSeq = 3
    MaxRestarts = 1
SPECIFICATION FairSpec
INVARIANTS TypeOK OneActive
PROPERTIES NoDeposedWrite OnlyForward ReplicatesOps CallsEnd
