CONSTANTS
    \* selection
    role = role
    other = other
    metered = metered
    cloud = cloud
    plan = plan
    local = local
    acct = acct
    acct2 = acct2
    Role = {role}
    OtherRole = {other}
    Candidate = {metered, cloud, plan, local}
    Account = {acct, acct2}
    Absent = Absent
    Policy <- MCPolicy
    Situations <- MCSituations
    Overrides = {1, 2}
    MaxOmpRuns = 2
    MaxOmpEdits = 1
    MaxOmpFaults = 2
    \* runway
    Label = {acct}
    Quotas <- MCQuotas
    Usages <- MCUsages
    Receipts <- MCReceipts
    Silence = 1
    MaxTime = 3
    MaxRows = 3
    MaxLives = 2
    MaxGetFaults = 1
    Nothing = Nothing
    \* agent
    engine = engine
    engine2 = engine2
    Engine = {engine, engine2}
    Collectors <- MCCollectors
    Endpoint = {1, 2}
    Modes = {"active", "draining"}
    Configured = "active"
    MaxSlots = 1
    RetryBase = 1
    RetryMax = 2
    Rounds <- MCRounds
    MaxReports = 2
    MaxStarts = 2
    MaxModeChanges = 1
    MaxTears = 1
    Nil = Nil
    \* operator
    Command = {1, 2}
    Payload = {1, 2}
    Site = {1, 2}
    Unlocked = 0
    MaxCommands = 2
    MaxCmdFaults = 1
    \* trust
    key = key
    key2 = key2
    key3 = key3
    Key = {key, key2, key3}
    FirstKeys = {key}
    Offered <- MCOffered
    Empty = Empty
    MaxTrustChanges = 3
    MaxTrustFaults = 2
    \* routes
    gone = gone
    Hosts = {engine}
    Routes <- MCRoutes
    EngineFacts <- MCEngineFacts
    MaxRoutes = 3
SPECIFICATION EdgeSpec
INVARIANTS EdgeTypeOK FirstRung ReceiptTrue ChainsFirst ServedIsCurrent AlarmsOnce
    SequenceOnce WholeTruth LaggingBacksOff SequencesGrow AppliedIsAccepted
    NeverUndone CapacityShared
PROPERTY UnmanagedKept
CHECK_DEADLOCK FALSE
