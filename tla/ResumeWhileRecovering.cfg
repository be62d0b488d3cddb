CONSTANTS
    t1 = t1
    t2 = t2
    agent = agent
    p = p
    q = q
    x = x
    y = y
    h1 = h1
    h2 = h2
    Transcripts = {t1}
    Providers = {p}
    Outputs = {x, y}
    Hooks = {h1, h2}
    AgentOf <- OneAgent
    Scouts = {}
    Recoveries = {}
    MaxManual = 0
    Policies <- TwoPolicies
    DefaultPolicy <- Tight
    MaxTokens = 1
    MaxResponses = 4
    MaxResumes = 1
    MaxSyncs = 0
    Unlimited = Unlimited
    None = None
SPECIFICATION Spec
INVARIANT ClosedIsParked
CHECK_DEADLOCK FALSE
