CONSTANTS
    t1 = t1
    t2 = t2
    agent = agent
    p = p
    q = q
    x = x
    y = y
    h1 = h1
    h2 = h2
    Transcripts = {t1, t2}
    Providers = {p}
    Outputs = {x}
    Hooks = {h1, h2}
    AgentOf <- OneAgent
    Scouts = {t1}
    Recoveries = {t2}
    MaxManual = 1
    Policies <- TwoPolicies
    DefaultPolicy <- Tight
    MaxTokens = 1
    MaxResponses = 4
    MaxResumes = 1
    MaxSyncs = 1
    Unlimited = Unlimited
    None = None
SPECIFICATION Spec
INVARIANTS TypeOK StartedOnce ParkCloses AgentOverrun
CHECK_DEADLOCK FALSE
