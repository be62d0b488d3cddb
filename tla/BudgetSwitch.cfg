CONSTANTS
    t1 = t1
    t2 = t2
    agent = agent
    p = p
    q = q
    x = x
    y = y
    h1 = h1
    h2 = h2
    Transcripts = {t1}
    Providers = {p, q}
    Outputs = {x, y}
    Hooks = {h1}
    AgentOf <- OneAgent
    Scouts = {}
    Recoveries = {}
    MaxManual = 0
    Policies <- ProviderOnly
    DefaultPolicy <- OnProvider
    MaxTokens = 1
    MaxResponses = 4
    MaxResumes = 0
    MaxSyncs = 0
    Unlimited = Unlimited
    None = None
SPECIFICATION Spec
PROPERTY BreachBlocks
CHECK_DEADLOCK FALSE
