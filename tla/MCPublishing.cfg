CONSTANTS
    Parts = {"tokens", "publish", "cache", "escalation", "policy"}
    \* AuthzTokens
    TokProcs = {p1, p2}
    TokAgents = {a1}
    TokenScopes = {s1}
    MaxTokens = 3
    MaxClock = 2
    Ttls = {1}
    \* Publish
    Publishers = {p1, p2}
    MaxVersion = 3
    MaxLeaked = 1
    \* PluginCache
    MaxRelease = 3
    \* Escalation
    Retriers = {p1, p2}
    BaseModel = base
    FrontierModels = {f1, f2}
    StrikesPerRung = 2
    MaxEscalations = 2
    MaxAttempts = 3
    MaxCalls = 2
    MaxRetryCount = 2
    \* Policy
    LayerRules <- PolicyRules
    MaxRules = 3
SPECIFICATION PublishingSpec
INVARIANTS PolicyTightens
PROPERTIES TokensSound MarketSound CachesSound Escalates
SYMMETRY Symmetry
CONSTRAINT PublishBound
CHECK_DEADLOCK FALSE
