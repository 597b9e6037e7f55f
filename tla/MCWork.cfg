CONSTANTS
    Parts = {"jobs", "pushes"}
    Jobs = {"j1", "j2"}
    JobSpec <- Pair
    Workers = {w1, w2}
    AgentTypes = {"codex"}
    CapOf <- AllCooling
    GlobalMax = 0
    MaxPerSession = 1
    MaxPerBatch = 1
    BackoffRetries = 2
    FailureThreshold = 2
    MaxCompleted = 1
    Outcomes = {"ok", "error", "resource"}
    Calls = {"pause", "cancel", "cancelSession", "cancelBatch", "stop", "restart"}
    Pushers = {p1, p2}
    Contexts = {k1}
    MaxCommit = 2
    MaxRuns = 2
SPECIFICATION WorkSpec
PROPERTIES JobsAccounted JobsEnd BranchGuarded PushEnds
CHECK_DEADLOCK FALSE
