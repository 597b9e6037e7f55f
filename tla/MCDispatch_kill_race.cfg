CONSTANTS
    r1 = r1
    s1 = s1
    Runs = {r1}
    AdHocScopes = {}
    MaxAgents <- NoLimit
    TokenBudget <- NoLimit
    Enforced = {}
    GlobalMax = 0
    DepthMax = 0
    MaxRetries = 0
    MaxDispatches = 1
    Procs = {p1, p2}
    Requests <- OneAgent
    Commands = {"kill"}
    TokenReports = {}
    HostEvents = {"report", "exit", "reuse"}
    Faults = {}
SPECIFICATION Spec
INVARIANTS KillEndsWorker
SYMMETRY Symmetry
CHECK_DEADLOCK FALSE
