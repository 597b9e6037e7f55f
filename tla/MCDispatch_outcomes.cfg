CONSTANTS
    r1 = r1
    s1 = s1
    Runs = {r1}
    AdHocScopes = {}
    MaxAgents <- NoLimit
    TokenBudget <- NoLimit
    Enforced = {}
    GlobalMax = 0
    DepthMax = 0
    MaxRetries = 0
    MaxDispatches = 1
    Procs = {p1, p2}
    Requests <- EitherAgent
    Commands = {"poll", "wait", "kill", "prune", "rollback"}
    TokenReports = {1}
    HostEvents = {"report", "exit", "reuse"}
    Faults = {"error", "inspect"}
SPECIFICATION FairSpec
INVARIANTS TypeOK RecordAgrees WorkersGoverned
PROPERTIES OneOutcome WaitReturns
CHECK_DEADLOCK FALSE
