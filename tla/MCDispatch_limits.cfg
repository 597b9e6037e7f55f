CONSTANTS
    r1 = r1
    s1 = s1
    Runs = {r1}
    AdHocScopes = {s1}
    MaxAgents <- AgentsTwo
    TokenBudget <- BudgetTwo
    Enforced = {r1}
    GlobalMax = 2
    DepthMax = 1
    MaxRetries = 1
    MaxDispatches = 3
    Procs = {p1, p2}
    Requests <- Family
    Commands = {"retry", "rollback", "prune", "tokens"}
    TokenReports = {2}
    HostEvents = {}
    Faults = {"error", "crash"}
SPECIFICATION Spec
INVARIANTS WithinLimits FamilySound
SYMMETRY Symmetry
CHECK_DEADLOCK FALSE
