CONSTANTS
    Chain <- PlanChain
    NoRules = NoRules
    GateRules = NoRules
    SpecExit <- NoExitRules
    BudgetEnforce = FALSE
    CalibratedHard = {}
    Agents = {a1}
    Verdicts = {}
    Configs <- Hard
    ArtifactKinds = {"plain"}
    Delegated = TRUE
    InitialRuns <- AutoRun
    Procs = {p1, p2}
    Commands <- CleanupCommands
    Faults = {"crash"}
    LiveReports = {TRUE, FALSE}
    MaxTries = 2
    MaxEvents = 4
    MaxArtifacts = 1
SPECIFICATION Spec
PROPERTIES CleanupAtomic
