CONSTANTS
    Chain <- CloseChain
    NoRules = NoRules
    GateRules = NoRules
    SpecExit <- NoExitRules
    BudgetEnforce = FALSE
    CalibratedHard = {}
    Agents = {a1}
    Verdicts = {}
    Configs <- Hard
    ArtifactKinds = {"plain"}
    Delegated = TRUE
    InitialRuns <- AutoRun
    Procs = {p1, p2}
    Commands <- EndCommands
    Faults = {"busy"}
    LiveReports = {TRUE, FALSE}
    MaxTries = 2
    MaxEvents = 2
    MaxArtifacts = 1
SPECIFICATION FairSpec
PROPERTIES CommandsEnd RolledBackWorkDropped
CHECK_DEADLOCK FALSE
