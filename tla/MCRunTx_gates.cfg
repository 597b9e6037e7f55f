CONSTANTS
    Chain <- ReviewChain
    NoRules = NoRules
    GateRules = NoRules
    SpecExit <- ReviewSpec
    BudgetEnforce = TRUE
    CalibratedHard <- Calibrated
    Agents = {a1}
    Verdicts = {"pass", "reject"}
    Configs <- AllTiers
    ArtifactKinds = {}
    Delegated = TRUE
    InitialRuns <- EitherRun
    Procs = {p1, p2}
    Commands <- GateCommands
    Faults = {}
    LiveReports = {}
    MaxTries = 2
    MaxEvents = 3
    MaxArtifacts = 1
SPECIFICATION Spec
PROPERTIES AdvanceJustified
SYMMETRY Symmetry
