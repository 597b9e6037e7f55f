CONSTANTS
    Chain <- CloseChain
    NoRules = NoRules
    GateRules = NoRules
    SpecExit <- NoExitRules
    BudgetEnforce = FALSE
    CalibratedHard = {}
    Agents = {}
    Verdicts = {}
    Configs <- Bypasses
    ArtifactKinds = {"proof", "badproof"}
    Delegated = TRUE
    InitialRuns <- AutoRun
    Procs = {p1, p2}
    Commands <- CloseRaceCommands
    Faults = {"crash"}
    LiveReports = {}
    MaxTries = 2
    MaxEvents = 3
    MaxArtifacts = 2
SPECIFICATION Spec
INVARIANTS TypeOK TrailUnbroken TerminalAgrees
PROPERTIES CloseGateHolds CloseGateSealed RunIsAtomic
SYMMETRY Symmetry
CHECK_DEADLOCK FALSE
