CONSTANTS
    Parts = {"state", "budget", "sentinel", "goal", "audit", "lanes", "discovery",
             "worklog", "intents", "agents", "locks", "dirlock", "globs", "events",
             "relay", "projects", "schema", "actions", "routing"}
    \* StateStore
    StateKeys = {k1, k2}
    StateValues = {v1, v2}
    BadPayloads = {bad}
    StateTTLs = {0, 1, 3}
    Writers = {p1, p2}
    LastHalf = 5
    \* Budget
    Checkers = {p1, p2}
    TokenBudget = 2
    WarnPct = 60
    Totals = {0, 1, 2, 3}
    MaxReports = 2
    \* Sentinel
    Sentinels = {k1, k2}
    Intervals = {0, 1, 2, 4}
    Week = 2
    Dawn = 4
    Dusk = 9
    \* GoalClose
    Closers = {p1, p2}
    LeaseTTLs = {0, 1}
    MaxFence = 2
    LastTick = 3
    \* AuditChain
    Loggers = {p1, p2}
    Bodies = {v1, v2}
    MaxChanges = 1
    MaxEntries = 3
    \* Lanes
    Syncers = {p1, p2}
    LaneNames = {l1, l2}
    Beads = {b1, b2}
    MaxSyncs = 2
    \* Discovery
    Scouts = {q1}
    Discoveries = {1, 2}
    Topics = {t1}
    Scores = {40, 60}
    DecayRate = 100
    FeedbackKeys = {k1, k2}
    MaxSignals = 2
    LastDay = 2
    \* WorkLog
    SessionIds = {s1}
    ProjectDirs = {d1, d2}
    RunIds = {"ra", "rb"}
    Shas = {c1}
    MaxTokenReports = 2
    MaxAttributed = 2
    LastHour = 2
    \* MergeIntents
    MaxIntents = 3
    MaxHead = 4
    \* AgentLifecycle
    Callers = {p1, p2}
    AgentIds = {a1}
    StallTimeout = 3
    VelocityWindow = 1
    MaxMachines = 2
    LastMinute = 3
    \* Coordination
    Claimants = {p1}
    Sweepers = {p2}
    Owners = {o1, o2}
    LockScopes = {s1}
    Patterns = {"a*"}
    Overlaps <- Crossing
    LockTTLs = {0, 1}
    MaxLocks = 2
    LastSecond = 4
    \* FileLock
    NoOwner = nobody
    LockProcs = {q1, q2, q3}
    \* GlobOverlap
    Letters <- GlobLetters
    Classes <- GlobClasses
    MaxSegment = 3
    \* EventLog
    Sources <- Tables
    SystemSource = "discovery"
    EventRuns = {r1}
    AllRuns = all
    Tails = {q1}
    Consumers = {c1}
    ListLimit = 2
    MaxRecorded = 3
    LastStamp = 1
    \* PortfolioRelay
    Relays = {q1}
    RelayProjects = {d1, d2}
    BatchSize = 1
    MaxProjectLog = 2
    MaxCopies = 4
    \* ProjectDeps
    Projects = {1, 2, 3}
    Chain <- ChildChains
    \* Schema
    Openers = {p1, p2}
    FirstVersions = {0, 1, 2, 3, 4, 5, 6, 9, 11, 15, 18, 19, 20, 22, 25, 29, 31, 32, 33, 34,
                     40, 41}
    LastBackupSecond = 1
    \* Actions
    Commanders = {p1, p2}
    AgencyStages <- TwoStages
    Commands = {k1}
    SettingsOf = {1, 2}
    MaxCreated = 3
    MaxCommands = 2
    \* Routing
    ModelAsks <- ModelQuestions
    RoleAsks <- RoleQuestions
    TaskAsks <- TaskQuestions
    Aliases <- SomeAliases
    Undecorated <- DecoratedNames
    Undated <- DatedNames
    Lab <- SomeLabs
    EffortOrder <- SomeEfforts
SPECIFICATION RecordsSpec
INVARIANTS HolderNamed ChainTells  LandedNotLost RoutesHonoured PortfolioMoves
PROPERTIES
    PathsExclusive ClosesFenced DiscoverySound  MarksKept
    AgentsTold MigratesSafely ActionsKept
CONSTRAINT RecordsBound
CHECK_DEADLOCK FALSE
