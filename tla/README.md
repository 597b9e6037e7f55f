# intercore: a verification project

intercore (`ic`) is a command-line kernel that runs agent work: every command
is a short process that opens one SQLite file, reads, decides, writes and ends.
What makes it hard is not a long-lived program but many processes over one
database: agents, hooks, supervisors and people advance, roll back, cancel and
configure the same run, start and reap the same workers, and may be killed
between any two statements. This directory models that as TLA+, checks it with
TLC on small instances and proves the central results with TLAPS for all of
them.

Paths below are relative to the repository's `src/`.

## 1. Inventory

| component | state | operations | what is hard | what makes it correct |
|---|---|---|---|---|
| **Run lifecycle** `internal/phase/machine.go`, `store.go`, `tx_queriers.go`, `cmd/ic/run_lifecycle.go`, `cmd/ic/gate.go` | row of `runs` (phase, status, auto_advance), `phase_events` | advance, gate override, rollback and its clean-up, skip, cancel | reads and writes of concurrent commands interleave; the compare-and-set looks at the phase only; several statements without a transaction | every command acts as one atomic step on the current row; the event trail is one path; status and phase agree; a terminal run stays put |
| **Phase gates** `internal/phase/gate.go` | none of its own: artifacts, agents, verdicts, tokens, metadata read in the caller's transaction | choose, inject, escalate and evaluate rules; dry run | what the gate read may be stale at the write; three sources of rules, three tiers, bypass flags | what an advance event claims is true of the database it commits to; a close gate holds against every bypass |
| **Run configuration** `internal/phase/metadata.go`, `cmd/ic/run_config.go` | `runs.metadata`, auto_advance | merge with compare-and-set and bounded retry | lost updates between merges; patches that take a sealed gate apart | a sealed close gate is never undone; every command ends |
| **Runtrack** `internal/runtrack` | `run_agents`, `run_artifacts` | add, update, mark rolled back, fail | workers report while a rollback cleans up | rolled-back work is gone in the end |
| **SQLite access** `internal/db` | WAL file, one connection per process | immediate and deferred transactions, migrations | a deferred reader that turns writer behind another commit must fail at once | writers are serialised on the state they read |
| **Dispatch** `internal/dispatch` | `dispatches`, `merge_intents`, processes | admit, spawn, poll, wait, kill, terminalize, retry, prune, recover intents | admission limits, a crash between the row and the process, five writers of one outcome, PIDs that are reused | limits hold; the first outcome stands; no stranger is signalled; only a known failure is retried, a bounded number of times |
| **Escalation** `internal/dispatch/escalate.go`, `retry.go` | the chain of attempts, one state entry; `dispatches` | retry with escalation | the chain is read, changed and saved by calls that overlap and die in between | every rung is paid for by failures; one retry per attempt |
| **Merge intents** `internal/dispatch/intent.go` | `merge_intents`, HEAD | record, merge, complete, fail, recover | an orchestrator dies between git and the record | no landed merge is written off |
| **Scheduler** `internal/scheduler` | in-memory queue, running set, caps, limiter, backoff; `scheduler_jobs` | submit, cancel, worker loop, retry, pause, stop | locks and channels of one process, delays, caps, cooldowns | no job is lost or run twice; slots are exact; every job ends |
| **Coordination** `internal/coordination` | `coordination_locks` | reserve, check, release, transfer, sweep | expiry, overlapping patterns | no two owners hold overlapping exclusive locks |
| **File lock** `internal/lock` | directories and owner files | acquire, release, break stale, clean | several file-system calls per step | one owner at a time |
| **Goals** `internal/goal` | `goals` with a fenced lease | acquire, renew, stamp, finish, release | lease expiry under a slow holder | only the newest fence writes; closed means every step stamped |
| **Portfolio** `internal/portfolio` | child runs, `project_deps`, relay cursors | relay poll, add dependency, topological sort, cancel | several databases, polling, cycles | no event is skipped; projects can be put in order; somebody can always move |
| **Publish** `internal/publish` | `publish_state`, three git repositories, plugin caches, installed record, canary | phases of a publish, gated push, rollback, prune, doctor | partial failure between pushes, checks that are late, sessions that run out of a cache | the branch moves to checked commits only; the marketplace never goes back or advertises what is not committed |
| **Tokens** `pkg/authz/token.go` | `authz_tokens`, `authorizations` | issue, delegate, consume, revoke | concurrent consume, cascades | spent once, with its audit row |
| **Policy** `pkg/authz` (merge, evaluator), `pkg/autonomy` | policy files in layers; the delegation level, a state entry | load and merge, check, declare a level | layers override each other; anyone writes the entry | a later layer only tightens; nothing passes the declared level |
| **Events** `internal/event` | six event tables and cursors | append, list since, tail, consume | per-source limits and cursors | no cursor gets ahead of its consumer |
| **Budget** `internal/budget` | flags in `state`, events | check | two checks at once; a death, or a failing insert, between flag and event | a crossing is recorded where the insert does not fail |
| **Sentinels, state, audit** `internal/sentinel`, `state`, `audit` | a table each | claim, prune, set, get, log, verify | expiry at the second, pruning by others, two loggers | once per interval; prune takes only what nobody sees; tampering is told |
| **Agent lifecycle** `internal/lifecycle` | registry of machines in memory | get, transition, check stalls | double-checked locking | one machine per agent; stalls are real |
| **Discovery, lanes, landed changes, sessions** | a few tables each | submit, score, promote, dismiss, decay; sync; record, revert, attribute, report tokens | small transactions of several processes, repeated and late reports | rows, events and sums agree |
| **Run creation, actions, agency specs** `cmd/ic/run_create.go`, `internal/action`, `internal/agency` | `runs`, `phase_actions`, state entries | create, add, update, delete, load | several statements per command | what is reported done is there |
| **Routing** `internal/routing`, `cmd/ic/route.go` | configuration | resolve a model, a role's seats, a deployment | floors, overrides, calibration, aliases and contracts combine | every answer meets its contract |
| **Migration and health** `internal/db` | the file, its version, its backups | open, migrate, health | old versions, two processes, a later binary | an old file becomes a current one, forward only |
| **Scoring, cost, replay, observation, receipts, redaction, handoff, contracts, CLI** | none or read-only | parsing, pure functions, reports | conversions | functional correctness |

How they interact: `cmd/ic` is the only caller. A run (`phase`) reads what
`runtrack` and `dispatch` wrote when it evaluates a gate, through queriers that
share its transaction; `budget` and `cost` read `dispatch` tokens; `agency`
supplies exit rules; `event` and `coordination` append events; `portfolio`
reads the databases of child projects; `scheduler` calls `dispatch` spawns;
escalation asks `routing` for the next model; `config`, `authz` and `phase` read
the same declared delegation level.
There are no messages: components meet only in the database, in files, and in
processes that are started or signalled.

`PROJECT.json` lists every component with its sources and status, and the
hazards at the lines where they bite.

## 2. Modules

| module | models | kind |
|---|---|---|
| `PhaseGate` | the chain, the skip walk, rule selection and `evaluateGate` | operators on a record |
| `RunRecord` | what the database holds of one run, and what each statement of the stores does to it | operators on a record |
| `RunLifecycle` | every command as one atomic step: what the phase machine promises | abstract specification |
| `RunTx` | processes that run those commands as reads, transactions and statements, with stale snapshots, kills and failing statements | specification, properties |
| `MCRunTx` | chains, rules, commands and configurations for TLC | instances |
| `DispatchRow` | the table of dispatches: admission, retry eligibility and the outcomes a writer may record | operators on the table |
| `Dispatch` | processes that spawn, poll, wait, kill, retry and prune, beside the workers and the host's PIDs | specification, properties |
| `DispatchContract` | the outcome of each id: open, then one end, then forgotten | abstract specification |
| `MCDispatch` | requests and limits for TLC | instances |
| `DispatchProofs` | types, agreement of the two tables, the limits, the contract; families, workers | proofs |
| `RunTxProofs` | type correctness, snapshot lemma; refinement, what follows of the life cycle and of the gates | proofs |
| `WorkProofs` | slots, caps, pauses and jobs of the scheduler; the ladder of retries; routes | proofs |
| `HoldingProofs` | who holds what: goal leases, coordination locks, the lock directory, candidate refs, the policy in force, publishes, the versions a machine caches | proofs |
| `LedgerProofs` | what tables promise of what was done: merge intents, tokens and their audit, the audit chain, cursors, the schema itself, the actions of runs | proofs |
| `RecordsProofs` | state entries, budget flags, sentinels; sessions, landed commits and lanes; agents; discoveries | proofs |
| `JobQueue`, `Scheduler` | the heap, fair selection and per-agent caps; workers, timers and clients over them | operators; specification |
| `PushGate` | pushes through candidate refs and required checks | specification |
| `MCWork` | `Scheduler` and `PushGate`: what has to come to an end | instances |
| `AuthzTokens`, `Policy` | tokens; policy layers and the delegation level | specifications |
| `Publish`, `PluginCache` | a publish over three repositories; caches, installed record and canary on the machine | specifications |
| `Escalation` | retries up the ladder of models | specification |
| `MCPublishing` | these five: what decides and acts on behalf of a human | instances |
| `StateStore`, `Budget`, `Sentinel`, `AuditChain`, `Lanes`, `Discovery`, `WorkLog`, `AgentLifecycle` | the components of these names (`WorkLog`: landed changes and sessions) | specifications |
| `Coordination`, `GlobOverlap`, `FileLock`, `GoalClose` | locks on patterns, whether patterns meet, the lock directory, the fenced close | specifications |
| `MergeIntents`, `EventLog`, `PortfolioRelay`, `ProjectDeps` | outbox, event tables and cursors, relay, dependencies and children | specifications |
| `Records` | `EventLog`, `PortfolioRelay` and the ledgers side by side: what they promise together (`CursorsHonest`, `MarksKept`, `LedgersKept`) | composition |
| `Schema`, `Actions`, `Routing` | the file and its migrations; run creation, actions and agency loads; routes | specifications |
| `MCRecords` | these nineteen | instances |

### Runs of phases: state

A chain holds no phase twice (`ParsePhaseChain`), so a phase is its position.
The record `db` of `RunRecord` is the row of the run with its events, active
artifacts, active agents, whether a dispatch is live, the verdicts in scope,
and whether the budget is spent: exactly what the gate checks read. In `RunTx`
a process `p` has `pc[p]` (which statement it is at), `cmd[p]` (its arguments),
`snap[p]` (what it last read), and `stale` holds the open transactions behind
which another connection committed.

A *deferred* SQLite transaction (`Store.BeginTx`) reads one snapshot. If
another connection commits before its first write, that write fails with
SQLITE_BUSY at once, as `internal/db/immediate.go` explains. So a transaction
is two steps: the read (`ReadRun`) and the write with its commit
(`Commit`), guarded by `Fresh`. `UPDATE ... WHERE phase = ?` adds `SamePhase`. The
write lock is held from the first write to the commit, so no other process
sees a state between, and one step is enough.

### Runs of phases: actions

`StartX` is the first statement of command X, `XRead` the read inside its
transaction, `XCommit` its commit, `XRefused` its early return. One command
goes through these labels:

* advance: `StartAdvance` (first read, exit rules) - `AdvanceRead` -
  `PauseCommit`, `BlockCommit` or `AdvanceCommit`; or `TxAbort`.
* override: `StartOverride` - `OverrideRefusal` or `OverrideCommit`.
* rollback: `StartRollback` - `RollbackRead` - `RollbackCommit` -
  `MarkArtifacts` - `CancelDispatches` - `FailAgents`, the last three each a
  statement of its own that may fail and be logged.
* skip: `StartSkip` (validation) - `SkipWrite`.
* cancel: `StartCancel` (check) - `CancelWrite` - `CancelEventWrite`.
* set: `StartSet`/`SetRead` - `SetWrite`, `SetRetry` or `SetGivesUp`. A patch of the close
  gate names some of its fields or removes it; `MaySet` is what the validation after the
  merge refuses.
* workers: `RecordArtifact`, `TrackAgent`, `ReturnVerdict`, `ReportTokens`,
  `RunDispatches`, one statement each.
* `Crash`: the process is killed anywhere.

Left out of these: the portfolio checks `children_at_phase` and
`upstreams_at_phase`, metadata that does not decode, the event callbacks of
Advance and the agents it spawns afterwards, the portfolio cascades of cancel
and rollback, and metadata keys other than the close gate (they would only make
the compare-and-set of a set miss more often). A report that changes nothing
still counts as a commit, which makes more transactions stale than SQLite would.

### Dispatches: state

`rows` and `terminals` are the tables `dispatches` and `dispatch_terminals`, an
id standing for its order of creation; `issued` only remembers the scope of
every id ever admitted. `worker[i]` is the process that dispatch `i`'s PID
names now: `alive` is the worker, `exited` nobody, `stranger` another process
that took the PID since, `harmed` such a process signalled. What tells a worker
from a stranger is the birth recorded with the PID (`processIdentity`), so
looking at a PID is `SeemsDead`/`Recognised` on that state, and inspection that
fails is the fault `inspect`. `report[i]` is what the worker has written: nothing,
a passing or a failing verdict (for a flere worker, a receipt that verifies).
`out[p]` is the outcome a process is about to record.

### Dispatches: actions

Admission, `recordProcessIdentity` and `Terminalize` each run in one immediate
transaction and are one step (`StartSpawn`/`AdmitRetry`, `RecordIdentity`,
`Record`). Starting, looking at and signalling a process touch no database and
are steps of their own.

* spawn: `StartSpawn` (checks and row) - `StartWorker` or `SpawnFails` -
  `RecordIdentity` or, when the row was ended meanwhile or the child cannot be
  inspected, `IdentityMissed` - `Reap` - `Record`.
* poll, wait, kill and the interrupt a wait makes when it times out:
  `StartWatch` - `ReadEnded`, `ReadPid` or `ReadNoPid` - `LookDead`, `LookAlive`
  or `LookUnsure` - `CollectRead`, `Touch`, `Signal` or `SignalRefused` -
  `Record` or `RecordLost`. `Expire` moves a wait to its interrupt, wherever it is.
* retry: `StartRetry` (eligibility) - `AdmitRetry` or `RetryRejected`. The
  row it makes has no process; starting one is left to whoever asked.
* one transaction each: `CancelByRun` (of a rollback), `Prune`, `ReportTokens`.
* workers and host: `WorkerReports`, `WorkerExits`, `PidReused`; `Crash`.

Simplified: the signals and grace periods of `terminateRecordedProcess` are one
step, which the worker does not survive; a spawner's unreaped child keeps its PID
(`Spawning`), as a zombie does. Left out: the scheduler's spawns, the
reconciliation event of a finished worker, the contents of reasoning decisions,
the advisory limit of a portfolio, status callbacks, the external budget veto
(it only refuses more), and supervision, for which no command inserts a row.

### The other components

Each has one module, whose header says which variable stands for which table,
file or field; an action is a handler, and is split exactly where the code has
two statements, system calls or critical sections between which others run.
What is worth knowing of each:

* `Scheduler`: a worker goes through `take`, `admit`, `scan`, `claim`, `limit`,
  `run`, `report`, which are the places where `processJobs` holds no lock. A slot
  is reserved before a job is claimed, and a claim can be lost. The global count
  `SlotsTaken` is the size of the set of slots of all agents. Timers (retry,
  backoff, cooldown) fire whenever they please, but do fire. `TakeJob` is one step where
  `TryDequeue` holds the queue's lock twice; a choice cancelled in between only sends the
  worker away without a job.
* `PushGate`: `awaitChecks` polls until its deadline; runs of checks appear,
  repeat, begin and end outside the program, perhaps never. `Newest` goes by the second a
  run started in, 0 when it cannot be read; of several in one second any may speak for the check.
  Pushers of one commit share its ref; a delete that fails, a candidate push that only
  reports an error and a killed pusher leave it (`left`).
* `AuthzTokens`: consume is read, update with its guard, audit insert and commit;
  delegate reads the parent in one step and inserts in another.
* `Policy`: `MergeRule` is one turn of the loop in `MergePolicies`. A merge that
  fails is no policy at all (`LoadEffective`). `OverwriteLevel` is any `ic state set`
  of the level's key, or its expiry.
* `Publish`: two clones and a peer clone, each with a working tree, a head and
  the base it last saw; `StepFails`, `Dies`, `Unlock`, `OtherMachine` and a manual
  `Reset` come anywhere. A row stays when its publish dies or the statement that clears it
  fails (`leaks` counts both), and a live one that is an hour in one phase counts as stale
  (`LockBroken`). Write, commit and push of the peer are outcomes of one step (`SyncPeer`),
  which may fail after each. The lock does not keep two processes from being past it at
  once; the ghost variable `overlapped` notes when that has happened, and what is
  claimed of the marketplace is claimed until then.
* `PluginCache` is what is left on the machine afterwards. `doctor --fix` is a walk of its
  own: a rebuild of the version that drifted, removed without a look at the process table and
  copied with an ignored error (`ForceRemove`, `ForceCopy`), then orphans and stale versions,
  then a missing directory and the hooks.
* `Escalation`: `LoadChainState`, `RecordFailure`, `RetrySameModel` or `StepUp`, and
  `SaveChainState` are steps of one call. `StepUp` takes any candidate; which ones the
  policy offers is `Routing`'s subject.
* `Coordination`: a reservation notes its time before it waits for the write
  lock, and ignores an error of the sweep in its transaction; a sweep (`Sweepers`) selects first and
  releases row by row. `GlobOverlap` compares
  `PatternsOverlap` with the languages of the two patterns.
* `FileLock`: `mkdir`, the owner file, the rename of a stale breaker and each
  remove are separate steps. `broke` remembers the breakers whose rename took the file last
  written, `overtaken` that a command acted on a file it had not looked at. That one
  breaker wins (`OneBreaker`) is claimed always, that no two hold the lock only until a
  command is overtaken: after that it is false (`NoDualOwnership` below).
* `GoalClose`, `Sentinel`, `Budget`, `StateStore`: a clock ticks between the
  statements; intervals and lifetimes are a few ticks, the week of the sentinel
  is two. A closer keeps the fence it was given (`fence`), and each of its statements is
  guarded as its WHERE clause is (`Mine`); the audit of a close only reads. A mark whose event a
  budget check failed or died to insert is in `lost`.
* `AuditChain`: a checksum is the entry it covers, so no two entries share one.
* `EventLog`: two tables stand for six (one without runs); a listing takes
  at most the limit of each, merges by time and advances one cursor per table. It is
  a set of events, first the first limit of each table (`FirstOf`) and then of them
  all, in the order `Precedes` of time, table and id.
* `PortfolioRelay`: cursors in memory, stored cursors, and stored ones that
  nobody can read. `ProjectDeps`: children with chains of their own advance when
  their upstreams let them.
* `MergeIntents`: `recovering` holds the intents a recovery has read and not yet
  looked at; it may take them in any order, the query's own included.
* `Discovery`, `WorkLog`, `Lanes`, `AgentLifecycle`, `MergeIntents`: transactions
  as steps; late and repeated calls come by themselves since an action may be
  taken again.
* `Schema`: a table is the set of versions that gave it columns. The steps of
  Migrate add pairs of table and version, guarded by the version found, and the
  schema text at the end creates only tables that are missing. A copy of the file
  holds what a checkpoint had moved into it.
* `Actions`: creating a run commits the row, then its id for replay, then the
  actions that came with it; a load goes stage by stage and can fail at any.
* `Routing`: no interleaving; every question is an initial state and has one
  answer. Models, labs, aliases, profiles and chains of fallbacks are small tables
  with an alias cycle, a fallback cycle, a missing profile and a dated name. Aliases are
  looked up before the date is taken off a name and again after it (`CanonicalModelId`).

## 3. Runs

The runs of `MCRunTx` use two processes. Every race in this code is between a command and
one other, and what more processes would add (two others between a read and a
write) two can do one after the other, since a finished process starts again.
`MaxEvents` bounds the log: a command starts only while its event will fit, so
a bounded log never cuts a command short. Chains of three or four phases have a
first, a middle and a terminal phase, enough to skip, to override into the end
and to roll back past a phase. `CHECK_DEADLOCK FALSE` is set where the bounded
log leaves every process idle for good; the runs without it have worker reports
that never stop.

| run | question | properties |
|---|---|---|
| `race` | all commands race, processes are killed, a close gate is activated meanwhile | `TypeOK`, `TrailUnbroken`, `TerminalAgrees`, `CloseGateHolds`, `CloseGateSealed`, `RunIsAtomic` |
| `gates` | every tier, a calibrated rule, an agency rule, a budget gate, skips and reports in between | `AdvanceJustified` |
| `ends` | overrides, rollbacks and concurrent sets against reporting workers; writes that fail busy, so that a set runs out of tries | `CommandsEnd`, `RolledBackWorkDropped` |
| `cleanup_atomic` | a comment that the code does not keep | `CleanupAtomic`, violated |
| `dispatch_outcomes` | spawner, poll, wait, kill, rollback and prune race to end a dispatch of either kind, with statements and inspections that fail and PIDs reused | `TypeOK`, `RecordAgrees`, `WorkersGoverned`, `OneOutcome`, `WaitReturns` |
| `dispatch_limits` | roots, children and retries in two scopes, callers with looser and tighter limits, outcomes known and unknown, processes killed | `WithinLimits`, `FamilySound` |
| `dispatch_kill_race` | a statement of the manual that the code does not keep | `KillEndsWorker`, violated |
| `work` | jobs through caps, a session limit of one, cooldowns, pauses, cancels, a stop and a restart; two gated pushes of one branch | `JobsAccounted`, `JobsEnd`, `BranchGuarded`, `PushEnds` |
| `publishing` | the five components of `MCPublishing` | `PolicyTightens`, `TokensSound`, `MarketSound`, `CachesSound`, `Escalates` |
| `records` | the nineteen components of `MCRecords` | `HolderNamed`, `ChainTells`, `CursorsHonest`, `LandedNotLost`, `RoutesHonoured`, `PathsExclusive`, `ClosesFenced`, `PortfolioMoves`, `DiscoverySound`, `LedgersKept`, `MarksKept`, `AgentsTold`, `MigratesSafely`, `ActionsKept` |
| `relay_restart`, `schema_gap` | two statements of comments that the code does not keep | `RelayedOnce`, `HealthyIsCurrent`, violated |

`MCWork`, `MCPublishing` and `MCRecords` hold components that share no variable:
`focus`, chosen in the initial state, says which one moves, so a run explores each
by itself, one after the other, and a property of one holds trivially while
another is in focus. `Parts` restricts a run to some of them. A reader who wants
to look at one component sets `Parts` to its name.

Most properties of these runs are conjunctions, one per component, of parts that
are defined and explained next to them: for instance `TokensSound` is `TokTypeOK`,
`SpentOnceAudited`, `LineageNarrows` and `CascadeComplete`, and `JobsAccounted` is
`OnePlace`, `SlotsExact`, `CapsHold`, `PauseExplained` and `EndsOnce`. `WorkersGoverned`
is `CollectedAfterExit`, `StrangersUnharmed` and `LiveWorkerGoverned`; `FamilySound`
is `LineageSound` and `RetryOfFailure`.

The race to end a dispatch needs one dispatch (its id is never used again, and
nothing that ends one reads another) and two processes, each of which may take any of
the roles: spawn, poll, wait, kill, prune or roll back. Retries and limits need three
dispatches, for an original, a repetition and a child of either, with limits of
one and two below that bound; what races there is admission, so two processes
do. `dispatch_outcomes` kills no process, since `LiveWorkerGoverned` is only
claimed while none is. `CHECK_DEADLOCK FALSE` since ids run out. The kill race is
found with one dispatch and a spawner and a kill.

Bounds of the other runs. Two processes of each kind, for the reason given for
`MCRunTx`; three for the file lock, where a breaker can be overtaken by another
breaker. Two jobs, of two sessions and one batch, one with a retry, contend for
every queue, slot and cap that is set to one or two; what the queue does with more is
in the proofs of `JobsAccounted`, and where it fails `JobsEnd` in `SliceIsIndexed`. The session limit of one
lets a cap miss close a session, as three do with the default of three (`CountsRunning`). Two commits and two runs of a
check make "the newest run of this commit" mean something, with starts in one second or in two. Three tokens are a
chain of delegations below the root. Two publishes at a time are
followed over two versions until one of a pair that overlapped has returned or died, one at
a time over three until it leaves its row or a peer it has written to and not committed
(`PublishBound`): one published, one that failed and one to
go back to. Three serve for a cache with an installed, a prior and a swept
version. Three policy rules are a layer below, one above and a catch-all. The
ladder has two models above the base, three attempts and two calls: a strike
and the rung it leads to, alone or overlapping. `FirstVersions` of the schema has a version on both sides
of each step's guard. One reservation and one sweep contend for locks of two owners on one pattern:
who blocks whom does not depend on the process, and which patterns meet is `GlobOverlap`'s subject. Scores are
one below and one above the gate of 50, and decay goes on for two days; with a second discovery or a second
signal some of this is cut (`DiscoveryBound`), and syncs of lanes overlap while there is one lane
(`LanesBound`), which a second adds nothing to but its rank. The clocks of leases, expiries and intervals
run past the end of the longest: a lock of one second lapses at the third, and a sweep may still
work from its selection at the fourth. What bounds the length of a log (`MaxLocks`, `MaxEntries`, `MaxRecorded`,
`MaxCopies`, ...) leaves two entries and one that comes later. Where such a bound or
an answered question leaves nothing to do, the run sets `CHECK_DEADLOCK FALSE`.
`MCPublishing` permutes processes, which no definition tells apart; its properties are
invariants and step properties, for which that is sound.

Fairness is weak fairness of `Step(p)`, the next statement of a command that
has started: the operating system schedules a started process, and SQLite's
busy timeout lets a single statement through. Starting a command is never fair,
and neither is a kill, so `CommandsEnd` and `RolledBackWorkDropped` are about
processes that are left running. `Dispatch` adds weak fairness of `Expire(p)`:
the context of a wait ends at its deadline, wherever the wait is. Workers are
never fair: `WaitReturns` holds of one that never exits.

In `MCWork` a worker of the scheduler, each of its timers (retry, backoff,
cooldown) and a step of a push are weakly fair: goroutines are scheduled and the
runtime fires timers. Clients are not: `JobsEnd` is claimed of a scheduler that is
not stopped and not left paused. One step is strongly fair, the poll of `AwaitPoll` that
finds the deadline past: between two polls the process sleeps or asks the provider,
so the step is not enabled continuously, but the clock does pass the deadline and
the loop does come back to look. Checks of the provider are never fair.

### Divergences found

Each of the first four is a run that ends in a counterexample.

1. `CleanupAtomic`: the comment at `run_lifecycle.go:652` calls the clean-up one
   transaction; it is three statements.
2. `KillEndsWorker`: a kill (or a wait that times out) reads the row once; if the
   PID is recorded only after that, the dispatch is cancelled and its worker runs
   on (`internal/dispatch/collect.go:221`), where `agents/cli-reference.md:46` and
   `:47` promise that the worker is killed.
3. `RelayedOnce`: the relay stores its cursor with an expiry of 0
   (`internal/portfolio/relay.go:210`), which readers take for expired, so a
   restarted relay copies the children's events again.
4. `HealthyIsCurrent`: `Migrate` has no step for the columns of versions 30 and 31,
   and its first step begins at version 5 (`internal/db/db.go:169`); a file found at
   an old version is stamped current and `Health` says ok without those columns.

The modules state some more sentences of comments that the code does not keep.
They are defined with the text they quote, and no run checks them:

| property | what happens instead |
|---|---|
| `RunTx!SkipIsAhead` (`phase/store.go:694`) | a skip is validated on an earlier read than the one it writes to |
| `Budget!TxReplicates` (`phase/tx_queriers.go`) | the check answers "exceeded" only while its flag is unset, the gate compares the tokens |
| `Budget!EveryCrossingRecorded` (`cmd/ic/recorders.go:28`) | the flag is set first, the error of the insert is ignored (`budget.go:121`), and no later check tries again |
| `Sentinel!OncePerScope` | a sentinel that fires once fires again when its row is pruned after a week |
| `FileLock!NoDualOwnership` (`lock.go:327`) | the rename goes by the file's name: a breaker that judged a dead owner's file can take that of whoever broke the lock before it and acquired it since |
| `GoalClose!StepsOfThisClose` | stamps of an overtaken close stay and count |
| `EventLog!ShortMeansDrained` (`event/store.go:202`) | a listing over several tables cut off by its limit can be shorter than that limit for each |
| `MergeIntents!CompletedLanded` | recovery completes an intent when somebody else's commit moved HEAD |
| `Scheduler!CountsRunning` (`queue.go:425`) | a job put back on a cap miss stays counted for its session; as many misses as the limit close the session for good (`CountStuck`) |
| `Scheduler!SessionLimitHolds` (`queue.go:420`) | the scan for a job with a free slot does not ask the session limit |
| `Scheduler!SliceIsIndexed` (`queue.go:338`) | of six queued jobs or more, a cancel of a session can take another session's job out of the slice: it stays pending for ever, and the cancelled one blocks the jobs behind it |
| `PushGate!SharesSafely` (`gated_push.go:119`) | of two pushes of one commit, the one that ends first deletes the ref both share, and no check starts for the other if none had by then |
| `Routing!FableNeedsWindow` (`resolve.go:227`) | the floor is applied after the window and raises opus to fable again |
| `Lanes!SnapshotsCount` (`velocity.go:95`) | throughput counts the events of removals alone; a sync that takes beads out leaves a snapshot |
| `Publish!OneInteractive` | two publishes read the lock row before either creates one |
| `PluginCache!DoctorSpares` (`cache.go:199`) | a doctor's forced rebuild asks no process table (`cache.go:56`) and pulls a version a session runs out of |
| `PluginCache!InstalledServed`, `RollbackPossible` | a clean takes the installed directory; a prune takes the version to go back to |

The models show further gaps that no property is stated about: `ic run cancel`
writes the status and the event in two statements (`CancelWrite`,
`CancelEventWrite`); the exit rules of an agency spec are those of the phase read
before the transaction (`StartAdvance`), so `AdvanceJustified` only claims the
rules of some phase; the dry run of a gate does not walk over skipped phases; the
agent cap and the token budget count the rows that are kept (`InScope`), so a prune makes room for more;
a publish whose row could not be deleted leaves it, and blocks the next until the hour or an unlock
(`Return`, `engine.go:233`, `:657`); `doctor --fix` moves a marketplace that was rolled back forward to
its checkout again, and may leave the installed record at a version whose copy failed (`DoctorFix`, `ForceCopy`);
a portfolio is created without the actions it was asked for (`CreatePortfolio`); a run exists
although its creation was reported failed (`CommandStops` after `Create`); and two overlapping
calls of retry with escalation retry one attempt twice.

## 4. Proofs

`RunTxProofs` proves `Spec => []TypeOK` (`TypeCorrect`) and `Spec =>
[]SnapshotCurrent` (`SnapshotIsCurrent`) from the inductive invariant
`Inv == TypeOK /\ SnapshotCurrent`. `SnapshotCurrent` is what makes the rest
work: a transaction that will be allowed to write has a snapshot equal to the
database, and each command still knows of its read what it checked. It is
inductive because every commit marks every other open transaction stale.

Its second part proves `Spec => Lifecycle!Spec` (`RunTxImplementsLifecycle`):
every step is a step of the atomic specification, or leaves the database alone.
With the snapshot lemma each commit can be rewritten with `db` for `snap[p]`.
From the shape of atomic steps (`Forward`, `Backward`, `Still`) it derives
`TerminalStaysFrozen`, `TerminalAlwaysAgrees` and `TrailStaysUnbroken`, the last
with a lemma on appending one event to an unbroken trail.

It argues about the gates in the same way: only `Advance` logs an
advance and only `Advance` and `Override` complete a run, both on the database as
it is. That gives `AdvancesAreJustified`, `CloseGateAlwaysHolds` and
`CloseGateStaysSealed`. The second needs `GateOnDone`: a close gate is only
required on a chain that ends in "done". `validateRuntimeRun` checks that when a
run is created (`store.go:49`, a part of `InputAssumption`) and at every merge
(`MaySet`), so it is an invariant; without it the evidence rule would not be
injected into the last gate (`RuntimeTerminal`). The third is about patches of any kind: a set commits
only on the configuration it read, and of that `KeepsSeal` refuses what drops the
requirement or changes the bead or the seal (`metadata.go:291`-`:323`).

Assumptions: `ChainAssumption` (two phases or more, none twice, as
`ParsePhaseChain` checks), `RulesAssumption`, `InputAssumption` and
`TxAssumption` (the constants are of their kind, and no run starts with a close
gate on a chain without "done"). Nothing bounds the processes,
chain, rules or artifacts. The module begins with the lemmas on the operators,
among them that the skip walk of `Target` lands inside the chain, by
well-foundedness of `<` on the naturals.

`DispatchProofs` classifies every step by what it does to the two tables
(`DbStep`: admits one row, ends one, refreshes one, cancels a run's, prunes, or
nothing) and then argues about these five shapes only. `Inv == TypeOK /\
RecordAgrees /\ UnissuedAbsent` is inductive; `UnissuedAbsent` (ids still to come
have no row) makes an admission write a fresh row, and the part of `TypeOK` that ties
the label `record` to a pending outcome makes a recorded outcome a real one. From
it follow `TypesKept`, `RecordsAgree`, `OutcomesStand` (`Spec => OneOutcome`, the
refinement of `DispatchContract`, one contract action for each shape) and
`LimitsHold` (`Spec => []WithinLimits`): only an admission adds to a count
(`OnlyAdmissionAdds`), and it counted in the state it inserts into, under a limit
no caller can widen (`TighterBounds`). Two more results stand on `Inv`:

* `FamiliesStaySound` (`Spec => []FamilySound`) by `FamilyInv == FamilyTies /\ RetryDue`.
  `FamilyTies` says of every row what its kind of admission made it, by the rows it
  follows (`Follows`); rows only grow later (`Later`), so ties are kept. `RetryDue`
  is what the retry knows between its eligibility check and its admission: the row it
  repeats was a failure then, and what ended stays as it is.
* `CollectionsAreTrue` and `WorkersStayGoverned` by `WorkInv`: what each process knows
  at each label of the worker it looks at (`Placed`, `Seated`), one spawner for each
  dispatch (`OneSpawner`), and that a PID is recorded of started workers only
  (`WorkersKnown`). Workers only age (`Ages`): one that left never comes back. The second
  is proved for `"crash" \notin Faults`, and only there it is true: a spawner killed
  between start and record leaves a worker that no row names, a hazard in the list.

Assumptions: `RowAssumption` and `DispatchAssumption`, the kinds of the constants.

`WorkProofs`:

* `SlotsStayExact`: the parts `SlotsExact`, `CapsHold` and
  `PauseExplained` of `JobsAccounted`, by `CountsInv`, which adds types and that nothing
  runs before the start. A slot is a pair of an agent and a number, `Holders(a)` the
  workers that hold one of `a`; every step of a worker takes one (`GainsSlot`), keeps what it
  has (`KeepsSlot`) or gives one back (`DropsSlot`), through several fields and locks. Nothing
  in it depends on what the queue holds, so it is a result about the counting for any
  behaviour of the queue. `SchedulerAssumption` asks for finitely many workers and agent
  types, none of them the empty name.
* `JobsStayAccounted` (`SchedSpec => JobsAccounted`), the whole property, by `JobsInv`: `CountsInv`,
  the remaining types (`SideInv`) and `PlaceInv`. `OnePlace` is not inductive: a job is not
  doubled because its status tells where it may be (`JobFits` for the index, the slice and the
  maps, `HandFits` for each place of a worker) and no two workers own one job (`OneOwner`). The
  index and the slice do come apart (`SliceIsIndexed` below): what is in the slice only was
  cancelled there, what is in the index only is pending and out of every worker's sight. So
  `PlaceInv` allows both, and no retry or enqueue finds either in the way. What the heap does to
  the slice is shown apart from the steps: a swap loses and doubles nothing (`SwapShuffles`), nor
  do the rounds of a sift (`SiftUpShuffles`, `SiftDownShuffles`), so that `Enqueue` adds one job
  (`Enqueued`), `RemoveJob` takes one (`Removed`) and `RemoveAll` leaves some of what was there
  (`AllRemoved`). The order of the heap is in none of it, and no two jobs need differ in age.
  `EndsStay` is the step's half of `EndsOnce`; the other is that `JobFits` holds after it.
* `TheLadderIsClimbedOnce` (`EscalationSpec => Escalates`) by `EscalationInv`: types; what a caller
  has in hand is a retry the budget paid for (`PaidFor`); and as long as no two callers climb,
  the rung was read of the row that is there (`OneAtATime`).
* `EveryRouteIsHonoured`: a question is answered by one step, so what has to be shown is what
  the resolution computes. A function defined by recursion on `0..n` exists (`RecursionExists`,
  by well-foundedness); so the walk along the fallbacks names each profile once (`ChainOnce`),
  an alias ends in a name that is none, seats taken by place keep their order (`TakenInOrder`), the
  other labs come before the caller's own (`CrossLabOrder`), and the seats that are left pass every
  filter (`SeatsPass`). `RoutingAssumption` says that questions of the three kinds differ,
  efforts are numbers and profiles finitely many.

`HoldingProofs`:

* `GoalClosesAreFenced`: `GoalInv` ties a closed goal to its seal and a lease to its fence. No two
  closers were given one fence, and none a later one than the row's (`FencesApart`), so the comparison
  in each WHERE clause lets the holder's statements through and nobody else's (`HolderWrites`).
* `ExclusiveLocksHold`, `LocksEndOnce`, `ClearIsFree`: every step of `Coordination` lets
  rows fade (released or run out), grants one against all that live, or passes rows on
  between owners (`CoordShape`). Inductive is `CoordTyped /\ ExclusiveHolds`; that a sweep ends
  only what has lapsed needs that all it selected had (`SelectedLapsed`), since an expiry never moves.
  The assumption on the clock is `LastSecond >= 1`.
* `LockNamesItsHolder`: that one breaker wins needs nothing but that a file just written has
  not been taken yet (`BreakInv`). Three more facts hold together as long as nobody was overtaken:
  only the maker of the directory is on its way to the owner file (`MakerAlone`), a
  breaker's judgement is still right (`JudgedRight`), and a holder is named (`HoldersNamed`).
* `BranchStaysGuarded`: `GateInv` says that the runs of checks a pusher counted have
  passed and stand (`CountedRunsStand`), and that a candidate ref has a pusher that will delete it,
  unless a delete failed or its pusher is gone (`CandidateOwned`).
* `PoliciesTighten`: along the merge, the merged rules are no looser than those of the
  layers folded in so far (`MergedHold`), what is still to fold is the rest of the layers
  (`RestPending`) and an operation has one rule (`OneRuleEach`). `PolicyAssumption` says what
  a parsed rule looks like.
* `CachesStaySound`: a prune has listed directories, and reads the installed record and the
  sessions apart from the deletion; what it found is still apart from what is in use when it
  deletes (`PruneApart`), because a command of this machine that would move the record
  is the one that prunes, and a session only starts on what the record or the market names. A
  doctor's forced rebuild is excepted (`Forced`).
  `ReleaseAhead` and `CanaryNamesPrior` keep the version to go back to another one.
* `MarketStaysSound`: of the rows of `publish_state`, the owner is past creating its row
  and has no other, and there is a row that nobody owns for each death or failed delete at most (`LockInv`,
  by counting). Of the repositories, what the plugin's head and remote carry was committed,
  and while no two processes have overlapped, one at most is in flight, what it carries is
  committed, and the marketplace's clone is behind its base only by a rollback
  (`RepoInv`). The claim needs "until two publishes overlap": with three versions two
  publishes that overlap do break it, which two versions cannot show.
  `PublishAssumption` asks for finitely many processes, none named "nobody".

`LedgerProofs`:

* `MergesAccounted`: HEAD is past the base of every intent whose merge landed (`HeadBehind`),
  so recovery cannot mistake it.
* `TokensAccounted`: `TokInv` has the lineage (a child fits in its parent, and shares its
  root), what each call in flight read (`TokCalls`), and the audit row of each spent
  token. That all of a chain carry one root makes the cascade complete
  (`AncestorsShareRoot`). `TokAssumption` wants a clock that ticks.
* `TheLogTells`: while nobody touched the rows, no insert failed and no two loggers were open,
  every row has the checksum of the one before it and the open logger remembers the end
  (`LogWhole`). Verification sorts the rows first: rows in order it leaves as they are, and any
  others it cannot pass unless each number is that of a row whose checksum says so. The sort is a
  function defined by recursion on `0..n`, which exists by well-foundedness (`RecursionExists`).
* `CursorsStayBehind`: for the log, ids of a table grow with time (`RowsInOrder`) and what a
  listing leaves out comes after what it gives, per table (`ListingClosed`, by
  well-foundedness on the naturals); for the relay, a stored cursor is behind the one in memory and that
  one behind what was copied (`CursorsBehind`). `EventAssumption` wants tables with names of their own.
* `MigrationsAreSafe`: until the transaction of a migration is through, the file is as it was
  found (`SchemaInv`), and for every version that is not refused the steps from there reach every
  column of every table that has a step (`EachReached`, a fact about the DDL and the list of
  steps, table by table). A later version is left alone, and a copy precedes what replaces.
* `ActionsStayKept`: a command under way knows what it has made: the row of its run, and for a
  load, every stage it is past has an action and its models (`CommandTrue`). All of this only
  grows if a deleted action counts as made (`ActionsGrown`), so no other command undoes it.
  `ActionsAssumption` wants at least one stage to load, as the list in `agency.go:74` has.

`RecordsProofs`, one invariant for each component, and then the three conjunctions a run checks:

* `MarksAreKept`: of the state store only types are needed (`StateTyped`), since get and prune
  ask the same of a row; a crossing is flagged before its event is written, by whichever
  checker comes first, and is in the log or on its way there unless that recording failed or died
  (`BudgetInv`); a sentinel's row is the last claim, and without a row that claim
  is absent or more than a week old (`SentinelInv`).
* `LedgersAreKept`: a sync of a lane whose snapshot is not stale has read the members there
  are (`LanesInv`); the attributions of a session are in the order of time (`WorkLogInv`).
* `AgentsAreTold`: a machine nobody was given is unused, and no report is later than
  the activity that is kept (`LifeInv`), with the registry read and written under different locks.
* `DiscoveriesStaySound`: a transaction whose snapshot is not stale has read the rows as they are
  (`Asked`), ids are given in turn, and the tier of a row is that of its score
  (`DiscoveryInv`).

Model-checked only, and why:

* `RolledBackWorkDropped`, `CommandsEnd`, `WaitReturns`, `JobsEnd` and `PushEnds`: liveness
  under fairness, which TLAPS does not reach.
* `OverlapExact` of `PathsExclusive` compares a recursion with the languages of patterns, an
  induction over sequences.
* `PortfolioMoves`: the order and the reachability of projects are computed by recursion, and its
  steps are told apart by ENABLED.
* `PathsExclusive` is proved in parts, without `OverlapExact`.

## 5. Not modelled

* The cascade of a portfolio's rollback, `children_at_phase`, metadata that does
  not decode, a patch that sets one field of a close gate to null, and what Advance calls
  afterwards (event callbacks, agents it spawns).
* A newer version that another machine publishes while a prune runs on this one (`PluginCache` has
  one publisher).
* Spawns of dispatches by the scheduler, supervision of workers, conflict records, the table of
  saved jobs.
* The approval record of a publish and the validation of plugin trees; manifests and
  signatures of authorizations: files whose content is trusted or refused.
* Once-only inserts of events by key, their envelopes and handlers; search and the
  interest profile of discoveries.
* Complexity tiers, cost tables and recorded decisions of routing; scoring, cost and
  replay reports, observation: read-only functions of rows.
* Handoff, redaction, contracts, flags: text in, text out.

## 6. Plan

Next, most important first:

1. The composition of `PortfolioRelay` with `RunLifecycle` (a child's completion is relayed and its
   parent advances) and of `Scheduler` with `DispatchContract` (a job's outcome is its dispatch's).
2. Once-only inserts of events by key, and the approval record of a publish.
3. Scoring and the runtime proof, as pure operators with reference definitions.
