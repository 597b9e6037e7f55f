------------------------------- MODULE RunTx -------------------------------
(***************************************************************************)
(* Concurrent "ic" processes working on one run through SQLite.            *)
(*                                                                         *)
(* Every command is a process of its own with its own connection.  The     *)
(* reads of a command and its writes are steps apart, so other commands    *)
(* commit between them.  Advance, rollback and override read and write in  *)
(* one deferred transaction: its reads see the snapshot of its first read, *)
(* and its first write fails with SQLITE_BUSY when another connection has  *)
(* committed since (internal/db/immediate.go).  Skip, cancel and set read  *)
(* outside any transaction.  The write and the commit of a transaction are *)
(* one step: nobody sees a state between them.                             *)
(***************************************************************************)
EXTENDS RunRecord, FiniteSets

CONSTANTS
    Procs,         \* the processes running commands
    Commands,      \* the commands they may run, as typed
    Faults,        \* subset of {"crash", "error", "busy"}: what may go wrong
    LiveReports,   \* values the "some dispatch is live" fact may take
    MaxTries,      \* metadataMergeAttempts
    MaxEvents,     \* bound on the phase events of the run
    MaxArtifacts   \* bound on the artifacts ever recorded

(* What may be typed: the arguments of the commands.                       *)
Typed == [op : {"advance"}, cfg : GateConfig]
           \cup [op : {"override", "cancel"}]
           \cup [op : {"rollback"}, to : Phase]
           \cup [op : {"skip"}, target : Phase]
           \cup [op : {"set"}, settings : Settings]

ASSUME TxAssumption ==
    /\ Commands \subseteq Typed
    /\ \A c \in Commands : c.op = "advance" => c.cfg \in Configs
    /\ Faults \subseteq {"crash", "error", "busy"}
    /\ LiveReports \subseteq BOOLEAN
    /\ MaxTries \in Nat \ {0} /\ MaxEvents \in Nat /\ MaxArtifacts \in Nat

VARIABLES
    db,      \* the database: the record of the run
    pc,      \* pc[p]: where process p is in its command
    cmd,     \* cmd[p]: the command p runs, with its arguments
    snap,    \* snap[p]: what p last read
    stale    \* the open transactions another process committed behind

vars == <<db, pc, cmd, snap, stale>>

NoCommand == [op |-> "none"]
NoRun == NewRun(FALSE, NoGate)

Transactional == {"advance", "rollback", "override"}

(* A deferred transaction of p has read and not yet written.               *)
Open(p) == pc[p] = "write" /\ cmd[p].op \in Transactional

Running(p, op) == cmd[p].op = op

At(p, op, label) == Running(p, op) /\ pc[p] = label

-----------------------------------------------------------------------------
(* Steps of any command.                                                   *)

Idle(p) == pc[p] = "idle"

Room == Len(db.log) + Cardinality({p \in Procs : ~Idle(p)}) < MaxEvents

Goto(p, label) == pc' = [pc EXCEPT ![p] = label]

Finish(p) ==
    /\ pc' = [pc EXCEPT ![p] = "idle"]
    /\ cmd' = [cmd EXCEPT ![p] = NoCommand]
    /\ snap' = [snap EXCEPT ![p] = NoRun]

(* p reads the run: its transaction, if it is in one, starts here.         *)
ReadRun(p, label) ==
    /\ snap' = [snap EXCEPT ![p] = db]
    /\ stale' = stale \ {p}
    /\ Goto(p, label)

(* Variant: the committer is counted among the stale.                       *)
Commit_OwnToo(by, d) == db' = d /\ stale' = {q \in Procs : Open(q)}

(* A commit makes every open transaction but the committer's own stale.    *)
Commit(by, d) ==
    /\ db' = d
    /\ stale' = {q \in Procs : Open(q)} \ by

(* Variants: the reads run outside the transaction and only the CAS on the *)
(* phase is left; and that is gone too.                                    *)
Fresh_CasOnly(p) == TRUE
MayWrite_Unchecked(p) == TRUE

(* A transaction may write when no other connection has committed since it *)
(* read; one that moves the phase also needs UPDATE ... WHERE phase = ? to *)
(* find the phase it read.  A pause and a block only insert an event.      *)
Fresh(p) == p \notin stale
SamePhase(p) == db.phase = snap[p].phase

MayWrite(p) == Fresh(p) /\ SamePhase(p)

(* SQLITE_BUSY or ErrStalePhase: the command gives up, nothing is written. *)
TxAbort(p) ==
    /\ Open(p) /\ ~MayWrite(p)
    /\ Finish(p) /\ stale' = stale \ {p}
    /\ UNCHANGED db

(* The process is killed, or a statement fails and the command returns.    *)
Crash(p) ==
    /\ "crash" \in Faults /\ ~Idle(p)
    /\ Finish(p) /\ stale' = stale \ {p}
    /\ UNCHANGED db

-----------------------------------------------------------------------------
(* ic run advance: the run is read once for its project and the exit rules *)
(* of its phase, then again inside the transaction that decides.           *)

StartAdvance(p) ==
    /\ Idle(p) /\ Room
    /\ \E c \in Commands :
         /\ c.op = "advance"
         /\ cmd' = [cmd EXCEPT ![p] =
                      [op |-> "advance", cfg |-> c.cfg, spec |-> SpecExit[db.phase]]]
    /\ Goto(p, "begin")
    /\ UNCHANGED <<db, snap, stale>>

AdvanceRead(p) ==
    /\ At(p, "advance", "begin")
    /\ MayAdvance(db)
    /\ ReadRun(p, "write")
    /\ UNCHANGED <<db, cmd>>

AdvanceRefused(p) ==
    /\ At(p, "advance", "begin")
    /\ ~MayAdvance(db)
    /\ Finish(p) /\ UNCHANGED <<db, stale>>

PauseCommit(p) ==
    /\ At(p, "advance", "write") /\ Fresh(p)
    /\ Pauses(snap[p], cmd[p].cfg)
    /\ Commit({p}, Paused(db, snap[p]))
    /\ Finish(p)

BlockCommit(p) ==
    /\ At(p, "advance", "write") /\ Fresh(p)
    /\ Blocks(snap[p], cmd[p].cfg, cmd[p].spec)
    /\ Commit({p}, BlockedAt(db, snap[p], cmd[p].cfg, cmd[p].spec))
    /\ Finish(p)

AdvanceCommit(p) ==
    /\ At(p, "advance", "write") /\ MayWrite(p)
    /\ Passes(snap[p], cmd[p].cfg, cmd[p].spec)
    /\ Commit({p}, Advanced(db, snap[p], cmd[p].cfg, cmd[p].spec))
    /\ Finish(p)

-----------------------------------------------------------------------------
(* ic gate override                                                        *)

StartOverride(p) ==
    /\ Idle(p) /\ Room
    /\ [op |-> "override"] \in Commands
    /\ MayAdvance(db)
    /\ cmd' = [cmd EXCEPT ![p] = [op |-> "override"]]
    /\ ReadRun(p, "write")
    /\ UNCHANGED db

OverrideRefusal(p) ==
    /\ At(p, "override", "write") /\ Fresh(p)
    /\ OverrideRefused(snap[p])
    /\ Commit({p}, OverrideBlocked(db, snap[p].phase))
    /\ Finish(p)

OverrideCommit(p) ==
    /\ At(p, "override", "write") /\ MayWrite(p)
    /\ ~OverrideRefused(snap[p])
    /\ Commit({p}, Overridden(db, snap[p].phase))
    /\ Finish(p)

-----------------------------------------------------------------------------
(* ic run rollback: a first read to validate the target, the transaction   *)
(* that rewinds, then three clean-up statements, each on its own.  One     *)
(* that fails is logged and the next runs all the same.                    *)

StartRollback(p) ==
    /\ Idle(p) /\ Room
    /\ \E c \in Commands : /\ c.op = "rollback" /\ c.to < db.phase
                          /\ cmd' = [cmd EXCEPT ![p] = c]
    /\ Goto(p, "begin")
    /\ UNCHANGED <<db, snap, stale>>

RollbackRead(p) ==
    /\ At(p, "rollback", "begin")
    /\ MayRollback(db, cmd[p].to)
    /\ ReadRun(p, "write")
    /\ UNCHANGED <<db, cmd>>

RollbackRefused(p) ==
    /\ At(p, "rollback", "begin")
    /\ ~MayRollback(db, cmd[p].to)
    /\ Finish(p) /\ UNCHANGED <<db, stale>>

RollbackCommit(p) ==
    /\ At(p, "rollback", "write") /\ MayWrite(p)
    /\ Commit({p}, RolledBack(db, snap[p].phase, cmd[p].to))
    /\ Goto(p, "markArtifacts")
    /\ UNCHANGED <<cmd, snap>>

(* A clean-up statement takes effect or fails.                             *)
Statement(d) ==
    \/ Commit({}, d)
    \/ "error" \in Faults /\ UNCHANGED <<db, stale>>

MarkArtifacts(p) ==
    /\ At(p, "rollback", "markArtifacts")
    /\ Statement(MarkArtifactsRolledBack(db, PhasesBetween(cmd[p].to, snap[p].phase)))
    /\ Goto(p, "cancelDispatches")
    /\ UNCHANGED <<cmd, snap>>

CancelDispatches(p) ==
    /\ At(p, "rollback", "cancelDispatches")
    /\ Statement(CancelByRun(db))
    /\ Goto(p, "failAgents")
    /\ UNCHANGED <<cmd, snap>>

FailAgents(p) ==
    /\ At(p, "rollback", "failAgents")
    /\ Statement(FailAgentsByRun(db))
    /\ Finish(p)

-----------------------------------------------------------------------------
(* ic run skip: validated on one read, recorded by a later statement.      *)

StartSkip(p) ==
    /\ Idle(p) /\ Room
    /\ \E c \in Commands : /\ c.op = "skip" /\ MaySkip(db, c.target)
                          /\ cmd' = [cmd EXCEPT ![p] = c]
    /\ ReadRun(p, "write")
    /\ UNCHANGED db

SkipWrite(p) ==
    /\ At(p, "skip", "write")
    /\ Commit({p}, SkipRecorded(db, snap[p].phase, cmd[p].target))
    /\ Finish(p)

(* ic run cancel: the status is checked on one read and written later      *)
(* without looking again; the event comes after it.                        *)

StartCancel(p) ==
    /\ Idle(p) /\ Room
    /\ [op |-> "cancel"] \in Commands
    /\ ~IsTerminalStatus(db.status)
    /\ cmd' = [cmd EXCEPT ![p] = [op |-> "cancel"]]
    /\ ReadRun(p, "write")
    /\ UNCHANGED db

CancelWrite(p) ==
    /\ At(p, "cancel", "write")
    /\ Commit({p}, Cancelled(db))
    /\ Goto(p, "event")
    /\ UNCHANGED <<cmd, snap>>

CancelEventWrite(p) ==
    /\ At(p, "cancel", "event")
    /\ Commit({p}, CancelRecorded(db, snap[p].phase))
    /\ Finish(p)

-----------------------------------------------------------------------------
(* ic run set: read, merge, then an UPDATE that only matches a row whose   *)
(* metadata, phase and status are as read; a miss, or a database locked    *)
(* by others ("busy"), starts over, MaxTries times in all.                 *)

StartSet(p) ==
    /\ Idle(p) /\ Room
    /\ \E c \in Commands :
         /\ c.op = "set" /\ MaySet(db, c.settings)
         /\ cmd' = [cmd EXCEPT ![p] =
                      [op |-> "set", settings |-> c.settings, tries |-> 1]]
    /\ ReadRun(p, "write")
    /\ UNCHANGED db

SetRead(p) ==
    /\ At(p, "set", "begin")
    /\ MaySet(db, cmd[p].settings)
    /\ ReadRun(p, "write")
    /\ UNCHANGED <<db, cmd>>

SetRefused(p) ==
    /\ At(p, "set", "begin")
    /\ ~MaySet(db, cmd[p].settings)
    /\ Finish(p) /\ UNCHANGED <<db, stale>>

SetWrite(p) ==
    /\ At(p, "set", "write")
    /\ SameConfiguration(db, snap[p])
    /\ Commit({p}, Set(db, snap[p], cmd[p].settings))
    /\ Finish(p)

SetMissed(p) == ~SameConfiguration(db, snap[p]) \/ "busy" \in Faults

(* Variant: the attempts are not counted.                                  *)
SetRetry_Uncounted(p) ==
    /\ At(p, "set", "write") /\ SetMissed(p)
    /\ Goto(p, "begin")
    /\ UNCHANGED <<db, cmd, snap, stale>>

SetRetry(p) ==
    /\ At(p, "set", "write") /\ SetMissed(p)
    /\ cmd[p].tries < MaxTries
    /\ cmd' = [cmd EXCEPT ![p].tries = @ + 1]
    /\ Goto(p, "begin")
    /\ UNCHANGED <<db, snap, stale>>

SetGivesUp(p) ==
    /\ At(p, "set", "write") /\ SetMissed(p)
    /\ cmd[p].tries >= MaxTries
    /\ Finish(p) /\ UNCHANGED <<db, stale>>

-----------------------------------------------------------------------------
(* Workers report through commands of one statement.                       *)

RecordArtifact ==
    /\ db.recorded < MaxArtifacts
    /\ \E ph \in Phase, kind \in ArtifactKinds : Commit({}, ArtifactAdded(db, ph, kind))
    /\ UNCHANGED <<pc, cmd, snap>>

TrackAgent ==
    /\ \E a \in Agents : \/ a \notin db.agents /\ Commit({}, AgentActive(db, a))
                         \/ a \in db.agents /\ Commit({}, AgentDone(db, a))
    /\ UNCHANGED <<pc, cmd, snap>>

(* A dispatch in scope is collected with a verdict, or pruned with it.     *)
ReturnVerdict ==
    /\ \E vs \in SUBSET Verdicts \ {db.verdicts} : Commit({}, VerdictsInScope(db, vs))
    /\ UNCHANGED <<pc, cmd, snap>>

ReportTokens ==
    /\ BudgetEnforce
    /\ Commit({}, TokensReported(db, ~db.over))
    /\ UNCHANGED <<pc, cmd, snap>>

RunDispatches ==
    /\ \E live \in LiveReports \ {db.live} : Commit({}, DispatchesLive(db, live))
    /\ UNCHANGED <<pc, cmd, snap>>

-----------------------------------------------------------------------------

Init ==
    /\ db \in InitialRuns
    /\ pc = [p \in Procs |-> "idle"]
    /\ cmd = [p \in Procs |-> NoCommand]
    /\ snap = [p \in Procs |-> NoRun]
    /\ stale = {}

Start(p) ==
    \/ StartAdvance(p) \/ StartOverride(p) \/ StartRollback(p)
    \/ StartSkip(p) \/ StartCancel(p) \/ StartSet(p)

(* What a process does once its command has started.                       *)
Step(p) ==
    \/ AdvanceRead(p) \/ AdvanceRefused(p)
    \/ PauseCommit(p) \/ BlockCommit(p) \/ AdvanceCommit(p)
    \/ OverrideRefusal(p) \/ OverrideCommit(p)
    \/ RollbackRead(p) \/ RollbackRefused(p) \/ RollbackCommit(p)
    \/ MarkArtifacts(p) \/ CancelDispatches(p) \/ FailAgents(p)
    \/ SkipWrite(p) \/ CancelWrite(p) \/ CancelEventWrite(p)
    \/ SetRead(p) \/ SetRefused(p) \/ SetWrite(p) \/ SetRetry(p) \/ SetGivesUp(p)
    \/ TxAbort(p)

Reports == RecordArtifact \/ TrackAgent \/ ReturnVerdict \/ ReportTokens \/ RunDispatches

Next ==
    \/ \E p \in Procs : Start(p) \/ Step(p) \/ Crash(p)
    \/ Reports

Spec == Init /\ [][Next]_vars

(* A started command goes on unless its process is killed: the operating   *)
(* system schedules it.  Nobody is obliged to start a command.             *)
FairSpec == Spec /\ \A p \in Procs : WF_vars(Step(p))

-----------------------------------------------------------------------------
(* Invariants.                                                             *)

Command ==
    {NoCommand}
      \cup [op : {"advance"}, cfg : Configs, spec : {SpecExit[q] : q \in Phase}]
      \cup [op : {"override", "cancel"}]
      \cup [op : {"rollback"}, to : Phase]
      \cup [op : {"skip"}, target : Phase]
      \cup [op : {"set"}, settings : Settings, tries : 1 .. MaxTries]

Cleaning == {"markArtifacts", "cancelDispatches", "failAgents"}

Label == {"idle", "begin", "write", "event"} \cup Cleaning

(* Types: the columns of the run, and the place of every process.          *)
TypeOK ==
    /\ db \in Run
    /\ pc \in [Procs -> Label]
    /\ cmd \in [Procs -> Command]
    /\ snap \in [Procs -> Run]
    /\ stale \subseteq {p \in Procs : Open(p)}

(* What a command checked on the run it read, it still knows of it when it *)
(* writes.                                                                 *)
Checked(p) ==
    /\ pc[p] = "write" /\ cmd[p].op \in {"advance", "override"} => MayAdvance(snap[p])
    /\ pc[p] \in {"write"} \cup Cleaning /\ Running(p, "rollback")
         => MayRollback(snap[p], cmd[p].to)
    /\ At(p, "skip", "write") => MaySkip(snap[p], cmd[p].target)
    /\ At(p, "set", "write") => MaySet(snap[p], cmd[p].settings)

(* A transaction that will be allowed to write sees the database as it is: *)
(* what a command decided on its snapshot is decided on the truth.         *)
SnapshotCurrent ==
    \A p \in Procs : (Open(p) /\ Fresh(p) => snap[p] = db) /\ Checked(p)

IsMove(e) == e.type \in {"advance", "override", "rollback"}

NoMoveBetween(log, i, j) == \A k \in i + 1 .. j - 1 : ~IsMove(log[k])

(* The audit trail tells where the run is: the moves in phase_events form  *)
(* one unbroken path from the first phase to the current one, whatever     *)
(* commands raced (UpdatePhaseQ and AddEventQ in one transaction).         *)
TrailUnbroken ==
    /\ \A i \in DOMAIN db.log :
         IsMove(db.log[i]) /\ NoMoveBetween(db.log, 0, i) => db.log[i].from = 1
    /\ \A i, j \in DOMAIN db.log :
         /\ i < j /\ IsMove(db.log[i]) /\ IsMove(db.log[j]) /\ NoMoveBetween(db.log, i, j)
         => db.log[j].from = db.log[i].to
    /\ \A i \in DOMAIN db.log :
         IsMove(db.log[i]) /\ NoMoveBetween(db.log, i, Len(db.log) + 1)
         => db.phase = db.log[i].to
    /\ NoMoveBetween(db.log, 0, Len(db.log) + 1) => db.phase = 1

(* A completed run is in its terminal phase, and a run in its terminal     *)
(* phase is no longer active: Advance and override set the status in the   *)
(* transaction that moves the phase.                                       *)
TerminalAgrees ==
    /\ db.status = "completed" => IsTerminal(db.phase)
    /\ IsTerminal(db.phase) => IsTerminalStatus(db.status)

-----------------------------------------------------------------------------
(* What a step may never do.                                               *)

(* A cancelled run stays cancelled where it was, and only a rollback takes *)
(* a completed run back: the CAS of UpdatePhaseQ looks at the phase alone, *)
(* so this rests on the transaction of Advance failing when a cancel       *)
(* committed behind it.                                                    *)
TerminalFrozen ==
    [][ /\ db.status = "cancelled" =>
             db'.status = "cancelled" /\ db'.phase = db.phase
        /\ db.status = "completed" /\ db'.phase # db.phase =>
             db'.status = "active" /\ db'.phase < db.phase ]_vars

Logs(type) == /\ Len(db'.log) = Len(db.log) + 1
              /\ db'.log[Len(db'.log)].type = type
NewEvent == db'.log[Len(db'.log)]

(* What the event of an advance claims is true of the database the advance *)
(* committed to: the run was active where the event says it was, every     *)
(* phase it jumped over had been skipped, a gate that "passed" has all its *)
(* conditions met at that very moment, and one that failed was not hard.   *)
NoBypass == [priority |-> 0, disable |-> FALSE, skipReason |-> FALSE]

AllMet(spec, from, to) ==
    \A r \in RulesFor(db, spec, from, to) : Met(db, NoBypass, r)

AdvanceJustified ==
    [][ Logs("advance") =>
          LET e == NewEvent IN
          /\ db.status = "active" /\ e.from = db.phase /\ e.to = db'.phase
          /\ \A q \in e.from + 1 .. e.to - 1 : q \in SkippedPhases(db)
          /\ e.to \in SkippedPhases(db) => IsTerminal(e.to)
          /\ e.result = "fail" => e.tier = "soft"
          /\ e.result = "pass" => \E q \in Phase : AllMet(SpecExit[q], e.from, e.to) ]_vars

(* A run whose close gate requires runtime evidence completes only with    *)
(* sealed expectations and a latest receipt that verifies, whatever the    *)
(* priority, --disable-gates, overrides, skips, or a "set" that activates  *)
(* the requirement while an advance is under way.                          *)
CloseGateHolds ==
    [][ db'.status = "completed" /\ db.status # "completed" /\ Required(db.closeGate)
          => Ready(db.closeGate) /\ Verified(db) ]_vars

(* No "set" lowers a close gate or rewrites what it has sealed, whatever   *)
(* its patch names and whichever others ran since it read: the refusal of  *)
(* MergeMetadata is computed on a read that the CAS verifies.              *)
CloseGateSealed ==
    [][ Required(db.closeGate) =>
          /\ Required(db'.closeGate) /\ db'.closeGate.bead = db.closeGate.bead
          /\ Ready(db.closeGate) => db'.closeGate.seal = db.closeGate.seal ]_vars

-----------------------------------------------------------------------------
(* The atomic specification, and what the fair processes achieve.          *)

Lifecycle == INSTANCE RunLifecycle

(* Concurrent commands come down to atomic ones: each commit is a step of  *)
(* RunLifecycle on the database as it is, never on the one a snapshot saw. *)
RunIsAtomic == Lifecycle!Spec

(* After a rollback commits, unless its process is killed or a statement   *)
(* fails: every artifact active in a rolled-back phase is marked, and at   *)
(* some moment no dispatch is live and no agent active.                    *)
RolledBackWorkDropped ==
    \A p \in Procs :
      /\ \A i \in 1 .. MaxArtifacts :
           (/\ At(p, "rollback", "markArtifacts")
            /\ \E a \in db.artifacts : a.id = i /\ cmd[p].to < a.phase /\ a.phase <= snap[p].phase)
           ~> (\A a \in db.artifacts : a.id # i)
      /\ At(p, "rollback", "markArtifacts") ~> ~db.live
      /\ At(p, "rollback", "markArtifacts") ~> db.agents = {}

(* Every command that started comes to an end, however many others commit  *)
(* between its reads and its writes.                                       *)
CommandsEnd == \A p \in Procs : ~Idle(p) ~> Idle(p)

-----------------------------------------------------------------------------
(* Statements of the documentation that the code does not keep.            *)

(* run_lifecycle.go:652: the clean-up of a rollback is "all in one         *)
(* transaction to prevent partial state on SIGKILL between steps": the     *)
(* step that marks artifacts also cancels dispatches and fails agents.     *)
CleanupAtomic ==
    [][ db'.artifacts \subseteq db.artifacts /\ db'.artifacts # db.artifacts
          => ~db'.live /\ db'.agents = {} ]_vars

(* store.go:694: the phase SkipPhase marks "must be ahead of the current   *)
(* phase".                                                                 *)
SkipIsAhead == [][ Logs("skip") => NewEvent.to > db.phase ]_vars

=============================================================================
