------------------------------ MODULE Dispatch ------------------------------
(****************************************************************************)
(* Concurrent "ic" processes that spawn, watch, end, retry and prune        *)
(* dispatches, and the workers they start (internal/dispatch).  Admission,  *)
(* the recording of a process identity and the recording of an outcome are  *)
(* immediate transactions: one step each.  Everything between them --       *)
(* starting the worker, looking whether a PID is alive, signalling it --    *)
(* touches no database and is a step of its own, so that other processes,   *)
(* the worker and the host's PID allocation come in between. A PID names    *)
(* one process at a time; worker[i] is what dispatch i's names.             *)
(****************************************************************************)
EXTENDS DispatchRow, Sequences

CONSTANTS
    Procs,         \* the processes running commands
    Requests,      \* the spawns that may be asked for
    Commands,      \* which other commands are run
    TokenReports,  \* token totals a worker or a person may report
    HostEvents,    \* what the workers and the host may do
    Faults         \* what may go wrong

ASSUME DispatchAssumption ==
    /\ Requests \subseteq {req \in Request : ~req.retry /\ req.retries = 0}
    /\ Commands \subseteq {"poll", "wait", "kill", "retry", "prune", "tokens", "rollback"}
    /\ TokenReports \subseteq Nat
    /\ HostEvents \subseteq {"report", "exit", "reuse"}
    /\ Faults \subseteq {"crash", "error", "inspect"}

VARIABLES
    rows,       \* dispatches, each with whether its process identity is stored
    terminals,  \* dispatch_terminals
    issued,     \* history: the scope each id was admitted to, pruned or not
    worker,     \* worker[i]: the process that has the PID of dispatch i
    report,     \* report[i]: the verdict or receipt its worker has written
    pc, cmd,    \* where each process is, in which command, on which dispatch
    out         \* the outcome a process is about to record

vars == <<rows, terminals, issued, worker, report, pc, cmd, out>>
db == <<rows, terminals, issued>>
host == <<worker, report>>

NoCommand == [op |-> "none", id |-> NoParent]

Watches == {"poll", "wait", "kill", "timeout"}
Command == [op : {"spawn", "retry"} \cup Watches, id : Id]

Label == {"idle", "start", "identify", "reap", "begin", "look", "touch",
          "signal", "collect", "record", "admit"}

(* "stranger": the worker is gone and its PID is another process's;        *)
(* "harmed": that other process was signalled.                             *)
WorkerState == {"none", "alive", "exited", "stranger", "harmed"}

Created == 1 .. Len(issued)
NextId == Len(issued) + 1

Idle(p) == pc[p] = "idle"
At(p, label) == pc[p] = label
On(p) == cmd[p].id
Op(p) == cmd[p].op

Goto(p, label) == pc' = [pc EXCEPT ![p] = label]

Finish(p) ==
    /\ Goto(p, "idle")
    /\ cmd' = [cmd EXCEPT ![p] = NoCommand]
    /\ out' = [out EXCEPT ![p] = NoOutcome]

(* p goes on to record outcome o.                                          *)
Conclude(p, o) == Goto(p, "record") /\ out' = [out EXCEPT ![p] = o]

(* A spawner has the worker for an unreaped child: its PID is not reused.  *)
Spawning(i) == \E p \in Procs : Op(p) = "spawn" /\ On(p) = i

-----------------------------------------------------------------------------
(* Terminalize.                                                            *)

(* The columns written with an outcome: only a collection has usage.       *)
UsageOf(row, o) ==
    {row.tokens} \cup
      (IF o.source = "collect" /\ ~o.indeterminate THEN TokenReports ELSE {})

EndRow(row, o, tokens) ==
    [row EXCEPT !.status = o.status, !.quarantined = o.indeterminate, !.tokens = tokens]

(* Variant: the row is not looked at again before the write.               *)
MayTerminalize_Unchecked(i) == Present(rows[i])
MayTerminalize(i) == IsActive(rows[i])

Terminalize(i, o) ==
    /\ \E tokens \in UsageOf(rows[i], o) :
         rows' = [rows EXCEPT ![i] = EndRow(@, o, tokens)]
    /\ terminals' = [terminals EXCEPT ![i] = o]

Record(p) ==
    /\ At(p, "record") /\ MayTerminalize(On(p))
    /\ Terminalize(On(p), out[p])
    /\ Finish(p) /\ UNCHANGED <<issued, host>>

(* ErrAlreadyTerminal: the outcome recorded first stands; or ErrNotFound.  *)
RecordLost(p) ==
    /\ At(p, "record") /\ ~MayTerminalize(On(p))
    /\ Finish(p) /\ UNCHANGED <<db, host>>

(* The transaction fails; spawn ignores the error, the others return it.   *)
RecordFails(p) ==
    /\ "error" \in Faults /\ At(p, "record")
    /\ Finish(p) /\ UNCHANGED <<db, host>>

-----------------------------------------------------------------------------
(* ic dispatch spawn.                                                      *)

Admit(req) ==
    /\ rows' = [rows EXCEPT ![NextId] = NewRow(rows, req)]
    /\ issued' = Append(issued, AdmittedScope(rows, req))

(* A rejected request leaves no trace, so only admitted ones are steps.    *)
StartSpawn(p) ==
    /\ Idle(p) /\ NextId \in Id
    /\ \E req \in Requests : Admissible(rows, req) /\ Admit(req)
    /\ cmd' = [cmd EXCEPT ![p] = [op |-> "spawn", id |-> NextId]]
    /\ Goto(p, "start")
    /\ UNCHANGED <<terminals, host, out>>

StartWorker(p) ==
    /\ At(p, "start")
    /\ worker' = [worker EXCEPT ![On(p)] = "alive"]
    /\ Goto(p, "identify")
    /\ UNCHANGED <<db, report, cmd, out>>

(* The decision cannot be stored, the command not be built or not started. *)
SpawnFails(p) ==
    /\ "error" \in Faults /\ At(p, "start")
    /\ Conclude(p, SpawnFailed)
    /\ UNCHANGED <<db, host, cmd>>

Identifiable(i) == rows[i].status = "spawned"

(* recordProcessIdentity: identity, PID and status change together.        *)
RecordIdentity(p) ==
    /\ At(p, "identify") /\ Identifiable(On(p))
    /\ rows' = [rows EXCEPT ![On(p)].status = "running", ![On(p)].pid = TRUE]
    /\ Finish(p) /\ UNCHANGED <<terminals, issued, host>>

(* The row was ended meanwhile, the child gone before it could be          *)
(* inspected, or a statement fails.                                        *)
IdentityMissed(p) ==
    /\ At(p, "identify")
    /\ ~Identifiable(On(p)) \/ worker[On(p)] # "alive" \/ "error" \in Faults
    /\ Goto(p, "reap")
    /\ UNCHANGED <<db, host, cmd, out>>

Reap(p) ==
    /\ At(p, "reap")
    /\ worker' = [worker EXCEPT ![On(p)] = "exited"]
    /\ Conclude(p, Indeterminate("spawn")) /\ UNCHANGED <<db, report, cmd>>

-----------------------------------------------------------------------------
(* ic dispatch poll, wait and kill, and the end of a wait that timed out,  *)
(* which interrupts the dispatch as kill does.                             *)

Interrupting(p) == Op(p) \in {"kill", "timeout"}

EndStatus(p) == IF Op(p) = "kill" THEN "cancelled" ELSE "timeout"

(* A poll is over; a wait polls again until it times out.                  *)
PollAgain(p) ==
    \/ Op(p) = "poll" /\ Finish(p)
    \/ Op(p) = "wait" /\ Goto(p, "begin") /\ UNCHANGED <<cmd, out>>

StartWatch(p) ==
    /\ Idle(p)
    /\ \E op \in Commands \cap Watches, i \in Created :
         cmd' = [cmd EXCEPT ![p] = [op |-> op, id |-> i]]
    /\ Goto(p, "begin")
    /\ UNCHANGED <<db, host, out>>

ReadEnded(p) ==
    /\ At(p, "begin") /\ ~IsActive(rows[On(p)])
    /\ Finish(p) /\ UNCHANGED <<db, host>>

ReadPid(p) ==
    /\ At(p, "begin") /\ IsActive(rows[On(p)]) /\ rows[On(p)].pid
    /\ Goto(p, "look")
    /\ UNCHANGED <<db, host, cmd, out>>

(* Nothing to look at, nothing to signal.                                  *)
ReadNoPid(p) ==
    /\ At(p, "begin") /\ IsActive(rows[On(p)]) /\ ~rows[On(p)].pid
    /\ IF Interrupting(p)
       THEN Conclude(p, Interrupted(rows[On(p)], EndStatus(p))) /\ UNCHANGED cmd
       ELSE PollAgain(p)
    /\ UNCHANGED <<db, host>>

PidTaken(i) == worker[i] \in {"alive", "stranger", "harmed"}

(* Variant: a process that cannot be inspected counts as gone.             *)
SeemsDead_Uninspected(i) == worker[i] # "alive" \/ "inspect" \in Faults

(* The PID is free, or its process was born at another time.               *)
SeemsDead(i) == worker[i] # "alive"

LookDead(p) ==
    /\ At(p, "look") /\ SeemsDead(On(p))
    /\ Goto(p, "collect")
    /\ UNCHANGED <<db, host, cmd, out>>

LookAlive(p) ==
    /\ At(p, "look") /\ worker[On(p)] = "alive"
    /\ Goto(p, IF Interrupting(p) THEN "signal" ELSE "touch")
    /\ UNCHANGED <<db, host, cmd, out>>

(* The process at the PID cannot be inspected: a poll reports the row as   *)
(* it is, an interrupt records that it does not know.                      *)
LookUnsure(p) ==
    /\ "inspect" \in Faults /\ At(p, "look") /\ PidTaken(On(p))
    /\ IF Interrupting(p)
       THEN Conclude(p, Indeterminate("kill")) /\ UNCHANGED cmd
       ELSE PollAgain(p)
    /\ UNCHANGED <<db, host>>

(* The PID's process has the birth recorded for the dispatch.              *)
Recognised(i) == worker[i] = "alive"

SignalledState(i) == IF worker[i] = "alive" THEN "exited" ELSE "harmed"

(* terminateRecordedProcess looks again; a worker gone by now is fine.     *)
Signal(p) ==
    /\ At(p, "signal")
    /\ IF Recognised(On(p))
       THEN worker' = [worker EXCEPT ![On(p)] = SignalledState(On(p))]
       ELSE UNCHANGED worker
    /\ Conclude(p, Interrupted(rows[On(p)], EndStatus(p)))
    /\ UNCHANGED <<db, report, cmd>>

(* Ownership cannot be shown before the signal, or no longer after it.     *)
SignalRefused(p) ==
    /\ "inspect" \in Faults /\ At(p, "signal") /\ PidTaken(On(p))
    /\ \/ UNCHANGED worker
       \/ worker[On(p)] = "alive" /\ worker' = [worker EXCEPT ![On(p)] = "exited"]
    /\ Conclude(p, Indeterminate("kill"))
    /\ UNCHANGED <<db, report, cmd>>

(* Variant: a dispatch ended meanwhile is set running again.               *)
Touchable_Unchecked(i) == Present(rows[i])
Touchable(i) == IsActive(rows[i])

(* The worker's state file, if there is one, refreshes the row.            *)
Touch(p) ==
    /\ At(p, "touch")
    /\ \/ UNCHANGED rows
       \/ Touchable(On(p)) /\ rows' = [rows EXCEPT ![On(p)].status = "running"]
    /\ PollAgain(p)
    /\ UNCHANGED <<terminals, issued, host>>

(* Collect reads the row again, then what the worker left.                 *)
CollectRead(p) ==
    /\ At(p, "collect")
    /\ IF IsActive(rows[On(p)])
       THEN Conclude(p, Collected(rows[On(p)], report[On(p)])) /\ UNCHANGED cmd
       ELSE Finish(p)
    /\ UNCHANGED <<db, host>>

(* Variant: the timer is looked at only while the worker is inspected.     *)
Expire_WhileLooking(p) ==
    /\ Op(p) = "wait" /\ At(p, "look")
    /\ cmd' = [cmd EXCEPT ![p].op = "timeout"] /\ Goto(p, "begin")
    /\ out' = [out EXCEPT ![p] = NoOutcome]
    /\ UNCHANGED <<db, host>>

(* Variant: what the poll was about to record is not dropped.              *)
Expire_KeepsOutcome(p) ==
    /\ Op(p) = "wait"
    /\ cmd' = [cmd EXCEPT ![p].op = "timeout"] /\ Goto(p, "begin")
    /\ UNCHANGED <<db, host, out>>

(* The context of Wait ends: what it was at fails or is over, and it       *)
(* starts on the interrupt with a fresh read.                              *)
Expire(p) ==
    /\ Op(p) = "wait"
    /\ cmd' = [cmd EXCEPT ![p].op = "timeout"] /\ Goto(p, "begin")
    /\ out' = [out EXCEPT ![p] = NoOutcome]
    /\ UNCHANGED <<db, host>>

-----------------------------------------------------------------------------
(* ic dispatch retry: the failed attempt is read, then its repetition      *)
(* admitted.  The columns it copies never change.                          *)

StartRetry(p) ==
    /\ Idle(p) /\ "retry" \in Commands
    /\ \E i \in Created :
         /\ ShouldRetry(rows[i])
         /\ cmd' = [cmd EXCEPT ![p] = [op |-> "retry", id |-> i]]
    /\ Goto(p, "admit")
    /\ UNCHANGED <<db, host, out>>

Repeatable(i) ==
    Present(rows[i]) /\ Admissible(rows, RetryRequest(rows[i], i))

(* The new row has no process: starting one is left to the caller.         *)
AdmitRetry(p) ==
    /\ At(p, "admit") /\ NextId \in Id /\ Repeatable(On(p))
    /\ Admit(RetryRequest(rows[On(p)], On(p)))
    /\ Finish(p) /\ UNCHANGED <<terminals, host>>

RetryRejected(p) ==
    /\ At(p, "admit")
    /\ NextId \notin Id \/ ~Repeatable(On(p)) \/ "error" \in Faults
    /\ Finish(p) /\ UNCHANGED <<db, host>>

-----------------------------------------------------------------------------
(* Single transactions of other commands.                                  *)

(* CancelByRun, of a rollback: no worker is signalled.                     *)
CancelByRun ==
    /\ "rollback" \in Commands
    /\ \E r \in Runs :
         LET cancelled == Live(rows) \cap InScope(rows, r)
             o == Ended("cancelled", "cancel_by_run")
         IN  /\ rows' = [i \in Id |-> IF i \in cancelled
                                      THEN EndRow(rows[i], o, rows[i].tokens)
                                      ELSE rows[i]]
             /\ terminals' = [i \in Id |-> IF i \in cancelled THEN o ELSE terminals[i]]
    /\ UNCHANGED <<issued, host, pc, cmd, out>>

(* Everything that ended among the dispatches created up to some time.     *)
Prune ==
    /\ "prune" \in Commands
    /\ \E n \in Created :
         LET old == {i \in 1 .. n : ~IsActive(rows[i])}
         IN  /\ rows' = [i \in Id |-> IF i \in old THEN NoRow ELSE rows[i]]
             /\ terminals' = [i \in Id |-> IF i \in old THEN NoOutcome ELSE terminals[i]]
    /\ UNCHANGED <<issued, host, pc, cmd, out>>

(* ic dispatch tokens; what a flere worker is known to have used stands.   *)
ReportTokens ==
    /\ "tokens" \in Commands
    /\ \E i \in Created, n \in TokenReports :
         /\ Present(rows[i]) /\ ~(rows[i].agent = "flere" /\ IsTerminal(rows[i]))
         /\ rows' = [rows EXCEPT ![i].tokens = n]
    /\ UNCHANGED <<terminals, issued, host, pc, cmd, out>>

-----------------------------------------------------------------------------
(* The host.                                                               *)

WorkerReports ==
    /\ "report" \in HostEvents
    /\ \E i \in Created, r \in {"pass", "fail"} :
         /\ worker[i] = "alive" /\ report[i] = "none"
         /\ report' = [report EXCEPT ![i] = r]
    /\ UNCHANGED <<db, worker, pc, cmd, out>>

WorkerExits ==
    /\ "exit" \in HostEvents
    /\ \E i \in Created :
         /\ worker[i] = "alive"
         /\ worker' = [worker EXCEPT ![i] = "exited"]
    /\ UNCHANGED <<db, report, pc, cmd, out>>

PidReused ==
    /\ "reuse" \in HostEvents
    /\ \E i \in Created :
         /\ worker[i] = "exited" /\ ~Spawning(i)
         /\ worker' = [worker EXCEPT ![i] = "stranger"]
    /\ UNCHANGED <<db, report, pc, cmd, out>>

(* The process is killed; its worker, in a group of its own, lives on.     *)
Crash(p) ==
    /\ "crash" \in Faults /\ ~Idle(p)
    /\ Finish(p) /\ UNCHANGED <<db, host>>

-----------------------------------------------------------------------------
Init ==
    /\ rows = [i \in Id |-> NoRow]
    /\ terminals = [i \in Id |-> NoOutcome]
    /\ issued = <<>>
    /\ worker = [i \in Id |-> "none"]
    /\ report = [i \in Id |-> "none"]
    /\ pc = [p \in Procs |-> "idle"]
    /\ cmd = [p \in Procs |-> NoCommand]
    /\ out = [p \in Procs |-> NoOutcome]

(* The next step of a command that has started.                            *)
Step(p) ==
    \/ StartWorker(p) \/ SpawnFails(p)
    \/ RecordIdentity(p) \/ IdentityMissed(p) \/ Reap(p)
    \/ ReadEnded(p) \/ ReadPid(p) \/ ReadNoPid(p)
    \/ LookDead(p) \/ LookAlive(p) \/ LookUnsure(p)
    \/ Signal(p) \/ SignalRefused(p)
    \/ Touch(p) \/ CollectRead(p)
    \/ Record(p) \/ RecordLost(p) \/ RecordFails(p)
    \/ AdmitRetry(p) \/ RetryRejected(p)

Start(p) == StartSpawn(p) \/ StartWatch(p) \/ StartRetry(p)

Environment ==
    CancelByRun \/ Prune \/ ReportTokens \/ WorkerReports \/ WorkerExits \/ PidReused

Next ==
    \/ Environment
    \/ \E p \in Procs : Start(p) \/ Step(p) \/ Expire(p) \/ Crash(p)

Spec == Init /\ [][Next]_vars

(* A started command goes on, and the timer of a wait goes off.            *)
FairSpec == Spec /\ \A p \in Procs : WF_vars(Step(p)) /\ WF_vars(Expire(p))

-----------------------------------------------------------------------------
(* Properties.                                                             *)

DbTypeOK ==
    /\ rows \in [Id -> Row]
    /\ terminals \in [Id -> Outcome \cup {NoOutcome}]
    /\ issued \in Seq(Scope \cup {NoScope}) /\ Len(issued) <= MaxDispatches

HostTypeOK ==
    /\ worker \in [Id -> WorkerState]
    /\ report \in [Id -> {"none", "pass", "fail"}]

ControlTypeOK ==
    /\ pc \in [Procs -> Label]
    /\ cmd \in [Procs -> Command \cup {NoCommand}]
    /\ out \in [Procs -> Outcome \cup {NoOutcome}]
    /\ \A p \in Procs : Idle(p) <=> cmd[p] = NoCommand
    /\ \A p \in Procs : At(p, "record") <=> out[p] # NoOutcome

(* Every variable is of its kind, an idle process has no command left, and *)
(* one about to record knows what.                                         *)
TypeOK == DbTypeOK /\ HostTypeOK /\ ControlTypeOK

(* The row of a dispatch and its terminal record tell one story: a record  *)
(* exists exactly for a row that has ended, names its status, and the row  *)
(* is quarantined exactly when the record says the outcome is not known.   *)
(* They are written by terminalizeTx, UpdateStatus and Prune, in two       *)
(* tables without a foreign key.                                           *)
RecordAgrees ==
    \A i \in Id :
      IF IsTerminal(rows[i])
      THEN /\ terminals[i].status = rows[i].status
           /\ terminals[i].indeterminate = rows[i].quarantined
      ELSE terminals[i] = NoOutcome /\ ~rows[i].quarantined

(* A collected outcome is what the worker left when it was gone: no poll,  *)
(* wait or kill collects a worker that still runs, though it looks at the  *)
(* PID and reads the row and the report at different times, and a flere    *)
(* worker counts as completed only with a receipt that verifies.           *)
CollectedAfterExit ==
    \A i \in Id : terminals[i].source = "collect" =>
      /\ worker[i] \notin {"none", "alive"}
      /\ terminals[i] = Collected(rows[i], report[i])

(* No kill and no timeout signals a process that has taken the PID of a    *)
(* worker since gone.                                                      *)
StrangersUnharmed == \A i \in Id : worker[i] # "harmed"

(* While nothing is killed: a worker that runs for a dispatch still active *)
(* can be found and signalled by its row, or its spawner is on it.         *)
LiveWorkerGoverned ==
    \A i \in Id :
      worker[i] = "alive" /\ IsActive(rows[i]) => rows[i].pid \/ Spawning(i)

(* Whoever collects, kills or waits in whatever order: a result is taken    *)
(* from a worker that is gone, no process that merely has its number is     *)
(* signalled, and a live worker has a row that still answers for it.        *)
WorkersGoverned == CollectedAfterExit /\ StrangersUnharmed /\ LiveWorkerGoverned

(* A retry repeats an attempt known to have failed: not one quarantined,   *)
(* cancelled or completed, never a flere worker, and never more than       *)
(* MaxRetries times.                                                       *)
RetryOfFailure ==
    \A i \in Id : LET row == rows[i] IN
      row.retries > 0 =>
        /\ row.retries <= MaxRetries
        /\ LET original == rows[row.parent] IN
             Present(original) =>
               /\ original.status \in {"failed", "timeout"}
               /\ ~original.quarantined /\ original.agent # "flere"
               /\ row.retries = original.retries + 1
               /\ row.agent = original.agent /\ row.scope = original.scope

(* A dispatch belongs to the run of its parent, one level below it; a      *)
(* retry is on the level of what it repeats.                               *)
LineageSound ==
    \A i \in Id : LET row == rows[i] IN
      row.parent # NoParent =>
        /\ row.parent < i
        /\ LET parent == rows[row.parent] IN
             Present(parent) =>
               /\ parent.scope # NoScope => row.scope = parent.scope
               /\ row.depth = parent.depth + (IF row.retries > 0 THEN 0 ELSE 1)

(* A family keeps its order however its rows are retried, rolled back and  *)
(* pruned at once: children below their parents in one scope, and a retry  *)
(* only of what failed.                                                    *)
FamilySound == LineageSound /\ RetryOfFailure

(* However spawns and retries race, the stored limits hold: the dispatches *)
(* active in all, the ones kept of each run, and how deep they nest.       *)
WithinLimits ==
    /\ GlobalMax > 0 => Cardinality(Live(rows)) <= GlobalMax
    /\ \A r \in Runs :
         MaxAgents[r] > 0 => Cardinality(InScope(rows, r)) <= MaxAgents[r]
    /\ DepthMax > 0 => \A i \in Id : rows[i].depth <= DepthMax

(* What the rows show of each id.                                          *)
OutcomeOf(i) ==
    IF i \notin Created THEN "unused"
    ELSE IF ~Present(rows[i]) THEN "forgotten"
    ELSE IF IsActive(rows[i]) THEN "open"
    ELSE terminals[i].status

Contract == INSTANCE DispatchContract WITH outcome <- [i \in Id |-> OutcomeOf(i)]

(* Every dispatch ends once: of the spawner, polls, kills, timeouts and    *)
(* cancels that race to end it the first one wins, and the others change   *)
(* nothing.                                                                *)
OneOutcome == Contract!Spec

(* A wait with a timeout returns, whatever the worker, the other processes *)
(* and the host do.                                                        *)
WaitReturns == \A p \in Procs : Op(p) = "wait" ~> Idle(p)

(* The manual: "ic dispatch kill" is "SIGTERM then SIGKILL a dispatch" and *)
(* wait is "at --timeout, kill the worker": a worker recorded as killed is *)
(* not running, unless its own spawner is still to end it.                 *)
KillEndsWorker ==
    \A i \in Id :
      terminals[i].source = "kill" /\ ~terminals[i].indeterminate =>
        worker[i] # "alive" \/ Spawning(i)

=============================================================================
