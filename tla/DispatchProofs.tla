--------------------------- MODULE DispatchProofs ---------------------------
(***************************************************************************)
(* Proofs about Dispatch, for every number of processes, dispatches, runs  *)
(* and limits: the types, that rows and terminal records agree, that every *)
(* dispatch ends once, and that the stored limits hold.                    *)
(***************************************************************************)
EXTENDS Dispatch, FiniteSetTheorems, TLAPS

(* Ids are issued in order: those to come have no row.                     *)
UnissuedAbsent == \A i \in Id : i \notin Created => rows[i] = NoRow

Inv == TypeOK /\ RecordAgrees /\ UnissuedAbsent

-----------------------------------------------------------------------------
(* What the operators return.                                              *)

LEMMA NoRowType == NoRow \in Row
  BY DEF NoRow, Row, Agent, Scope, NoParent

LEMMA NoOutcomeIsNone == NoOutcome \notin Outcome
  BY DEF NoOutcome, Outcome, TerminalStatus

LEMMA NextIdType ==
    ASSUME DbTypeOK
    PROVE  /\ NextId \in Nat /\ NextId \notin Created
           /\ Created \subseteq Id
           /\ \A i \in Id : i \in Created <=> i <= Len(issued)
  BY RowAssumption DEF DbTypeOK, NextId, Created, Id

LEMMA NewRowType ==
    ASSUME NEW table \in [Id -> Row], NEW req \in Request
    PROVE  /\ AdmittedScope(table, req) \in Scope \cup {NoScope}
           /\ AdmittedDepth(table, req) \in Nat
           /\ NewRow(table, req) \in Row
<1>1. /\ req.agent \in Agent /\ req.scope \in Scope \cup {NoScope}
      /\ req.parent \in Id \cup {NoParent} /\ req.retries \in Nat
      /\ req.retry \in BOOLEAN
  BY DEF Request
<1>2. req.parent # NoParent =>
        table[req.parent].scope \in Scope \cup {NoScope} /\ table[req.parent].depth \in Nat
  BY <1>1 DEF Row
<1>3. AdmittedScope(table, req) \in Scope \cup {NoScope}
  BY <1>1, <1>2 DEF AdmittedScope
<1>4. AdmittedDepth(table, req) \in Nat
  <2>1. CASE req.parent = NoParent
    BY <2>1 DEF AdmittedDepth
  <2>2. CASE req.parent # NoParent /\ req.retry
    BY <1>2, <2>2 DEF AdmittedDepth
  <2>3. CASE req.parent # NoParent /\ ~req.retry
    BY <1>2, <2>3 DEF AdmittedDepth
  <2> QED
    BY <2>1, <2>2, <2>3
<1>5. NewRow(table, req) \in Row
  BY <1>1, <1>3, <1>4 DEF NewRow, Row, ActiveStatus
<1> QED
  BY <1>3, <1>4, <1>5

LEMMA RetryRequestType ==
    ASSUME NEW row \in Row, NEW i \in Id
    PROVE  RetryRequest(row, i) \in Request
<1>1. NoPolicy \in Policy
  BY DEF NoPolicy, Policy
<1>2. row.agent \in Agent /\ row.scope \in Scope \cup {NoScope} /\ row.retries \in Nat
  BY DEF Row
<1> QED
  BY <1>1, <1>2 DEF RetryRequest, Request

LEMMA EndRowType ==
    ASSUME NEW row \in Row, NEW o \in Outcome, NEW tokens \in Nat
    PROVE  /\ EndRow(row, o, tokens) \in Row
           /\ EndRow(row, o, tokens).status = o.status
           /\ EndRow(row, o, tokens).quarantined = o.indeterminate
           /\ EndRow(row, o, tokens).scope = row.scope
           /\ EndRow(row, o, tokens).depth = row.depth
           /\ o.status \in TerminalStatus
  BY DEF EndRow, Row, Outcome

LEMMA EndedType ==
    ASSUME NEW status \in TerminalStatus,
           NEW source \in {"spawn", "collect", "kill", "cancel_by_run"}
    PROVE  Ended(status, source) \in Outcome /\ Indeterminate(source) \in Outcome
  BY DEF Ended, Indeterminate, Outcome, TerminalStatus

LEMMA CollectedType ==
    ASSUME NEW row \in Row, NEW r \in {"none", "pass", "fail"}
    PROVE  Collected(row, r) \in Outcome
<1>1. \A status \in {"completed", "failed"}, verified \in BOOLEAN :
        [Ended(status, "collect") EXCEPT !.verified = verified] \in Outcome
  BY DEF Ended, Outcome, TerminalStatus
<1>2. Indeterminate("collect") \in Outcome
  BY DEF Indeterminate, Outcome, TerminalStatus
<1>3. (row.agent = "flere") \in BOOLEAN
  OBVIOUS
<1> QED
  BY <1>1, <1>2, <1>3 DEF Collected

LEMMA InterruptedType ==
    ASSUME NEW row, NEW status \in TerminalStatus
    PROVE  Interrupted(row, status) \in Outcome
  BY EndedType DEF Interrupted

-----------------------------------------------------------------------------
(* The shapes a step may have on the database.                             *)

(* A first attempt, or the repetition a process has found to be due.       *)
Asked(req) ==
    \/ ~req.retry /\ req.retries = 0
    \/ \E p \in Procs : /\ At(p, "admit") /\ On(p) \in Id
                        /\ req = RetryRequest(rows[On(p)], On(p))

Admits ==
    /\ UNCHANGED terminals
    /\ NextId \in Id
    /\ \E req \in Request : Asked(req) /\ Admissible(rows, req) /\ Admit(req)

(* The outcome is one that a process has concluded.                        *)
Ends ==
    /\ UNCHANGED issued
    /\ \E i \in Id, o \in Outcome :
         /\ IsActive(rows[i]) /\ Terminalize(i, o)
         /\ \E p \in Procs : At(p, "record") /\ On(p) = i /\ out[p] = o

(* A row is told more of, and stays active or as it ended.                 *)
Refreshed(old, new) ==
    /\ Present(old)
    /\ new.status = old.status \/ (IsActive(old) /\ IsActive(new))
    /\ new.quarantined = old.quarantined
    /\ new.scope = old.scope /\ new.depth = old.depth
    /\ new.agent = old.agent /\ new.parent = old.parent /\ new.retries = old.retries
    /\ old.pid => new.pid

Refreshes ==
    /\ UNCHANGED <<terminals, issued>>
    /\ \E i \in Id, new \in Row :
         /\ Refreshed(rows[i], new) /\ rows' = [rows EXCEPT ![i] = new]
         /\ new.pid => rows[i].pid \/ \E p \in Procs : At(p, "identify") /\ On(p) = i

Cancels ==
    /\ UNCHANGED issued
    /\ \E r \in Runs :
         LET cancelled == Live(rows) \cap InScope(rows, r)
             o == Ended("cancelled", "cancel_by_run")
         IN  /\ rows' = [i \in Id |-> IF i \in cancelled
                                      THEN EndRow(rows[i], o, rows[i].tokens)
                                      ELSE rows[i]]
             /\ terminals' = [i \in Id |-> IF i \in cancelled THEN o ELSE terminals[i]]

Prunes ==
    /\ UNCHANGED issued
    /\ \E old \in SUBSET Created :
         /\ \A i \in old : ~IsActive(rows[i])
         /\ rows' = [i \in Id |-> IF i \in old THEN NoRow ELSE rows[i]]
         /\ terminals' = [i \in Id |-> IF i \in old THEN NoOutcome ELSE terminals[i]]

DbStep == Admits \/ Ends \/ Refreshes \/ Cancels \/ Prunes \/ UNCHANGED db

(* The dispatch a running command is on.                                   *)
LEMMA OnType ==
    ASSUME ControlTypeOK, NEW p \in Procs, ~Idle(p)
    PROVE  On(p) \in Id
  BY DEF ControlTypeOK, Command, On

LEMMA UsageType ==
    ASSUME NEW row \in Row, NEW o, NEW tokens \in UsageOf(row, o)
    PROVE  tokens \in Nat
  BY DispatchAssumption DEF UsageOf, Row

(* Every step is of one of these shapes.                                   *)
LEMMA StepOnDb ==
    ASSUME TypeOK, UnissuedAbsent, [Next]_vars
    PROVE  DbStep
<1> USE DEF TypeOK
<1>1. ASSUME NEW p \in Procs, StartSpawn(p)
      PROVE  Admits
  <2>1. \A req \in Requests : req \in Request /\ Asked(req)
    BY DispatchAssumption DEF Asked
  <2> QED
    BY <1>1, <2>1 DEF StartSpawn, Admits, Admit
<1>2. ASSUME NEW p \in Procs, AdmitRetry(p)
      PROVE  Admits
  <2>1. On(p) \in Id
    BY <1>2, OnType DEF AdmitRetry, At, Idle
  <2>2. RetryRequest(rows[On(p)], On(p)) \in Request
    BY <2>1, RetryRequestType DEF DbTypeOK
  <2>3. Asked(RetryRequest(rows[On(p)], On(p)))
    BY <1>2, <2>1 DEF AdmitRetry, Asked
  <2> QED
    BY <1>2, <2>2, <2>3 DEF AdmitRetry, Repeatable, Admits, Admit
<1>3. ASSUME NEW p \in Procs, Record(p)
      PROVE  Ends
  <2>1. On(p) \in Id
    BY <1>3, OnType DEF Record, At, Idle
  <2>2. out[p] \in Outcome
    BY <1>3 DEF Record, ControlTypeOK
  <2> QED
    BY <1>3, <2>1, <2>2 DEF Record, MayTerminalize, Ends
<1>4. ASSUME NEW p \in Procs, RecordIdentity(p)
      PROVE  Refreshes
  <2>1. On(p) \in Id
    BY <1>4, OnType DEF RecordIdentity, At, Idle
  <2> DEFINE new == [rows[On(p)] EXCEPT !.status = "running", !.pid = TRUE]
  <2>2. rows[On(p)] \in Row /\ rows[On(p)].status = "spawned"
    BY <1>4, <2>1 DEF RecordIdentity, Identifiable, DbTypeOK
  <2>3. new \in Row /\ Refreshed(rows[On(p)], new)
    BY <2>2 DEF Row, ActiveStatus, Refreshed, Present, IsActive
  <2>4. rows' = [rows EXCEPT ![On(p)] = new]
    BY <1>4, <2>1 DEF RecordIdentity, DbTypeOK
  <2>5. At(p, "identify")
    BY <1>4 DEF RecordIdentity
  <2> HIDE DEF new
  <2> QED
    BY <1>4, <2>1, <2>3, <2>4, <2>5 DEF RecordIdentity, Refreshes
<1>5. ASSUME NEW p \in Procs, Touch(p)
      PROVE  Refreshes \/ UNCHANGED db
  <2>1. On(p) \in Id
    BY <1>5, OnType DEF Touch, At, Idle
  <2>2. CASE UNCHANGED rows
    BY <1>5, <2>2 DEF Touch, db
  <2>3. CASE Touchable(On(p)) /\ rows' = [rows EXCEPT ![On(p)].status = "running"]
    <3> DEFINE new == [rows[On(p)] EXCEPT !.status = "running"]
    <3>1. rows[On(p)] \in Row /\ IsActive(rows[On(p)])
      BY <2>1, <2>3 DEF Touchable, DbTypeOK
    <3>2. new \in Row /\ Refreshed(rows[On(p)], new) /\ new.pid = rows[On(p)].pid
      BY <3>1 DEF Row, ActiveStatus, Refreshed, Present, IsActive
    <3>3. rows' = [rows EXCEPT ![On(p)] = new]
      BY <2>1, <2>3 DEF DbTypeOK
    <3> HIDE DEF new
    <3> QED
      BY <1>5, <2>1, <3>2, <3>3 DEF Touch, Refreshes
  <2> QED
    BY <1>5, <2>2, <2>3 DEF Touch
<1>6. ASSUME ReportTokens
      PROVE  Refreshes
  <2>1. PICK i \in Created, n \in TokenReports :
          Present(rows[i]) /\ rows' = [rows EXCEPT ![i].tokens = n]
    BY <1>6 DEF ReportTokens
  <2>2. i \in Id /\ n \in Nat /\ rows[i] \in Row
    BY <2>1, NextIdType, DispatchAssumption DEF DbTypeOK
  <2> DEFINE new == [rows[i] EXCEPT !.tokens = n]
  <2>3. new \in Row /\ Refreshed(rows[i], new) /\ new.pid = rows[i].pid
    <3>1. new \in Row
      BY <2>2 DEF Row
    <3>2. /\ new.status = rows[i].status /\ new.quarantined = rows[i].quarantined
          /\ new.scope = rows[i].scope /\ new.depth = rows[i].depth
          /\ new.agent = rows[i].agent /\ new.parent = rows[i].parent
          /\ new.retries = rows[i].retries /\ new.pid = rows[i].pid
      BY <2>2 DEF Row
    <3> QED
      BY <2>1, <3>1, <3>2 DEF Refreshed
  <2>4. rows' = [rows EXCEPT ![i] = new]
    BY <2>1, <2>2 DEF DbTypeOK
  <2> HIDE DEF new
  <2> QED
    BY <1>6, <2>2, <2>3, <2>4 DEF ReportTokens, Refreshes
<1>7. ASSUME CancelByRun
      PROVE  Cancels
  BY <1>7 DEF CancelByRun, Cancels
<1>8. ASSUME Prune
      PROVE  Prunes
  <2>1. PICK n \in Created :
          LET old == {i \in 1 .. n : ~IsActive(rows[i])}
          IN  /\ rows' = [i \in Id |-> IF i \in old THEN NoRow ELSE rows[i]]
              /\ terminals' = [i \in Id |-> IF i \in old THEN NoOutcome ELSE terminals[i]]
    BY <1>8 DEF Prune
  <2>2. {i \in 1 .. n : ~IsActive(rows[i])} \in SUBSET Created
    BY <2>1, NextIdType DEF Created, DbTypeOK
  <2> QED
    BY <1>8, <2>1, <2>2 DEF Prune, Prunes
<1>9. ASSUME NEW p \in Procs, Step(p) \/ Start(p),
             ~(Record(p) \/ RecordIdentity(p) \/ Touch(p) \/ AdmitRetry(p) \/ StartSpawn(p))
      PROVE  UNCHANGED db
  BY <1>9 DEF Step, Start, StartWorker, SpawnFails, IdentityMissed, Reap, ReadEnded,
     ReadPid, ReadNoPid, LookDead, LookAlive, LookUnsure, Signal, SignalRefused,
     CollectRead, RecordLost, RecordFails, RetryRejected, StartWatch, StartRetry
<1>10. ASSUME NEW p \in Procs, Expire(p) \/ Crash(p)
       PROVE  UNCHANGED db
  BY <1>10 DEF Expire, Crash
<1>11. ASSUME WorkerReports \/ WorkerExits \/ PidReused
       PROVE  UNCHANGED db
  BY <1>11 DEF WorkerReports, WorkerExits, PidReused
<1>12. ASSUME UNCHANGED vars
       PROVE  UNCHANGED db
  BY <1>12 DEF vars, db
<1> QED
  BY <1>1, <1>2, <1>3, <1>4, <1>5, <1>6, <1>7, <1>8, <1>9, <1>10, <1>11, <1>12
     DEF Next, Environment, DbStep

-----------------------------------------------------------------------------
(* What a step does to where the processes are.                            *)

LEMMA FinishControl ==
    ASSUME ControlTypeOK, NEW p \in Procs, Finish(p)
    PROVE  ControlTypeOK'
  BY NoOutcomeIsNone DEF ControlTypeOK, Finish, Goto, Idle, At, Label

LEMMA NoCommandIsNone == NoCommand \notin Command
  BY DEF NoCommand, Command, Watches

LEMMA GotoControl ==
    ASSUME ControlTypeOK, NEW p \in Procs, ~Idle(p), ~At(p, "record"),
           NEW label \in Label \ {"idle", "record"}, Goto(p, label), UNCHANGED <<cmd, out>>
    PROVE  ControlTypeOK'
  BY DEF ControlTypeOK, Goto, Idle, At

LEMMA ConcludeControl ==
    ASSUME ControlTypeOK, NEW p \in Procs, ~Idle(p), NEW o \in Outcome,
           Conclude(p, o), UNCHANGED cmd
    PROVE  ControlTypeOK'
  BY NoOutcomeIsNone DEF ControlTypeOK, Conclude, Goto, Idle, At, Label

LEMMA StartControl ==
    ASSUME ControlTypeOK, NEW p \in Procs, NEW c \in Command, ~At(p, "record"),
           NEW label \in Label \ {"idle", "record"}, Goto(p, label),
           cmd' = [cmd EXCEPT ![p] = c], UNCHANGED out
    PROVE  ControlTypeOK'
  BY NoCommandIsNone DEF ControlTypeOK, Goto, Idle, At

LEMMA ExpireControl ==
    ASSUME ControlTypeOK, NEW p \in Procs, Expire(p)
    PROVE  ControlTypeOK'
<1>1. cmd[p] # NoCommand /\ cmd[p] \in Command
  BY DEF ControlTypeOK, Expire, Op, NoCommand
<1>2. [cmd[p] EXCEPT !.op = "timeout"] \in Command
  BY <1>1 DEF Command, Watches
<1>3. cmd' = [cmd EXCEPT ![p] = [cmd[p] EXCEPT !.op = "timeout"]]
  BY DEF Expire, ControlTypeOK
<1> QED
  BY <1>2, <1>3, NoCommandIsNone, NoOutcomeIsNone
     DEF Expire, ControlTypeOK, Goto, Idle, At, Label

LEMMA StepOnControl ==
    ASSUME TypeOK, [Next]_vars
    PROVE  ControlTypeOK'
<1> USE DEF TypeOK
<1>1. ASSUME NEW p \in Procs, Step(p)
      PROVE  ControlTypeOK'
  <2>1. ~Idle(p)
    BY <1>1 DEF Step, Idle, At, StartWorker, SpawnFails, RecordIdentity, IdentityMissed,
       Reap, ReadEnded, ReadPid, ReadNoPid, LookDead, LookAlive, LookUnsure, Signal,
       SignalRefused, Touch, CollectRead, Record, RecordLost, RecordFails, AdmitRetry,
       RetryRejected
  <2>2. On(p) \in Id /\ rows[On(p)] \in Row /\ report[On(p)] \in {"none", "pass", "fail"}
    BY <2>1, OnType DEF DbTypeOK, HostTypeOK
  <2> DEFINE Moves == /\ ~At(p, "record")
                      /\ UNCHANGED <<cmd, out>>
                      /\ \E label \in Label \ {"idle", "record"} : Goto(p, label)
             Concludes == UNCHANGED cmd /\ \E o \in Outcome : Conclude(p, o)
  <2>3. CASE Finish(p)
    BY <2>3, FinishControl
  <2>4. CASE Moves
    BY <2>1, <2>4, GotoControl
  <2>5. CASE Concludes
    BY <2>1, <2>5, ConcludeControl
  <2>6. StartWorker(p) => Moves
    BY DEF StartWorker, At, Label
  <2>7. SpawnFails(p) => Concludes
    BY EndedType DEF SpawnFails, SpawnFailed, TerminalStatus
  <2>8. RecordIdentity(p) => Finish(p)
    BY DEF RecordIdentity
  <2>9. IdentityMissed(p) => Moves
    BY DEF IdentityMissed, At, Label
  <2>10. Reap(p) => Concludes
    BY EndedType DEF Reap, TerminalStatus
  <2>11. EndStatus(p) \in TerminalStatus
    BY DEF EndStatus, TerminalStatus
  <2>12. \A status \in TerminalStatus : Interrupted(rows[On(p)], status) \in Outcome
    BY InterruptedType
  <2>13. Collected(rows[On(p)], report[On(p)]) \in Outcome
    BY <2>2, CollectedType
  <2>14. Indeterminate("kill") \in Outcome
    BY EndedType DEF TerminalStatus
  <2>15. PollAgain(p) /\ ~At(p, "record") => Finish(p) \/ Moves
    BY DEF PollAgain, Label
  <2>16. ReadEnded(p) \/ ReadPid(p) \/ ReadNoPid(p) => Finish(p) \/ Moves \/ Concludes
    BY <2>11, <2>12, <2>15 DEF ReadEnded, ReadPid, ReadNoPid, At, Label
  <2>17. LookDead(p) \/ LookAlive(p) \/ LookUnsure(p) => Finish(p) \/ Moves \/ Concludes
    BY <2>14, <2>15 DEF LookDead, LookAlive, LookUnsure, At, Label
  <2>18. Signal(p) \/ SignalRefused(p) => Concludes
    BY <2>11, <2>12, <2>14 DEF Signal, SignalRefused
  <2>19. Touch(p) => Finish(p) \/ Moves
    BY <2>15 DEF Touch, At
  <2>20. CollectRead(p) => Finish(p) \/ Concludes
    BY <2>13 DEF CollectRead
  <2>21. Record(p) \/ RecordLost(p) \/ RecordFails(p) \/ AdmitRetry(p) \/ RetryRejected(p)
           => Finish(p)
    BY DEF Record, RecordLost, RecordFails, AdmitRetry, RetryRejected
  <2> QED
    BY <1>1, <2>3, <2>4, <2>5, <2>6, <2>7, <2>8, <2>9, <2>10, <2>16, <2>17, <2>18, <2>19,
       <2>20, <2>21 DEF Step
<1>2. ASSUME NEW p \in Procs, Start(p)
      PROVE  ControlTypeOK'
  <2>1. ~At(p, "record")
    BY <1>2 DEF Start, StartSpawn, StartWatch, StartRetry, Idle, At
  <2>2. /\ UNCHANGED out
        /\ \E label \in Label \ {"idle", "record"} : Goto(p, label)
    BY <1>2 DEF Start, StartSpawn, StartWatch, StartRetry, Label
  <2>3. \E c \in Command : cmd' = [cmd EXCEPT ![p] = c]
    BY <1>2, NextIdType DEF Start, StartSpawn, StartWatch, StartRetry, Command, Watches
  <2> QED
    BY <2>1, <2>2, <2>3, StartControl
<1>3. ASSUME NEW p \in Procs, Crash(p)
      PROVE  ControlTypeOK'
  BY <1>3, FinishControl DEF Crash
<1>4. CASE UNCHANGED <<pc, cmd, out>>
  BY <1>4 DEF ControlTypeOK, Idle, At
<1>5. Environment \/ UNCHANGED vars => UNCHANGED <<pc, cmd, out>>
  BY DEF Environment, CancelByRun, Prune, ReportTokens, WorkerReports, WorkerExits,
     PidReused, vars
<1> QED
  BY <1>1, <1>2, <1>3, <1>4, <1>5, ExpireControl DEF Next

LEMMA StepOnHost ==
    ASSUME HostTypeOK, [Next]_vars
    PROVE  HostTypeOK'
<1>1. /\ worker' = worker \/ \E i, w : w \in WorkerState /\ worker' = [worker EXCEPT ![i] = w]
      /\ report' = report \/ \E i, r : r \in {"pass", "fail"} /\ report' = [report EXCEPT ![i] = r]
  <2>1. ASSUME NEW p \in Procs, Step(p)
        PROVE  /\ report' = report
               /\ worker' = worker \/ \E i, w : w \in WorkerState /\ worker' = [worker EXCEPT ![i] = w]
    BY <2>1 DEF Step, StartWorker, SpawnFails, RecordIdentity, IdentityMissed,
       Reap, ReadEnded, ReadPid, ReadNoPid, LookDead, LookAlive, LookUnsure, Signal,
       SignalRefused, SignalledState, Touch, CollectRead, Record, RecordLost, RecordFails,
       AdmitRetry, RetryRejected, host, WorkerState
  <2>2. ASSUME NEW p \in Procs, Start(p) \/ Expire(p) \/ Crash(p)
        PROVE  UNCHANGED host
    BY <2>2 DEF Start, StartSpawn, StartWatch, StartRetry, Expire, Crash
  <2>3. CancelByRun \/ Prune \/ ReportTokens \/ UNCHANGED vars => UNCHANGED host
    BY DEF CancelByRun, Prune, ReportTokens, vars, host
  <2>4. CASE WorkerReports \/ WorkerExits \/ PidReused
    BY <2>4 DEF WorkerReports, WorkerExits, PidReused, WorkerState
  <2> QED
    BY <2>1, <2>2, <2>3, <2>4 DEF Next, Environment, host
<1> QED
  BY <1>1 DEF HostTypeOK

-----------------------------------------------------------------------------
(* What a step does to the database.                                       *)

LEMMA AdmitsOnDb ==
    ASSUME DbTypeOK, RecordAgrees, UnissuedAbsent, Admits
    PROVE  (DbTypeOK /\ RecordAgrees /\ UnissuedAbsent)'
<1>1. PICK req \in Request : Admissible(rows, req) /\ Admit(req)
  BY DEF Admits
<1>2. NewRow(rows, req) \in Row /\ AdmittedScope(rows, req) \in Scope \cup {NoScope}
  BY NewRowType DEF DbTypeOK
<1>3. /\ rows' = [rows EXCEPT ![NextId] = NewRow(rows, req)]
      /\ issued' = Append(issued, AdmittedScope(rows, req))
      /\ terminals' = terminals /\ NextId \in Id
  BY <1>1 DEF Admit, Admits
<1>4. NewRow(rows, req).status = "spawned" /\ NewRow(rows, req).quarantined = FALSE
  BY DEF NewRow
<1>5. DbTypeOK'
  <2>1. issued' \in Seq(Scope \cup {NoScope}) /\ Len(issued') = NextId
    BY <1>2, <1>3 DEF DbTypeOK, NextId
  <2>2. NextId <= MaxDispatches
    BY <1>3, RowAssumption DEF Id
  <2> QED
    BY <1>2, <1>3, <2>1, <2>2 DEF DbTypeOK
<1>6. rows[NextId] = NoRow
  BY <1>3, NextIdType DEF UnissuedAbsent
<1>7. RecordAgrees'
  <2>1. terminals[NextId] = NoOutcome
    BY <1>3, <1>6 DEF RecordAgrees, NoRow, IsTerminal, TerminalStatus
  <2> QED
    BY <1>3, <1>4, <2>1 DEF RecordAgrees, DbTypeOK, IsTerminal, TerminalStatus
<1>8. UnissuedAbsent'
  <2>1. Created' = 1 .. (Len(issued) + 1)
    BY <1>2, <1>3 DEF Created, DbTypeOK
  <2> QED
    BY <1>3, <2>1 DEF UnissuedAbsent, DbTypeOK, Created, NextId, Id
<1> QED
  BY <1>5, <1>7, <1>8

LEMMA EndsOnDb ==
    ASSUME DbTypeOK, RecordAgrees, UnissuedAbsent, Ends
    PROVE  (DbTypeOK /\ RecordAgrees /\ UnissuedAbsent)'
<1>1. PICK i \in Id, o \in Outcome : IsActive(rows[i]) /\ Terminalize(i, o)
  BY DEF Ends
<1>2. PICK tokens \in UsageOf(rows[i], o) : rows' = [rows EXCEPT ![i] = EndRow(rows[i], o, tokens)]
  BY <1>1 DEF Terminalize, DbTypeOK
<1>3. rows[i] \in Row /\ tokens \in Nat
  BY UsageType DEF DbTypeOK
<1>4. /\ terminals' = [terminals EXCEPT ![i] = o]
      /\ issued' = issued
  BY <1>1 DEF Terminalize, Ends
<1>5. DbTypeOK'
  BY <1>2, <1>3, <1>4, EndRowType DEF DbTypeOK
<1>6. RecordAgrees'
  <2>1. EndRow(rows[i], o, tokens).status = o.status /\ o.status \in TerminalStatus
        /\ EndRow(rows[i], o, tokens).quarantined = o.indeterminate
    BY <1>3, EndRowType
  <2> QED
    BY <1>2, <1>4, <2>1 DEF RecordAgrees, DbTypeOK, IsTerminal
<1>7. UnissuedAbsent'
  <2>1. rows[i] # NoRow
    BY <1>1 DEF IsActive, ActiveStatus, NoRow
  <2> QED
    BY <1>2, <1>4, <2>1 DEF UnissuedAbsent, Created, DbTypeOK
<1> QED
  BY <1>5, <1>6, <1>7

LEMMA RefreshesOnDb ==
    ASSUME DbTypeOK, RecordAgrees, UnissuedAbsent, Refreshes
    PROVE  (DbTypeOK /\ RecordAgrees /\ UnissuedAbsent)'
<1>1. PICK i \in Id, new \in Row : Refreshed(rows[i], new) /\ rows' = [rows EXCEPT ![i] = new]
  BY DEF Refreshes
<1>2. terminals' = terminals /\ issued' = issued
  BY DEF Refreshes
<1>3. DbTypeOK'
  BY <1>1, <1>2 DEF DbTypeOK
<1>4. RecordAgrees'
  BY <1>1, <1>2 DEF RecordAgrees, DbTypeOK, Refreshed, IsTerminal, IsActive,
     ActiveStatus, TerminalStatus
<1>5. UnissuedAbsent'
  <2>1. rows[i] # NoRow /\ Created' = Created
    BY <1>1, <1>2 DEF Refreshed, Present, NoRow, Created
  <2> QED
    BY <1>1, <2>1 DEF UnissuedAbsent, DbTypeOK
<1> QED
  BY <1>3, <1>4, <1>5

LEMMA CancelsOnDb ==
    ASSUME DbTypeOK, RecordAgrees, UnissuedAbsent, Cancels
    PROVE  (DbTypeOK /\ RecordAgrees /\ UnissuedAbsent)'
<1> DEFINE o == Ended("cancelled", "cancel_by_run")
<1>1. PICK r \in Runs :
        LET cancelled == Live(rows) \cap InScope(rows, r)
        IN  /\ rows' = [i \in Id |-> IF i \in cancelled
                                     THEN EndRow(rows[i], o, rows[i].tokens)
                                     ELSE rows[i]]
            /\ terminals' = [i \in Id |-> IF i \in cancelled THEN o ELSE terminals[i]]
  BY DEF Cancels
<1> DEFINE cancelled == Live(rows) \cap InScope(rows, r)
<1>2. issued' = issued
  BY DEF Cancels
<1>3. o \in Outcome /\ o.status = "cancelled" /\ o.indeterminate = FALSE
  BY EndedType DEF Ended, TerminalStatus
<1>4. \A i \in Id : rows[i] \in Row /\ rows[i].tokens \in Nat
  BY DEF DbTypeOK, Row
<1>5. \A i \in Id :
        LET row == EndRow(rows[i], o, rows[i].tokens)
        IN  row \in Row /\ row.status = "cancelled" /\ row.quarantined = FALSE
  BY <1>3, <1>4, EndRowType
<1>6. \A i \in cancelled : i \in Id /\ IsActive(rows[i])
  BY DEF Live
<1> HIDE DEF o, cancelled
<1>7. DbTypeOK'
  BY <1>1, <1>2, <1>3, <1>5 DEF DbTypeOK, cancelled
<1>8. RecordAgrees'
  BY <1>1, <1>3, <1>5, <1>6 DEF RecordAgrees, DbTypeOK, IsTerminal, TerminalStatus, cancelled
<1>9. UnissuedAbsent'
  <2>1. \A i \in cancelled : rows[i] # NoRow
    BY <1>6 DEF IsActive, ActiveStatus, NoRow
  <2>2. Created' = Created
    BY <1>2 DEF Created
  <2>3. \A i \in Id : i \notin cancelled => rows'[i] = rows[i]
    BY <1>1 DEF cancelled
  <2> QED
    BY <2>1, <2>2, <2>3 DEF UnissuedAbsent
<1> QED
  BY <1>7, <1>8, <1>9

LEMMA PrunesOnDb ==
    ASSUME DbTypeOK, RecordAgrees, UnissuedAbsent, Prunes
    PROVE  (DbTypeOK /\ RecordAgrees /\ UnissuedAbsent)'
<1>1. PICK old \in SUBSET Created :
        /\ rows' = [i \in Id |-> IF i \in old THEN NoRow ELSE rows[i]]
        /\ terminals' = [i \in Id |-> IF i \in old THEN NoOutcome ELSE terminals[i]]
  BY DEF Prunes
<1>2. issued' = issued
  BY DEF Prunes
<1>3. DbTypeOK'
  BY <1>1, <1>2, NoRowType DEF DbTypeOK
<1>4. RecordAgrees'
  BY <1>1 DEF RecordAgrees, NoRow, IsTerminal, TerminalStatus
<1>5. UnissuedAbsent'
  BY <1>1, <1>2 DEF UnissuedAbsent, Created
<1> QED
  BY <1>3, <1>4, <1>5

-----------------------------------------------------------------------------
(* The invariant.                                                          *)

LEMMA InitInv == Init => Inv
<1> SUFFICES ASSUME Init PROVE Inv
  OBVIOUS
<1>1. DbTypeOK /\ RecordAgrees /\ UnissuedAbsent
  BY NoRowType, RowAssumption
     DEF Init, DbTypeOK, RecordAgrees, UnissuedAbsent, NoRow, IsTerminal, TerminalStatus
<1>2. HostTypeOK
  BY DEF Init, HostTypeOK, WorkerState
<1>3. ControlTypeOK
  BY DEF Init, ControlTypeOK, Label, Idle, At
<1> QED
  BY <1>1, <1>2, <1>3 DEF Inv, TypeOK

LEMMA StepInv == Inv /\ [Next]_vars => Inv'
<1> SUFFICES ASSUME Inv, [Next]_vars PROVE Inv'
  OBVIOUS
<1> USE DEF Inv, TypeOK
<1>1. DbStep
  BY StepOnDb
<1>2. UNCHANGED db => (DbTypeOK /\ RecordAgrees /\ UnissuedAbsent)'
  BY DEF db, DbTypeOK, RecordAgrees, UnissuedAbsent, Created
<1>3. (DbTypeOK /\ RecordAgrees /\ UnissuedAbsent)'
  BY <1>1, <1>2, AdmitsOnDb, EndsOnDb, RefreshesOnDb, CancelsOnDb, PrunesOnDb DEF DbStep
<1> QED
  BY <1>3, StepOnControl, StepOnHost

LEMMA AlwaysInv == Spec => []Inv
  BY InitInv, StepInv, PTL DEF Spec

(* Types are kept: no interleaving of processes, workers and faults leaves *)
(* an idle process with a command, or an outcome nobody is to record.      *)
THEOREM TypesKept == Spec => []TypeOK
<1>1. Inv => TypeOK
  BY DEF Inv
<1> QED
  BY <1>1, AlwaysInv, PTL

(* A row of dispatches and its row of dispatch_terminals always agree.     *)
THEOREM RecordsAgree == Spec => []RecordAgrees
<1>1. Inv => RecordAgrees
  BY DEF Inv
<1> QED
  BY <1>1, AlwaysInv, PTL

-----------------------------------------------------------------------------
(* Limits.                                                                 *)

(* No dispatch becomes active, takes a place in a run or sinks deeper.     *)
Settles ==
    \A i \in Id :
      /\ IsActive(rows'[i]) => IsActive(rows[i])
      /\ Present(rows'[i]) => Present(rows[i]) /\ rows'[i].scope = rows[i].scope
      /\ rows'[i].depth <= rows[i].depth

LEMMA OnlyAdmissionAdds ==
    ASSUME DbTypeOK, DbStep, ~Admits
    PROVE  Settles
<1>1. \A i \in Id : rows[i] \in Row /\ rows[i].depth \in Nat /\ rows[i].tokens \in Nat
  BY DEF DbTypeOK, Row
<1>2. \A i \in Id, o \in Outcome, tokens \in Nat :
        LET row == EndRow(rows[i], o, tokens)
        IN  ~IsActive(row) /\ row.scope = rows[i].scope /\ row.depth = rows[i].depth
  BY <1>1, EndRowType DEF IsActive, ActiveStatus, TerminalStatus
<1>3. CASE Ends
  <2>1. PICK i \in Id, o \in Outcome : IsActive(rows[i]) /\ Terminalize(i, o)
    BY <1>3 DEF Ends
  <2>2. PICK tokens \in UsageOf(rows[i], o) : rows' = [rows EXCEPT ![i] = EndRow(rows[i], o, tokens)]
    BY <2>1 DEF Terminalize, DbTypeOK
  <2>3. tokens \in Nat
    BY <1>1, UsageType
  <2>4. Present(rows[i])
    BY <2>1 DEF IsActive, ActiveStatus, Present
  <2> QED
    BY <1>1, <1>2, <2>2, <2>3, <2>4 DEF Settles, DbTypeOK
<1>4. CASE Refreshes
  <2>1. PICK i \in Id, new \in Row : Refreshed(rows[i], new) /\ rows' = [rows EXCEPT ![i] = new]
    BY <1>4 DEF Refreshes
  <2>2. IsActive(new) => IsActive(rows[i])
    BY <2>1 DEF Refreshed, IsActive
  <2> QED
    BY <1>1, <2>1, <2>2 DEF Settles, DbTypeOK, Refreshed
<1>5. CASE Cancels
  <2> DEFINE o == Ended("cancelled", "cancel_by_run")
  <2>1. o \in Outcome
    BY EndedType DEF TerminalStatus
  <2>2. \A i \in Id : \/ rows'[i] = rows[i]
                      \/ IsActive(rows[i]) /\ rows'[i] = EndRow(rows[i], o, rows[i].tokens)
    BY <1>5 DEF Cancels, Live
  <2>3. \A i \in Id : IsActive(rows[i]) => Present(rows[i])
    BY DEF IsActive, ActiveStatus, Present
  <2> HIDE DEF o
  <2> QED
    BY <1>1, <1>2, <2>1, <2>2, <2>3 DEF Settles
<1>6. CASE Prunes
  <2>1. \A i \in Id : rows'[i] = rows[i] \/ rows'[i] = NoRow
    BY <1>6 DEF Prunes
  <2>2. ~IsActive(NoRow) /\ ~Present(NoRow) /\ NoRow.depth = 0
    BY DEF NoRow, IsActive, ActiveStatus, Present
  <2> QED
    BY <1>1, <2>1, <2>2 DEF Settles
<1>7. CASE UNCHANGED db
  BY <1>1, <1>7 DEF db, Settles
<1> QED
  BY <1>3, <1>4, <1>5, <1>6, <1>7 DEF DbStep

LEMMA CountSteps ==
    ASSUME NEW S \in SUBSET Id, NEW T \in SUBSET Id
    PROVE  /\ Cardinality(S) \in Nat /\ Cardinality(T) \in Nat
           /\ T \subseteq S => Cardinality(T) <= Cardinality(S)
           /\ \A x \in Id : T \subseteq S \cup {x} => Cardinality(T) <= Cardinality(S) + 1
<1>1. IsFiniteSet(Id)
  BY RowAssumption, FS_Interval DEF Id
<1>2. IsFiniteSet(S) /\ IsFiniteSet(T)
  BY <1>1, FS_Subset
<1>3. Cardinality(S) \in Nat /\ Cardinality(T) \in Nat
  BY <1>2, FS_CardinalityType
<1>4. T \subseteq S => Cardinality(T) <= Cardinality(S)
  BY <1>2, FS_Subset
<1>5. ASSUME NEW x \in Id, T \subseteq S \cup {x}
      PROVE  Cardinality(T) <= Cardinality(S) + 1
  <2> DEFINE U == S \cup {x}
  <2>1. IsFiniteSet(U) /\ Cardinality(U) \in {Cardinality(S), Cardinality(S) + 1}
    BY <1>2, FS_AddElement
  <2>2. Cardinality(T) <= Cardinality(U)
    BY <1>5, <2>1, FS_Subset
  <2> HIDE DEF U
  <2> QED
    BY <1>3, <2>1, <2>2
<1> QED
  BY <1>3, <1>4, <1>5

(* A stored limit is in force whatever the caller asks for.                *)
LEMMA TighterBounds ==
    ASSUME NEW stored \in Nat, NEW asked \in Nat, stored > 0
    PROVE  /\ Tighter(stored, asked) \in Nat
           /\ 0 < Tighter(stored, asked) /\ Tighter(stored, asked) <= stored
  BY DEF Tighter

LEMMA AdmissionWithinLimits ==
    ASSUME DbTypeOK, WithinLimits, Admits
    PROVE  WithinLimits'
<1>1. PICK req \in Request : Admissible(rows, req) /\ Admit(req)
  BY DEF Admits
<1> DEFINE s == AdmittedScope(rows, req)
           new == NewRow(rows, req)
           policy == req.policy
<1>2. /\ s \in Scope \cup {NoScope} /\ AdmittedDepth(rows, req) \in Nat
      /\ new.scope = s /\ new.depth = AdmittedDepth(rows, req)
  BY NewRowType DEF DbTypeOK, NewRow
<1>3. NextId \in Id /\ rows' = [rows EXCEPT ![NextId] = new]
  BY <1>1 DEF Admit, Admits
<1>4. policy.global \in Nat /\ policy.agents \in Nat /\ policy.depth \in Nat
  BY DEF Request, Policy
<1>5. CountsAllow(rows, s, AdmittedDepth(rows, req), policy)
  BY <1>1 DEF Admissible
<1> HIDE DEF s, new, policy
<1>6. /\ Live(rows) \in SUBSET Id /\ Live(rows)' \in SUBSET Id
      /\ Live(rows)' \subseteq Live(rows) \cup {NextId}
  BY <1>3 DEF Live, DbTypeOK
<1>7. ASSUME GlobalMax > 0
      PROVE  Cardinality(Live(rows)') <= GlobalMax
  <2>1. Cardinality(Live(rows)) < Tighter(GlobalMax, policy.global)
    BY <1>4, <1>5, <1>7, RowAssumption, TighterBounds DEF CountsAllow, Counted, Below
  <2>2. /\ Tighter(GlobalMax, policy.global) \in Nat
        /\ Tighter(GlobalMax, policy.global) <= GlobalMax
    BY <1>4, <1>7, RowAssumption, TighterBounds
  <2>3. /\ Cardinality(Live(rows)) \in Nat /\ Cardinality(Live(rows)') \in Nat
        /\ Cardinality(Live(rows)') <= Cardinality(Live(rows)) + 1
    BY <1>3, <1>6, CountSteps
  <2> QED
    BY <2>1, <2>2, <2>3, RowAssumption
<1>8. ASSUME NEW r \in Runs, MaxAgents[r] > 0
      PROVE  Cardinality(InScope(rows, r)') <= MaxAgents[r]
  <2>1. InScope(rows, r) \in SUBSET Id /\ InScope(rows, r)' \in SUBSET Id
    BY DEF InScope
  <2>2. MaxAgents[r] \in Nat /\ Cardinality(InScope(rows, r)) <= MaxAgents[r]
    BY <1>8, RowAssumption DEF WithinLimits
  <2>3. CASE s = r
    <3>1. InScope(rows, r)' \subseteq InScope(rows, r) \cup {NextId}
      BY <1>3 DEF InScope, DbTypeOK
    <3>2. s # NoScope
      BY <2>3, RowAssumption DEF Scope
    <3>3. Cardinality(InScope(rows, r)) < Tighter(MaxAgents[r], policy.agents)
      BY <1>4, <1>5, <1>8, <2>2, <2>3, <3>2, TighterBounds DEF CountsAllow, AgentLimit, Below
    <3>4. /\ Tighter(MaxAgents[r], policy.agents) \in Nat
          /\ Tighter(MaxAgents[r], policy.agents) <= MaxAgents[r]
      BY <1>4, <1>8, <2>2, TighterBounds
    <3>5. /\ Cardinality(InScope(rows, r)) \in Nat /\ Cardinality(InScope(rows, r)') \in Nat
          /\ Cardinality(InScope(rows, r)') <= Cardinality(InScope(rows, r)) + 1
      BY <1>3, <2>1, <3>1, CountSteps
    <3> QED
      BY <2>2, <3>3, <3>4, <3>5
  <2>4. CASE s # r
    <3>1. InScope(rows, r)' \subseteq InScope(rows, r)
      BY <1>2, <1>3, <2>4 DEF InScope, DbTypeOK
    <3> QED
      BY <2>1, <2>2, <3>1, CountSteps
  <2> QED
    BY <2>3, <2>4
<1>9. ASSUME DepthMax > 0, NEW i \in Id
      PROVE  rows'[i].depth <= DepthMax
  <2>1. AdmittedDepth(rows, req) <= Tighter(DepthMax, policy.depth)
    BY <1>4, <1>5, <1>9, RowAssumption, TighterBounds DEF CountsAllow
  <2>2. AdmittedDepth(rows, req) <= DepthMax
    <3>1. /\ Tighter(DepthMax, policy.depth) \in Nat
          /\ Tighter(DepthMax, policy.depth) <= DepthMax
      BY <1>4, <1>9, RowAssumption, TighterBounds
    <3> QED
      BY <1>2, <2>1, <3>1, RowAssumption
  <2> QED
    BY <1>2, <1>3, <1>9, <2>2 DEF WithinLimits, DbTypeOK
<1> QED
  BY <1>7, <1>8, <1>9 DEF WithinLimits

LEMMA SettlingWithinLimits ==
    ASSUME DbTypeOK, DbTypeOK', WithinLimits, Settles
    PROVE  WithinLimits'
<1>1. /\ Live(rows) \in SUBSET Id /\ Live(rows)' \in SUBSET Id
      /\ Live(rows)' \subseteq Live(rows)
  BY DEF Live, Settles
<1>2. GlobalMax > 0 => Cardinality(Live(rows)') <= GlobalMax
  BY <1>1, CountSteps, RowAssumption DEF WithinLimits
<1>3. ASSUME NEW r \in Runs, MaxAgents[r] > 0
      PROVE  Cardinality(InScope(rows, r)') <= MaxAgents[r]
  <2>1. /\ InScope(rows, r) \in SUBSET Id /\ InScope(rows, r)' \in SUBSET Id
        /\ InScope(rows, r)' \subseteq InScope(rows, r)
    BY DEF InScope, Settles
  <2> QED
    BY <1>3, <2>1, CountSteps, RowAssumption DEF WithinLimits
<1>4. ASSUME DepthMax > 0, NEW i \in Id
      PROVE  rows'[i].depth <= DepthMax
  <2>1. rows[i].depth \in Nat /\ rows'[i].depth \in Nat
    BY DEF DbTypeOK, Row
  <2> QED
    BY <1>4, <2>1, RowAssumption DEF Settles, WithinLimits
<1> QED
  BY <1>2, <1>3, <1>4 DEF WithinLimits

LEMMA InitWithinLimits == Init => WithinLimits
<1> SUFFICES ASSUME Init PROVE WithinLimits
  OBVIOUS
<1>1. \A i \in Id : ~IsActive(rows[i]) /\ ~Present(rows[i]) /\ rows[i].depth = 0
  BY DEF Init, NoRow, IsActive, ActiveStatus, Present
<1>2. Live(rows) = {} /\ \A r \in Runs : InScope(rows, r) = {}
  BY <1>1 DEF Live, InScope
<1>3. /\ Cardinality(Live(rows)) = 0
      /\ \A r \in Runs : Cardinality(InScope(rows, r)) = 0 /\ MaxAgents[r] \in Nat
  BY <1>2, FS_EmptySet, RowAssumption
<1>4. GlobalMax \in Nat /\ DepthMax \in Nat
  BY RowAssumption
<1> QED
  BY <1>1, <1>3, <1>4 DEF WithinLimits

(* However many processes race to admit spawns and retries, the stored     *)
(* global cap, agent caps and depth limit are never exceeded.              *)
THEOREM LimitsHold == Spec => []WithinLimits
<1>1. Inv /\ Inv' /\ WithinLimits /\ [Next]_vars => WithinLimits'
  <2> SUFFICES ASSUME Inv, Inv', WithinLimits, [Next]_vars
               PROVE  WithinLimits'
    OBVIOUS
  <2>1. DbTypeOK /\ DbTypeOK' /\ DbStep
    BY StepOnDb DEF Inv, TypeOK
  <2> QED
    BY <2>1, AdmissionWithinLimits, OnlyAdmissionAdds, SettlingWithinLimits
<1> QED
  BY <1>1, InitWithinLimits, AlwaysInv, PTL DEF Spec

-----------------------------------------------------------------------------
(* One outcome.                                                            *)

LEMMA EndedNotActive ==
    ASSUME NEW row
    PROVE  /\ row.status \in TerminalStatus => Present(row) /\ ~IsActive(row)
           /\ IsActive(row) => Present(row) /\ row # NoRow
           /\ ~Present(NoRow)
  BY DEF Present, IsActive, ActiveStatus, TerminalStatus, NoRow

LEMMA StepKeepsContract ==
    ASSUME Inv, [Next]_vars
    PROVE  [Contract!Next]_([i \in Id |-> OutcomeOf(i)])
<1> DEFINE M == [i \in Id |-> OutcomeOf(i)]
<1> USE DEF Inv, TypeOK
<1>1. DbStep
  BY StepOnDb
<1>2. \A i \in Id : IsActive(rows[i]) => i \in Created
  BY EndedNotActive DEF UnissuedAbsent
<1>3. CASE Admits
  <2>1. PICK req \in Request : Admissible(rows, req) /\ Admit(req)
    BY <1>3 DEF Admits
  <2>2. /\ NextId \in Id /\ terminals' = terminals
        /\ rows' = [rows EXCEPT ![NextId] = NewRow(rows, req)]
        /\ Created' = 1 .. (Len(issued) + 1)
    <3>1. AdmittedScope(rows, req) \in Scope \cup {NoScope}
      BY NewRowType DEF DbTypeOK
    <3> QED
      BY <1>3, <2>1, <3>1 DEF Admits, Admit, Created, DbTypeOK
  <2>3. \A i \in Id : i \in Created' <=> i \in Created \/ i = NextId
    BY <2>2 DEF Created, NextId, DbTypeOK, Id
  <2>4. Present(NewRow(rows, req)) /\ IsActive(NewRow(rows, req))
    BY DEF NewRow, Present, IsActive, ActiveStatus
  <2>5. PICK k \in Id : k = NextId
    BY <2>2
  <2>6. OutcomeOf(k) = "unused"
    BY <2>5, NextIdType DEF OutcomeOf
  <2>7. OutcomeOf(k)' = "open"
    BY <2>2, <2>3, <2>4, <2>5 DEF OutcomeOf, DbTypeOK
  <2>8. \A i \in Id \ {k} : OutcomeOf(i)' = OutcomeOf(i)
    BY <2>2, <2>3, <2>5 DEF OutcomeOf, DbTypeOK
  <2>9. M' = [M EXCEPT ![k] = "open"] /\ M[k] = "unused"
    BY <2>6, <2>7, <2>8
  <2> QED
    BY <2>9 DEF Contract!Next, Contract!Admit
<1>4. CASE Ends
  <2>1. PICK i \in Id, o \in Outcome : IsActive(rows[i]) /\ Terminalize(i, o)
    BY <1>4 DEF Ends
  <2>2. PICK tokens \in UsageOf(rows[i], o) : rows' = [rows EXCEPT ![i] = EndRow(rows[i], o, tokens)]
    BY <2>1 DEF Terminalize, DbTypeOK
  <2>3. terminals' = [terminals EXCEPT ![i] = o] /\ Created' = Created
    BY <1>4, <2>1 DEF Terminalize, Ends, Created
  <2>4. /\ EndRow(rows[i], o, tokens).status \in TerminalStatus
        /\ o.status \in TerminalStatus
    BY UsageType, EndRowType DEF DbTypeOK
  <2>5. OutcomeOf(i) = "open"
    BY <1>2, <2>1, EndedNotActive DEF OutcomeOf
  <2>6. OutcomeOf(i)' = o.status
    BY <1>2, <2>1, <2>2, <2>3, <2>4, EndedNotActive DEF OutcomeOf, DbTypeOK
  <2>7. \A j \in Id \ {i} : OutcomeOf(j)' = OutcomeOf(j)
    BY <2>2, <2>3 DEF OutcomeOf, DbTypeOK
  <2>8. M' = [M EXCEPT ![i] = o.status] /\ M[i] = "open"
    BY <2>5, <2>6, <2>7
  <2>9. o.status \in Contract!End
    BY <2>4 DEF TerminalStatus, Contract!End
  <2> QED
    BY <2>8, <2>9 DEF Contract!Next, Contract!Conclude
<1>5. CASE Refreshes
  <2>1. PICK i \in Id, new \in Row : Refreshed(rows[i], new) /\ rows' = [rows EXCEPT ![i] = new]
    BY <1>5 DEF Refreshes
  <2>2. terminals' = terminals /\ Created' = Created
    BY <1>5 DEF Refreshes, Created
  <2>3. (Present(new) <=> Present(rows[i])) /\ (IsActive(new) <=> IsActive(rows[i]))
    BY <2>1 DEF Refreshed, Present, IsActive, ActiveStatus
  <2>4. \A j \in Id : OutcomeOf(j)' = OutcomeOf(j)
    BY <2>1, <2>2, <2>3 DEF OutcomeOf, DbTypeOK
  <2> QED
    BY <2>4
<1>6. CASE Cancels
  <2> DEFINE o == Ended("cancelled", "cancel_by_run")
  <2>1. PICK S \in SUBSET Id :
          /\ \A i \in S : IsActive(rows[i])
          /\ rows' = [i \in Id |-> IF i \in S THEN EndRow(rows[i], o, rows[i].tokens) ELSE rows[i]]
          /\ terminals' = [i \in Id |-> IF i \in S THEN o ELSE terminals[i]]
    <3>1. \A r \in Runs : /\ Live(rows) \cap InScope(rows, r) \in SUBSET Id
                         /\ \A i \in Live(rows) \cap InScope(rows, r) : IsActive(rows[i])
      BY DEF Live
    <3> QED
      BY <1>6, <3>1 DEF Cancels
  <2>2. o \in Outcome /\ o.status = "cancelled"
    BY EndedType DEF Ended, TerminalStatus
  <2> HIDE DEF o
  <2>3. \A i \in Id : EndRow(rows[i], o, rows[i].tokens).status \in TerminalStatus
    <3>1. \A i \in Id : rows[i] \in Row /\ rows[i].tokens \in Nat
      BY DEF DbTypeOK, Row
    <3> QED
      BY <2>2, <3>1, EndRowType
  <2>4. Created' = Created
    BY <1>6 DEF Cancels, Created
  <2>5. \A i \in S : OutcomeOf(i) = "open"
    BY <1>2, <2>1, EndedNotActive DEF OutcomeOf
  <2>6. \A i \in S : OutcomeOf(i)' = "cancelled"
    BY <1>2, <2>1, <2>2, <2>3, <2>4, EndedNotActive DEF OutcomeOf
  <2>7. \A i \in Id \ S : OutcomeOf(i)' = OutcomeOf(i)
    BY <2>1, <2>4 DEF OutcomeOf
  <2>8. /\ \A i \in S : M[i] = "open"
        /\ M' = [i \in Id |-> IF i \in S THEN "cancelled" ELSE M[i]]
    BY <2>5, <2>6, <2>7
  <2> QED
    BY <2>8 DEF Contract!Next, Contract!Cancel
<1>7. CASE Prunes
  <2>1. PICK S \in SUBSET Created :
          /\ \A i \in S : ~IsActive(rows[i])
          /\ rows' = [i \in Id |-> IF i \in S THEN NoRow ELSE rows[i]]
          /\ terminals' = [i \in Id |-> IF i \in S THEN NoOutcome ELSE terminals[i]]
    BY <1>7 DEF Prunes
  <2>2. S \in SUBSET Id
    BY NextIdType
  <2>3. Created' = Created
    BY <1>7 DEF Prunes, Created
  <2>4. \A i \in S : OutcomeOf(i) \in TerminalStatus \cup {"forgotten"}
    <3>1. \A i \in S : Present(rows[i]) => IsTerminal(rows[i])
      BY <2>1, <2>2 DEF DbTypeOK, Row, Present, IsActive, IsTerminal
    <3> QED
      BY <2>1, <2>2, <3>1 DEF OutcomeOf, RecordAgrees, IsTerminal
  <2>5. \A i \in S : OutcomeOf(i)' = "forgotten"
    BY <2>1, <2>2, <2>3, EndedNotActive DEF OutcomeOf
  <2>6. \A i \in Id \ S : OutcomeOf(i)' = OutcomeOf(i)
    BY <2>1, <2>3 DEF OutcomeOf
  <2>7. /\ \A i \in S : M[i] \in Contract!End \cup {"forgotten"}
        /\ M' = [i \in Id |-> IF i \in S THEN "forgotten" ELSE M[i]]
    BY <2>2, <2>4, <2>5, <2>6 DEF TerminalStatus, Contract!End
  <2> QED
    BY <2>2, <2>7 DEF Contract!Next, Contract!Forget
<1>8. CASE UNCHANGED db
  BY <1>8 DEF db, OutcomeOf, Created
<1> QED
  BY <1>1, <1>3, <1>4, <1>5, <1>6, <1>7, <1>8 DEF DbStep

(* Every dispatch ends once, whichever of the spawner, the polls, the      *)
(* kills, the timeouts and the rollbacks gets there first: the table       *)
(* implements the contract.                                                *)
THEOREM OutcomesStand == Spec => OneOutcome
<1>1. Init => Contract!Init
  <2> SUFFICES ASSUME Init PROVE Contract!Init
    OBVIOUS
  <2>1. \A i \in Id : OutcomeOf(i) = "unused"
    BY DEF Init, OutcomeOf, Created, Id
  <2> QED
    BY <2>1 DEF Contract!Init
<1>2. Inv /\ [Next]_vars => [Contract!Next]_([i \in Id |-> OutcomeOf(i)])
  BY StepKeepsContract
<1> QED
  BY <1>1, <1>2, AlwaysInv, PTL DEF Spec, OneOutcome, Contract!Spec

-----------------------------------------------------------------------------
(* Families.                                                               *)

(* What a row becomes by any step but the admission of its id: it keeps    *)
(* what it was admitted with and how it ended, until it is pruned.         *)
Later(old, new) ==
    \/ new = NoRow
    \/ /\ new.agent = old.agent /\ new.scope = old.scope /\ new.parent = old.parent
       /\ new.depth = old.depth /\ new.retries = old.retries
       /\ Present(new) => Present(old)
       /\ IsActive(new) => IsActive(old)
       /\ ~IsActive(old) => new.status = old.status /\ new.quarantined = old.quarantined
       /\ old.pid => new.pid

LEMMA EndRowLater ==
    ASSUME NEW row \in Row, NEW o \in Outcome, NEW tokens, IsActive(row)
    PROVE  Later(row, EndRow(row, o, tokens))
<1>1. EndRow(row, o, tokens).status \in TerminalStatus
  BY DEF EndRow, Row, Outcome
<1> QED
  BY <1>1 DEF Later, EndRow, Row, IsActive, Present, ActiveStatus, TerminalStatus

LEMMA RowsLater ==
    ASSUME DbTypeOK, DbStep, ~Admits
    PROVE  issued' = issued /\ \A i \in Id : Later(rows[i], rows'[i])
<1>1. \A i \in Id : rows[i] \in Row
  BY DEF DbTypeOK
<1>2. \A i \in Id : Later(rows[i], rows[i])
  BY DEF Later
<1>3. CASE Ends
  <2>1. PICK i \in Id, o \in Outcome : IsActive(rows[i]) /\ Terminalize(i, o)
    BY <1>3 DEF Ends
  <2>2. PICK tokens : rows' = [rows EXCEPT ![i] = EndRow(rows[i], o, tokens)]
    BY <2>1 DEF Terminalize, DbTypeOK
  <2>3. Later(rows[i], EndRow(rows[i], o, tokens))
    BY <1>1, <2>1, EndRowLater
  <2> QED
    BY <1>2, <1>3, <2>2, <2>3 DEF Ends, DbTypeOK
<1>4. CASE Refreshes
  <2>1. PICK i \in Id, new \in Row : Refreshed(rows[i], new) /\ rows' = [rows EXCEPT ![i] = new]
    BY <1>4 DEF Refreshes
  <2>2. Later(rows[i], new)
    BY <2>1 DEF Refreshed, Later, Present, IsActive
  <2> QED
    BY <1>2, <1>4, <2>1, <2>2 DEF Refreshes, DbTypeOK
<1>5. CASE Cancels
  <2> DEFINE o == Ended("cancelled", "cancel_by_run")
  <2>1. o \in Outcome
    BY EndedType DEF TerminalStatus
  <2>2. \A i \in Id : \/ rows'[i] = rows[i]
                      \/ IsActive(rows[i]) /\ rows'[i] = EndRow(rows[i], o, rows[i].tokens)
    BY <1>5 DEF Cancels, Live
  <2> HIDE DEF o
  <2> QED
    BY <1>1, <1>2, <1>5, <2>1, <2>2, EndRowLater DEF Cancels
<1>6. CASE Prunes
  BY <1>2, <1>6 DEF Prunes, Later
<1>7. CASE UNCHANGED db
  BY <1>2, <1>7 DEF db
<1> QED
  BY <1>3, <1>4, <1>5, <1>6, <1>7 DEF DbStep

(* How a row stands to the row of its parent.                              *)
Follows(row, parent) ==
    Present(parent) =>
      /\ parent.scope # NoScope => row.scope = parent.scope
      /\ row.depth = parent.depth + (IF row.retries > 0 THEN 0 ELSE 1)
      /\ row.retries > 0 =>
           /\ parent.status \in {"failed", "timeout"}
           /\ ~parent.quarantined /\ parent.agent # "flere"
           /\ row.retries = parent.retries + 1
           /\ row.agent = parent.agent /\ row.scope = parent.scope

Family(i, row) ==
    /\ row.parent # NoParent => row.parent < i
    /\ row.retries > 0 => row.parent # NoParent /\ row.retries <= MaxRetries

FamilyTies ==
    \A i \in Id :
      /\ Family(i, rows[i])
      /\ rows[i].parent # NoParent => Follows(rows[i], rows[rows[i].parent])

(* A retry that has begun is still due, unless its row was pruned: a row   *)
(* that has ended stays as it ended.                                       *)
RetryDue ==
    \A p \in Procs :
      At(p, "admit") => /\ On(p) \in Created
                        /\ Present(rows[On(p)]) => ShouldRetry(rows[On(p)])

LEMMA TiesAreSound == FamilyTies => FamilySound
  BY DEF FamilyTies, Family, Follows, FamilySound, LineageSound, RetryOfFailure

LEMMA FollowsLater ==
    ASSUME NEW row \in Row, NEW row2 \in Row, NEW parent \in Row, NEW parent2 \in Row,
           Follows(row, parent), Later(row, row2), row2 # NoRow, Later(parent, parent2)
    PROVE  Follows(row2, parent2)
<1>1. CASE parent2 = NoRow
  BY <1>1 DEF Follows, NoRow, Present
<1>2. CASE parent2 # NoRow /\ ~Present(parent2)
  BY <1>2 DEF Follows
<1>3. CASE parent2 # NoRow /\ Present(parent2)
  <2>1. /\ Present(parent) /\ parent2.scope = parent.scope /\ parent2.depth = parent.depth
        /\ parent2.retries = parent.retries /\ parent2.agent = parent.agent
    BY <1>3 DEF Later
  <2>2. parent.status \in {"failed", "timeout"} =>
          parent2.status = parent.status /\ parent2.quarantined = parent.quarantined
    BY <1>3 DEF Later, IsActive, ActiveStatus
  <2>3. /\ row2.scope = row.scope /\ row2.depth = row.depth /\ row2.retries = row.retries
        /\ row2.agent = row.agent
    BY DEF Later
  <2> QED
    BY <2>1, <2>2, <2>3 DEF Follows
<1> QED
  BY <1>1, <1>2, <1>3

LEMMA TiesLater ==
    ASSUME DbTypeOK, DbTypeOK', FamilyTies, \A i \in Id : Later(rows[i], rows'[i])
    PROVE  FamilyTies'
<1> SUFFICES ASSUME NEW i \in Id
             PROVE  /\ Family(i, rows'[i])
                    /\ rows'[i].parent # NoParent => Follows(rows'[i], rows'[rows'[i].parent])
  BY DEF FamilyTies
<1>1. rows[i] \in Row /\ rows'[i] \in Row
  BY DEF DbTypeOK
<1>2. CASE rows'[i] = NoRow
  BY <1>2 DEF NoRow, Family
<1>3. CASE rows'[i] # NoRow
  <2>1. rows'[i].parent = rows[i].parent /\ rows'[i].retries = rows[i].retries
    BY <1>3 DEF Later
  <2>2. Family(i, rows'[i])
    BY <2>1 DEF FamilyTies, Family
  <2>3. ASSUME rows'[i].parent # NoParent
        PROVE  Follows(rows'[i], rows'[rows'[i].parent])
    <3>1. rows[i].parent \in Id
      BY <1>1, <2>1, <2>3 DEF Row
    <3>2. rows[rows[i].parent] \in Row /\ rows'[rows[i].parent] \in Row
      BY <3>1 DEF DbTypeOK
    <3>3. Follows(rows[i], rows[rows[i].parent])
      BY <2>1, <2>3 DEF FamilyTies
    <3> QED
      BY <1>1, <1>3, <2>1, <3>1, <3>2, <3>3, FollowsLater
  <2> QED
    BY <2>2, <2>3
<1> QED
  BY <1>2, <1>3

(* A new row follows its parent.                                           *)
LEMMA AdmittedFollows ==
    ASSUME DbTypeOK, UnissuedAbsent, RetryDue, NEW req \in Request,
           Asked(req), Admissible(rows, req), NextId \in Id
    PROVE  /\ Family(NextId, NewRow(rows, req))
           /\ req.parent # NoParent =>
                /\ req.parent \in Created
                /\ Follows(NewRow(rows, req), rows[req.parent])
<1> DEFINE new == NewRow(rows, req)
<1>1. /\ new.parent = req.parent /\ new.retries = req.retries /\ new.agent = req.agent
      /\ new.scope = AdmittedScope(rows, req) /\ new.depth = AdmittedDepth(rows, req)
  BY DEF NewRow
<1> HIDE DEF new
<1>2. req.parent # NoParent => req.parent \in Id /\ Present(rows[req.parent])
  BY DEF Admissible, ParentAccepted, Request
<1>3. req.parent # NoParent => req.parent \in Created /\ req.parent < NextId
  BY <1>2, NextIdType DEF UnissuedAbsent, NoRow, Present, NextId, DbTypeOK, Id
<1>4. ASSUME req.parent # NoParent, rows[req.parent].scope # NoScope
      PROVE  new.scope = rows[req.parent].scope
  BY <1>1, <1>4 DEF Admissible, ParentAccepted, AdmittedScope
<1>5. CASE ~req.retry /\ req.retries = 0
  <2>1. Family(NextId, new)
    BY <1>1, <1>3, <1>5 DEF Family
  <2>2. req.parent # NoParent => new.depth = rows[req.parent].depth + 1
    BY <1>1, <1>5 DEF AdmittedDepth
  <2> QED
    BY <1>1, <1>3, <1>4, <1>5, <2>1, <2>2 DEF Follows, new
<1>6. CASE \E p \in Procs : /\ At(p, "admit") /\ On(p) \in Id
                            /\ req = RetryRequest(rows[On(p)], On(p))
  <2>1. PICK p \in Procs : /\ At(p, "admit") /\ On(p) \in Id
                           /\ req = RetryRequest(rows[On(p)], On(p))
    BY <1>6
  <2> DEFINE parent == rows[On(p)]
  <2>2. parent \in Row /\ parent.retries \in Nat /\ parent.depth \in Nat
    BY <2>1 DEF DbTypeOK, Row
  <2>3. /\ req.parent = On(p) /\ req.agent = parent.agent /\ req.scope = parent.scope
        /\ req.retries = parent.retries + 1 /\ req.retry = TRUE
    BY <2>1 DEF RetryRequest
  <2>4. req.parent # NoParent
    BY <2>1, <2>3 DEF NoParent, Id
  <2>5. ShouldRetry(parent)
    BY <1>2, <2>1, <2>3, <2>4 DEF RetryDue
  <2>6. new.scope = parent.scope
    BY <1>1, <2>3, <2>4 DEF AdmittedScope
  <2>7. new.depth = parent.depth
    <3>1. new.depth = parent.depth + 0
      BY <1>1, <2>3, <2>4 DEF AdmittedDepth
    <3> QED
      BY <2>2, <3>1
  <2> HIDE DEF parent
  <2>8. Family(NextId, new)
    BY <1>1, <1>3, <2>2, <2>3, <2>4, <2>5, RowAssumption DEF Family, ShouldRetry
  <2>9. Follows(new, parent)
    BY <1>1, <2>2, <2>3, <2>5, <2>6, <2>7 DEF Follows, ShouldRetry
  <2> QED
    BY <1>3, <2>3, <2>8, <2>9 DEF new, parent
<1> QED
  BY <1>5, <1>6 DEF Asked

LEMMA TiesAdmitted ==
    ASSUME DbTypeOK, UnissuedAbsent, RetryDue, FamilyTies, Admits
    PROVE  FamilyTies'
<1>1. PICK req \in Request : Asked(req) /\ Admissible(rows, req) /\ Admit(req)
  BY DEF Admits
<1> DEFINE new == NewRow(rows, req)
<1>2. NextId \in Id /\ rows' = [rows EXCEPT ![NextId] = new]
  BY <1>1 DEF Admit, Admits
<1>3. new.parent = req.parent
  BY DEF NewRow
<1>4. /\ Family(NextId, new)
      /\ req.parent # NoParent => req.parent \in Created /\ Follows(new, rows[req.parent])
  BY <1>1, <1>2, AdmittedFollows
<1> HIDE DEF new
<1>5. NextId \notin Created /\ Created \subseteq Id
  BY NextIdType
<1>6. \A i \in Id : rows'[i] = IF i = NextId THEN new ELSE rows[i]
  BY <1>2 DEF DbTypeOK
<1> SUFFICES ASSUME NEW i \in Id
             PROVE  /\ Family(i, rows'[i])
                    /\ rows'[i].parent # NoParent => Follows(rows'[i], rows'[rows'[i].parent])
  BY DEF FamilyTies
<1>7. CASE i = NextId
  BY <1>3, <1>4, <1>5, <1>6, <1>7
<1>8. CASE i # NextId
  <2>1. Family(i, rows[i]) /\ rows'[i] = rows[i]
    BY <1>6, <1>8 DEF FamilyTies
  <2>2. ASSUME rows[i].parent # NoParent
        PROVE  rows[i].parent \in Id /\ rows[i].parent # NextId
    <3>1. rows[i] \in Row /\ rows[i].parent \in Id
      BY <2>2 DEF DbTypeOK, Row
    <3>2. i \in Created
      BY <2>2 DEF UnissuedAbsent, NoRow
    <3>3. rows[i].parent < i
      BY <2>1, <2>2 DEF Family
    <3> QED
      BY <3>1, <3>2, <3>3 DEF Created, NextId, DbTypeOK, Id
  <2> QED
    BY <1>6, <2>1, <2>2 DEF FamilyTies
<1> QED
  BY <1>7, <1>8

(* Only the start of a retry brings a process to its admission.            *)
LEMMA OnlyRetryAdmits ==
    ASSUME ControlTypeOK, [Next]_vars, NEW q \in Procs, At(q, "admit")'
    PROVE  (At(q, "admit") /\ On(q)' = On(q)) \/ StartRetry(q)
<1> USE DEF At, On
<1>1. CASE UNCHANGED <<pc, cmd>>
  BY <1>1
<1>2. ASSUME NEW p \in Procs, Finish(p)
      PROVE  At(q, "admit") /\ On(q)' = On(q)
  BY <1>2 DEF Finish, Goto, ControlTypeOK
<1>3. ASSUME NEW p \in Procs, NEW label, label # "admit", Goto(p, label),
             UNCHANGED cmd \/ \E c : cmd' = [cmd EXCEPT ![p] = c]
      PROVE  At(q, "admit") /\ On(q)' = On(q)
  BY <1>3 DEF Goto, ControlTypeOK
<1>4. ASSUME NEW p \in Procs, NEW o, Conclude(p, o), UNCHANGED cmd
      PROVE  At(q, "admit") /\ On(q)' = On(q)
  BY <1>3, <1>4 DEF Conclude
<1>5. ASSUME NEW p \in Procs, PollAgain(p)
      PROVE  At(q, "admit") /\ On(q)' = On(q)
  BY <1>2, <1>3, <1>5 DEF PollAgain
<1>6. ASSUME NEW p \in Procs, Step(p)
      PROVE  At(q, "admit") /\ On(q)' = On(q)
  <2>1. StartWorker(p) \/ IdentityMissed(p) \/ ReadPid(p) \/ LookDead(p) \/ LookAlive(p)
          => UNCHANGED cmd /\ \E label : label # "admit" /\ Goto(p, label)
    BY DEF StartWorker, IdentityMissed, ReadPid, LookDead, LookAlive
  <2>2. SpawnFails(p) \/ Reap(p) \/ Signal(p) \/ SignalRefused(p)
          => UNCHANGED cmd /\ \E o : Conclude(p, o)
    BY DEF SpawnFails, Reap, Signal, SignalRefused
  <2>3. ReadEnded(p) \/ RecordIdentity(p) \/ Record(p) \/ RecordLost(p) \/ RecordFails(p)
          \/ AdmitRetry(p) \/ RetryRejected(p) => Finish(p)
    BY DEF ReadEnded, RecordIdentity, Record, RecordLost, RecordFails, AdmitRetry, RetryRejected
  <2>4. ReadNoPid(p) \/ LookUnsure(p) \/ Touch(p) \/ CollectRead(p)
          => Finish(p) \/ PollAgain(p) \/ (UNCHANGED cmd /\ \E o : Conclude(p, o))
    BY DEF ReadNoPid, LookUnsure, Touch, CollectRead
  <2> QED
    BY <1>2, <1>3, <1>4, <1>5, <1>6, <2>1, <2>2, <2>3, <2>4 DEF Step
<1>7. ASSUME NEW p \in Procs, StartSpawn(p) \/ StartWatch(p)
      PROVE  At(q, "admit") /\ On(q)' = On(q)
  <2>1. (Goto(p, "start") \/ Goto(p, "begin")) /\ \E c : cmd' = [cmd EXCEPT ![p] = c]
    BY <1>7 DEF StartSpawn, StartWatch
  <2> QED
    BY <1>3, <2>1
<1>8. ASSUME NEW p \in Procs, Expire(p)
      PROVE  At(q, "admit") /\ On(q)' = On(q)
  <2>1. cmd' = [cmd EXCEPT ![p] = [cmd[p] EXCEPT !.op = "timeout"]]
    BY <1>8 DEF Expire, ControlTypeOK
  <2> QED
    BY <1>3, <1>8, <2>1 DEF Expire
<1>9. ASSUME NEW p \in Procs, StartRetry(p), p # q
      PROVE  At(q, "admit") /\ On(q)' = On(q)
  BY <1>9 DEF StartRetry, Goto, ControlTypeOK
<1>10. Environment \/ UNCHANGED vars => UNCHANGED <<pc, cmd>>
  BY DEF Environment, CancelByRun, Prune, ReportTokens, WorkerReports, WorkerExits,
     PidReused, vars
<1>11. ASSUME NEW p \in Procs, Crash(p)
       PROVE  At(q, "admit") /\ On(q)' = On(q)
  BY <1>2, <1>11 DEF Crash
<1> QED
  BY <1>1, <1>6, <1>7, <1>8, <1>9, <1>10, <1>11 DEF Next, Start

LEMMA RetryStaysDue ==
    ASSUME Inv, RetryDue, [Next]_vars
    PROVE  RetryDue'
<1> USE DEF Inv, TypeOK
<1>1. DbStep
  BY StepOnDb
<1> SUFFICES ASSUME NEW q \in Procs, At(q, "admit")'
             PROVE  /\ On(q)' \in Created'
                    /\ Present(rows'[On(q)']) => ShouldRetry(rows'[On(q)'])
  BY DEF RetryDue
<1>2. CASE StartRetry(q)
  <2>1. UNCHANGED <<rows, issued>>
    BY <1>2 DEF StartRetry, db
  <2>2. On(q)' \in Created /\ ShouldRetry(rows[On(q)'])
    BY <1>2 DEF StartRetry, On, ControlTypeOK
  <2> QED
    BY <2>1, <2>2 DEF Created
<1>3. CASE At(q, "admit") /\ On(q)' = On(q)
  <2> DEFINE i == On(q)
  <2>1. i \in Created /\ i \in Id /\ Present(rows[i]) => ShouldRetry(rows[i])
    BY <1>3, NextIdType DEF RetryDue
  <2>2. i \in Created /\ i \in Id
    BY <1>3, NextIdType DEF RetryDue
  <2>3. CASE Admits
    <3>1. PICK req \in Request : Admissible(rows, req) /\ Admit(req)
      BY <2>3 DEF Admits
    <3>2. rows'[i] = rows[i]
      BY <2>2, <3>1, NextIdType DEF Admit, DbTypeOK
    <3>3. Len(issued') = Len(issued) + 1 /\ Len(issued) \in Nat
      BY <3>1, NewRowType DEF Admit, DbTypeOK
    <3> QED
      BY <1>3, <2>1, <2>2, <3>2, <3>3 DEF Created
  <2>4. CASE ~Admits
    <3>1. issued' = issued /\ Later(rows[i], rows'[i])
      BY <1>1, <2>2, <2>4, RowsLater
    <3>2. Present(rows'[i]) => ShouldRetry(rows'[i])
      BY <2>1, <2>2, <3>1 DEF Later, ShouldRetry, Present, NoRow, IsActive, ActiveStatus
    <3> QED
      BY <1>3, <2>2, <3>1, <3>2 DEF Created
  <2> QED
    BY <2>3, <2>4
<1> QED
  BY <1>2, <1>3, OnlyRetryAdmits

FamilyInv == FamilyTies /\ RetryDue

LEMMA InitFamily == Init => FamilyInv
  BY DEF Init, FamilyInv, FamilyTies, Family, RetryDue, NoRow, At

LEMMA StepFamily == Inv /\ Inv' /\ FamilyInv /\ [Next]_vars => FamilyInv'
<1> SUFFICES ASSUME Inv, Inv', FamilyInv, [Next]_vars
             PROVE  FamilyInv'
  OBVIOUS
<1> USE DEF Inv, TypeOK, FamilyInv
<1>1. DbStep
  BY StepOnDb
<1> QED
  BY <1>1, TiesAdmitted, RowsLater, TiesLater, RetryStaysDue

(* Whatever is retried, rolled back and pruned at once: a child is below   *)
(* its parent in one scope, and a retry repeats an attempt known to have   *)
(* failed (Store.admit, Retry).                                             *)
THEOREM FamiliesStaySound == Spec => []FamilySound
<1>1. FamilyInv => FamilySound
  BY TiesAreSound DEF FamilyInv
<1> QED
  BY <1>1, InitFamily, StepFamily, AlwaysInv, PTL DEF Spec

-----------------------------------------------------------------------------
(* Workers.                                                                *)

Gone == {"exited", "stranger"}

(* What a process is entitled to find where it is: a spawner before and    *)
(* after the start of its worker, a watcher past a PID, a collector on a   *)
(* worker that is gone.                                                    *)
Placed(label, c, o, w, row, rep) ==
    /\ label = "start" => c.op = "spawn" /\ w = "none"
    /\ label \in {"identify", "reap"} => c.op = "spawn" /\ w # "none"
    /\ label \in {"begin", "admit"} => c.op # "spawn"
    /\ label \in {"look", "touch", "signal"} => c.op # "spawn" /\ w # "none"
    /\ label = "collect" => c.op # "spawn" /\ w \in Gone
    /\ label = "record" /\ c.op = "spawn" => w # "alive" /\ o.source # "collect"
    /\ label = "record" /\ o.source = "collect" =>
         w \in Gone /\ (IsActive(row) => o = Collected(row, rep))

Taken(t, w, row, rep) ==
    t.source = "collect" => w \in Gone /\ t = Collected(row, rep)

Seated(p) ==
    Idle(p) \/ /\ On(p) \in Created
               /\ Placed(pc[p], cmd[p], out[p], worker[On(p)], rows[On(p)], report[On(p)])

OneSpawner ==
    \A p, q \in Procs : p # q /\ Op(p) = "spawn" /\ Op(q) = "spawn" => On(p) # On(q)

WorkersKnown ==
    \A i \in Id :
      /\ worker[i] # "harmed"
      /\ i \notin Created => worker[i] = "none"
      /\ rows[i].pid => worker[i] # "none"
      /\ Taken(terminals[i], worker[i], rows[i], report[i])

WorkInv == (\A p \in Procs : Seated(p)) /\ OneSpawner /\ WorkersKnown

(* A worker ages: alive, gone, its PID another's; never back.              *)
Ages(w, w2) == w2 = w \/ (w # "none" /\ w2 \in Gone)

Quiet(i) ==
    /\ Ages(worker[i], worker'[i])
    /\ report'[i] = report[i] \/ worker[i] = "alive"

Born(p) ==
    /\ At(p, "start") /\ Goto(p, "identify")
    /\ worker' = [worker EXCEPT ![On(p)] = "alive"]
    /\ UNCHANGED <<db, report, cmd>>

LEMMA PlacedKept ==
    ASSUME NEW label, NEW c, NEW o, NEW w, NEW w2, NEW row, NEW row2, NEW rep, NEW rep2,
           Placed(label, c, o, w, row, rep), Ages(w, w2), Later(row, row2),
           rep2 = rep \/ w = "alive"
    PROVE  Placed(label, c, o, w2, row2, rep2)
<1>1. IsActive(row2) => IsActive(row) /\ row2.agent = row.agent
  BY DEF Later, IsActive, ActiveStatus, NoRow
<1>2. w \in Gone => w2 \in Gone /\ rep2 = rep
  BY DEF Ages, Gone
<1>3. row2.agent = row.agent => Collected(row2, rep) = Collected(row, rep)
  BY DEF Collected
<1>4. (w # "none" => w2 # "none") /\ (w # "alive" => w2 # "alive") /\ (w = "none" => w2 = "none")
  BY DEF Ages, Gone
<1> QED
  BY <1>1, <1>2, <1>3, <1>4 DEF Placed

(* Nobody but its spawner notices the start of a worker.                   *)
LEMMA PlacedAtBirth ==
    ASSUME NEW label, NEW c, NEW o, NEW row, NEW rep,
           Placed(label, c, o, "none", row, rep), c.op # "spawn"
    PROVE  Placed(label, c, o, "alive", row, rep)
  BY DEF Placed, Gone

LEMMA TakenKept ==
    ASSUME NEW t, NEW w, NEW w2, NEW row, NEW row2, NEW rep, NEW rep2,
           Taken(t, w, row, rep), Ages(w, w2), row2.agent = row.agent,
           rep2 = rep \/ w = "alive"
    PROVE  Taken(t, w2, row2, rep2)
<1>1. w \in Gone => w2 \in Gone /\ rep2 = rep
  BY DEF Ages, Gone
<1>2. Collected(row2, rep) = Collected(row, rep)
  BY DEF Collected
<1> QED
  BY <1>1, <1>2 DEF Taken

LEMMA OnHost ==
    ASSUME Inv, WorkInv, [Next]_vars
    PROVE  (\E p \in Procs : Born(p)) \/ (\A i \in Id : Quiet(i))
<1> USE DEF Inv, TypeOK, WorkInv
<1>1. ASSUME UNCHANGED host PROVE \A i \in Id : Quiet(i)
  BY <1>1 DEF host, Quiet, Ages
<1> DEFINE Aged(i, w) == /\ worker[i] # "none" /\ w \in Gone
                         /\ worker' = [worker EXCEPT ![i] = w] /\ report' = report
<1>2. ASSUME NEW i, NEW w, Aged(i, w)
      PROVE  \A j \in Id : Quiet(j)
  BY <1>2 DEF Quiet, Ages, HostTypeOK
<1> HIDE DEF Aged
<1>3. ASSUME NEW p \in Procs, Step(p)
      PROVE  Born(p) \/ \A i \in Id : Quiet(i)
  <2>1. StartWorker(p) => Born(p)
    BY DEF StartWorker, Born
  <2>2. ASSUME Reap(p) PROVE \A i \in Id : Quiet(i)
    <3>1. ~Idle(p) /\ pc[p] = "reap"
      BY <2>2 DEF Reap, At, Idle
    <3>2. worker[On(p)] # "none"
      BY <3>1 DEF Seated, Placed
    <3>3. PICK i : i = On(p)
      OBVIOUS
    <3>4. Aged(i, "exited")
      BY <2>2, <3>2, <3>3 DEF Reap, Gone, Aged
    <3> QED
      BY <1>2, <3>4
  <2>3. ASSUME Signal(p) \/ SignalRefused(p) PROVE \A i \in Id : Quiet(i)
    <3>0. PICK i : i = On(p)
      OBVIOUS
    <3>1. UNCHANGED host \/ Aged(i, "exited")
      BY <2>3, <3>0 DEF Signal, SignalRefused, Recognised, SignalledState, host, Gone, Aged
    <3> QED
      BY <1>1, <1>2, <3>1
  <2>4. ASSUME ~(StartWorker(p) \/ Reap(p) \/ Signal(p) \/ SignalRefused(p))
        PROVE  UNCHANGED host
    BY <1>3, <2>4 DEF Step, SpawnFails, RecordIdentity, IdentityMissed, ReadEnded, ReadPid,
       ReadNoPid, LookDead, LookAlive, LookUnsure, Touch, CollectRead, Record, RecordLost,
       RecordFails, AdmitRetry, RetryRejected, host
  <2> QED
    BY <1>1, <2>1, <2>2, <2>3, <2>4
<1>4. ASSUME NEW p \in Procs, Start(p) \/ Expire(p) \/ Crash(p)
      PROVE  UNCHANGED host
  BY <1>4 DEF Start, StartSpawn, StartWatch, StartRetry, Expire, Crash
<1>5. CancelByRun \/ Prune \/ ReportTokens \/ UNCHANGED vars => UNCHANGED host
  BY DEF CancelByRun, Prune, ReportTokens, vars, host
<1>6. ASSUME WorkerReports PROVE \A i \in Id : Quiet(i)
  <2>1. PICK i, r : /\ worker[i] = "alive" /\ report' = [report EXCEPT ![i] = r]
                    /\ worker' = worker
    BY <1>6 DEF WorkerReports
  <2> QED
    BY <2>1 DEF Quiet, Ages, HostTypeOK
<1>7. ASSUME WorkerExits \/ PidReused PROVE \A i \in Id : Quiet(i)
  <2>1. PICK i, w : Aged(i, w)
    BY <1>7 DEF WorkerExits, PidReused, Gone, Aged
  <2> QED
    BY <1>2, <2>1
<1> QED
  BY <1>1, <1>3, <1>4, <1>5, <1>6, <1>7 DEF Next, Environment

LEMMA CreatedLater ==
    ASSUME Inv, [Next]_vars, NEW i \in Created
    PROVE  i \in Id /\ i \in Created' /\ Later(rows[i], rows'[i])
<1> USE DEF Inv, TypeOK
<1>1. DbStep /\ i \in Id
  BY StepOnDb, NextIdType
<1>2. CASE Admits
  <2>1. PICK req \in Request : Admissible(rows, req) /\ Admit(req)
    BY <1>2 DEF Admits
  <2>2. rows'[i] = rows[i]
    BY <1>1, <2>1, NextIdType DEF Admit, DbTypeOK
  <2>3. Len(issued') = Len(issued) + 1 /\ Len(issued) \in Nat
    BY <2>1, NewRowType DEF Admit, DbTypeOK
  <2> QED
    BY <1>1, <2>2, <2>3 DEF Created, Later
<1>3. CASE ~Admits
  BY <1>1, <1>3, RowsLater DEF Created
<1> QED
  BY <1>2, <1>3

(* A process that does not move stays where it may be.                     *)
LEMMA OthersSeated ==
    ASSUME Inv, WorkInv, [Next]_vars, NEW q \in Procs,
           pc'[q] = pc[q], cmd'[q] = cmd[q], out'[q] = out[q]
    PROVE  Seated(q)'
<1> USE DEF WorkInv
<1>1. CASE Idle(q)
  BY <1>1 DEF Seated, Idle
<1>2. CASE ~Idle(q)
  <2> DEFINE i == On(q)
  <2>1. /\ i \in Created
        /\ Placed(pc[q], cmd[q], out[q], worker[i], rows[i], report[i])
    BY <1>2 DEF Seated
  <2>2. On(q)' = i
    BY DEF On
  <2>3. i \in Id /\ i \in Created' /\ Later(rows[i], rows'[i])
    BY <2>1, CreatedLater
  <2>4. CASE Quiet(i)
    <3>1. Placed(pc[q], cmd[q], out[q], worker'[i], rows'[i], report'[i])
      BY <2>1, <2>3, <2>4, PlacedKept DEF Quiet
    <3> QED
      BY <2>2, <2>3, <3>1 DEF Seated
  <2>5. ASSUME NEW p \in Procs, Born(p)
        PROVE  Placed(pc[q], cmd[q], out[q], worker'[i], rows'[i], report'[i])
    <3>1. pc[p] = "start" /\ pc'[p] = "identify" /\ p # q
      BY <2>5 DEF Born, Goto, At, Inv, TypeOK, ControlTypeOK
    <3>2. cmd[p].op = "spawn" /\ worker[On(p)] = "none" /\ On(p) \in Id
      BY <3>1, NextIdType DEF Seated, Placed, Idle, Inv, TypeOK
    <3>3. rows' = rows /\ report' = report /\ worker' = [worker EXCEPT ![On(p)] = "alive"]
      BY <2>5 DEF Born, db
    <3>4. CASE On(p) = i
      <4>1. worker'[i] = "alive" /\ worker[i] = "none" /\ cmd[q].op # "spawn"
        BY <3>1, <3>2, <3>3, <3>4 DEF OneSpawner, Op, Inv, TypeOK, HostTypeOK
      <4> QED
        BY <2>1, <3>3, <4>1, PlacedAtBirth
    <3>5. CASE On(p) # i
      <4>1. worker'[i] = worker[i]
        BY <2>3, <3>3, <3>5 DEF Inv, TypeOK, HostTypeOK
      <4> QED
        BY <2>1, <3>3, <4>1
    <3> QED
      BY <3>4, <3>5
  <2> QED
    BY <2>2, <2>3, <2>4, <2>5, OnHost DEF Seated
<1> QED
  BY <1>1, <1>2

(* A watcher has recorded neither a spawner's outcome nor an unseen one.   *)
LEMMA ConcludeSeated ==
    ASSUME Inv, [Next]_vars, NEW p \in Procs, On(p) \in Created, UNCHANGED cmd,
           NEW o, Conclude(p, o), o.source # "collect",
           Op(p) = "spawn" => worker'[On(p)] # "alive"
    PROVE  Seated(p)'
<1>1. pc'[p] = "record" /\ out'[p] = o /\ cmd'[p] = cmd[p] /\ On(p)' = On(p)
  BY DEF Conclude, Goto, On, Inv, TypeOK, ControlTypeOK
<1>2. On(p) \in Created'
  BY CreatedLater
<1> QED
  BY <1>1, <1>2 DEF Seated, Placed, Op

LEMMA PollAgainSeated ==
    ASSUME Inv, [Next]_vars, NEW p \in Procs, On(p) \in Created, PollAgain(p)
    PROVE  Seated(p)'
<1>1. CASE Finish(p)
  BY <1>1 DEF Finish, Goto, Seated, Idle, Inv, TypeOK, ControlTypeOK
<1>2. CASE Op(p) = "wait" /\ Goto(p, "begin") /\ UNCHANGED <<cmd, out>>
  <2>1. pc'[p] = "begin" /\ cmd'[p] = cmd[p] /\ On(p)' = On(p) /\ cmd[p].op # "spawn"
    BY <1>2 DEF Goto, On, Op, Inv, TypeOK, ControlTypeOK
  <2>2. On(p) \in Created'
    BY CreatedLater
  <2> QED
    BY <2>1, <2>2 DEF Seated, Placed
<1> QED
  BY <1>1, <1>2 DEF PollAgain

LEMMA StepSeated ==
    ASSUME Inv, WorkInv, [Next]_vars, NEW p \in Procs, Step(p)
    PROVE  Seated(p)'
<1> USE DEF Inv, TypeOK
<1> DEFINE i == On(p)
<1>1. ~Idle(p)
  BY DEF Step, Idle, At, StartWorker, SpawnFails, RecordIdentity, IdentityMissed,
     Reap, ReadEnded, ReadPid, ReadNoPid, LookDead, LookAlive, LookUnsure, Signal,
     SignalRefused, Touch, CollectRead, Record, RecordLost, RecordFails, AdmitRetry,
     RetryRejected
<1>2. /\ i \in Created /\ i \in Id /\ i \in Created'
      /\ Placed(pc[p], cmd[p], out[p], worker[i], rows[i], report[i])
  BY <1>1, CreatedLater DEF WorkInv, Seated
<1>3. /\ rows[i].pid => worker[i] # "none"
      /\ worker[i] \in WorkerState /\ worker[i] # "harmed"
  BY <1>2 DEF WorkInv, WorkersKnown, HostTypeOK
<1> DEFINE Moves(label) == Goto(p, label) /\ UNCHANGED <<cmd, out>>
<1>4. ASSUME NEW label, Moves(label)
      PROVE  pc'[p] = label /\ cmd'[p] = cmd[p] /\ out'[p] = out[p] /\ On(p)' = i
  BY <1>4 DEF Goto, On, ControlTypeOK
<1>5. CASE Finish(p)
  BY <1>5 DEF Finish, Goto, Seated, Idle, ControlTypeOK
<1>6. CASE StartWorker(p)
  <2>1. pc[p] = "start" /\ worker'[i] = "alive" /\ Moves("identify")
    BY <1>2, <1>6 DEF StartWorker, At, HostTypeOK
  <2>2. cmd[p].op = "spawn"
    BY <1>2, <2>1 DEF Placed
  <2> QED
    BY <1>2, <1>4, <2>1, <2>2 DEF Seated, Placed
<1>7. CASE SpawnFails(p)
  <2>1. pc[p] = "start" /\ worker' = worker /\ UNCHANGED cmd /\ Conclude(p, SpawnFailed)
    BY <1>7 DEF SpawnFails, At, host
  <2>2. worker'[i] # "alive" /\ SpawnFailed.source # "collect"
    BY <1>2, <2>1 DEF Placed, SpawnFailed, Ended
  <2> QED
    BY <1>2, <2>1, <2>2, ConcludeSeated
<1>8. CASE IdentityMissed(p)
  <2>1. pc[p] = "identify" /\ worker' = worker /\ Moves("reap")
    BY <1>8 DEF IdentityMissed, At, host
  <2>2. cmd[p].op = "spawn" /\ worker'[i] # "none"
    BY <1>2, <2>1 DEF Placed
  <2> QED
    BY <1>2, <1>4, <2>1, <2>2 DEF Seated, Placed
<1>9. CASE Reap(p)
  <2>1. worker'[i] = "exited" /\ UNCHANGED cmd /\ Conclude(p, Indeterminate("spawn"))
    BY <1>2, <1>9 DEF Reap, HostTypeOK
  <2>2. Indeterminate("spawn").source # "collect"
    BY DEF Indeterminate
  <2> QED
    BY <1>2, <2>1, <2>2, ConcludeSeated
<1>10. /\ \A status : Interrupted(rows[i], status).source # "collect"
       /\ Indeterminate("kill").source # "collect"
  BY DEF Interrupted, Indeterminate, Ended
<1>11. CASE ReadPid(p)
  <2>1. pc[p] = "begin" /\ worker' = worker /\ Moves("look") /\ rows[i].pid
    BY <1>11 DEF ReadPid, At, host
  <2>2. cmd[p].op # "spawn" /\ worker'[i] # "none"
    BY <1>2, <1>3, <2>1 DEF Placed
  <2> QED
    BY <1>2, <1>4, <2>1, <2>2 DEF Seated, Placed
<1>12. CASE ReadNoPid(p)
  <2>1. pc[p] = "begin"
    BY <1>12 DEF ReadNoPid, At
  <2>2. Op(p) # "spawn"
    BY <1>2, <2>1 DEF Placed, Op
  <2>3. PollAgain(p) \/ (UNCHANGED cmd /\ \E status : Conclude(p, Interrupted(rows[i], status)))
    BY <1>12 DEF ReadNoPid
  <2> QED
    BY <1>2, <1>10, <2>2, <2>3, ConcludeSeated, PollAgainSeated
<1>13. CASE LookDead(p)
  <2>1. pc[p] = "look" /\ worker' = worker /\ Moves("collect") /\ worker[i] # "alive"
    BY <1>13 DEF LookDead, SeemsDead, At, host
  <2>2. cmd[p].op # "spawn" /\ worker'[i] \in Gone
    BY <1>2, <1>3, <2>1 DEF Placed, Gone, WorkerState
  <2> QED
    BY <1>2, <1>4, <2>1, <2>2 DEF Seated, Placed
<1>14. CASE LookAlive(p)
  <2>1. /\ pc[p] = "look" /\ worker' = worker
        /\ \E label \in {"signal", "touch"} : Moves(label)
    BY <1>14 DEF LookAlive, At, host
  <2>2. cmd[p].op # "spawn" /\ worker'[i] # "none"
    BY <1>2, <2>1 DEF Placed
  <2> QED
    BY <1>2, <1>4, <2>1, <2>2 DEF Seated, Placed
<1>15. CASE LookUnsure(p)
  <2>1. pc[p] = "look"
    BY <1>15 DEF LookUnsure, At
  <2>2. Op(p) # "spawn"
    BY <1>2, <2>1 DEF Placed, Op
  <2>3. PollAgain(p) \/ (UNCHANGED cmd /\ Conclude(p, Indeterminate("kill")))
    BY <1>15 DEF LookUnsure
  <2> QED
    BY <1>2, <1>10, <2>2, <2>3, ConcludeSeated, PollAgainSeated
<1>16. CASE Signal(p) \/ SignalRefused(p)
  <2>1. pc[p] = "signal"
    BY <1>16 DEF Signal, SignalRefused, At
  <2>2. Op(p) # "spawn"
    BY <1>2, <2>1 DEF Placed, Op
  <2>3. /\ UNCHANGED cmd
        /\ Conclude(p, Indeterminate("kill")) \/ \E status : Conclude(p, Interrupted(rows[i], status))
    BY <1>16 DEF Signal, SignalRefused
  <2> QED
    BY <1>2, <1>10, <2>2, <2>3, ConcludeSeated
<1>17. CASE Touch(p)
  BY <1>2, <1>17, PollAgainSeated DEF Touch
<1>18. CASE CollectRead(p) /\ ~Finish(p)
  <2>1. /\ pc[p] = "collect" /\ UNCHANGED <<rows, worker, report, cmd>>
        /\ Conclude(p, Collected(rows[i], report[i]))
    BY <1>18 DEF CollectRead, At, db, host
  <2>2. /\ pc'[p] = "record" /\ out'[p] = Collected(rows[i], report[i]) /\ cmd'[p] = cmd[p]
        /\ On(p)' = i
    BY <2>1 DEF Conclude, Goto, On, ControlTypeOK
  <2>3. cmd[p].op # "spawn" /\ worker'[i] \in Gone
    BY <1>2, <2>1 DEF Placed
  <2> QED
    BY <1>2, <2>1, <2>2, <2>3 DEF Seated, Placed
<1>19. ReadEnded(p) \/ RecordIdentity(p) \/ Record(p) \/ RecordLost(p) \/ RecordFails(p)
         \/ AdmitRetry(p) \/ RetryRejected(p) => Finish(p)
  BY DEF ReadEnded, RecordIdentity, Record, RecordLost, RecordFails, AdmitRetry, RetryRejected
<1> QED
  BY <1>5, <1>6, <1>7, <1>8, <1>9, <1>11, <1>12, <1>13, <1>14, <1>15, <1>16, <1>17, <1>18,
     <1>19 DEF Step

LEMMA StartSeated ==
    ASSUME Inv, WorkInv, [Next]_vars, NEW p \in Procs, Start(p) \/ Expire(p) \/ Crash(p)
    PROVE  Seated(p)'
<1> USE DEF Inv, TypeOK
<1>1. CASE StartSpawn(p)
  <2>1. /\ pc'[p] = "start" /\ cmd'[p] = [op |-> "spawn", id |-> NextId]
        /\ On(p)' = NextId /\ UNCHANGED <<worker, report>>
    BY <1>1 DEF StartSpawn, Goto, On, ControlTypeOK, host
  <2>2. PICK req \in Requests : Admissible(rows, req) /\ Admit(req)
    BY <1>1 DEF StartSpawn
  <2>3. req \in Request
    BY DispatchAssumption
  <2>4. NextId \in Created'
    BY <2>2, <2>3, NewRowType DEF Admit, Created, NextId, DbTypeOK
  <2>5. worker[NextId] = "none"
    BY <1>1, NextIdType DEF StartSpawn, WorkInv, WorkersKnown
  <2> QED
    BY <2>1, <2>4, <2>5 DEF Seated, Placed
<1>2. CASE StartWatch(p)
  <2>1. /\ pc'[p] = "begin" /\ cmd'[p].op \in Watches /\ On(p)' \in Created
        /\ issued' = issued
    BY <1>2 DEF StartWatch, Goto, On, ControlTypeOK, db
  <2> QED
    BY <2>1 DEF Seated, Placed, Created, Watches
<1>3. CASE StartRetry(p)
  <2>1. /\ pc'[p] = "admit" /\ cmd'[p].op = "retry" /\ On(p)' \in Created
        /\ issued' = issued
    BY <1>3 DEF StartRetry, Goto, On, ControlTypeOK, db
  <2> QED
    BY <2>1 DEF Seated, Placed, Created
<1>4. CASE Expire(p)
  <2>1. ~Idle(p)
    BY <1>4 DEF Expire, Op, ControlTypeOK, NoCommand
  <2>2. On(p) \in Created
    BY <2>1 DEF WorkInv, Seated
  <2>3. cmd' = [cmd EXCEPT ![p] = [cmd[p] EXCEPT !.op = "timeout"]]
    BY <1>4 DEF Expire, ControlTypeOK
  <2>4. cmd[p] \in Command
    BY <2>1 DEF ControlTypeOK
  <2>5. /\ pc'[p] = "begin" /\ cmd'[p].op = "timeout" /\ On(p)' = On(p) /\ issued' = issued
    BY <1>4, <2>3, <2>4 DEF Expire, Goto, On, ControlTypeOK, db, Command
  <2> QED
    BY <2>2, <2>5 DEF Seated, Placed, Created
<1>5. CASE Crash(p)
  BY <1>5 DEF Crash, Finish, Goto, Seated, Idle, ControlTypeOK
<1> QED
  BY <1>1, <1>2, <1>3, <1>4, <1>5 DEF Start

(* One process moves, or none.                                             *)
LEMMA OneMoves ==
    ASSUME ControlTypeOK, [Next]_vars
    PROVE  \/ UNCHANGED <<pc, cmd, out>>
           \/ \E p \in Procs :
                /\ Step(p) \/ Start(p) \/ Expire(p) \/ Crash(p)
                /\ \A q \in Procs \ {p} : pc'[q] = pc[q] /\ cmd'[q] = cmd[q] /\ out'[q] = out[q]
<1> DEFINE Alone(p) ==
      \A q \in Procs \ {p} : pc'[q] = pc[q] /\ cmd'[q] = cmd[q] /\ out'[q] = out[q]
<1>1. ASSUME NEW p \in Procs, Finish(p) PROVE Alone(p)
  BY <1>1 DEF Finish, Goto, ControlTypeOK
<1>2. ASSUME NEW p \in Procs, NEW label, Goto(p, label),
             UNCHANGED cmd \/ \E c : cmd' = [cmd EXCEPT ![p] = c],
             UNCHANGED out \/ \E o : out' = [out EXCEPT ![p] = o]
      PROVE  Alone(p)
  BY <1>2 DEF Goto, ControlTypeOK
<1>3. ASSUME NEW p \in Procs, NEW o, Conclude(p, o), UNCHANGED cmd PROVE Alone(p)
  BY <1>2, <1>3 DEF Conclude
<1>4. ASSUME NEW p \in Procs, PollAgain(p) PROVE Alone(p)
  BY <1>1, <1>2, <1>4 DEF PollAgain
<1> HIDE DEF Alone
<1>5. ASSUME NEW p \in Procs, Step(p) PROVE Alone(p)
  <2>1. StartWorker(p) \/ IdentityMissed(p) \/ ReadPid(p) \/ LookDead(p) \/ LookAlive(p)
          => UNCHANGED <<cmd, out>> /\ \E label : Goto(p, label)
    BY DEF StartWorker, IdentityMissed, ReadPid, LookDead, LookAlive
  <2>2. SpawnFails(p) \/ Reap(p) \/ Signal(p) \/ SignalRefused(p)
          => UNCHANGED cmd /\ \E o : Conclude(p, o)
    BY DEF SpawnFails, Reap, Signal, SignalRefused
  <2>3. ReadEnded(p) \/ RecordIdentity(p) \/ Record(p) \/ RecordLost(p) \/ RecordFails(p)
          \/ AdmitRetry(p) \/ RetryRejected(p) => Finish(p)
    BY DEF ReadEnded, RecordIdentity, Record, RecordLost, RecordFails, AdmitRetry, RetryRejected
  <2>4. ReadNoPid(p) \/ LookUnsure(p) \/ Touch(p) \/ CollectRead(p)
          => Finish(p) \/ PollAgain(p) \/ (UNCHANGED cmd /\ \E o : Conclude(p, o))
    BY DEF ReadNoPid, LookUnsure, Touch, CollectRead
  <2> QED
    BY <1>1, <1>2, <1>3, <1>4, <1>5, <2>1, <2>2, <2>3, <2>4 DEF Step
<1>6. ASSUME NEW p \in Procs, Start(p) PROVE Alone(p)
  <2>1. /\ UNCHANGED out /\ \E label : Goto(p, label)
        /\ \E c : cmd' = [cmd EXCEPT ![p] = c]
    BY <1>6 DEF Start, StartSpawn, StartWatch, StartRetry
  <2> QED
    BY <1>2, <2>1
<1>7. ASSUME NEW p \in Procs, Expire(p) PROVE Alone(p)
  <2>1. cmd' = [cmd EXCEPT ![p] = [cmd[p] EXCEPT !.op = "timeout"]]
    BY <1>7 DEF Expire, ControlTypeOK
  <2> QED
    BY <1>2, <1>7, <2>1 DEF Expire
<1>8. Environment \/ UNCHANGED vars => UNCHANGED <<pc, cmd, out>>
  BY DEF Environment, CancelByRun, Prune, ReportTokens, WorkerReports, WorkerExits,
     PidReused, vars
<1>9. ASSUME NEW p \in Procs, Crash(p) PROVE Alone(p)
  BY <1>1, <1>9 DEF Crash
<1> QED
  BY <1>5, <1>6, <1>7, <1>8, <1>9 DEF Next, Alone

LEMMA AllSeated ==
    ASSUME Inv, WorkInv, [Next]_vars, NEW q \in Procs
    PROVE  Seated(q)'
<1>1. CASE UNCHANGED <<pc, cmd, out>>
  BY <1>1, OthersSeated
<1>2. ASSUME NEW p \in Procs, Step(p) \/ Start(p) \/ Expire(p) \/ Crash(p),
             \A r \in Procs \ {p} : pc'[r] = pc[r] /\ cmd'[r] = cmd[r] /\ out'[r] = out[r]
      PROVE  Seated(q)'
  <2>1. CASE p = q
    BY <1>2, <2>1, StepSeated, StartSeated
  <2>2. CASE p # q
    BY <1>2, <2>2, OthersSeated
  <2> QED
    BY <2>1, <2>2
<1> QED
  BY <1>1, <1>2, OneMoves DEF Inv, TypeOK

(* Only an admission makes a spawner.                                      *)
LEMMA OnlySpawnSpawns ==
    ASSUME Inv, [Next]_vars, NEW q \in Procs, Op(q)' = "spawn"
    PROVE  cmd'[q] = cmd[q] \/ StartSpawn(q)
<1> USE DEF Inv, TypeOK, Op
<1>1. CASE UNCHANGED <<pc, cmd, out>>
  BY <1>1
<1>2. ASSUME NEW p \in Procs, Step(p) \/ Start(p) \/ Expire(p) \/ Crash(p),
             \A r \in Procs \ {p} : pc'[r] = pc[r] /\ cmd'[r] = cmd[r] /\ out'[r] = out[r]
      PROVE  cmd'[q] = cmd[q] \/ StartSpawn(q)
  <2>1. CASE p # q
    BY <1>2, <2>1
  <2>2. CASE p = q
    <3>1. ~Finish(q)
      BY DEF Finish, NoCommand, ControlTypeOK
    <3>2. Step(q) => UNCHANGED cmd
      BY <3>1 DEF Step, StartWorker, SpawnFails, RecordIdentity, IdentityMissed,
         Reap, ReadEnded, ReadPid, ReadNoPid, LookDead, LookAlive, LookUnsure, Signal,
         SignalRefused, Touch, CollectRead, Record, RecordLost, RecordFails, AdmitRetry,
         RetryRejected, PollAgain
    <3>3. ~StartWatch(q) /\ ~StartRetry(q)
      BY DEF StartWatch, StartRetry, Watches, ControlTypeOK
    <3>4. ~Expire(q)
      <4>1. Expire(q) => cmd' = [cmd EXCEPT ![q] = [cmd[q] EXCEPT !.op = "timeout"]]
        BY DEF Expire, ControlTypeOK
      <4>2. Expire(q) => cmd[q] \in Command
        BY DEF Expire, ControlTypeOK, NoCommand
      <4> QED
        BY <4>1, <4>2 DEF Command, ControlTypeOK
    <3>5. ~Crash(q)
      BY <3>1 DEF Crash
    <3> QED
      BY <1>2, <2>2, <3>2, <3>3, <3>4, <3>5 DEF Start
  <2> QED
    BY <2>1, <2>2
<1> QED
  BY <1>1, <1>2, OneMoves

LEMMA OneSpawnerKept ==
    ASSUME Inv, WorkInv, [Next]_vars
    PROVE  OneSpawner'
<1> USE DEF Inv, TypeOK
<1> SUFFICES ASSUME NEW p \in Procs, NEW q \in Procs, p # q,
                    Op(p)' = "spawn", Op(q)' = "spawn"
             PROVE  On(p)' # On(q)'
  BY DEF OneSpawner
<1>1. ASSUME NEW r \in Procs, NEW s \in Procs, r # s, StartSpawn(r), Op(s)' = "spawn"
      PROVE  On(r)' # On(s)'
  <2>1. On(r)' = NextId /\ cmd'[s] = cmd[s]
    BY <1>1 DEF StartSpawn, On, ControlTypeOK
  <2>2. ~Idle(s)
    BY <1>1, <2>1 DEF Op, NoCommand, ControlTypeOK
  <2>3. On(s) \in Created
    BY <2>2 DEF WorkInv, Seated
  <2> QED
    BY <2>1, <2>3, NextIdType DEF On
<1>2. CASE cmd'[p] = cmd[p] /\ cmd'[q] = cmd[q]
  BY <1>2 DEF WorkInv, OneSpawner, Op, On
<1> QED
  BY <1>1, <1>2, OnlySpawnSpawns

(* A PID is recorded by the spawner that started the worker.               *)
LEMMA PidRecorded ==
    ASSUME Inv, DbStep, NEW i \in Id, rows'[i].pid
    PROVE  rows[i].pid \/ \E p \in Procs : At(p, "identify") /\ On(p) = i
<1> USE DEF Inv, TypeOK
<1>1. CASE Refreshes
  <2>1. PICK j \in Id, new \in Row :
          /\ rows' = [rows EXCEPT ![j] = new]
          /\ new.pid => rows[j].pid \/ \E p \in Procs : At(p, "identify") /\ On(p) = j
    BY <1>1 DEF Refreshes
  <2> QED
    BY <2>1 DEF DbTypeOK
<1>2. CASE Admits
  <2>1. PICK req : rows' = [rows EXCEPT ![NextId] = NewRow(rows, req)]
    BY <1>2 DEF Admits, Admit
  <2>2. NewRow(rows, req).pid = FALSE
    BY DEF NewRow
  <2> QED
    BY <2>1, <2>2 DEF DbTypeOK
<1>3. CASE Ends
  <2>1. PICK j, o, tokens : rows' = [rows EXCEPT ![j] = EndRow(rows[j], o, tokens)]
    BY <1>3 DEF Ends, Terminalize, DbTypeOK
  <2>2. j \in Id => EndRow(rows[j], o, tokens).pid = rows[j].pid
    BY DEF EndRow, DbTypeOK, Row
  <2> QED
    BY <2>1, <2>2 DEF DbTypeOK
<1>4. CASE Cancels
  <2>1. \A o : EndRow(rows[i], o, rows[i].tokens).pid = rows[i].pid
    BY DEF EndRow, DbTypeOK, Row
  <2> QED
    BY <1>4, <2>1 DEF Cancels
<1>5. CASE Prunes
  BY <1>5 DEF Prunes, NoRow
<1>6. CASE UNCHANGED db
  BY <1>6 DEF db
<1> QED
  BY <1>1, <1>2, <1>3, <1>4, <1>5, <1>6 DEF DbStep

(* Only a recorded collection makes a terminal record a collected one.     *)
LEMMA TakenStep ==
    ASSUME Inv, WorkInv, DbStep, NEW i \in Id, Quiet(i)
    PROVE  Taken(terminals'[i], worker'[i], rows'[i], report'[i])
<1> USE DEF Inv, TypeOK
<1>1. Taken(terminals[i], worker[i], rows[i], report[i])
  BY DEF WorkInv, WorkersKnown
<1>2. ASSUME terminals'[i] = terminals[i], rows'[i].agent = rows[i].agent
      PROVE  Taken(terminals'[i], worker'[i], rows'[i], report'[i])
  BY <1>1, <1>2, TakenKept DEF Quiet
<1>3. ASSUME terminals'[i].source # "collect"
      PROVE  Taken(terminals'[i], worker'[i], rows'[i], report'[i])
  BY <1>3 DEF Taken
<1>4. NoOutcome.source # "collect"
  BY DEF NoOutcome
<1>5. CASE Admits
  <2>1. PICK req : rows' = [rows EXCEPT ![NextId] = NewRow(rows, req)]
    BY <1>5 DEF Admits, Admit
  <2>2. CASE i = NextId
    <3>1. terminals[i] = NoOutcome
      BY <2>2, NextIdType DEF UnissuedAbsent, RecordAgrees, NoRow, IsTerminal, TerminalStatus
    <3> QED
      BY <1>3, <1>4, <1>5, <3>1 DEF Admits
  <2>3. CASE i # NextId
    BY <1>2, <1>5, <2>1, <2>3 DEF Admits, DbTypeOK
  <2> QED
    BY <2>2, <2>3
<1>6. CASE Ends
  <2>1. PICK j \in Id, o \in Outcome :
          /\ IsActive(rows[j]) /\ Terminalize(j, o)
          /\ \E p \in Procs : At(p, "record") /\ On(p) = j /\ out[p] = o
    BY <1>6 DEF Ends
  <2>2. PICK tokens : rows' = [rows EXCEPT ![j] = EndRow(rows[j], o, tokens)]
    BY <2>1 DEF Terminalize, DbTypeOK
  <2>3. terminals' = [terminals EXCEPT ![j] = o]
    BY <2>1 DEF Terminalize
  <2>4. CASE i # j
    BY <1>2, <2>2, <2>3, <2>4 DEF DbTypeOK
  <2>5. CASE i = j
    <3>1. PICK p \in Procs : At(p, "record") /\ On(p) = i /\ out[p] = o
      BY <2>1, <2>5
    <3>2. Placed("record", cmd[p], o, worker[i], rows[i], report[i])
      BY <3>1 DEF WorkInv, Seated, Idle, At
    <3>3. Taken(o, worker[i], rows[i], report[i])
      BY <2>1, <2>5, <3>2 DEF Placed, Taken
    <3>4. terminals'[i] = o /\ rows'[i].agent = rows[i].agent
      BY <2>2, <2>3, <2>5 DEF DbTypeOK, EndRow, Row
    <3> QED
      BY <3>3, <3>4, TakenKept DEF Quiet
  <2> QED
    BY <2>4, <2>5
<1>7. CASE Refreshes
  <2>1. PICK j \in Id, new \in Row : Refreshed(rows[j], new) /\ rows' = [rows EXCEPT ![j] = new]
    BY <1>7 DEF Refreshes
  <2>2. rows'[i].agent = rows[i].agent
    BY <2>1 DEF Refreshed, DbTypeOK
  <2> QED
    BY <1>2, <1>7, <2>2 DEF Refreshes
<1>8. CASE Cancels
  <2> DEFINE o == Ended("cancelled", "cancel_by_run")
  <2>1. o.source # "collect"
    BY DEF Ended
  <2> HIDE DEF o
  <2>2. terminals'[i] = o \/ (terminals'[i] = terminals[i] /\ rows'[i] = rows[i])
    BY <1>8 DEF Cancels, o
  <2> QED
    BY <1>2, <1>3, <2>1, <2>2
<1>9. CASE Prunes
  <2>1. terminals'[i] = NoOutcome \/ (terminals'[i] = terminals[i] /\ rows'[i] = rows[i])
    BY <1>9 DEF Prunes
  <2> QED
    BY <1>2, <1>3, <1>4, <2>1
<1>10. CASE UNCHANGED db
  BY <1>2, <1>10 DEF db
<1> QED
  BY <1>5, <1>6, <1>7, <1>8, <1>9, <1>10 DEF DbStep

LEMMA WorkersKnownKept ==
    ASSUME Inv, WorkInv, [Next]_vars
    PROVE  WorkersKnown'
<1> USE DEF Inv, TypeOK
<1>1. DbStep
  BY StepOnDb
<1>2. \A i \in Id : i \in Created => i \in Created'
  BY CreatedLater
<1> SUFFICES ASSUME NEW i \in Id
             PROVE  /\ worker'[i] # "harmed"
                    /\ i \notin Created' => worker'[i] = "none"
                    /\ rows'[i].pid => worker'[i] # "none"
                    /\ Taken(terminals'[i], worker'[i], rows'[i], report'[i])
  BY DEF WorkersKnown
<1>3. /\ worker[i] # "harmed"
      /\ i \notin Created => worker[i] = "none"
      /\ rows[i].pid => worker[i] # "none"
      /\ Taken(terminals[i], worker[i], rows[i], report[i])
  BY DEF WorkInv, WorkersKnown
<1>4. rows'[i].pid => worker[i] # "none"
  <2>1. ASSUME NEW p \in Procs, At(p, "identify"), On(p) = i
        PROVE  worker[i] # "none"
    BY <2>1 DEF WorkInv, Seated, Placed, At, Idle
  <2> QED
    BY <1>1, <1>3, <2>1, PidRecorded
<1>5. CASE Quiet(i)
  <2>1. worker'[i] # "harmed" /\ (worker[i] = "none" <=> worker'[i] = "none")
    BY <1>3, <1>5 DEF Quiet, Ages, Gone
  <2> QED
    BY <1>1, <1>2, <1>3, <1>4, <1>5, <2>1, TakenStep
<1>6. ASSUME NEW p \in Procs, Born(p)
      PROVE  /\ worker'[i] # "harmed"
             /\ i \notin Created' => worker'[i] = "none"
             /\ rows'[i].pid => worker'[i] # "none"
             /\ Taken(terminals'[i], worker'[i], rows'[i], report'[i])
  <2>1. On(p) \in Created /\ worker[On(p)] = "none"
    BY <1>6 DEF Born, At, WorkInv, Seated, Placed, Idle
  <2>2. /\ UNCHANGED <<rows, terminals, report>>
        /\ worker'[i] = IF i = On(p) THEN "alive" ELSE worker[i]
    BY <1>6 DEF Born, db, HostTypeOK
  <2>3. i = On(p) => terminals[i].source # "collect"
    BY <1>3, <2>1 DEF Taken, Gone
  <2> QED
    BY <1>2, <1>3, <2>1, <2>2, <2>3 DEF Taken
<1> QED
  BY <1>5, <1>6, OnHost

LEMMA InitWork == Init => WorkInv
<1> SUFFICES ASSUME Init PROVE WorkInv
  OBVIOUS
<1>1. \A p \in Procs : Seated(p) /\ Op(p) = "none"
  BY DEF Init, Seated, Idle, Op, NoCommand
<1>2. WorkersKnown
  BY DEF Init, WorkersKnown, Taken, NoOutcome, NoRow
<1> QED
  BY <1>1, <1>2 DEF WorkInv, OneSpawner

LEMMA StepWork == Inv /\ WorkInv /\ [Next]_vars => WorkInv'
  BY AllSeated, OneSpawnerKept, WorkersKnownKept DEF WorkInv

(* A result is collected from a worker that is gone and is what it left,   *)
(* and no process that merely has its PID is signalled: whoever polls,     *)
(* waits, kills and crashes in between (collect.go, process_identity.go).  *)
THEOREM CollectionsAreTrue == Spec => [](CollectedAfterExit /\ StrangersUnharmed)
<1>1. WorkInv => CollectedAfterExit /\ StrangersUnharmed
  BY DEF WorkInv, WorkersKnown, Taken, Gone, CollectedAfterExit, StrangersUnharmed
<1> QED
  BY <1>1, InitWork, StepWork, AlwaysInv, PTL DEF Spec

(* A spawner leaves its worker with the PID in the row, or dead.           *)
LEMMA SpawnerLeaves ==
    ASSUME Inv, WorkInv, [Next]_vars, "crash" \notin Faults, NEW p \in Procs, Op(p) = "spawn"
    PROVE  cmd'[p] = cmd[p] \/ RecordIdentity(p) \/ worker[On(p)] # "alive"
<1> USE DEF Inv, TypeOK
<1>1. CASE UNCHANGED <<pc, cmd, out>>
  BY <1>1
<1>2. ASSUME NEW q \in Procs, Step(q) \/ Start(q) \/ Expire(q) \/ Crash(q),
             \A r \in Procs \ {q} : pc'[r] = pc[r] /\ cmd'[r] = cmd[r] /\ out'[r] = out[r]
      PROVE  cmd'[p] = cmd[p] \/ RecordIdentity(p) \/ worker[On(p)] # "alive"
  <2>1. CASE p # q
    BY <1>2, <2>1
  <2>2. CASE p = q
    <3>1. ~Idle(p)
      BY DEF Op, NoCommand, ControlTypeOK
    <3>2. pc[p] \in {"start", "identify", "reap", "record"}
      BY <3>1 DEF WorkInv, Seated, Placed, Op, Idle, ControlTypeOK, Label
    <3>3. ~Start(p) /\ ~Expire(p) /\ ~Crash(p)
      BY <3>1 DEF Start, StartSpawn, StartWatch, StartRetry, Expire, Crash
    <3>4. pc[p] = "record" => worker[On(p)] # "alive"
      BY <3>1 DEF WorkInv, Seated, Placed, Op
    <3>5. Step(p) /\ pc[p] # "record" => RecordIdentity(p) \/ UNCHANGED cmd
      BY <3>2 DEF Step, At, StartWorker, SpawnFails, IdentityMissed, Reap, ReadEnded,
         ReadPid, ReadNoPid, LookDead, LookAlive, LookUnsure, Signal, SignalRefused, Touch,
         CollectRead, Record, RecordLost, RecordFails, AdmitRetry, RetryRejected
    <3> QED
      BY <1>2, <2>2, <3>3, <3>4, <3>5
  <2> QED
    BY <2>1, <2>2
<1> QED
  BY <1>1, <1>2, OneMoves

LEMMA LiveStep ==
    ASSUME Inv, WorkInv, [Next]_vars, "crash" \notin Faults, LiveWorkerGoverned
    PROVE  LiveWorkerGoverned'
<1> USE DEF Inv, TypeOK
<1> SUFFICES ASSUME NEW i \in Id, worker'[i] = "alive", IsActive(rows'[i])
             PROVE  rows'[i].pid \/ Spawning(i)'
  BY DEF LiveWorkerGoverned
<1>1. CASE \E p \in Procs : Born(p) /\ On(p) = i
  <2>1. PICK p \in Procs : Born(p) /\ On(p) = i
    BY <1>1
  <2>2. Op(p) = "spawn" /\ cmd' = cmd
    BY <2>1 DEF Born, At, WorkInv, Seated, Placed, Idle, Op
  <2> QED
    BY <2>1, <2>2 DEF Spawning, Op, On
<1>2. CASE ~\E p \in Procs : Born(p) /\ On(p) = i
  <2>1. worker[i] = "alive"
    <3>1. CASE Quiet(i)
      BY <3>1 DEF Quiet, Ages, Gone
    <3>2. ASSUME NEW p \in Procs, Born(p) PROVE worker[i] = "alive"
      BY <1>2, <3>2 DEF Born, HostTypeOK
    <3> QED
      BY <3>1, <3>2, OnHost
  <2>2. Later(rows[i], rows'[i])
    BY <2>1, CreatedLater DEF WorkInv, WorkersKnown
  <2>3. IsActive(rows[i]) /\ (rows[i].pid => rows'[i].pid)
    BY <2>2 DEF Later, NoRow, IsActive, ActiveStatus
  <2>4. CASE rows[i].pid
    BY <2>3, <2>4
  <2>5. CASE Spawning(i)
    <3>1. PICK p \in Procs : Op(p) = "spawn" /\ On(p) = i
      BY <2>5 DEF Spawning
    <3>2. CASE cmd'[p] = cmd[p]
      BY <3>1, <3>2 DEF Spawning, Op, On
    <3>3. CASE RecordIdentity(p)
      <4>1. rows' = [rows EXCEPT ![i] = [rows[i] EXCEPT !.status = "running", !.pid = TRUE]]
        BY <3>1, <3>3 DEF RecordIdentity, DbTypeOK
      <4> QED
        BY <4>1 DEF DbTypeOK, Row
    <3> QED
      BY <2>1, <3>1, <3>2, <3>3, SpawnerLeaves
  <2> QED
    BY <2>1, <2>3, <2>4, <2>5 DEF LiveWorkerGoverned
<1> QED
  BY <1>1, <1>2

(* While no process is killed, a live worker has besides a row that names  *)
(* it, or a spawner that is still on it (recordProcessIdentity, Kill).     *)
THEOREM WorkersStayGoverned == Spec /\ "crash" \notin Faults => []WorkersGoverned
<1>1. Init => LiveWorkerGoverned
  BY DEF Init, LiveWorkerGoverned
<1>2. CASE "crash" \notin Faults
  <2>1. Inv /\ WorkInv /\ LiveWorkerGoverned /\ [Next]_vars => LiveWorkerGoverned'
    BY <1>2, LiveStep
  <2>2. WorkInv /\ LiveWorkerGoverned => WorkersGoverned
    BY DEF WorkInv, WorkersKnown, Taken, Gone, CollectedAfterExit, StrangersUnharmed,
       WorkersGoverned
  <2> QED
    BY <1>1, <2>1, <2>2, InitWork, StepWork, AlwaysInv, PTL DEF Spec
<1> QED
  BY <1>2

-----------------------------------------------------------------------------
(* Budgets.                                                                *)

=============================================================================
