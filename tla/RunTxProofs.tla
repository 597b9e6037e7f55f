--------------------------- MODULE RunTxProofs ----------------------------
(***************************************************************************)
(* Proofs about RunTx, for every chain, every set of rules and any number  *)
(* of processes.  First facts about the phase chain, the gate and the      *)
(* statements on the run's record: the skip walk lands ahead of the run    *)
(* and inside the chain, and every statement of the phase store turns a    *)
(* well-formed record into a well-formed one.  From them the types, and    *)
(* that a transaction allowed to write decided on the truth.               *)
(*                                                                         *)
(* Then RunTx implements RunLifecycle: whatever processes interleave, each *)
(* commit is one atomic command on the database as it is.  What the atomic *)
(* commands do to the phase and the status then gives the invariants of    *)
(* the run's life, and what the gates promise of concurrent commands: an   *)
(* advance is justified by the database it commits to, and the close gate  *)
(* is neither lifted nor got around.                                       *)
(***************************************************************************)
EXTENDS RunTx, TLAPS

(* Where Advance goes: the walk past skipped phases ends inside the chain, *)
(* ahead of where it starts, and jumps over skipped phases only.           *)
LEMMA TargetFact ==
    ASSUME NEW from \in Phase, ~IsTerminal(from), NEW skipped
    PROVE  /\ Target(from, skipped) \in Phase
           /\ Target(from, skipped) > from
           /\ StopsAt(Target(from, skipped), skipped)
           /\ \A q \in from + 1 .. Target(from, skipped) - 1 : ~StopsAt(q, skipped)
<1>1. Len(Chain) \in Nat /\ Len(Chain) >= 2
  BY ChainAssumption
<1> DEFINE stops == {t \in Phase : t > from /\ StopsAt(t, skipped)}
<1>2. stops \subseteq Nat
  BY <1>1 DEF Phase
<1>3. Terminal \in stops
  BY <1>1 DEF Phase, Terminal, IsTerminal, StopsAt
<1>4. PICK t \in stops : \A u \in stops : ~(<<u, t>> \in OpToRel(<, Nat))
  <2>1. IsWellFoundedOn(OpToRel(<, Nat), Nat)
    BY NatLessThanWellFounded
  <2> QED
    BY <2>1, <1>2, <1>3, WFMin, Zenon
<1>5. \A u \in stops : ~(u < t)
  BY <1>2, <1>4 DEF OpToRel
<1>6. \A q \in from + 1 .. t - 1 : ~StopsAt(q, skipped)
  <2> SUFFICES ASSUME NEW q \in from + 1 .. t - 1, StopsAt(q, skipped) PROVE FALSE
    OBVIOUS
  <2>1. q \in Phase /\ q > from /\ q < t
    BY <1>1, <1>2 DEF Phase
  <2> QED
    BY <2>1, <1>5
<1>7. \E u \in Phase : /\ u > from /\ StopsAt(u, skipped)
                       /\ \A q \in from + 1 .. u - 1 : ~StopsAt(q, skipped)
  BY <1>6
<1> QED
  BY <1>7 DEF Target

-----------------------------------------------------------------------------

(* A gate evaluation yields a result and a tier the event row can hold.    *)
LEMMA GateType ==
    ASSUME NEW d, NEW cfg, NEW spec, NEW from, NEW to
    PROVE  /\ evaluateGate(d, cfg, spec, from, to).result \in GateResult
           /\ evaluateGate(d, cfg, spec, from, to).tier \in GateTier
  BY DEF evaluateGate, Tier, GateResult, GateTier

LEMMA EventIsPhaseEvent ==
    ASSUME NEW type \in EventType, NEW from \in Phase, NEW to \in Phase,
           NEW gate, gate.result \in GateResult, gate.tier \in GateTier
    PROVE  Event(type, from, to, gate) \in PhaseEvent
  BY DEF Event, PhaseEvent

LEMMA UngatedType ==
    /\ Ungated.result \in GateResult /\ Ungated.tier \in GateTier
    /\ HardFail.result \in GateResult /\ HardFail.tier \in GateTier
  BY DEF Ungated, HardFail, GateResult, GateTier

LEMMA AddEventType ==
    ASSUME NEW d \in Run, NEW e \in PhaseEvent
    PROVE  /\ AddEvent(d, e) \in Run
           /\ AddEvent(d, e) = [d EXCEPT !.log = Append(d.log, e)]
<1>1. d.log \in Seq(PhaseEvent)
  BY DEF Run
<1>2. Append(d.log, e) \in Seq(PhaseEvent)
  BY <1>1
<1> QED
  BY <1>2 DEF AddEvent, Run

(* The statements that write status and phase keep the record well formed. *)
LEMMA UpdatePhaseType ==
    ASSUME NEW d \in Run, NEW to \in Phase
    PROVE  UpdatePhase(d, to) \in Run
  BY DEF UpdatePhase, Run, Status

LEMMA AdvanceTargetType ==
    ASSUME NEW s \in Run, ~IsTerminal(s.phase)
    PROVE  /\ AdvanceTarget(s) \in Phase
           /\ AdvanceTarget(s) > s.phase
<1>1. s.phase \in Phase
  BY DEF Run
<1> QED
  BY <1>1, TargetFact DEF AdvanceTarget

(* Whatever a transaction of Advance decides on s, what it writes to d is a *)
(* well-formed record.                                                      *)
LEMMA AdvanceOutcomeType ==
    ASSUME NEW d \in Run, NEW s \in Run, ~IsTerminal(s.phase), NEW cfg, NEW spec
    PROVE  /\ Paused(d, s) \in Run
           /\ BlockedAt(d, s, cfg, spec) \in Run
           /\ Advanced(d, s, cfg, spec) \in Run
<1>1. s.phase \in Phase
  BY DEF Run
<1>2. AdvanceTarget(s) \in Phase
  BY AdvanceTargetType
<1>3. /\ Gate(s, cfg, spec).result \in GateResult
      /\ Gate(s, cfg, spec).tier \in GateTier
  BY GateType DEF Gate
<1>4. Paused(d, s) \in Run
  <2>1. Event("pause", s.phase, AdvanceTarget(s), Ungated) \in PhaseEvent
    BY <1>1, <1>2, UngatedType, EventIsPhaseEvent DEF EventType
  <2> QED
    BY <2>1, AddEventType DEF Paused
<1>5. BlockedAt(d, s, cfg, spec) \in Run
  <2>1. Event("block", s.phase, AdvanceTarget(s), Gate(s, cfg, spec)) \in PhaseEvent
    BY <1>1, <1>2, <1>3, EventIsPhaseEvent DEF EventType
  <2> QED
    BY <2>1, AddEventType DEF BlockedAt
<1>6. Advanced(d, s, cfg, spec) \in Run
  <2>1. Event("advance", s.phase, AdvanceTarget(s), Gate(s, cfg, spec)) \in PhaseEvent
    BY <1>1, <1>2, <1>3, EventIsPhaseEvent DEF EventType
  <2>2. UpdatePhase(d, AdvanceTarget(s)) \in Run
    BY <1>2, UpdatePhaseType
  <2> QED
    BY <2>1, <2>2, AddEventType DEF Advanced
<1> QED
  BY <1>4, <1>5, <1>6

(* So do an override, a rollback, a skip and a cancel.                     *)
LEMMA MoveOutcomeType ==
    ASSUME NEW d \in Run, NEW from \in Phase
    PROVE  /\ ~IsTerminal(from) => OverrideBlocked(d, from) \in Run
           /\ ~IsTerminal(from) => Overridden(d, from) \in Run
           /\ \A to \in Phase : RolledBack(d, from, to) \in Run
           /\ \A to \in Phase : SkipRecorded(d, from, to) \in Run
           /\ Cancelled(d) \in Run
           /\ CancelRecorded(d, from) \in Run
<1>1. ~IsTerminal(from) => from + 1 \in Phase
  BY ChainAssumption DEF IsTerminal, Terminal, Phase
<1>2. ASSUME ~IsTerminal(from)
      PROVE  OverrideBlocked(d, from) \in Run /\ Overridden(d, from) \in Run
  <2>1. /\ Event("block", from, from + 1, HardFail) \in PhaseEvent
        /\ Event("override", from, from + 1, HardFail) \in PhaseEvent
    BY <1>1, <1>2, UngatedType, EventIsPhaseEvent DEF EventType
  <2>2. UpdatePhase(d, from + 1) \in Run
    BY <1>1, <1>2, UpdatePhaseType
  <2> QED
    BY <2>1, <2>2, AddEventType DEF OverrideBlocked, Overridden
<1>3. ASSUME NEW to \in Phase
      PROVE  RolledBack(d, from, to) \in Run /\ SkipRecorded(d, from, to) \in Run
  <2>1. /\ Event("rollback", from, to, Ungated) \in PhaseEvent
        /\ Event("skip", from, to, Ungated) \in PhaseEvent
    BY UngatedType, EventIsPhaseEvent DEF EventType
  <2>2. [d EXCEPT !.phase = to, !.status = "active"] \in Run
    BY DEF Run, Status
  <2> QED
    BY <2>1, <2>2, AddEventType DEF RolledBack, SkipRecorded
<1>4. Cancelled(d) \in Run
  BY DEF Cancelled, Run, Status
<1>5. CancelRecorded(d, from) \in Run
  <2>1. Event("cancel", from, from, Ungated) \in PhaseEvent
    BY UngatedType, EventIsPhaseEvent DEF EventType
  <2> QED
    BY <2>1, AddEventType DEF CancelRecorded
<1> QED
  BY <1>2, <1>3, <1>4, <1>5

(* A patch merged into a close gate is a close gate.                       *)
LEMMA MergeType ==
    ASSUME NEW gate \in CloseGate, NEW patch \in GatePatch
    PROVE  Merge(gate, patch) \in CloseGate
<1>1. /\ Patched(gate.requires, patch.requires) \in {"none", "evidence"}
      /\ Patched(gate.bead, patch.bead) \in Identity \cup {"none"}
      /\ Patched(gate.seal, patch.seal) \in Identity \cup {"none"}
  BY DEF Patched, CloseGate, GatePatch, NoGate
<1> QED
  BY <1>1 DEF Merge, CloseGate

(* The statements of "ic run set", of the clean-up and of the workers.     *)
LEMMA SetType ==
    ASSUME NEW d \in Run, NEW s \in Run, NEW u \in Settings
    PROVE  Set(d, s, u) \in Run
<1>1. d.phase \in Phase
  BY DEF Run
<1>2. Event("set", d.phase, d.phase, Ungated) \in PhaseEvent
  BY <1>1, UngatedType, EventIsPhaseEvent DEF EventType
<1>3. CASE IsGatePatch(u)
  <2>1. u.to \in GatePatch
    BY <1>3 DEF IsGatePatch, Settings
  <2>2. Merge(s.closeGate, u.to) \in CloseGate
    <3>1. s.closeGate \in CloseGate
      BY DEF Run
    <3> QED
      BY <2>1, <3>1, MergeType
  <2>3. [d EXCEPT !.closeGate = Merge(s.closeGate, u.to)] \in Run
    BY <2>2 DEF Run
  <2> QED
    BY <1>2, <1>3, <2>3, AddEventType DEF Set
<1>4. CASE ~IsGatePatch(u)
  <2>1. (u.to = "on") \in BOOLEAN
    OBVIOUS
  <2>2. [d EXCEPT !.auto = (u.to = "on")] \in Run
    BY <2>1 DEF Run
  <2> QED
    BY <1>2, <1>4, <2>2, AddEventType DEF Set
<1> QED
  BY <1>3, <1>4

LEMMA CleanupType ==
    ASSUME NEW d \in Run, NEW phases
    PROVE  /\ MarkArtifactsRolledBack(d, phases) \in Run
           /\ CancelByRun(d) \in Run
           /\ FailAgentsByRun(d) \in Run
<1>1. MarkArtifactsRolledBack(d, phases) \in Run
  <2> DEFINE kept == {a \in d.artifacts : a.phase \notin phases}
  <2>1. kept \in SUBSET Artifact
    BY DEF Run
  <2>2. MarkArtifactsRolledBack(d, phases) = [d EXCEPT !.artifacts = kept]
    BY DEF MarkArtifactsRolledBack
  <2> QED
    BY <2>1, <2>2 DEF Run
<1>2. CancelByRun(d) \in Run
  BY DEF CancelByRun, Run
<1>3. FailAgentsByRun(d) \in Run
  BY DEF FailAgentsByRun, Run
<1> QED
  BY <1>1, <1>2, <1>3

LEMMA ReportType ==
    ASSUME NEW d \in Run
    PROVE  /\ \A p \in Phase, kind \in ArtifactKinds : ArtifactAdded(d, p, kind) \in Run
           /\ \A a \in Agents : AgentActive(d, a) \in Run /\ AgentDone(d, a) \in Run
           /\ \A vs \in SUBSET Verdicts : VerdictsInScope(d, vs) \in Run
           /\ \A b \in BOOLEAN : TokensReported(d, b) \in Run /\ DispatchesLive(d, b) \in Run
<1>1. ASSUME NEW p \in Phase, NEW kind \in ArtifactKinds
      PROVE  ArtifactAdded(d, p, kind) \in Run
  <2>1. d.recorded + 1 \in Nat
    BY DEF Run
  <2>2. [id |-> d.recorded + 1, phase |-> p, kind |-> kind] \in Artifact
    BY <2>1, InputAssumption DEF Artifact
  <2> QED
    BY <2>1, <2>2 DEF ArtifactAdded, Run
<1>2. \A a \in Agents : AgentActive(d, a) \in Run /\ AgentDone(d, a) \in Run
  BY DEF AgentActive, AgentDone, Run
<1>3. \A vs \in SUBSET Verdicts : VerdictsInScope(d, vs) \in Run
  BY DEF VerdictsInScope, Run
<1>4. \A b \in BOOLEAN : TokensReported(d, b) \in Run /\ DispatchesLive(d, b) \in Run
  BY DEF TokensReported, DispatchesLive, Run
<1> QED
  BY <1>1, <1>2, <1>3, <1>4

LEMMA NewRunType ==
    ASSUME NEW auto \in BOOLEAN, NEW gate \in CloseGate
    PROVE  NewRun(auto, gate) \in Run
<1>1. 1 \in Phase
  BY ChainAssumption DEF Phase
<1>2. <<>> \in Seq(PhaseEvent)
  OBVIOUS
<1> QED
  BY <1>1, <1>2 DEF NewRun, Run, Status

-----------------------------------------------------------------------------
(* The inductive invariant: SnapshotCurrent needs the types (who is open), *)
(* and the types need what a command checked (a phase to advance to).      *)
Inv == TypeOK /\ SnapshotCurrent

LEMMA InitialRunType == \A d \in InitialRuns : d \in Run
  BY NewRunType, InputAssumption

LEMMA NoRunType == NoRun \in Run
  BY NewRunType DEF NoRun, NoGate, CloseGate

(* The arguments of a typed command, and of a command a process runs.      *)
LEMMA TypedArguments ==
    ASSUME NEW c \in Commands
    PROVE  /\ c.op = "advance"  => c.cfg \in Configs
           /\ c.op = "rollback" => c \in [op : {"rollback"}, to : Phase]
           /\ c.op = "skip"     => c \in [op : {"skip"}, target : Phase]
           /\ c.op = "set"      => c.settings \in Settings
<1>1. c \in Typed
  BY TxAssumption
<1> QED
  BY <1>1, TxAssumption DEF Typed

LEMMA CommandArguments ==
    ASSUME NEW c \in Command
    PROVE  /\ c.op = "advance"  => c \in [op : {"advance"}, cfg : Configs, spec : {SpecExit[q] : q \in Phase}]
           /\ c.op = "rollback" => c \in [op : {"rollback"}, to : Phase]
           /\ c.op = "skip"     => c \in [op : {"skip"}, target : Phase]
           /\ c.op = "set"      => c \in [op : {"set"}, settings : Settings, tries : 1 .. MaxTries]
  BY DEF Command, NoCommand

-----------------------------------------------------------------------------
(* Steps that only read: a command starts, reads, or ends without writing. *)

(* A command starts and reads the run.                                     *)
LEMMA StartKeepsInv ==
    ASSUME Inv, NEW p \in Procs, Start(p)
    PROVE  Inv'
<1> USE DEF Inv, TypeOK
<1>1. db \in Run /\ db.phase \in Phase /\ SpecExit[db.phase] \in {SpecExit[q] : q \in Phase}
  BY DEF Run
<1>2. CASE StartAdvance(p)
  <2>1. PICK c \in Commands :
          /\ c.op = "advance"
          /\ cmd' = [cmd EXCEPT ![p] = [op |-> "advance", cfg |-> c.cfg, spec |-> SpecExit[db.phase]]]
    BY <1>2 DEF StartAdvance
  <2>2. [op |-> "advance", cfg |-> c.cfg, spec |-> SpecExit[db.phase]] \in Command
    BY <1>1, <2>1, TypedArguments DEF Command
  <2>3. cmd' \in [Procs -> Command]
    BY <2>1, <2>2
  <2> QED
    BY <1>2, <2>1, <2>3 DEF StartAdvance, Goto, Label, Open, Idle,
       SnapshotCurrent, Checked, Fresh, At, Running, Cleaning, Transactional
<1>3. CASE StartRollback(p)
  <2>1. PICK c \in Commands : c.op = "rollback" /\ cmd' = [cmd EXCEPT ![p] = c]
    BY <1>3 DEF StartRollback
  <2>2. c \in Command
    BY <2>1, TypedArguments DEF Command
  <2> QED
    BY <1>3, <2>1, <2>2 DEF StartRollback, Goto, Label, Open, Idle,
       SnapshotCurrent, Checked, Fresh, At, Running, Cleaning, Transactional
<1>4. ASSUME StartOverride(p) \/ StartSkip(p) \/ StartCancel(p) \/ StartSet(p)
      PROVE  Inv'
  <2> DEFINE c == cmd'[p]
  <2>1. /\ Idle(p)
        /\ ReadRun(p, "write")
        /\ UNCHANGED db
        /\ cmd' = [cmd EXCEPT ![p] = c]
    BY <1>4 DEF StartOverride, StartSkip, StartCancel, StartSet
  <2>2. /\ c \in Command
        /\ c.op \in {"override", "skip", "cancel", "set"}
        /\ c.op = "override" => MayAdvance(db)
        /\ c.op = "skip" => MaySkip(db, c.target)
        /\ c.op = "set" => MaySet(db, c.settings)
    <3>1. CASE StartOverride(p) \/ StartCancel(p)
      BY <3>1 DEF StartOverride, StartCancel, Command
    <3>2. CASE StartSkip(p)
      <4>1. PICK d \in Commands : /\ d.op = "skip" /\ MaySkip(db, d.target)
                                 /\ cmd' = [cmd EXCEPT ![p] = d]
        BY <3>2 DEF StartSkip
      <4>2. d \in Command
        BY <4>1, TypedArguments DEF Command
      <4> QED
        BY <4>1, <4>2
    <3>3. CASE StartSet(p)
      <4>1. PICK d \in Commands :
              /\ d.op = "set" /\ MaySet(db, d.settings)
              /\ cmd' = [cmd EXCEPT ![p] =
                           [op |-> "set", settings |-> d.settings, tries |-> 1]]
        BY <3>3 DEF StartSet
      <4>2. [op |-> "set", settings |-> d.settings, tries |-> 1] \in Command
        BY <4>1, TypedArguments, TxAssumption DEF Command
      <4> QED
        BY <4>1, <4>2
    <3> QED
      BY <1>4, <3>1, <3>2, <3>3
  <2>3. TypeOK'
    BY <2>1, <2>2 DEF ReadRun, Goto, Label, Open, Idle, Transactional
  <2>4. SnapshotCurrent'
    BY <2>1, <2>2 DEF ReadRun, Goto, Label, Open, Idle,
       SnapshotCurrent, Checked, Fresh, At, Running, Cleaning, Transactional
  <2> QED
    BY <2>3, <2>4
<1> QED
  BY <1>2, <1>3, <1>4 DEF Start

(* A command that ends without writing.                                    *)
LEMMA FinishKeepsInv ==
    ASSUME Inv, NEW p \in Procs, Finish(p), UNCHANGED db,
           stale' = stale \ {p} \/ (stale' = stale /\ ~Open(p))
    PROVE  Inv'
<1>1. NoCommand \in Command
  BY DEF Command
<1>2. TypeOK'
  BY <1>1, NoRunType DEF Inv, TypeOK, Finish, Label, Open
<1>3. SnapshotCurrent'
  BY DEF Inv, TypeOK, Finish, Open, SnapshotCurrent, Checked, Fresh, At, Running,
         Cleaning, NoCommand, Transactional
<1> QED
  BY <1>2, <1>3 DEF Inv

(* A read inside a command that already started.                           *)
LEMMA ReadKeepsInv ==
    ASSUME Inv, NEW p \in Procs, ReadRun(p, "write"), UNCHANGED db,
           NEW c \in Command, cmd' = [cmd EXCEPT ![p] = c],
           c.op \in {"advance", "override"} => MayAdvance(db),
           c.op = "rollback" => MayRollback(db, c.to),
           c.op = "skip" => MaySkip(db, c.target),
           c.op = "set" => MaySet(db, c.settings)
    PROVE  Inv'
<1>1. TypeOK'
  BY DEF Inv, TypeOK, ReadRun, Goto, Label, Open
<1>2. SnapshotCurrent'
  BY DEF Inv, TypeOK, ReadRun, Goto, Open, SnapshotCurrent, Checked, Fresh, At, Running,
         Cleaning, Transactional
<1> QED
  BY <1>1, <1>2 DEF Inv

(* A commit makes every other open transaction stale, so nothing more is   *)
(* to be shown of what they saw.                                           *)
LEMMA CommitKeepsInv ==
    ASSUME Inv, NEW d \in Run, NEW p \in Procs, NEW by, by \subseteq {p}, Commit(by, d),
           \/ Finish(p) /\ (by = {p} \/ ~Open(p))
           \/ /\ UNCHANGED <<cmd, snap>>
              /\ \E l \in Label \ {"write"} : Goto(p, l)
              /\ by = {p} \/ ~Open(p)
              /\ pc[p] \in {"write"} \cup Cleaning
    PROVE  Inv'
<1>1. NoCommand \in Command
  BY DEF Command
<1>2. TypeOK'
  BY <1>1, NoRunType DEF Inv, TypeOK, Finish, Commit, Goto, Label, Open
<1>3. SnapshotCurrent'
  BY DEF Inv, TypeOK, Finish, Commit, Goto, Open, SnapshotCurrent, Checked, Fresh, At, Running,
         Cleaning, NoCommand, Transactional, Label
<1> QED
  BY <1>2, <1>3 DEF Inv

(* A report of a worker, or a clean-up statement, leaves processes alone.  *)
LEMMA ReportKeepsInv ==
    ASSUME Inv, NEW d \in Run, Commit({}, d), UNCHANGED <<pc, cmd, snap>>
    PROVE  Inv'
<1>1. TypeOK'
  BY DEF Inv, TypeOK, Commit, Open
<1>2. SnapshotCurrent'
  BY DEF Inv, TypeOK, Commit, Open, SnapshotCurrent, Checked, Fresh, At, Running
<1> QED
  BY <1>1, <1>2 DEF Inv

(* A clean-up statement that fails.                                        *)
LEMMA CleaningStepKeepsInv ==
    ASSUME Inv, NEW p \in Procs, UNCHANGED <<db, stale, cmd, snap>>,
           pc[p] \in Cleaning, NEW l \in Label \ {"write"}, Goto(p, l)
    PROVE  Inv'
<1>1. TypeOK'
  BY DEF Inv, TypeOK, Goto, Label, Open, Cleaning
<1>2. SnapshotCurrent'
  BY DEF Inv, TypeOK, Goto, Open, SnapshotCurrent, Checked, Fresh, At, Running, Cleaning, Label
<1> QED
  BY <1>1, <1>2 DEF Inv

(* What is known of the run a command read, when the command is at a label. *)
LEMMA CheckedFacts ==
    ASSUME Inv, NEW p \in Procs
    PROVE  /\ db \in Run /\ snap[p] \in Run /\ cmd[p] \in Command
           /\ db.phase \in Phase /\ snap[p].phase \in Phase
           /\ Checked(p)
           /\ Open(p) /\ Fresh(p) => snap[p] = db
  BY DEF Inv, TypeOK, SnapshotCurrent, Run

LEMMA StepKeepsInv ==
    ASSUME Inv, NEW p \in Procs, Step(p)
    PROVE  Inv'
<1> DEFINE d == snap[p]
<1>0. /\ db \in Run /\ d \in Run /\ cmd[p] \in Command
      /\ db.phase \in Phase /\ d.phase \in Phase
      /\ Checked(p)
  BY CheckedFacts
<1>1. ASSUME \/ AdvanceRefused(p) \/ RollbackRefused(p) \/ SetRefused(p)
             \/ SetGivesUp(p) \/ TxAbort(p)
      PROVE  Inv'
  BY <1>1, FinishKeepsInv DEF AdvanceRefused, RollbackRefused, SetRefused, SetGivesUp, TxAbort,
     At, Running, Open, Transactional
<1>2. CASE SetRetry(p)
  <2> DEFINE c == [cmd[p] EXCEPT !.tries = @ + 1]
  <2>1. cmd[p] \in [op : {"set"}, settings : Settings, tries : 1 .. MaxTries]
    BY <1>0, <1>2, CommandArguments DEF SetRetry, At, Running
  <2>2. c \in Command /\ c.op = "set"
    <3>1. cmd[p].tries < MaxTries
      BY <1>2 DEF SetRetry
    <3>2. cmd[p].tries + 1 \in 1 .. MaxTries
      BY <2>1, <3>1, TxAssumption
    <3>3. c \in [op : {"set"}, settings : Settings, tries : 1 .. MaxTries]
      BY <2>1, <3>2
    <3> QED
      BY <3>3 DEF Command
  <2>3. /\ pc[p] = "write" /\ ~Open(p) /\ Goto(p, "begin")
        /\ cmd' = [cmd EXCEPT ![p] = c] /\ UNCHANGED <<db, snap, stale>>
    BY <1>2 DEF SetRetry, At, Running, Open, Transactional
  <2>4. TypeOK'
    BY <2>2, <2>3 DEF Goto, Inv, TypeOK, Label, Open, Transactional
  <2>5. SnapshotCurrent'
    BY <2>2, <2>3 DEF Goto, Inv, TypeOK, Open, SnapshotCurrent, Checked, Fresh,
       At, Running, Cleaning, Transactional
  <2> QED
    BY <2>4, <2>5 DEF Inv
<1>3. ASSUME AdvanceRead(p) \/ RollbackRead(p) \/ SetRead(p)
      PROVE  Inv'
  <2>1. /\ ReadRun(p, "write") /\ UNCHANGED db
        /\ cmd' = [cmd EXCEPT ![p] = cmd[p]]
        /\ cmd[p].op \in {"advance", "rollback", "set"}
        /\ cmd[p].op = "advance" => MayAdvance(db)
        /\ cmd[p].op = "rollback" => MayRollback(db, cmd[p].to)
        /\ cmd[p].op = "set" => MaySet(db, cmd[p].settings)
    BY <1>3 DEF AdvanceRead, RollbackRead, SetRead, At, Running, Inv, TypeOK
  <2> QED
    BY <1>0, <2>1, ReadKeepsInv
<1>5. CASE PauseCommit(p) \/ BlockCommit(p) \/ AdvanceCommit(p)
  <2>1. ~IsTerminal(d.phase)
    BY <1>0, <1>5 DEF PauseCommit, BlockCommit, AdvanceCommit, At, Running, Checked, MayAdvance
  <2>2. \E e \in Run : Commit({p}, e)
    BY <1>0, <1>5, <2>1, AdvanceOutcomeType DEF PauseCommit, BlockCommit, AdvanceCommit
  <2>3. Finish(p)
    BY <1>5 DEF PauseCommit, BlockCommit, AdvanceCommit
  <2> QED
    BY <2>2, <2>3, CommitKeepsInv
<1>6. CASE OverrideRefusal(p) \/ OverrideCommit(p)
  <2>1. ~IsTerminal(d.phase)
    BY <1>0, <1>6 DEF OverrideRefusal, OverrideCommit, At, Running, Checked, MayAdvance
  <2>2. \E e \in Run : Commit({p}, e)
    BY <1>0, <1>6, <2>1, MoveOutcomeType DEF OverrideRefusal, OverrideCommit
  <2>3. Finish(p)
    BY <1>6 DEF OverrideRefusal, OverrideCommit
  <2> QED
    BY <2>2, <2>3, CommitKeepsInv
<1>7. CASE RollbackCommit(p)
  <2>1. cmd[p].to \in Phase
    BY <1>0, <1>7, CommandArguments DEF RollbackCommit, At, Running
  <2>2. RolledBack(db, d.phase, cmd[p].to) \in Run
    BY <1>0, <2>1, MoveOutcomeType
  <2>3. /\ Commit({p}, RolledBack(db, d.phase, cmd[p].to))
        /\ Goto(p, "markArtifacts") /\ "markArtifacts" \in Label \ {"write"}
        /\ UNCHANGED <<cmd, snap>> /\ pc[p] = "write"
    BY <1>7 DEF RollbackCommit, Label, Cleaning, At, Running
  <2> QED
    BY <2>2, <2>3, CommitKeepsInv
<1>8. CASE MarkArtifacts(p) \/ CancelDispatches(p) \/ FailAgents(p)
  <2>1. /\ pc[p] \in Cleaning /\ ~Open(p)
        /\ \/ Finish(p)
           \/ /\ UNCHANGED <<cmd, snap>>
              /\ \E l \in Label \ {"write"} : Goto(p, l)
    BY <1>8 DEF MarkArtifacts, CancelDispatches, FailAgents, At, Running, Open, Cleaning, Label
  <2>2. \/ \E e \in Run : Commit({}, e)
        \/ UNCHANGED <<db, stale>>
    BY <1>0, <1>8, CleanupType DEF MarkArtifacts, CancelDispatches, FailAgents, Statement
  <2>3. CASE \E e \in Run : Commit({}, e)
    BY <2>1, <2>3, CommitKeepsInv
  <2>4. CASE UNCHANGED <<db, stale>>
    <3>1. CASE Finish(p)
      BY <2>1, <2>4, <3>1, FinishKeepsInv
    <3>2. CASE UNCHANGED <<cmd, snap>> /\ \E l \in Label \ {"write"} : Goto(p, l)
      BY <2>1, <2>4, <3>2, CleaningStepKeepsInv
    <3> QED
      BY <2>1, <3>1, <3>2
  <2> QED
    BY <2>2, <2>3, <2>4
<1>9. CASE SkipWrite(p) \/ CancelEventWrite(p)
  <2>1. Running(p, "skip") => cmd[p].target \in Phase
    BY <1>0, CommandArguments DEF Running
  <2>2. \E e \in Run : Commit({p}, e)
    BY <1>0, <1>9, <2>1, MoveOutcomeType DEF SkipWrite, CancelEventWrite, At
  <2>3. Finish(p)
    BY <1>9 DEF SkipWrite, CancelEventWrite
  <2> QED
    BY <2>2, <2>3, CommitKeepsInv
<1>10. CASE CancelWrite(p)
  <2>1. Cancelled(db) \in Run
    BY <1>0, MoveOutcomeType
  <2>2. /\ Commit({p}, Cancelled(db))
        /\ Goto(p, "event") /\ "event" \in Label \ {"write"}
        /\ UNCHANGED <<cmd, snap>> /\ pc[p] = "write"
    BY <1>10 DEF CancelWrite, Label, At, Running
  <2> QED
    BY <2>1, <2>2, CommitKeepsInv
<1>11. CASE SetWrite(p)
  <2>1. cmd[p].settings \in Settings
    BY <1>0, <1>11, CommandArguments DEF SetWrite, At, Running
  <2>2. Set(db, d, cmd[p].settings) \in Run
    BY <1>0, <2>1, SetType
  <2> QED
    BY <1>11, <2>2, CommitKeepsInv DEF SetWrite
<1> QED
  BY <1>1, <1>2, <1>3, <1>5, <1>6, <1>7, <1>8, <1>9, <1>10, <1>11 DEF Step

(* The invariant is inductive.                                             *)
LEMMA InitHasInv == Init => Inv
<1> SUFFICES ASSUME Init PROVE Inv
  OBVIOUS
<1>1. TypeOK
  BY InitialRunType, NoRunType DEF Init, TypeOK, Label, Command, Open
<1>2. SnapshotCurrent
  BY DEF Init, SnapshotCurrent, Checked, Open, At, Running, Cleaning
<1> QED
  BY <1>1, <1>2 DEF Inv

LEMMA NextKeepsInv == Inv /\ [Next]_vars => Inv'
<1> SUFFICES ASSUME Inv, [Next]_vars PROVE Inv'
  OBVIOUS
<1>1. ASSUME NEW p \in Procs, Crash(p)
      PROVE  Inv'
  BY <1>1, FinishKeepsInv DEF Crash
<1>2. CASE Reports
  <2>1. /\ UNCHANGED <<pc, cmd, snap>>
        /\ \E e \in Run : Commit({}, e)
    <3>1. db \in Run
      BY DEF Inv, TypeOK
    <3> QED
      BY <1>2, <3>1, ReportType, TxAssumption
      DEF Reports, RecordArtifact, TrackAgent, ReturnVerdict, ReportTokens, RunDispatches
  <2> QED
    BY <2>1, ReportKeepsInv
<1>3. CASE UNCHANGED vars
  <2>1. TypeOK'
    BY <1>3 DEF vars, Inv, TypeOK, Open
  <2>2. SnapshotCurrent'
    BY <1>3 DEF vars, Inv, SnapshotCurrent, Checked, Open, Fresh, At, Running
  <2> QED
    BY <2>1, <2>2 DEF Inv
<1> QED
  BY <1>1, <1>2, <1>3, StartKeepsInv, StepKeepsInv DEF Next

(* The database, the processes and their snapshots stay well formed.       *)
THEOREM TypeCorrect == Spec => []TypeOK
<1>1. Inv => TypeOK
  BY DEF Inv
<1> QED
  BY <1>1, InitHasInv, NextKeepsInv, PTL DEF Spec

(* A transaction that is allowed to write saw the database as it is: every *)
(* decision of Advance, Override and Rollback is made on the truth.        *)
THEOREM SnapshotIsCurrent == Spec => []SnapshotCurrent
<1>1. Inv => SnapshotCurrent
  BY DEF Inv
<1> QED
  BY <1>1, InitHasInv, NextKeepsInv, PTL DEF Spec

---------------------------------------------------------------------------
(* The refinement of RunLifecycle *)

(* The record operators of the instance are those of RunRecord.            *)
LEMMA SameMoves ==
    /\ Lifecycle!Phase = Phase
    /\ \A q : Lifecycle!IsTerminal(q) = IsTerminal(q)
    /\ \A d : Lifecycle!MayAdvance(d) = MayAdvance(d)
    /\ \A d, to : Lifecycle!MayRollback(d, to) = MayRollback(d, to)
    /\ \A d : Lifecycle!OverrideRefused(d) = OverrideRefused(d)
    /\ \A d, from : Lifecycle!OverrideBlocked(d, from) = OverrideBlocked(d, from)
    /\ \A d, from : Lifecycle!Overridden(d, from) = Overridden(d, from)
    /\ \A d, from, to : Lifecycle!RolledBack(d, from, to) = RolledBack(d, from, to)
    /\ \A d, from, to : Lifecycle!SkipRecorded(d, from, to) = SkipRecorded(d, from, to)
    /\ \A d, from : Lifecycle!CancelRecorded(d, from) = CancelRecorded(d, from)
    /\ \A d : Lifecycle!Cancelled(d) = Cancelled(d)
<1> USE DEF Terminal, Lifecycle!Terminal, IsTerminal, Lifecycle!IsTerminal,
            IsTerminalStatus, Lifecycle!IsTerminalStatus,
            AddEvent, Lifecycle!AddEvent, Event, Lifecycle!Event,
            Ungated, Lifecycle!Ungated, HardFail, Lifecycle!HardFail,
            UpdatePhase, Lifecycle!UpdatePhase
<1>1. Lifecycle!Phase = Phase
  BY DEF Phase, Lifecycle!Phase
<1>2. \A q : Lifecycle!IsTerminal(q) = IsTerminal(q)
  OBVIOUS
<1>3. \A d : Lifecycle!MayAdvance(d) = MayAdvance(d)
  BY DEF MayAdvance, Lifecycle!MayAdvance
<1>4. \A d, to : Lifecycle!MayRollback(d, to) = MayRollback(d, to)
  BY DEF MayRollback, Lifecycle!MayRollback
<1>5. \A d : Lifecycle!OverrideRefused(d) = OverrideRefused(d)
  BY DEF OverrideRefused, Lifecycle!OverrideRefused, Required, Lifecycle!Required
<1>6. \A d, from : Lifecycle!OverrideBlocked(d, from) = OverrideBlocked(d, from)
  BY Zenon DEF OverrideBlocked, Lifecycle!OverrideBlocked
<1>7. \A d, from : Lifecycle!Overridden(d, from) = Overridden(d, from)
  BY Zenon DEF Overridden, Lifecycle!Overridden
<1>8. \A d, from, to : Lifecycle!RolledBack(d, from, to) = RolledBack(d, from, to)
  BY Zenon DEF RolledBack, Lifecycle!RolledBack
<1>9. \A d, from, to : Lifecycle!SkipRecorded(d, from, to) = SkipRecorded(d, from, to)
  BY Zenon DEF SkipRecorded, Lifecycle!SkipRecorded
<1>10. \A d, from : Lifecycle!CancelRecorded(d, from) = CancelRecorded(d, from)
  BY Zenon DEF CancelRecorded, Lifecycle!CancelRecorded
<1>11. \A d : Lifecycle!Cancelled(d) = Cancelled(d)
  BY Zenon DEF Cancelled, Lifecycle!Cancelled
<1> QED
  BY <1>1, <1>2, <1>3, <1>4, <1>5, <1>6, <1>7, <1>8, <1>9, <1>10, <1>11

LEMMA SameGate ==
    /\ \A d, cfg : Lifecycle!Pauses(d, cfg) = Pauses(d, cfg)
    /\ \A d, cfg, spec : Lifecycle!Blocks(d, cfg, spec) = Blocks(d, cfg, spec)
    /\ \A d, cfg, spec : Lifecycle!Passes(d, cfg, spec) = Passes(d, cfg, spec)
    /\ \A d, s : Lifecycle!Paused(d, s) = Paused(d, s)
    /\ \A d, s, cfg, spec : Lifecycle!BlockedAt(d, s, cfg, spec) = BlockedAt(d, s, cfg, spec)
    /\ \A d, s, cfg, spec : Lifecycle!Advanced(d, s, cfg, spec) = Advanced(d, s, cfg, spec)
<1> USE DEF Phase, Lifecycle!Phase, Terminal, Lifecycle!Terminal,
            IsTerminal, Lifecycle!IsTerminal,
            AddEvent, Lifecycle!AddEvent, Event, Lifecycle!Event,
            Ungated, Lifecycle!Ungated, UpdatePhase, Lifecycle!UpdatePhase
<1>1. \A d : Lifecycle!AdvanceTarget(d) = AdvanceTarget(d)
  BY Zenon DEF AdvanceTarget, Lifecycle!AdvanceTarget, Target, Lifecycle!Target,
               StopsAt, Lifecycle!StopsAt, SkippedPhases, Lifecycle!SkippedPhases
<1>2. \A d, cfg, spec, from, to :
        Lifecycle!evaluateGate(d, cfg, spec, from, to) = evaluateGate(d, cfg, spec, from, to)
  <2>1. \A d, to : Lifecycle!RuntimeTerminal(d, to) = RuntimeTerminal(d, to)
    BY DEF RuntimeTerminal, Lifecycle!RuntimeTerminal, Required, Lifecycle!Required
  <2>2. \A d, cfg, to : Lifecycle!Bypassed(d, cfg, to) = Bypassed(d, cfg, to)
    BY <2>1 DEF Bypassed, Lifecycle!Bypassed
  <2>3. \A d, to : Lifecycle!Injected(d, to) = Injected(d, to)
    BY <2>1 DEF Injected, Lifecycle!Injected
  <2>4. \A from, to : Lifecycle!DefaultRules(from, to) = DefaultRules(from, to)
    BY Zenon DEF DefaultRules, Lifecycle!DefaultRules, gateRules, Lifecycle!gateRules
  <2>5. \A d, spec, from, to : Lifecycle!RulesFor(d, spec, from, to) = RulesFor(d, spec, from, to)
    <3>1. \A spec, from, to : Lifecycle!BaseRules(spec, from, to) = BaseRules(spec, from, to)
      BY <2>4 DEF BaseRules, Lifecycle!BaseRules
    <3> QED
      BY <2>3, <3>1 DEF RulesFor, Lifecycle!RulesFor
  <2>6. \A d, cfg, rule : Lifecycle!Met(d, cfg, rule) = Met(d, cfg, rule)
    BY Zenon DEF Met, Lifecycle!Met, HasVerdict, Lifecycle!HasVerdict,
       UncleanVerdicts, Lifecycle!UncleanVerdicts, Verified, Lifecycle!Verified,
       Receipts, Lifecycle!Receipts, Ready, Lifecycle!Ready, Required, Lifecycle!Required
  <2>7. \A spec, rules, from, to :
          Lifecycle!Escalated(spec, rules, from, to) = Escalated(spec, rules, from, to)
    BY Zenon DEF Escalated, Lifecycle!Escalated, UsingDefaults, Lifecycle!UsingDefaults
  <2>8. \A d, cfg, spec, from, to : Lifecycle!Tier(d, cfg, spec, from, to) = Tier(d, cfg, spec, from, to)
    BY <2>1, <2>5, <2>7 DEF Tier, Lifecycle!Tier
  <2> QED
    BY <2>2, <2>5, <2>6, <2>8 DEF evaluateGate, Lifecycle!evaluateGate
<1>3. \A d, cfg, spec : Lifecycle!Gate(d, cfg, spec) = Gate(d, cfg, spec)
  BY <1>1, <1>2 DEF Gate, Lifecycle!Gate
<1>4. \A d, cfg : Lifecycle!Pauses(d, cfg) = Pauses(d, cfg)
  BY DEF Pauses, Lifecycle!Pauses
<1>5. \A d, cfg, spec : Lifecycle!Blocks(d, cfg, spec) = Blocks(d, cfg, spec)
  BY <1>3, <1>4 DEF Blocks, Lifecycle!Blocks, Blocked, Lifecycle!Blocked
<1>6. \A d, cfg, spec : Lifecycle!Passes(d, cfg, spec) = Passes(d, cfg, spec)
  BY <1>3, <1>4 DEF Passes, Lifecycle!Passes, Blocked, Lifecycle!Blocked
<1>7. \A d, s : Lifecycle!Paused(d, s) = Paused(d, s)
  BY <1>1 DEF Paused, Lifecycle!Paused
<1>8. \A d, s, cfg, spec : Lifecycle!BlockedAt(d, s, cfg, spec) = BlockedAt(d, s, cfg, spec)
  BY <1>1, <1>3 DEF BlockedAt, Lifecycle!BlockedAt
<1>9. \A d, s, cfg, spec : Lifecycle!Advanced(d, s, cfg, spec) = Advanced(d, s, cfg, spec)
  BY <1>1, <1>3, ZenonT(60) DEF Advanced, Lifecycle!Advanced
<1> QED
  BY <1>4, <1>5, <1>6, <1>7, <1>8, <1>9

LEMMA SameReports ==
    /\ \A d, phases : Lifecycle!MarkArtifactsRolledBack(d, phases) = MarkArtifactsRolledBack(d, phases)
    /\ \A to, from : Lifecycle!PhasesBetween(to, from) = PhasesBetween(to, from)
    /\ \A d : Lifecycle!CancelByRun(d) = CancelByRun(d)
    /\ \A d : Lifecycle!FailAgentsByRun(d) = FailAgentsByRun(d)
    /\ Lifecycle!Settings = Settings
    /\ \A d, u : Lifecycle!MaySet(d, u) = MaySet(d, u)
    /\ \A d, s, u : Lifecycle!Set(d, s, u) = Set(d, s, u)
    /\ \A d, q, kind : Lifecycle!ArtifactAdded(d, q, kind) = ArtifactAdded(d, q, kind)
    /\ \A d, a : Lifecycle!AgentActive(d, a) = AgentActive(d, a)
    /\ \A d, a : Lifecycle!AgentDone(d, a) = AgentDone(d, a)
    /\ \A d, vs : Lifecycle!VerdictsInScope(d, vs) = VerdictsInScope(d, vs)
    /\ \A d, b : Lifecycle!TokensReported(d, b) = TokensReported(d, b)
    /\ \A d, b : Lifecycle!DispatchesLive(d, b) = DispatchesLive(d, b)
<1>1. \A d, phases : Lifecycle!MarkArtifactsRolledBack(d, phases) = MarkArtifactsRolledBack(d, phases)
  BY Zenon DEF MarkArtifactsRolledBack, Lifecycle!MarkArtifactsRolledBack
<1>2. \A to, from : Lifecycle!PhasesBetween(to, from) = PhasesBetween(to, from)
  BY Zenon DEF PhasesBetween, Lifecycle!PhasesBetween
<1>3. \A d : Lifecycle!CancelByRun(d) = CancelByRun(d)
  BY Zenon DEF CancelByRun, Lifecycle!CancelByRun
<1>4. \A d : Lifecycle!FailAgentsByRun(d) = FailAgentsByRun(d)
  BY Zenon DEF FailAgentsByRun, Lifecycle!FailAgentsByRun
<1>5. Lifecycle!Settings = Settings
  BY Zenon DEF Settings, Lifecycle!Settings, GatePatch, Lifecycle!GatePatch,
     NoGate, Lifecycle!NoGate, Identity, Lifecycle!Identity
<1>6. \A d, u : Lifecycle!MaySet(d, u) = MaySet(d, u)
  BY SameMoves DEF MaySet, Lifecycle!MaySet, Diverges, Lifecycle!Diverges, IsGatePatch, Lifecycle!IsGatePatch,
     KeepsSeal, Lifecycle!KeepsSeal, GateAfter, Lifecycle!GateAfter, Merge, Lifecycle!Merge,
     Patched, Lifecycle!Patched, Required, Lifecycle!Required, Terminal, Lifecycle!Terminal
<1>7. \A d, s, u : Lifecycle!Set(d, s, u) = Set(d, s, u)
  BY Zenon DEF Set, Lifecycle!Set, IsGatePatch, Lifecycle!IsGatePatch, Merge, Lifecycle!Merge,
     Patched, Lifecycle!Patched, AddEvent, Lifecycle!AddEvent, Event, Lifecycle!Event,
     Ungated, Lifecycle!Ungated
<1>8. \A d, q, kind : Lifecycle!ArtifactAdded(d, q, kind) = ArtifactAdded(d, q, kind)
  BY Zenon DEF ArtifactAdded, Lifecycle!ArtifactAdded
<1>9. /\ \A d, a : Lifecycle!AgentActive(d, a) = AgentActive(d, a)
      /\ \A d, a : Lifecycle!AgentDone(d, a) = AgentDone(d, a)
  BY Zenon DEF AgentActive, Lifecycle!AgentActive, AgentDone, Lifecycle!AgentDone
<1>10. /\ \A d, vs : Lifecycle!VerdictsInScope(d, vs) = VerdictsInScope(d, vs)
       /\ \A d, b : Lifecycle!TokensReported(d, b) = TokensReported(d, b)
       /\ \A d, b : Lifecycle!DispatchesLive(d, b) = DispatchesLive(d, b)
  BY Zenon DEF VerdictsInScope, Lifecycle!VerdictsInScope, TokensReported,
     Lifecycle!TokensReported, DispatchesLive, Lifecycle!DispatchesLive
<1> QED
  BY <1>1, <1>2, <1>3, <1>4, <1>5, <1>6, <1>7, <1>8, <1>9, <1>10

-----------------------------------------------------------------------------
(* One commit, one atomic command.                                         *)

(* The transactions of Advance, Override and Rollback decided on snap[p],  *)
(* which is the database when they write.                                  *)
LEMMA TransactionIsAtomic ==
    ASSUME Inv, NEW p \in Procs,
           \/ PauseCommit(p) \/ BlockCommit(p) \/ AdvanceCommit(p)
           \/ OverrideRefusal(p) \/ OverrideCommit(p) \/ RollbackCommit(p)
    PROVE  Lifecycle!Next
<1>1. /\ cmd[p] \in Command /\ Checked(p) /\ db.phase \in Phase
      /\ Open(p) /\ Fresh(p) => snap[p] = db
  BY CheckedFacts
<1>2. snap[p] = db
  BY <1>1 DEF PauseCommit, BlockCommit, AdvanceCommit, OverrideRefusal, OverrideCommit,
     RollbackCommit, MayWrite, At, Running, Open, Transactional
<1>3. CASE PauseCommit(p) \/ BlockCommit(p) \/ AdvanceCommit(p)
  <2>1. /\ cmd[p].cfg \in Configs /\ cmd[p].spec \in Lifecycle!AnySpec
        /\ Lifecycle!MayAdvance(db)
    BY <1>1, <1>2, <1>3, CommandArguments, SameMoves
    DEF PauseCommit, BlockCommit, AdvanceCommit, At, Running, Checked, Lifecycle!AnySpec
  <2>2. CASE PauseCommit(p)
    <3>1. Lifecycle!Pause(cmd[p].cfg)
      BY <1>2, <2>1, <2>2, SameGate DEF PauseCommit, Commit, Lifecycle!Pause
    <3> QED
      BY <2>1, <3>1 DEF Lifecycle!Next
  <2>3. CASE BlockCommit(p)
    <3>1. Lifecycle!Block(cmd[p].cfg, cmd[p].spec)
      BY <1>2, <2>1, <2>3, SameGate DEF BlockCommit, Commit, Lifecycle!Block
    <3> QED
      BY <2>1, <3>1 DEF Lifecycle!Next
  <2>4. CASE AdvanceCommit(p)
    <3>1. Lifecycle!Advance(cmd[p].cfg, cmd[p].spec)
      BY <1>2, <2>1, <2>4, SameGate DEF AdvanceCommit, Commit, Lifecycle!Advance
    <3> QED
      BY <2>1, <3>1 DEF Lifecycle!Next
  <2> QED
    BY <1>3, <2>2, <2>3, <2>4
<1>4. CASE OverrideRefusal(p) \/ OverrideCommit(p)
  <2>1. Lifecycle!MayAdvance(db)
    BY <1>1, <1>2, <1>4, SameMoves DEF OverrideRefusal, OverrideCommit, At, Running, Checked
  <2>2. Lifecycle!OverrideBlock \/ Lifecycle!Override
    BY <1>2, <1>4, <2>1, SameMoves
    DEF OverrideRefusal, OverrideCommit, Commit, Lifecycle!OverrideBlock, Lifecycle!Override
  <2> QED
    BY <2>2 DEF Lifecycle!Next
<1>5. CASE RollbackCommit(p)
  <2>1. cmd[p].to \in Lifecycle!Phase /\ MayRollback(db, cmd[p].to)
    BY <1>1, <1>2, <1>5, CommandArguments, SameMoves DEF RollbackCommit, At, Running, Checked
  <2>2. Lifecycle!Rollback(cmd[p].to)
    BY <1>2, <1>5, <2>1, SameMoves DEF RollbackCommit, Commit, Lifecycle!Rollback
  <2> QED
    BY <2>1, <2>2 DEF Lifecycle!Next
<1> QED
  BY <1>3, <1>4, <1>5

(* The clean-up statements; one that fails changes nothing.                *)
LEMMA CleanupIsAtomic ==
    ASSUME Inv, NEW p \in Procs, MarkArtifacts(p) \/ CancelDispatches(p) \/ FailAgents(p)
    PROVE  Lifecycle!Next \/ UNCHANGED db
<1>1. /\ cmd[p] \in Command /\ Checked(p) /\ snap[p].phase \in Phase
  BY CheckedFacts
<1>2. CASE MarkArtifacts(p)
  <2>1. /\ cmd[p].to \in Lifecycle!Phase /\ snap[p].phase \in Lifecycle!Phase
        /\ cmd[p].to < snap[p].phase
    BY <1>1, <1>2, CommandArguments, SameMoves
    DEF MarkArtifacts, At, Running, Checked, Cleaning, MayRollback
  <2>2. Lifecycle!CleanArtifacts(cmd[p].to, snap[p].phase) \/ UNCHANGED db
    BY <1>2, <2>1, SameReports DEF MarkArtifacts, Statement, Commit, Lifecycle!CleanArtifacts
  <2> QED
    BY <2>1, <2>2 DEF Lifecycle!Next
<1>3. CASE CancelDispatches(p) \/ FailAgents(p)
  <2>1. Lifecycle!CleanDispatches \/ Lifecycle!CleanAgents \/ UNCHANGED db
    BY <1>3, SameReports DEF CancelDispatches, FailAgents, Statement, Commit,
       Lifecycle!CleanDispatches, Lifecycle!CleanAgents
  <2> QED
    BY <2>1 DEF Lifecycle!Next
<1> QED
  BY <1>2, <1>3

(* Skip, cancel and set write outside any transaction.                     *)
LEMMA StatementIsAtomic ==
    ASSUME Inv, NEW p \in Procs,
           SkipWrite(p) \/ CancelWrite(p) \/ CancelEventWrite(p) \/ SetWrite(p)
    PROVE  Lifecycle!Next
<1>1. /\ cmd[p] \in Command /\ Checked(p) /\ snap[p].phase \in Phase
  BY CheckedFacts
<1>2. CASE SkipWrite(p)
  <2>1. /\ cmd[p].target \in Lifecycle!Phase /\ snap[p].phase \in Lifecycle!Phase
        /\ cmd[p].target > snap[p].phase /\ ~Lifecycle!IsTerminal(cmd[p].target)
    BY <1>1, <1>2, CommandArguments, SameMoves DEF SkipWrite, At, Running, Checked, MaySkip
  <2>2. Lifecycle!Skip(snap[p].phase, cmd[p].target)
    BY <1>2, <2>1, SameMoves DEF SkipWrite, Commit, Lifecycle!Skip
  <2> QED
    BY <2>1, <2>2 DEF Lifecycle!Next
<1>3. CASE CancelWrite(p)
  <2>1. Lifecycle!Cancel
    BY <1>3, SameMoves DEF CancelWrite, Commit, Lifecycle!Cancel
  <2> QED
    BY <2>1 DEF Lifecycle!Next
<1>4. CASE CancelEventWrite(p)
  <2>1. Lifecycle!CancelEvent(snap[p].phase) /\ snap[p].phase \in Lifecycle!Phase
    BY <1>1, <1>4, SameMoves DEF CancelEventWrite, Commit, Lifecycle!CancelEvent
  <2> QED
    BY <2>1 DEF Lifecycle!Next
<1>5. CASE SetWrite(p)
  <2> DEFINE u == cmd[p].settings
  <2>1. /\ u \in Lifecycle!Settings /\ MaySet(snap[p], u)
        /\ SameConfiguration(db, snap[p])
        /\ db' = Set(db, snap[p], u)
    BY <1>1, <1>5, CommandArguments, SameReports DEF SetWrite, At, Running, Checked, Commit
  <2>2. MaySet(db, u) /\ Set(db, snap[p], u) = Set(db, db, u)
    BY <2>1 DEF SameConfiguration, MaySet, GateAfter, MayAdvance, Set
  <2>3. Lifecycle!Configure(u)
    BY <2>1, <2>2, SameReports DEF Lifecycle!Configure
  <2> QED
    BY <2>1, <2>3 DEF Lifecycle!Next
<1> QED
  BY <1>2, <1>3, <1>4, <1>5

LEMMA ReportIsAtomic ==
    ASSUME Inv, Reports
    PROVE  Lifecycle!Next
<1>1. CASE RecordArtifact
  <2>1. PICK q \in Phase, kind \in ArtifactKinds : Commit({}, ArtifactAdded(db, q, kind))
    BY <1>1 DEF RecordArtifact
  <2>2. Lifecycle!RecordArtifact(q, kind) /\ q \in Lifecycle!Phase
    BY <2>1, SameReports, SameMoves DEF Commit, Lifecycle!RecordArtifact
  <2> QED
    BY <2>2 DEF Lifecycle!Next
<1>2. CASE TrackAgent \/ ReturnVerdict \/ ReportTokens \/ RunDispatches
  <2>1. \/ \E a \in Agents : db' = AgentActive(db, a) \/ db' = AgentDone(db, a)
        \/ \E vs \in SUBSET Verdicts : db' = VerdictsInScope(db, vs)
        \/ \E over \in BOOLEAN : BudgetEnforce /\ db' = TokensReported(db, over)
        \/ \E live \in BOOLEAN : db' = DispatchesLive(db, live)
    BY <1>2, TxAssumption DEF TrackAgent, ReturnVerdict, ReportTokens, RunDispatches, Commit
  <2>2. Lifecycle!Report
    BY <2>1, SameReports DEF Lifecycle!Report
  <2> QED
    BY <2>2 DEF Lifecycle!Next
<1> QED
  BY <1>1, <1>2 DEF Reports

LEMMA StepIsAtomic == Inv /\ [Next]_vars => [Lifecycle!Next]_db
<1> SUFFICES ASSUME Inv, [Next]_vars PROVE Lifecycle!Next \/ UNCHANGED db
  OBVIOUS
<1>1. ASSUME NEW p \in Procs, Start(p) \/ Crash(p)
      PROVE  UNCHANGED db
  BY <1>1 DEF Start, Crash, StartAdvance, StartOverride, StartRollback, StartSkip, StartCancel, StartSet
<1>2. ASSUME NEW p \in Procs, Step(p)
      PROVE  Lifecycle!Next \/ UNCHANGED db
  <2>1. CASE \/ AdvanceRead(p) \/ AdvanceRefused(p) \/ RollbackRead(p) \/ RollbackRefused(p)
             \/ SetRead(p) \/ SetRefused(p) \/ SetRetry(p) \/ SetGivesUp(p) \/ TxAbort(p)
    BY <2>1 DEF AdvanceRead, AdvanceRefused, RollbackRead, RollbackRefused,
       SetRead, SetRefused, SetRetry, SetGivesUp, TxAbort
  <2> QED
    BY <1>2, <2>1, TransactionIsAtomic, CleanupIsAtomic, StatementIsAtomic DEF Step
<1>3. CASE UNCHANGED vars
  BY <1>3 DEF vars
<1> QED
  BY <1>1, <1>2, <1>3, ReportIsAtomic DEF Next

(* The whole: concurrent commands come down to atomic ones.                *)
THEOREM RunTxImplementsLifecycle == Spec => RunIsAtomic
<1>1. Init => Lifecycle!Init
  BY DEF Init, Lifecycle!Init
<1> QED
  BY <1>1, StepIsAtomic, InitHasInv, NextKeepsInv, PTL DEF Spec, RunIsAtomic, Lifecycle!Spec

-----------------------------------------------------------------------------
(* What an atomic command does to the phase, the status and the trail.     *)

Recorded(type, from, to) ==
    \E e \in PhaseEvent : /\ e.type = type /\ e.from = from /\ e.to = to
                          /\ db'.log = Append(db.log, e)

(* It moves the run ahead, in a transaction that also logs the move;       *)
Forward ==
    \E to \in Phase :
      /\ MayAdvance(db) /\ to > db.phase
      /\ db'.phase = to
      /\ db'.status = IF IsTerminal(to) THEN "completed" ELSE db.status
      /\ Recorded("advance", db.phase, to) \/ Recorded("override", db.phase, to)

(* or moves it back;                                                       *)
Backward ==
    \E to \in Phase :
      /\ MayRollback(db, to)
      /\ db'.phase = to /\ db'.status = "active"
      /\ Recorded("rollback", db.phase, to)

(* or leaves it where it is, perhaps cancelled.                            *)
Still ==
    /\ db'.phase = db.phase
    /\ db'.status = db.status \/ db'.status = "cancelled"
    /\ \/ db'.log = db.log
       \/ \E e \in PhaseEvent : ~IsMove(e) /\ db'.log = Append(db.log, e)

LEMMA RecordedEvent ==
    ASSUME NEW d \in Run, NEW type \in EventType, NEW from \in Phase, NEW to \in Phase,
           NEW gate, gate.result \in GateResult, gate.tier \in GateTier,
           db' = AddEvent(d, Event(type, from, to, gate)), d.log = db.log
    PROVE  /\ Recorded(type, from, to)
           /\ db'.phase = d.phase /\ db'.status = d.status
<1>1. Event(type, from, to, gate) \in PhaseEvent
  BY EventIsPhaseEvent
<1>2. db' = [d EXCEPT !.log = Append(d.log, Event(type, from, to, gate))]
  BY <1>1, AddEventType
<1> QED
  BY <1>1, <1>2 DEF Recorded, Event, Run

LEMMA AtomicShape ==
    ASSUME Inv, Lifecycle!Next
    PROVE  \/ Forward /\ \E cfg \in Configs, spec \in Lifecycle!AnySpec : Lifecycle!Advance(cfg, spec)
           \/ Forward /\ Lifecycle!Override
           \/ Backward \/ Still
<1>1. db \in Run /\ db.phase \in Phase /\ db.status \in Status
  BY DEF Inv, TypeOK, Run
<1> DEFINE to == AdvanceTarget(db)
<1>2. ASSUME MayAdvance(db)
      PROVE  to \in Phase /\ to > db.phase
  BY <1>1, <1>2, AdvanceTargetType DEF MayAdvance
<1>3. ASSUME NEW cfg \in Configs, Lifecycle!Pause(cfg)
      PROVE  Still
  <2>1. MayAdvance(db) /\ db' = AddEvent(db, Event("pause", db.phase, to, Ungated))
    BY <1>3, SameGate, SameMoves DEF Lifecycle!Pause, Paused
  <2>2. Recorded("pause", db.phase, to) /\ db'.phase = db.phase /\ db'.status = db.status
    BY <1>1, <1>2, <2>1, UngatedType, RecordedEvent DEF EventType
  <2> QED
    BY <2>2 DEF Still, Recorded, IsMove
<1>4. ASSUME NEW cfg \in Configs, NEW spec, Lifecycle!Block(cfg, spec)
      PROVE  Still
  <2>1. MayAdvance(db) /\ db' = AddEvent(db, Event("block", db.phase, to, Gate(db, cfg, spec)))
    BY <1>4, SameGate, SameMoves DEF Lifecycle!Block, BlockedAt
  <2>2. /\ Gate(db, cfg, spec).result \in GateResult
        /\ Gate(db, cfg, spec).tier \in GateTier
    BY GateType DEF Gate
  <2>3. Recorded("block", db.phase, to) /\ db'.phase = db.phase /\ db'.status = db.status
    BY <1>1, <1>2, <2>1, <2>2, RecordedEvent DEF EventType
  <2> QED
    BY <2>3 DEF Still, Recorded, IsMove
<1>5. ASSUME NEW cfg \in Configs, NEW spec, Lifecycle!Advance(cfg, spec)
      PROVE  Forward
  <2> DEFINE d == UpdatePhase(db, to)
  <2>1. MayAdvance(db) /\ db' = AddEvent(d, Event("advance", db.phase, to, Gate(db, cfg, spec)))
    BY <1>5, SameGate, SameMoves DEF Lifecycle!Advance, Advanced
  <2>2. /\ Gate(db, cfg, spec).result \in GateResult
        /\ Gate(db, cfg, spec).tier \in GateTier
    BY GateType DEF Gate
  <2>3. /\ d \in Run /\ d.log = db.log /\ d.phase = to
        /\ d.status = IF IsTerminal(to) THEN "completed" ELSE db.status
    BY <1>1, <1>2, <2>1, UpdatePhaseType DEF UpdatePhase, Run
  <2>4. Recorded("advance", db.phase, to) /\ db'.phase = d.phase /\ db'.status = d.status
    BY <1>1, <1>2, <2>1, <2>2, <2>3, RecordedEvent DEF EventType
  <2> QED
    BY <1>2, <2>1, <2>3, <2>4 DEF Forward
<1>6. ASSUME Lifecycle!OverrideBlock \/ Lifecycle!Override
      PROVE  (Forward /\ Lifecycle!Override) \/ Still
  <2> DEFINE next == db.phase + 1
  <2>1. MayAdvance(db) /\ next \in Phase /\ next > db.phase
    <3>1. MayAdvance(db)
      BY <1>6, SameMoves DEF Lifecycle!OverrideBlock, Lifecycle!Override
    <3>2. ~IsTerminal(db.phase)
      BY <3>1 DEF MayAdvance
    <3> QED
      BY <1>1, <3>1, <3>2, ChainAssumption DEF IsTerminal, Terminal, Phase
  <2>2. CASE Lifecycle!OverrideBlock
    <3>1. db' = AddEvent(db, Event("block", db.phase, next, HardFail))
      BY <2>2, SameMoves DEF Lifecycle!OverrideBlock, OverrideBlocked
    <3>2. Recorded("block", db.phase, next) /\ db'.phase = db.phase /\ db'.status = db.status
      BY <1>1, <2>1, <3>1, UngatedType, RecordedEvent DEF EventType
    <3> QED
      BY <3>2 DEF Still, Recorded, IsMove
  <2>3. CASE Lifecycle!Override
    <3> DEFINE d == UpdatePhase(db, next)
    <3>1. db' = AddEvent(d, Event("override", db.phase, next, HardFail))
      BY <2>3, SameMoves DEF Lifecycle!Override, Overridden
    <3>2. /\ d \in Run /\ d.log = db.log /\ d.phase = next
          /\ d.status = IF IsTerminal(next) THEN "completed" ELSE db.status
      BY <1>1, <2>1, UpdatePhaseType DEF UpdatePhase, Run
    <3>3. Recorded("override", db.phase, next) /\ db'.phase = d.phase /\ db'.status = d.status
      BY <1>1, <2>1, <3>1, <3>2, UngatedType, RecordedEvent DEF EventType
    <3> QED
      BY <2>1, <2>3, <3>2, <3>3 DEF Forward
  <2> QED
    BY <1>6, <2>2, <2>3
<1>7. ASSUME NEW back \in Phase, Lifecycle!Rollback(back)
      PROVE  Backward
  <2> DEFINE d == [db EXCEPT !.phase = back, !.status = "active"]
  <2>1. MayRollback(db, back) /\ db' = AddEvent(d, Event("rollback", db.phase, back, Ungated))
    BY <1>7, SameMoves DEF Lifecycle!Rollback, RolledBack
  <2>2. d \in Run /\ d.log = db.log /\ d.phase = back /\ d.status = "active"
    BY <1>1 DEF Run, Status
  <2>3. Recorded("rollback", db.phase, back) /\ db'.phase = d.phase /\ db'.status = d.status
    BY <1>1, <2>1, <2>2, UngatedType, RecordedEvent DEF EventType
  <2> QED
    BY <2>1, <2>2, <2>3 DEF Backward
<1>8. ASSUME NEW from \in Phase, NEW target \in Phase,
             Lifecycle!Skip(from, target) \/ Lifecycle!CancelEvent(from)
      PROVE  Still
  <2>1. PICK type \in {"skip", "cancel"}, end \in Phase :
          db' = AddEvent(db, Event(type, from, end, Ungated))
    BY <1>8, SameMoves DEF Lifecycle!Skip, Lifecycle!CancelEvent, SkipRecorded, CancelRecorded
  <2>2. Recorded(type, from, end) /\ db'.phase = db.phase /\ db'.status = db.status
    BY <1>1, <2>1, UngatedType, RecordedEvent DEF EventType
  <2> QED
    BY <2>2 DEF Still, Recorded, IsMove
<1>9. ASSUME NEW u \in Settings, Lifecycle!Configure(u)
      PROVE  Still
  <2> DEFINE d == IF IsGatePatch(u)
                  THEN [db EXCEPT !.closeGate = Merge(db.closeGate, u.to)]
                  ELSE [db EXCEPT !.auto = (u.to = "on")]
  <2>1. db' = AddEvent(d, Event("set", db.phase, db.phase, Ungated))
    BY <1>9, SameReports DEF Lifecycle!Configure, Set
  <2>2. d.log = db.log /\ d.phase = db.phase /\ d.status = db.status
    BY <1>1 DEF Run
  <2>3. db'.log = Append(db.log, Event("set", db.phase, db.phase, Ungated))
    BY <1>1, <2>1, <2>2 DEF AddEvent, Run
  <2>4. db'.phase = db.phase /\ db'.status = db.status
    BY <1>1, <2>1, <2>2 DEF AddEvent, Run
  <2>5. Event("set", db.phase, db.phase, Ungated) \in PhaseEvent
    BY <1>1, UngatedType, EventIsPhaseEvent DEF EventType
  <2>6. ~IsMove(Event("set", db.phase, db.phase, Ungated))
    BY DEF IsMove, Event
  <2> QED
    BY <2>3, <2>4, <2>5, <2>6 DEF Still
<1>10. CASE \/ \E back, from \in Phase : Lifecycle!CleanArtifacts(back, from)
            \/ Lifecycle!CleanDispatches \/ Lifecycle!CleanAgents \/ Lifecycle!Cancel
            \/ \E q \in Phase, kind \in ArtifactKinds : Lifecycle!RecordArtifact(q, kind)
            \/ Lifecycle!Report
  <2>1. /\ db'.phase = db.phase /\ db'.log = db.log
        /\ db'.status = db.status \/ db'.status = "cancelled"
    BY <1>1, <1>10, SameReports, SameMoves
    DEF Run, Lifecycle!CleanArtifacts, Lifecycle!CleanDispatches, Lifecycle!CleanAgents,
        Lifecycle!Cancel, Lifecycle!RecordArtifact, Lifecycle!Report, MarkArtifactsRolledBack,
        CancelByRun, FailAgentsByRun, Cancelled, ArtifactAdded, AgentActive, AgentDone,
        VerdictsInScope, TokensReported, DispatchesLive
  <2> QED
    BY <2>1 DEF Still
<1> QED
  BY <1>3, <1>4, <1>5, <1>6, <1>7, <1>8, <1>9, <1>10, SameMoves, SameReports DEF Lifecycle!Next

-----------------------------------------------------------------------------
(* The life of a run.                                                      *)

LEMMA StepShape ==
    ASSUME Inv, [Next]_vars
    PROVE  Forward \/ Backward \/ Still
<1>1. CASE Lifecycle!Next
  BY <1>1, AtomicShape
<1>2. CASE UNCHANGED db
  BY <1>2 DEF Still
<1> QED
  BY <1>1, <1>2, StepIsAtomic

(* A cancelled run stays where it was, and only a rollback takes a         *)
(* completed run back to life: no interleaving of advance, override,       *)
(* rollback and cancel gets around it.                                     *)
THEOREM TerminalStaysFrozen == Spec => TerminalFrozen
<1>1. Inv /\ [Next]_vars =>
        [ /\ db.status = "cancelled" =>
               db'.status = "cancelled" /\ db'.phase = db.phase
          /\ db.status = "completed" /\ db'.phase # db.phase =>
               db'.status = "active" /\ db'.phase < db.phase ]_vars
  <2> SUFFICES ASSUME Inv, [Next]_vars
               PROVE  /\ db.status = "cancelled" =>
                           db'.status = "cancelled" /\ db'.phase = db.phase
                      /\ db.status = "completed" /\ db'.phase # db.phase =>
                           db'.status = "active" /\ db'.phase < db.phase
    OBVIOUS
  <2> QED
    BY StepShape DEF Forward, Backward, Still, MayAdvance, MayRollback, IsTerminalStatus
<1> QED
  BY <1>1, InitHasInv, NextKeepsInv, PTL DEF Spec, TerminalFrozen

(* A completed run is in its terminal phase, and a run in its terminal     *)
(* phase is not active: the status is written with the phase.              *)
THEOREM TerminalAlwaysAgrees == Spec => []TerminalAgrees
<1>1. Init => TerminalAgrees
  BY InputAssumption, ChainAssumption
  DEF Init, TerminalAgrees, NewRun, IsTerminal, Terminal
<1>2. Inv /\ TerminalAgrees /\ [Next]_vars => TerminalAgrees'
  <2> SUFFICES ASSUME Inv, TerminalAgrees, [Next]_vars PROVE TerminalAgrees'
    OBVIOUS
  <2>1. db.phase \in Phase /\ db.status \in Status
    BY DEF Inv, TypeOK, Run
  <2>2. CASE Forward
    BY <2>1, <2>2 DEF Forward, TerminalAgrees, MayAdvance, IsTerminalStatus, Status
  <2>3. CASE Backward
    BY <2>1, <2>3 DEF Backward, TerminalAgrees, MayRollback, IsTerminal, Terminal, Phase
  <2>4. CASE Still
    BY <2>1, <2>4 DEF Still, TerminalAgrees, IsTerminalStatus, Status
  <2> QED
    BY <2>2, <2>3, <2>4, StepShape
<1> QED
  BY <1>1, <1>2, InitHasInv, NextKeepsInv, PTL DEF Spec

(* Appending an event to a trail that ends where the run is, keeps it so:  *)
(* a move starts from where the run was and ends where it is now, any      *)
(* other event leaves the run where it is.                                 *)
LEMMA TrailGrows ==
    ASSUME Inv, TrailUnbroken, NEW e \in PhaseEvent, db'.log = Append(db.log, e),
           IsMove(e) => e.from = db.phase /\ db'.phase = e.to,
           ~IsMove(e) => db'.phase = db.phase
    PROVE  TrailUnbroken'
<1> DEFINE n == Len(db.log)
<1>1. db.log \in Seq(PhaseEvent) /\ n \in Nat /\ DOMAIN db.log = 1 .. n
  BY DEF Inv, TypeOK, Run
<1>2. /\ Len(db'.log) = n + 1
      /\ DOMAIN db'.log = 1 .. n + 1
      /\ \A i \in 1 .. n : db'.log[i] = db.log[i]
      /\ db'.log[n + 1] = e
  BY <1>1
<1>3. \A i \in 0 .. n, j \in 1 .. n + 1 : NoMoveBetween(db'.log, i, j) = NoMoveBetween(db.log, i, j)
  BY <1>1, <1>2 DEF NoMoveBetween
<1>4. \A i \in 0 .. n : NoMoveBetween(db'.log, i, n + 2)
                           => ~IsMove(e) /\ NoMoveBetween(db.log, i, n + 1)
  BY <1>1, <1>2 DEF NoMoveBetween
<1>5. \A i \in DOMAIN db'.log :
        IsMove(db'.log[i]) /\ NoMoveBetween(db'.log, 0, i) => db'.log[i].from = 1
  <2> SUFFICES ASSUME NEW i \in 1 .. n + 1,
                      IsMove(db'.log[i]), NoMoveBetween(db'.log, 0, i)
               PROVE  db'.log[i].from = 1
    BY <1>2
  <2>1. NoMoveBetween(db.log, 0, i)
    BY <1>1, <1>3
  <2>2. CASE i = n + 1
    BY <1>2, <2>1, <2>2 DEF TrailUnbroken
  <2>3. CASE i \in 1 .. n
    BY <1>1, <1>2, <2>1, <2>3 DEF TrailUnbroken
  <2> QED
    BY <1>1, <2>2, <2>3
<1>6. \A i, j \in DOMAIN db'.log :
        /\ i < j /\ IsMove(db'.log[i]) /\ IsMove(db'.log[j]) /\ NoMoveBetween(db'.log, i, j)
        => db'.log[j].from = db'.log[i].to
  <2> SUFFICES ASSUME NEW i \in 1 .. n + 1, NEW j \in 1 .. n + 1, i < j,
                      IsMove(db'.log[i]), IsMove(db'.log[j]), NoMoveBetween(db'.log, i, j)
               PROVE  db'.log[j].from = db'.log[i].to
    BY <1>2
  <2>1. i \in 1 .. n /\ NoMoveBetween(db.log, i, j)
    BY <1>1, <1>3
  <2>2. CASE j = n + 1
    BY <1>1, <1>2, <2>1, <2>2 DEF TrailUnbroken
  <2>3. CASE j \in 1 .. n
    BY <1>1, <1>2, <2>1, <2>3 DEF TrailUnbroken
  <2> QED
    BY <1>1, <2>2, <2>3
<1>7. \A i \in DOMAIN db'.log :
        IsMove(db'.log[i]) /\ NoMoveBetween(db'.log, i, Len(db'.log) + 1)
        => db'.phase = db'.log[i].to
  <2> SUFFICES ASSUME NEW i \in 1 .. n + 1,
                      IsMove(db'.log[i]), NoMoveBetween(db'.log, i, n + 2)
               PROVE  db'.phase = db'.log[i].to
    BY <1>1, <1>2
  <2>1. CASE i = n + 1
    BY <1>2, <2>1
  <2>2. CASE i \in 1 .. n
    <3>1. ~IsMove(e) /\ NoMoveBetween(db.log, i, n + 1)
      BY <1>4, <2>2
    <3> QED
      BY <1>1, <1>2, <2>2, <3>1 DEF TrailUnbroken
  <2> QED
    BY <1>1, <2>1, <2>2
<1>8. NoMoveBetween(db'.log, 0, Len(db'.log) + 1) => db'.phase = 1
  BY <1>1, <1>2, <1>4 DEF TrailUnbroken
<1> QED
  BY <1>5, <1>6, <1>7, <1>8 DEF TrailUnbroken

(* The moves in phase_events are one path from the first phase to where    *)
(* the run is, for any number of racing processes.                         *)
THEOREM TrailStaysUnbroken == Spec => []TrailUnbroken
<1>1. Init => TrailUnbroken
  BY InputAssumption DEF Init, TrailUnbroken, NewRun, NoMoveBetween
<1>2. Inv /\ TrailUnbroken /\ [Next]_vars => TrailUnbroken'
  <2> SUFFICES ASSUME Inv, TrailUnbroken, [Next]_vars PROVE TrailUnbroken'
    OBVIOUS
  <2>1. CASE Forward \/ Backward
    <3>1. PICK e \in PhaseEvent : /\ IsMove(e) /\ e.from = db.phase /\ db'.phase = e.to
                                 /\ db'.log = Append(db.log, e)
      BY <2>1 DEF Forward, Backward, Recorded, IsMove
    <3> QED
      BY <3>1, TrailGrows
  <2>2. CASE Still
    <3>1. CASE db'.log = db.log
      BY <2>2, <3>1 DEF Still, TrailUnbroken
    <3>2. CASE \E e \in PhaseEvent : ~IsMove(e) /\ db'.log = Append(db.log, e)
      BY <2>2, <3>2, TrailGrows DEF Still
    <3> QED
      BY <2>2, <3>1, <3>2 DEF Still
  <2> QED
    BY <2>1, <2>2, StepShape
<1> QED
  BY <1>1, <1>2, InitHasInv, NextKeepsInv, PTL DEF Spec

-----------------------------------------------------------------------------
(* The gates.                                                              *)

(* What the transaction of an advance finds and leaves.                    *)
LEMMA AdvanceEffect ==
    ASSUME Inv, NEW cfg, NEW spec, Lifecycle!Advance(cfg, spec)
    PROVE  /\ MayAdvance(db) /\ Passes(db, cfg, spec)
           /\ AdvanceTarget(db) \in Phase
           /\ db'.phase = AdvanceTarget(db)
           /\ db'.status = IF IsTerminal(AdvanceTarget(db)) THEN "completed" ELSE db.status
           /\ db'.closeGate = db.closeGate
           /\ db'.log = Append(db.log,
                               Event("advance", db.phase, AdvanceTarget(db), Gate(db, cfg, spec)))
<1>1. db \in Run
  BY DEF Inv, TypeOK
<1>2. MayAdvance(db) /\ Passes(db, cfg, spec) /\ db' = Advanced(db, db, cfg, spec)
  BY SameGate, SameMoves DEF Lifecycle!Advance
<1>3. AdvanceTarget(db) \in Phase
  BY <1>1, <1>2, AdvanceTargetType DEF MayAdvance
<1> QED
  BY <1>1, <1>2, <1>3 DEF Advanced, AddEvent, UpdatePhase, Run

(* And what an override does.                                              *)
LEMMA OverrideEffect ==
    ASSUME Inv, Lifecycle!Override
    PROVE  /\ ~OverrideRefused(db)
           /\ db'.status = IF IsTerminal(db.phase + 1) THEN "completed" ELSE db.status
           /\ db'.closeGate = db.closeGate
           /\ db'.log = Append(db.log, Event("override", db.phase, db.phase + 1, HardFail))
<1>1. db \in Run
  BY DEF Inv, TypeOK
<1>2. ~OverrideRefused(db) /\ db' = Overridden(db, db.phase)
  BY SameMoves DEF Lifecycle!Override
<1> QED
  BY <1>1, <1>2 DEF Overridden, AddEvent, UpdatePhase, Run

-----------------------------------------------------------------------------
(* The advances.                                                           *)

(* Only Advance logs an advance.                                           *)
LEMMA AdvanceLogged ==
    ASSUME Inv, [Next]_vars, Logs("advance")
    PROVE  \E cfg \in Configs, spec \in Lifecycle!AnySpec : Lifecycle!Advance(cfg, spec)
<1>1. db.log \in Seq(PhaseEvent)
  BY DEF Inv, TypeOK, Run
<1>2. \A e : db'.log = Append(db.log, e) => e.type = "advance"
  BY <1>1 DEF Logs
<1>3. db'.log # db.log
  BY <1>1 DEF Logs
<1>4. Lifecycle!Next
  BY <1>3, StepIsAtomic
<1>5. ~Lifecycle!Override
  BY <1>2, OverrideEffect DEF Event
<1>6. ~Backward
  BY <1>2 DEF Backward, Recorded
<1>7. ~Still
  BY <1>2, <1>3 DEF Still, IsMove
<1> QED
  BY <1>4, <1>5, <1>6, <1>7, AtomicShape

(* A gate that let an advance pass: a failure was soft, and a pass met     *)
(* every rule without leave from --disable-gates.                          *)
LEMMA PassingGate ==
    ASSUME NEW cfg, NEW spec, Passes(db, cfg, spec)
    PROVE  /\ Gate(db, cfg, spec).result = "fail" => Gate(db, cfg, spec).tier = "soft"
           /\ Gate(db, cfg, spec).result = "pass" => AllMet(spec, db.phase, AdvanceTarget(db))
<1> DEFINE to == AdvanceTarget(db)
           gate == Gate(db, cfg, spec)
<1>1. ~(gate.result = "fail" /\ gate.tier = "hard")
  BY DEF Passes, Blocked
<1>2. gate = evaluateGate(db, cfg, spec, db.phase, to)
  BY DEF Gate
<1>3. Tier(db, cfg, spec, db.phase, to) \in {"hard", "soft"}
  BY DEF Tier
<1>4. gate.result = "fail" => gate.tier = "soft"
  BY <1>1, <1>2, <1>3 DEF evaluateGate
<1>5. gate.result = "pass" => \A r \in RulesFor(db, spec, db.phase, to) : Met(db, cfg, r)
  BY <1>2 DEF evaluateGate
<1>6. \A r : Met(db, cfg, r) => Met(db, NoBypass, r)
  BY DEF Met, NoBypass
<1> QED
  BY <1>4, <1>5, <1>6 DEF AllMet

(* What the event of an advance claims is true of the database the advance *)
(* commits to, whatever committed between its reads and its write: the run *)
(* was there and active, what it jumped over had been skipped, a gate that *)
(* passed had its conditions met and one that failed was not hard.         *)
THEOREM AdvancesAreJustified == Spec => AdvanceJustified
<1>1. Inv /\ [Next]_vars =>
        [ Logs("advance") =>
            LET e == NewEvent IN
            /\ db.status = "active" /\ e.from = db.phase /\ e.to = db'.phase
            /\ \A q \in e.from + 1 .. e.to - 1 : q \in SkippedPhases(db)
            /\ e.to \in SkippedPhases(db) => IsTerminal(e.to)
            /\ e.result = "fail" => e.tier = "soft"
            /\ e.result = "pass" => \E q \in Phase : AllMet(SpecExit[q], e.from, e.to) ]_vars
  <2> SUFFICES ASSUME Inv, [Next]_vars, Logs("advance")
               PROVE  /\ db.status = "active"
                      /\ NewEvent.from = db.phase /\ NewEvent.to = db'.phase
                      /\ \A q \in NewEvent.from + 1 .. NewEvent.to - 1 : q \in SkippedPhases(db)
                      /\ NewEvent.to \in SkippedPhases(db) => IsTerminal(NewEvent.to)
                      /\ NewEvent.result = "fail" => NewEvent.tier = "soft"
                      /\ NewEvent.result = "pass" =>
                           \E q \in Phase : AllMet(SpecExit[q], NewEvent.from, NewEvent.to)
    OBVIOUS
  <2>1. PICK cfg \in Configs, spec \in Lifecycle!AnySpec : Lifecycle!Advance(cfg, spec)
    BY AdvanceLogged
  <2> DEFINE to == AdvanceTarget(db)
             gate == Gate(db, cfg, spec)
  <2>2. db \in Run /\ db.status \in Status /\ db.phase \in Phase /\ db.log \in Seq(PhaseEvent)
    BY DEF Inv, TypeOK, Run
  <2>3. /\ MayAdvance(db) /\ Passes(db, cfg, spec) /\ db'.phase = to
        /\ db'.log = Append(db.log, Event("advance", db.phase, to, gate))
    BY <2>1, AdvanceEffect
  <2>4. NewEvent = Event("advance", db.phase, to, gate)
    BY <2>2, <2>3 DEF NewEvent
  <2>5. /\ NewEvent.from = db.phase /\ NewEvent.to = to
        /\ NewEvent.result = gate.result /\ NewEvent.tier = gate.tier
    BY <2>4 DEF Event
  <2>6. db.status = "active"
    BY <2>2, <2>3 DEF MayAdvance, IsTerminalStatus, Status
  <2>7. /\ StopsAt(to, SkippedPhases(db))
        /\ \A q \in db.phase + 1 .. to - 1 : ~StopsAt(q, SkippedPhases(db))
    BY <2>2, <2>3, TargetFact DEF AdvanceTarget, MayAdvance
  <2>8. PICK q \in Phase : spec = SpecExit[q]
    BY SameMoves DEF Lifecycle!AnySpec
  <2>9. /\ gate.result = "fail" => gate.tier = "soft"
        /\ gate.result = "pass" => AllMet(SpecExit[q], db.phase, to)
    BY <2>3, <2>8, PassingGate
  <2> QED
    BY <2>3, <2>5, <2>6, <2>7, <2>9 DEF StopsAt
<1> QED
  BY <1>1, InitHasInv, NextKeepsInv, PTL DEF Spec, AdvanceJustified

-----------------------------------------------------------------------------
(* The close gate.                                                         *)

(* A close gate is only required on a chain that ends in "done".           *)
GateOnDone == Required(db.closeGate) => Chain[Terminal] = "done"

(* Only a patch of "ic run set" touches the close gate, and the patch is   *)
(* merged with what is there.                                              *)
LEMMA CloseGateChange ==
    ASSUME Inv, Lifecycle!Next
    PROVE  \/ db'.closeGate = db.closeGate
           \/ \E u \in Settings : /\ IsGatePatch(u) /\ MaySet(db, u)
                                  /\ db'.closeGate = Merge(db.closeGate, u.to)
<1>1. db \in Run
  BY DEF Inv, TypeOK
<1>2. ASSUME NEW cfg, NEW spec,
             \/ Lifecycle!Pause(cfg) \/ Lifecycle!Block(cfg, spec) \/ Lifecycle!OverrideBlock
      PROVE  db'.closeGate = db.closeGate
  BY <1>1, <1>2, SameGate, SameMoves
  DEF Lifecycle!Pause, Lifecycle!Block, Lifecycle!OverrideBlock, Paused, BlockedAt,
      OverrideBlocked, AddEvent, Run
<1>3. ASSUME NEW cfg, NEW spec, Lifecycle!Advance(cfg, spec) \/ Lifecycle!Override
      PROVE  db'.closeGate = db.closeGate
  BY <1>3, AdvanceEffect, OverrideEffect
<1>4. ASSUME NEW from, NEW to,
             \/ Lifecycle!Rollback(to) \/ Lifecycle!CleanArtifacts(to, from)
             \/ Lifecycle!CleanDispatches \/ Lifecycle!CleanAgents
      PROVE  db'.closeGate = db.closeGate
  BY <1>1, <1>4, SameMoves, SameReports
  DEF Lifecycle!Rollback, Lifecycle!CleanArtifacts, Lifecycle!CleanDispatches,
      Lifecycle!CleanAgents, RolledBack, MarkArtifactsRolledBack, CancelByRun,
      FailAgentsByRun, AddEvent, Run
<1>5. ASSUME NEW from, NEW to,
             Lifecycle!Skip(from, to) \/ Lifecycle!Cancel \/ Lifecycle!CancelEvent(from)
      PROVE  db'.closeGate = db.closeGate
  BY <1>1, <1>5, SameMoves
  DEF Lifecycle!Skip, Lifecycle!Cancel, Lifecycle!CancelEvent, SkipRecorded, Cancelled,
      CancelRecorded, AddEvent, Run
<1>6. ASSUME NEW u \in Settings, Lifecycle!Configure(u)
      PROVE  \/ db'.closeGate = db.closeGate
             \/ /\ IsGatePatch(u) /\ MaySet(db, u)
                /\ db'.closeGate = Merge(db.closeGate, u.to)
  BY <1>1, <1>6, SameReports DEF Lifecycle!Configure, Set, AddEvent, Run
<1>7. ASSUME NEW q, NEW kind, Lifecycle!RecordArtifact(q, kind) \/ Lifecycle!Report
      PROVE  db'.closeGate = db.closeGate
  BY <1>1, <1>7, SameReports
  DEF Lifecycle!RecordArtifact, Lifecycle!Report, ArtifactAdded, AgentActive, AgentDone,
      VerdictsInScope, TokensReported, DispatchesLive, Run
<1> QED
  BY <1>2, <1>3, <1>4, <1>5, <1>6, <1>7, SameReports DEF Lifecycle!Next

(* No "ic run set" lowers a close gate or rewrites what it has sealed,     *)
(* whatever its patch names and whatever committed since it read.          *)
THEOREM CloseGateStaysSealed == Spec => CloseGateSealed
<1> DEFINE Sealed == Required(db.closeGate) =>
             /\ Required(db'.closeGate) /\ db'.closeGate.bead = db.closeGate.bead
             /\ Ready(db.closeGate) => db'.closeGate.seal = db.closeGate.seal
<1>1. Inv /\ [Next]_vars => [Sealed]_vars
  <2> SUFFICES ASSUME Inv, [Next]_vars, Required(db.closeGate), vars' # vars PROVE Sealed
    OBVIOUS
  <2>1. CASE db'.closeGate = db.closeGate
    BY <2>1
  <2>2. ASSUME NEW u \in Settings, IsGatePatch(u), MaySet(db, u),
               db'.closeGate = Merge(db.closeGate, u.to)
        PROVE  Sealed
    <3>1. KeepsSeal(db.closeGate, db'.closeGate)
      BY <2>2 DEF MaySet, GateAfter
    <3> QED
      BY <3>1 DEF KeepsSeal, Ready
  <2> QED
    BY <2>1, <2>2, CloseGateChange, StepIsAtomic
<1> QED
  BY <1>1, InitHasInv, NextKeepsInv, PTL DEF Spec, CloseGateSealed

LEMMA GateOnDoneKept == Inv /\ GateOnDone /\ [Next]_vars => GateOnDone'
  BY CloseGateChange, StepIsAtomic DEF GateOnDone, MaySet, GateAfter

(* A run with a close gate completes only by an advance whose gate held    *)
(* the evidence rule.                                                      *)
LEMMA CompletionMeetsGate ==
    ASSUME Inv, GateOnDone, [Next]_vars,
           db'.status = "completed", db.status # "completed", Required(db.closeGate)
    PROVE  Ready(db.closeGate) /\ Verified(db)
<1>1. Lifecycle!Next
  BY StepIsAtomic
<1>2. ~Still /\ ~Backward
  BY DEF Still, Backward
<1>3. ~Lifecycle!Override
  BY OverrideEffect DEF OverrideRefused
<1>4. PICK cfg \in Configs, spec \in Lifecycle!AnySpec : Lifecycle!Advance(cfg, spec)
  BY <1>1, <1>2, <1>3, AtomicShape
<1> DEFINE to == AdvanceTarget(db)
           evidence == [check |-> "runtime_evidence", phase |-> "", tier |-> "hard"]
<1>5. Passes(db, cfg, spec) /\ RuntimeTerminal(db, to)
  BY <1>4, AdvanceEffect DEF GateOnDone, RuntimeTerminal, IsTerminal
<1>6. evidence \in RulesFor(db, spec, db.phase, to)
  BY <1>5 DEF RulesFor, Injected
<1>7. \A r \in RulesFor(db, spec, db.phase, to) : Met(db, cfg, r)
  <2>1. ~Bypassed(db, cfg, to) /\ Tier(db, cfg, spec, db.phase, to) = "hard"
    BY <1>5 DEF Bypassed, Tier
  <2> QED
    BY <1>5, <2>1 DEF Passes, Gate, Blocked, evaluateGate
<1>8. Met(db, cfg, evidence)
  BY <1>6, <1>7
<1> QED
  BY <1>8 DEF Met

(* A run whose close gate requires runtime evidence completes only with    *)
(* sealed expectations and a latest receipt that verifies, whatever the    *)
(* flags, overrides and skips, and whenever the requirement was set.       *)
THEOREM CloseGateAlwaysHolds == Spec => CloseGateHolds
<1>1. Init => GateOnDone
  BY InputAssumption DEF Init, GateOnDone
<1>2. Inv /\ GateOnDone /\ [Next]_vars =>
        [ db'.status = "completed" /\ db.status # "completed" /\ Required(db.closeGate)
            => Ready(db.closeGate) /\ Verified(db) ]_vars
  BY CompletionMeetsGate
<1> QED
  BY <1>1, <1>2, GateOnDoneKept, InitHasInv, NextKeepsInv, PTL DEF Spec, CloseGateHolds

=============================================================================
