----------------------------- MODULE RunRecord -----------------------------
(****************************************************************************)
(* What the database holds of one run, and what each statement of the       *)
(* phase store does to it (internal/phase/tx_queriers.go, store.go,         *)
(* metadata.go; internal/runtrack/store.go).  Everything here is a pure     *)
(* operator on the record d; the modules that use it say when it happens.   *)
(*                                                                          *)
(*   status, phase, auto, closeGate  the columns of the runs row; closeGate *)
(*       stands for metadata.close_gate: whether its requirements name      *)
(*       runtime-evidence, its bead_id, and the seal (runtime_expectations  *)
(*       with their config_digest), each told apart from another one        *)
(*   log        the phase_events of the run, oldest first                   *)
(*   artifacts  the active run_artifacts: plain files, receipts that        *)
(*       verify ("proof") and receipts that do not ("badproof")             *)
(*   recorded   how many artifacts were ever recorded                       *)
(*   agents     the run_agents whose status is active                       *)
(*   live       some dispatch of the run is pending, spawned or running     *)
(*   verdicts   the verdict statuses of the dispatches in the run's scope   *)
(*   over       the tokens spent exceed the run's budget                    *)
(*                                                                          *)
(* The status "failed" is left out: no code writes it on a run.             *)
(****************************************************************************)
EXTENDS PhaseGate

CONSTANTS
    Agents,        \* agents that may be tracked for the run
    Verdicts,      \* verdict statuses dispatches may return
    Configs,       \* the configurations "ic run advance" is called with
    ArtifactKinds, \* the kinds of artifacts workers record
    Delegated,     \* the auto_advance that the declared delegation level implies
    InitialRuns    \* the runs to start from

Status   == {"active", "completed", "cancelled"}
IsTerminalStatus(s) == s \in {"completed", "cancelled"}

Identity  == {"first", "other"}
CloseGate == [requires : {"none", "evidence"},
              bead : Identity \cup {"none"}, seal : Identity \cup {"none"}]
NoGate    == [requires |-> "none", bead |-> "none", seal |-> "none"]
ArtifactKind == {"plain", "proof", "badproof"}
Artifact == [id : Nat, phase : Phase, kind : ArtifactKind]

EventType == {"advance", "override", "rollback", "pause", "block",
              "skip", "cancel", "set"}

GateResult == {"pass", "fail", "none"}
GateTier   == {"hard", "soft", "none"}

PhaseEvent == [type : EventType, from : Phase, to : Phase,
               result : GateResult, tier : GateTier]

Run == [status : Status, phase : Phase, auto : BOOLEAN, closeGate : CloseGate,
        log : Seq(PhaseEvent), artifacts : SUBSET Artifact, recorded : Nat,
        agents : SUBSET Agents, live : BOOLEAN,
        verdicts : SUBSET Verdicts, over : BOOLEAN]

(* A run as "ic run create" leaves it; it refuses a required close gate    *)
(* without a bead, or on a chain that does not end in "done".              *)
NewRun(auto, closeGate) ==
    [status |-> "active", phase |-> 1, auto |-> auto, closeGate |-> closeGate,
     log |-> <<>>, artifacts |-> {}, recorded |-> 0, agents |-> {},
     live |-> FALSE, verdicts |-> {}, over |-> FALSE]

ASSUME InputAssumption ==
    /\ Configs \subseteq GateConfig
    /\ ArtifactKinds \subseteq ArtifactKind
    /\ Delegated \in BOOLEAN
    /\ InitialRuns \subseteq {NewRun(auto, gate) : auto \in BOOLEAN, gate \in CloseGate}
    /\ \A d \in InitialRuns :
         Required(d.closeGate) => d.closeGate.bead # "none" /\ Chain[Terminal] = "done"

-----------------------------------------------------------------------------
(* Phase events.                                                           *)

Event(type, from, to, gate) ==
    [type |-> type, from |-> from, to |-> to,
     result |-> gate.result, tier |-> gate.tier]

Ungated == [result |-> "none", tier |-> "none"]
HardFail == [result |-> "fail", tier |-> "hard"]

AddEvent(d, event) == [d EXCEPT !.log = Append(@, event)]

(* The phases some skip event names: a later rollback does not unmark them. *)
SkippedPhases(d) ==
    {d.log[i].to : i \in {j \in DOMAIN d.log : d.log[j].type = "skip"}}

-----------------------------------------------------------------------------
(* Advance: what a transaction that read d decides.                        *)

(* Neither a terminal run nor a run in its terminal phase moves on.        *)
MayAdvance(d) == ~IsTerminalStatus(d.status) /\ ~IsTerminal(d.phase)

AdvanceTarget(d) == Target(d.phase, SkippedPhases(d))

Gate(d, cfg, spec) == evaluateGate(d, cfg, spec, d.phase, AdvanceTarget(d))

(* Auto-advance is off and nobody gave a reason to go on.                  *)
Pauses(d, cfg) == ~d.auto /\ ~cfg.skipReason

Blocks(d, cfg, spec) == ~Pauses(d, cfg) /\ Blocked(Gate(d, cfg, spec))

Passes(d, cfg, spec) == ~Pauses(d, cfg) /\ ~Blocked(Gate(d, cfg, spec))

(* Variant: the status is left to a later statement.                       *)
UpdatePhase_PhaseOnly(d, to) == [d EXCEPT !.phase = to]

(* The phase pointer moves to "to"; in the terminal phase the run is done. *)
UpdatePhase(d, to) ==
    [d EXCEPT !.phase = to,
              !.status = IF IsTerminal(to) THEN "completed" ELSE @]

(* The rows after the transaction that read s has written to d.            *)
Paused(d, s) == AddEvent(d, Event("pause", s.phase, AdvanceTarget(s), Ungated))

BlockedAt(d, s, cfg, spec) ==
    AddEvent(d, Event("block", s.phase, AdvanceTarget(s), Gate(s, cfg, spec)))

Advanced(d, s, cfg, spec) ==
    AddEvent(UpdatePhase(d, AdvanceTarget(s)),
             Event("advance", s.phase, AdvanceTarget(s), Gate(s, cfg, spec)))

-----------------------------------------------------------------------------
(* Override: one phase ahead, no skip walk; a required close gate into the *)
(* terminal phase refuses it.                                              *)

OverrideRefused(d) == Required(d.closeGate) /\ IsTerminal(d.phase + 1)

OverrideBlocked(d, from) ==
    AddEvent(d, Event("block", from, from + 1, HardFail))

Overridden(d, from) ==
    AddEvent(UpdatePhase(d, from + 1),
             Event("override", from, from + 1, HardFail))

-----------------------------------------------------------------------------
(* Rollback and its clean-up.                                              *)

(* The target is behind; only cancelled (and failed) runs are refused.     *)
MayRollback(d, to) == to < d.phase /\ d.status # "cancelled"

RolledBack(d, from, to) ==
    AddEvent([d EXCEPT !.phase = to, !.status = "active"],
             Event("rollback", from, to, Ungated))

MarkArtifactsRolledBack(d, phases) ==
    [d EXCEPT !.artifacts = {a \in @ : a.phase \notin phases}]

CancelByRun(d) == [d EXCEPT !.live = FALSE]

FailAgentsByRun(d) == [d EXCEPT !.agents = {}]

-----------------------------------------------------------------------------
(* Skip and cancel.                                                        *)

MaySkip(d, target) ==
    ~IsTerminalStatus(d.status) /\ target > d.phase /\ ~IsTerminal(target)

SkipRecorded(d, from, target) ==
    AddEvent(d, Event("skip", from, target, Ungated))

Cancelled(d) == [d EXCEPT !.status = "cancelled"]

CancelRecorded(d, from) == AddEvent(d, Event("cancel", from, from, Ungated))

-----------------------------------------------------------------------------
(* "ic run set": --auto-advance, or a --metadata-merge patch of the close  *)
(* gate.  A patch names some of its fields, or removes it with a null; a   *)
(* null of a single field is not among the patches.                        *)

GatePatch == {NoGate}
  \cup [requires : {"keep", "none", "evidence"},
        bead : Identity \cup {"keep"}, seal : Identity \cup {"keep"}]

Settings == [field : {"auto"}, to : {"on", "off"}]
              \cup [field : {"closeGate"}, to : GatePatch]

IsGatePatch(u) == u.field = "closeGate"

Patched(old, new) == IF new = "keep" THEN old ELSE new

(* mergeObject: what the patch names replaces what is there.               *)
Merge(gate, patch) ==
    [requires |-> Patched(gate.requires, patch.requires),
     bead     |-> Patched(gate.bead, patch.bead),
     seal     |-> Patched(gate.seal, patch.seal)]

(* Variant: only the removal of the requirement is refused.                *)
KeepsSeal_Requirement(before, after) == Required(before) => Required(after)

(* validateSealedCloseGate: of a gate that requires evidence, neither the  *)
(* requirement may go nor the bead or what is sealed change.               *)
KeepsSeal(before, after) ==
    Required(before) =>
      /\ Required(after)
      /\ after.bead = before.bead
      /\ before.seal # "none" => after.seal = before.seal

(* An auto_advance other than the delegated one is recorded in the metadata *)
(* too, so it is a merge as well.                                          *)
Diverges(u) == u.field = "auto" /\ (u.to = "on") # Delegated

GateAfter(d, u) == IF IsGatePatch(u) THEN Merge(d.closeGate, u.to) ELSE d.closeGate

(* A merge keeps the seal; one that results in a required close gate needs *)
(* its bead, a chain that ends in "done" and a run that can still move.    *)
MaySet(d, u) ==
    IsGatePatch(u) \/ Diverges(u)
      => /\ KeepsSeal(d.closeGate, GateAfter(d, u))
         /\ Required(GateAfter(d, u))
              => /\ GateAfter(d, u).bead # "none"
                 /\ MayAdvance(d) /\ Chain[Terminal] = "done"

Set(d, s, u) ==
    AddEvent(IF IsGatePatch(u)
             THEN [d EXCEPT !.closeGate = Merge(s.closeGate, u.to)]
             ELSE [d EXCEPT !.auto = (u.to = "on")],
             Event("set", d.phase, d.phase, Ungated))

(* Variant: the UPDATE is keyed like the others, on phase and status.      *)
SameConfiguration_NoMetadata(d, s) == d.phase = s.phase /\ d.status = s.status

(* The conditions of the UPDATE: metadata, phase and status are as read.   *)
(* Of the metadata the record keeps the close gate: a concurrent change of *)
(* another key would make this UPDATE miss as well, and be tried again.    *)
SameConfiguration(d, s) ==
    d.closeGate = s.closeGate /\ d.phase = s.phase /\ d.status = s.status

-----------------------------------------------------------------------------
(* What the run's workers report.                                          *)

ArtifactAdded(d, p, kind) ==
    [d EXCEPT !.artifacts = @ \cup {[id |-> d.recorded + 1, phase |-> p, kind |-> kind]},
              !.recorded = @ + 1]

AgentActive(d, a) == [d EXCEPT !.agents = @ \cup {a}]
AgentDone(d, a)   == [d EXCEPT !.agents = @ \ {a}]

VerdictsInScope(d, vs) == [d EXCEPT !.verdicts = vs]
TokensReported(d, over) == [d EXCEPT !.over = over]
DispatchesLive(d, live) == [d EXCEPT !.live = live]

=============================================================================
