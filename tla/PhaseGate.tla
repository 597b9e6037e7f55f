----------------------------- MODULE PhaseGate -----------------------------
(***************************************************************************)
(* The phase chain of a run and the gate that guards each transition       *)
(* (internal/phase/phase.go, internal/phase/gate.go, pkg/phase/phase.go).  *)
(*                                                                         *)
(* Only operators live here.  A chain holds no phase twice, so a phase is  *)
(* its position in the chain, and Chain[p] is its name.  A gate is         *)
(* evaluated on the record d of what the transaction read: the row of the  *)
(* run and the facts its queriers count.  RunRecord says what d holds.     *)
(***************************************************************************)
EXTENDS Integers, Sequences, WellFoundedInduction

CONSTANTS
    Chain,          \* the names of the run's phases, in order
    GateRules,      \* the rules of run.GateRules, or NoRules when it is nil
    NoRules,        \* stands for a nil run.GateRules
    SpecExit,       \* SpecExit[p]: exit rules of agency.gates.<p>, {} when unset
    BudgetEnforce,  \* run.BudgetEnforce
    CalibratedHard  \* the transitions <<check, from, to>> calibrated as hard

Phase    == 1 .. Len(Chain)
Terminal == Len(Chain)

(* A spec may name any check; one the evaluator does not know always fails. *)
Rule == [check : STRING, phase : STRING, tier : {"", "soft", "hard"}]

(* What "ic run advance" is called with: --priority, --disable-gates and   *)
(* whether a --skip-reason was given.                                      *)
GateConfig == [priority : Nat, disable : BOOLEAN, skipReason : BOOLEAN]

ASSUME ChainAssumption ==
    /\ Chain \in Seq(STRING)
    /\ Len(Chain) >= 2
    /\ \A p, q \in Phase : Chain[p] = Chain[q] => p = q

ASSUME RulesAssumption ==
    /\ GateRules = NoRules \/ GateRules \in [Phase \X Phase -> SUBSET Rule]
    /\ SpecExit \in [Phase -> SUBSET Rule]
    /\ BudgetEnforce \in BOOLEAN

-----------------------------------------------------------------------------
(* Walking the chain.                                                      *)

IsTerminal(p) == p = Terminal

(* Variant: the phase rolled back from keeps its artifacts.                *)
PhasesBetween_OpenEnd(to, from) == (to + 1) .. (from - 1)

(* The phases behind "from" down to, but not including, "to".              *)
PhasesBetween(to, from) == (to + 1) .. from

(* Where an advance from a phase lands: the next phase that is not         *)
(* pre-skipped; the terminal phase is never walked past.                   *)
StopsAt(p, skipped) == IsTerminal(p) \/ p \notin skipped

Target(from, skipped) ==
    CHOOSE t \in Phase : /\ t > from
                         /\ StopsAt(t, skipped)
                         /\ \A q \in from + 1 .. t - 1 : ~StopsAt(q, skipped)

-----------------------------------------------------------------------------
(* The rules of a transition.                                              *)

(* The hardcoded rules <<from, to, check, phase>>.                         *)
gateRules ==
    { <<"goal-formed",         "planned",             "artifact_exists", "goal-formed">>,
      <<"brainstorm",          "brainstorm-reviewed", "artifact_exists", "brainstorm">>,
      <<"brainstorm-reviewed", "strategized",         "artifact_exists", "brainstorm-reviewed">>,
      <<"strategized",         "planned",             "artifact_exists", "strategized">>,
      <<"planned",             "executing",           "artifact_exists", "planned">>,
      <<"executing",           "review",              "agents_complete", "">>,
      <<"review",              "polish",              "verdict_exists",  "">>,
      <<"reflect",             "done",                "artifact_exists", "reflect">> }

DefaultRules(from, to) ==
    { [check |-> g[3], phase |-> g[4], tier |-> ""] :
        g \in { h \in gateRules : h[1] = Chain[from] /\ h[2] = Chain[to] } }

(* Precedence: the rules stored with the run, then those of the agency     *)
(* spec (spec holds what the caller resolved), then the hardcoded ones.    *)
UsingDefaults(spec) == GateRules = NoRules /\ spec = {}

BaseRules(spec, from, to) ==
    IF GateRules # NoRules THEN GateRules[<<from, to>>]
    ELSE IF spec # {} THEN spec
    ELSE DefaultRules(from, to)

(* The close gate of a run as its metadata has it: it may require runtime   *)
(* evidence, and it is ready once its expectations are sealed.              *)
Required(gate) == gate.requires = "evidence"
Ready(gate) == Required(gate) /\ gate.seal # "none"

(* The close gate guards a transition into "done".                         *)
RuntimeTerminal(d, to) ==
    /\ Chain[to] = "done"
    /\ IsTerminal(to)
    /\ Required(d.closeGate)

Injected(d, to) ==
    (IF BudgetEnforce
       THEN {[check |-> "budget_not_exceeded", phase |-> "", tier |-> ""]} ELSE {})
    \cup
    (IF RuntimeTerminal(d, to)
       THEN {[check |-> "runtime_evidence", phase |-> "", tier |-> "hard"]} ELSE {})

RulesFor(d, spec, from, to) == BaseRules(spec, from, to) \cup Injected(d, to)

-----------------------------------------------------------------------------
(* Evaluating a gate.                                                      *)

HasVerdict(d) == d.verdicts \ {"reject"} # {}
UncleanVerdicts(d) == d.verdicts \cap {"fail", "error"}

(* The latest active runtime-evidence artifact verifies.                   *)
Receipts(d) == {a \in d.artifacts : a.kind # "plain"}
Verified(d) == \E a \in Receipts(d) : /\ a.kind = "proof"
                                      /\ \A b \in Receipts(d) : b.id <= a.id

(* Does d meet the condition of a rule?                                    *)
Met(d, cfg, rule) ==
    \/ rule.check = "artifact_exists" /\ \E a \in d.artifacts : Chain[a.phase] = rule.phase
    \/ rule.check = "agents_complete" /\ d.agents = {}
    \/ rule.check = "verdict_exists" /\ HasVerdict(d)
    \/ rule.check = "verdict_clean" /\ HasVerdict(d) /\ UncleanVerdicts(d) = {}
    \/ rule.check = "budget_not_exceeded" /\ (BudgetEnforce => ~d.over)
    \/ /\ rule.check = "runtime_evidence"
       /\ ~cfg.disable /\ Ready(d.closeGate) /\ Verified(d)

(* Variant: a bypass flag wins over the close gate.                        *)
Bypassed_Always(d, cfg, to) == cfg.disable \/ cfg.priority >= 4

(* The gate is skipped altogether; a required close gate never is.         *)
Bypassed(d, cfg, to) ==
    /\ cfg.disable \/ cfg.priority >= 4
    /\ ~RuntimeTerminal(d, to)

(* The priority gives the tier; a rule of the transition or a calibration  *)
(* of a hardcoded one can make it stricter, and a close gate is hard.      *)
Escalated(spec, rules, from, to) ==
    \/ \E r \in rules : r.tier = "hard"
    \/ UsingDefaults(spec) /\ \E r \in rules : <<r.check, from, to>> \in CalibratedHard

Tier(d, cfg, spec, from, to) ==
    IF \/ cfg.priority <= 1
       \/ RuntimeTerminal(d, to)
       \/ Escalated(spec, RulesFor(d, spec, from, to), from, to)
    THEN "hard" ELSE "soft"

evaluateGate(d, cfg, spec, from, to) ==
    IF Bypassed(d, cfg, to)
    THEN [result |-> "none", tier |-> "none"]
    ELSE [result |-> IF \A r \in RulesFor(d, spec, from, to) : Met(d, cfg, r)
                     THEN "pass" ELSE "fail",
          tier   |-> Tier(d, cfg, spec, from, to)]

Blocked(gate) == gate.result = "fail" /\ gate.tier = "hard"

=============================================================================
