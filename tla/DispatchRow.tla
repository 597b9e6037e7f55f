---------------------------- MODULE DispatchRow ----------------------------
(***************************************************************************)
(* The dispatches table and what one statement or one immediate            *)
(* transaction does to it: the admission of a new attempt, the rules for   *)
(* a retry and the outcomes a writer may record (internal/dispatch).       *)
(*                                                                         *)
(* Identifiers stand for the random ids in order of creation.              *)
(***************************************************************************)
EXTENDS Integers, FiniteSetsExt

CONSTANTS
    Runs,          \* scopes that are the id of a run
    AdHocScopes,   \* scopes that are not
    MaxAgents,     \* MaxAgents[r]: runs.max_agents (0: no limit)
    TokenBudget,   \* TokenBudget[r]: runs.token_budget (0: not set)
    Enforced,      \* runs with budget_enforce
    GlobalMax,     \* state kernel.global_max_dispatches (0: no limit)
    DepthMax,      \* state kernel.max_spawn_depth (0: no limit)
    MaxRetries,    \* RetryPolicy.MaxRetries
    MaxDispatches  \* bound on the dispatches ever created

NoScope == "no scope"
Scope == Runs \cup AdHocScopes

ASSUME RowAssumption ==
    /\ Runs \cap AdHocScopes = {} /\ NoScope \notin Scope
    /\ MaxAgents \in [Runs -> Nat] /\ TokenBudget \in [Runs -> Nat]
    /\ Enforced \subseteq Runs
    /\ GlobalMax \in Nat /\ DepthMax \in Nat /\ MaxRetries \in Nat
    /\ MaxDispatches \in Nat

Id == 1 .. MaxDispatches
NoParent == 0

Agent == {"codex", "flere"}
ActiveStatus == {"spawned", "running"}
TerminalStatus == {"completed", "failed", "timeout", "cancelled"}

(* "absent": the id is not yet used, or its row was pruned.                *)
Row == [status : {"absent"} \cup ActiveStatus \cup TerminalStatus,
        agent : Agent, scope : Scope \cup {NoScope}, parent : Id \cup {NoParent},
        depth : Nat, retries : Nat, tokens : Nat,
        pid : BOOLEAN, quarantined : BOOLEAN]

NoRow == [status |-> "absent", agent |-> "codex", scope |-> NoScope,
          parent |-> NoParent, depth |-> 0, retries |-> 0, tokens |-> 0,
          pid |-> FALSE, quarantined |-> FALSE]

Present(row) == row.status # "absent"
IsActive(row) == row.status \in ActiveStatus
IsTerminal(row) == row.status \in TerminalStatus

Live(rows) == {i \in Id : IsActive(rows[i])}
InScope(rows, s) == {i \in Id : Present(rows[i]) /\ rows[i].scope = s}

-----------------------------------------------------------------------------
(* Admission.  A request carries the caller's own limits (0: none).        *)

Policy == [perRun : Nat, global : Nat, agents : Nat, depth : Nat, enforce : BOOLEAN]
NoPolicy == [perRun |-> 0, global |-> 0, agents |-> 0, depth |-> 0, enforce |-> FALSE]

Request == [agent : Agent, scope : Scope \cup {NoScope}, strict : BOOLEAN,
            parent : Id \cup {NoParent}, policy : Policy,
            retry : BOOLEAN, retries : Nat]

(* SpawnOptions.Validate.                                                  *)
Valid(req) ==
    /\ req.strict => req.scope # NoScope
    /\ req.agent = "flere" => req.strict

(* Variant: the caller's limit wins over the stored one.                   *)
Tighter_CallerWins(stored, asked) == IF asked > 0 THEN asked ELSE stored

Tighter(stored, asked) ==
    IF stored > 0 /\ (asked = 0 \/ stored < asked) THEN stored ELSE asked

Below(count, limit) == limit > 0 => count < limit

(* Variant: a child states its scope and is believed.                      *)
ParentAccepted_AnyScope(rows, req) ==
    req.parent # NoParent => Present(rows[req.parent])

(* The parent exists, and a child that names a scope names its parent's.   *)
ParentAccepted(rows, req) ==
    req.parent # NoParent =>
      /\ Present(rows[req.parent])
      /\ rows[req.parent].scope # NoScope =>
           req.scope \in {NoScope, rows[req.parent].scope}

AdmittedScope(rows, req) ==
    IF req.scope = NoScope /\ req.parent # NoParent
    THEN rows[req.parent].scope ELSE req.scope

(* A retry keeps the depth of the attempt it repeats.                      *)
AdmittedDepth(rows, req) ==
    IF req.parent = NoParent THEN 0
    ELSE rows[req.parent].depth + (IF req.retry THEN 0 ELSE 1)

(* SUM over the rows of the scope, pruned ones no longer among them.       *)
Used(rows, s) == MapThenSumSet(LAMBDA i : rows[i].tokens, InScope(rows, s))

BudgetOpen(rows, s, policy) ==
    policy.enforce \/ s \in Enforced =>
      s \in Runs /\ Used(rows, s) < TokenBudget[s]

AgentLimit(s, policy) ==
    IF s \in Runs THEN Tighter(MaxAgents[s], policy.agents) ELSE policy.agents

Counted(rows) == Live(rows)

(* checkPolicyCounts, on the limits admit has tightened.                   *)
CountsAllow(rows, s, depth, policy) ==
    /\ s # NoScope =>
         /\ Below(Cardinality(Counted(rows) \cap InScope(rows, s)), policy.perRun)
         /\ Below(Cardinality(InScope(rows, s)), AgentLimit(s, policy))
    /\ Below(Cardinality(Counted(rows)), Tighter(GlobalMax, policy.global))
    /\ LET limit == Tighter(DepthMax, policy.depth) IN limit > 0 => depth <= limit

Admissible(rows, req) ==
    LET s == AdmittedScope(rows, req) IN
    /\ Valid(req)
    /\ ParentAccepted(rows, req)
    /\ s = NoScope => req.policy.perRun = 0 /\ req.policy.agents = 0
    /\ req.strict => s \in Runs
    /\ BudgetOpen(rows, s, req.policy)
    /\ CountsAllow(rows, s, AdmittedDepth(rows, req), req.policy)

(* The row createDispatch inserts.                                         *)
NewRow(rows, req) ==
    [status |-> "spawned", agent |-> req.agent,
     scope |-> AdmittedScope(rows, req), parent |-> req.parent,
     depth |-> AdmittedDepth(rows, req), retries |-> req.retries,
     tokens |-> 0, pid |-> FALSE, quarantined |-> FALSE]

-----------------------------------------------------------------------------
(* Retries.                                                                *)

(* Under DefaultRetryPolicy a timeout is retried too.                      *)
ShouldRetry(row) ==
    /\ row.status \in {"failed", "timeout"}
    /\ row.agent # "flere" /\ ~row.quarantined
    /\ row.retries < MaxRetries

RetryRequest(row, i) ==
    [agent |-> row.agent, scope |-> row.scope, strict |-> row.scope # NoScope,
     parent |-> i, policy |-> NoPolicy, retry |-> TRUE, retries |-> row.retries + 1]

-----------------------------------------------------------------------------
(* Outcomes: what a writer hands to Terminalize.                           *)

Outcome == [status : TerminalStatus,
            source : {"spawn", "collect", "kill", "cancel_by_run"},
            verified : BOOLEAN, indeterminate : BOOLEAN]

NoOutcome == [status |-> "none", source |-> "none", verified |-> FALSE,
              indeterminate |-> FALSE]

Ended(status, source) ==
    [status |-> status, source |-> source, verified |-> FALSE, indeterminate |-> FALSE]

Indeterminate(source) ==
    [status |-> "failed", source |-> source, verified |-> FALSE, indeterminate |-> TRUE]

SpawnFailed == Ended("failed", "spawn")

(* What a dead worker left: its verdict ("none": no sidecar, exit code -1) *)
(* or, of a flere worker, a receipt that verifies, whose reported failure  *)
(* is not taken for an unknown outcome.                                    *)
Collected(row, report) ==
    IF row.agent = "flere" /\ report = "none" THEN Indeterminate("collect")
    ELSE [Ended(IF report = "pass" THEN "completed" ELSE "failed", "collect")
            EXCEPT !.verified = (row.agent = "flere")]

(* Kill and the timeout of Wait, once the worker is signalled or had no    *)
(* process.                                                                *)
Interrupted(row, status) ==
    IF row.agent = "flere" THEN Indeterminate("kill") ELSE Ended(status, "kill")

=============================================================================
