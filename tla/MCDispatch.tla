----------------------------- MODULE MCDispatch -----------------------------
(* Small instances of Dispatch for TLC.                                    *)
EXTENDS Dispatch, TLC

CONSTANTS r1, s1

Symmetry == Permutations(Procs)

NoLimit == [r \in Runs |-> 0]
AgentsTwo == [r \in Runs |-> 2]
BudgetTwo == [r \in Runs |-> 2]

Ask(agent, scope, parent) ==
    [agent |-> agent, scope |-> scope, strict |-> scope \in Runs, parent |-> parent,
     policy |-> NoPolicy, retry |-> FALSE, retries |-> 0]

(* One worker of each kind.                                                *)
EitherAgent == {Ask(agent, r1, NoParent) : agent \in Agent}
OneAgent == {Ask("codex", r1, NoParent)}

(* Roots, children that name no scope, their parent's or another, and      *)
(* callers with a limit of their own, above and below the stored ones.     *)
Callers == {NoPolicy, [NoPolicy EXCEPT !.global = 1, !.agents = 1],
            [NoPolicy EXCEPT !.global = 3, !.agents = 3, !.depth = 3]}

Family ==
    {[Ask("codex", s, parent) EXCEPT !.policy = policy, !.strict = FALSE] :
       s \in Scope \cup {NoScope}, parent \in {NoParent, 1, 2}, policy \in Callers}

=============================================================================
