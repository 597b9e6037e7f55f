---------------------------- MODULE ProjectDeps ----------------------------
(****************************************************************************)
(* A portfolio run, its children and the dependencies between their         *)
(* projects (internal/portfolio/deps.go and topo.go, ic portfolio, the      *)
(* portfolio parts of internal/phase/store.go and gate.go). Projects are    *)
(* numbers, in the order of their paths; a child's phase is its place in    *)
(* its own chain.                                                           *)
(****************************************************************************)
EXTENDS Integers, Sequences, FiniteSets

CONSTANTS
    Projects,   \* paths of the children's projects
    Chain       \* the phases of each project's child

ASSUME ProjectAssumption ==
    /\ Projects \subseteq Nat /\ IsFiniteSet(Projects)
    /\ \A p \in Projects : Len(Chain[p]) > 0

VARIABLES
    deps,       \* project_deps, pairs of upstream and downstream
    child,      \* each project's child run: its place in its chain and status
    umbrella    \* the portfolio run: its status and the cancel events written

portfolioVars == <<deps, child, umbrella>>

ActiveRun(p) == child[p].status = "active"

\* CreatePortfolio: the portfolio and its children in one transaction.
PortfolioInit ==
    /\ deps = {}
    /\ child = [p \in Projects |-> [at |-> 1, status |-> "active"]]
    /\ umbrella = [status |-> "active", told |-> {}, telling |-> FALSE]

---------------------------------------------------------------------------
(* ic portfolio dep *)

Downstream(node) == {q \in Projects : <<node, q>> \in deps}

\* Only a direct edge back is looked for.
HasPath_Direct(from, to) == to \in Downstream(from)

\* The depth-first search with its visited set: what n edges reach, and on.
HasPath(from, to) ==
    LET reached[n \in 1..Cardinality(Projects)] ==
            IF n = 1 THEN Downstream(from)
            ELSE reached[n - 1] \cup UNION {Downstream(q) : q \in reached[n - 1]}
    IN  to \in reached[Cardinality(Projects)]

\* A duplicate is refused by the table's primary key.
AddDep(up, down) ==
    /\ up # down
    /\ ~HasPath(down, up)
    /\ <<up, down>> \notin deps
    /\ deps' = deps \cup {<<up, down>>}
    /\ UNCHANGED <<child, umbrella>>

RemoveDep(up, down) ==
    /\ <<up, down>> \in deps
    /\ deps' = deps \ {<<up, down>>}
    /\ UNCHANGED <<child, umbrella>>

---------------------------------------------------------------------------
(* ic portfolio order: Kahn's algorithm with a min-heap *)

Nodes == UNION {{d[1], d[2]} : d \in deps}
Ready(done) == {q \in Nodes \ done : \A d \in deps : d[2] = q => d[1] \in done}
LeastNode(S) == CHOOSE q \in S : \A r \in S : q <= r

Popped(S) == LeastNode(S)

\* The projects in the order they leave the heap; shorter than Nodes on a cycle.
Order ==
    LET sorted[n \in 0..Cardinality(Nodes)] ==
            IF n = 0 THEN <<>>
            ELSE LET done == {sorted[n - 1][i] : i \in DOMAIN sorted[n - 1]}
                 IN  IF Ready(done) = {} THEN sorted[n - 1]
                     ELSE Append(sorted[n - 1], Popped(Ready(done)))
    IN  sorted[Cardinality(Nodes)]

---------------------------------------------------------------------------
(* The children's runs *)

\* Where a project's chain has a phase, 0 if nowhere.
Index(p, phase) ==
    IF \E i \in DOMAIN Chain[p] : Chain[p][i] = phase
    THEN CHOOSE i \in DOMAIN Chain[p] : Chain[p][i] = phase
    ELSE 0

\* An upstream holds a phase back while it is active and has not got that far.
Behind(up, phase) == ActiveRun(up) /\ child[up].at < Index(up, phase)

\* The upstreams a gate or a status line names for a phase of a child's chain.
UpstreamBlockers(p, i) ==
    {up \in Projects : <<up, p>> \in deps /\ Behind(up, Chain[p][i])}

\* ic portfolio status: by the phase the child is in.
ShownReady(p) == ~ActiveRun(p) \/ UpstreamBlockers(p, child[p].at) = {}

\* The gate upstreams_at_phase: by the phase the child goes to.
AdvanceChild(p) ==
    /\ ActiveRun(p) /\ child[p].at < Len(Chain[p])
    /\ UpstreamBlockers(p, child[p].at + 1) = {}
    /\ child' = [child EXCEPT ![p].at = @ + 1,
          ![p].status = IF child[p].at + 1 = Len(Chain[p]) THEN "completed" ELSE @]
    /\ UNCHANGED <<deps, umbrella>>

RollbackChild(p) ==
    /\ child[p].status \in {"active", "completed"}
    /\ \E i \in 1..(child[p].at - 1) :
          child' = [child EXCEPT ![p] = [at |-> i, status |-> "active"]]
    /\ UNCHANGED <<deps, umbrella>>

CancelChild(p) ==
    /\ ActiveRun(p)
    /\ child' = [child EXCEPT ![p].status = "cancelled"]
    /\ UNCHANGED <<deps, umbrella>>

CancelledChildren ==
    [p \in Projects |-> IF ActiveRun(p) THEN [child[p] EXCEPT !.status = "cancelled"] ELSE child[p]]

\* CancelPortfolio: one transaction.
CancelPortfolio ==
    /\ umbrella.status = "active"
    /\ umbrella' = [umbrella EXCEPT !.status = "cancelled", !.telling = TRUE]
    /\ child' = CancelledChildren
    /\ UNCHANGED deps

\* Then an event for every child, ended before or not; errors are passed over.
CancelEvents ==
    /\ umbrella.telling
    /\ \E told \in SUBSET Projects :
          umbrella' = [umbrella EXCEPT !.told = told, !.telling = FALSE]
    /\ UNCHANGED <<deps, child>>

PortfolioNext ==
    \/ \E p, q \in Projects : AddDep(p, q) \/ RemoveDep(p, q)
    \/ \E p \in Projects : AdvanceChild(p) \/ RollbackChild(p) \/ CancelChild(p)
    \/ CancelPortfolio \/ CancelEvents

PortfolioSpec == PortfolioInit /\ [][PortfolioNext]_portfolioVars

---------------------------------------------------------------------------
(* Properties *)

\* The order exists for every graph the commands can build, names each project
\* once, and puts every upstream before its downstreams, the least path first
\* among those that are free (Add's cycle check, TopologicalSort).
OrderSound ==
    LET order == Order
    IN  /\ Len(order) = Cardinality(Nodes)
        /\ \A i, j \in DOMAIN order :
              /\ <<order[j], order[i]>> \in deps => j < i
              /\ i < j /\ order[j] < order[i] =>
                    \E k \in i..(j - 1) : <<order[k], order[j]>> \in deps

\* The children never wait for each other in a circle: while one is active,
\* some active one is let through by its upstreams (Add, upstreams_at_phase).
SomeoneMoves ==
    (\E p \in Projects : ActiveRun(p)) => \E p \in Projects : ENABLED AdvanceChild(p)

\* A portfolio's projects can be put in order, and its children are never all
\* waiting for each other, however dependencies come and go while they move.
PortfolioMoves == OrderSound /\ SomeoneMoves

=============================================================================
