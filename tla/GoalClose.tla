----------------------------- MODULE GoalClose -----------------------------
(****************************************************************************)
(* A goal and its fenced close (internal/goal, cmd/ic/goal.go). A closer    *)
(* takes the lease, stamps the terminal steps under its fence and finishes; *)
(* a lease that ran out may be taken over while its holder still works.     *)
(* Every command is one UPDATE.                                             *)
(****************************************************************************)
EXTENDS Integers, FiniteSets

CONSTANTS
    Closers,    \* sessions that close the goal
    LeaseTTLs,  \* seconds a closer asks for
    MaxFence,   \* bound on the closes begun
    LastTick    \* bound on the clock

\* The lease_owner of a row without a lease.
NoOne == "nobody"

ASSUME GoalAssumption ==
    /\ LeaseTTLs \subseteq Nat /\ MaxFence \in Nat /\ LastTick \in Nat
    /\ NoOne \notin Closers

TerminalSteps == {"verified", "reflected", "compounded", "successor_proposed"}

VARIABLES
    goal,   \* the row
    tick,   \* the wall clock
    fence   \* the fence each closer was given last, 0 for none

goalVars == <<goal, tick, fence>>

NewGoal ==
    [status |-> "open", fence |-> 0, owner |-> NoOne, expires |-> 0,
     stamps |-> [s \in TerminalSteps |-> 0], successor |-> FALSE, advanced |-> 0]

GoalInit == goal = NewGoal /\ tick = 1 /\ fence = [c \in Closers |-> 0]

\* Update sets the columns of the row where its WHERE clause holds.
Update(where, row) == where /\ goal' = row

Lapsed == goal.owner # NoOne /\ goal.expires < tick

Free == goal.status = "open" \/ (goal.status = "closing" /\ Lapsed)

AcquireClose(c) ==
    /\ goal.fence < MaxFence
    /\ \E ttl \in LeaseTTLs :
          Update(Free, [goal EXCEPT !.status = "closing", !.fence = @ + 1,
                                    !.owner = c, !.expires = tick + ttl])
    /\ fence' = [fence EXCEPT ![c] = goal.fence + 1]
    /\ UNCHANGED tick

\* Without the comparison of the fence.
Mine_Unfenced(c) == fence[c] # 0 /\ goal.status = "closing"

\* What a statement of a closer asks of the row.
Mine(c) == fence[c] # 0 /\ goal.fence = fence[c] /\ goal.status = "closing"

RenewLease(c) ==
    /\ \E ttl \in LeaseTTLs : Update(Mine(c), [goal EXCEPT !.expires = tick + ttl])
    /\ UNCHANGED <<tick, fence>>

StampStep(c) ==
    /\ \E s \in TerminalSteps : Update(Mine(c), [goal EXCEPT !.stamps[s] = goal.fence])
    /\ UNCHANGED <<tick, fence>>

Complete == \A s \in TerminalSteps : goal.stamps[s] # 0

FinishClose(c) ==
    /\ Update(Mine(c) /\ Complete, [goal EXCEPT !.status = "closed", !.owner = NoOne])
    /\ UNCHANGED <<tick, fence>>

ReleaseLease(c) ==
    /\ Update(Mine(c), [goal EXCEPT !.status = "open", !.owner = NoOne])
    /\ UNCHANGED <<tick, fence>>

SetSuccessor ==
    goal' = [goal EXCEPT !.successor = TRUE] /\ UNCHANGED <<tick, fence>>

\* An attached run advanced.
TouchRunAdvance ==
    goal' = [goal EXCEPT !.advanced = tick] /\ UNCHANGED <<tick, fence>>

GoalTick == tick < LastTick /\ tick' = tick + 1 /\ UNCHANGED <<goal, fence>>

GoalNext ==
    \/ \E c \in Closers :
          AcquireClose(c) \/ RenewLease(c) \/ StampStep(c) \/ FinishClose(c) \/ ReleaseLease(c)
    \/ SetSuccessor \/ TouchRunAdvance \/ GoalTick

GoalSpec == GoalInit /\ [][GoalNext]_goalVars

---------------------------------------------------------------------------
(* Properties *)

\* A closed goal stays closed, complete and as it was closed, whatever a closer
\* with an older fence still sends (FinishClose, StampStep, ReleaseLease).
ClosedSealed ==
    [][goal.status = "closed" =>
          /\ goal'.status = "closed" /\ goal'.fence = goal.fence
          /\ goal'.stamps = goal.stamps /\ Complete]_goalVars

\* While its lease runs nobody takes a close over (AcquireClose).
LeaseHonoured ==
    [][(goal.status = "closing" /\ ~Lapsed) => goal'.fence = goal.fence]_goalVars

\* A renewal, a stamp, a finish or a release that lands is of the session that holds
\* the close, whatever a session that was overtaken, or had let it go and saw another
\* take it, still sends (RenewLease, StampStep, FinishClose, ReleaseLease).
OnlyHolderWrites ==
    [][\A c \in Closers :
          RenewLease(c) \/ StampStep(c) \/ FinishClose(c) \/ ReleaseLease(c) => c = goal.owner]_goalVars

\* The fence settles every race of closers: what is closed is sealed, a lease that
\* runs is honoured, and only the holder's statements land.
ClosesFenced == ClosedSealed /\ LeaseHonoured /\ OnlyHolderWrites

\* Every step of a close was taken in that close: the sequence is "fenced,
\* per-step" (package comment of internal/goal/goal.go).
StepsOfThisClose ==
    goal.status = "closed" => \A s \in TerminalSteps : goal.stamps[s] = goal.fence
=============================================================================
