--------------------------- MODULE AgentLifecycle ---------------------------
(****************************************************************************)
(* The lifecycle of agents in one process                                   *)
(* (internal/lifecycle/lifecycle.go): a registry of machines under a read-  *)
(* write lock, each machine under a lock of its own. Callers look a         *)
(* machine up and then report to it, so a machine may be removed or         *)
(* created while somebody else holds one. Output older than the velocity    *)
(* window counts for nothing, so silence past it is no velocity at all.     *)
(****************************************************************************)
EXTENDS Integers, FiniteSets

CONSTANTS
    Callers,        \* goroutines
    AgentIds,       \* agents
    StallTimeout, VelocityWindow,   \* minutes
    MaxMachines,    \* bound on the machines made
    LastMinute      \* bound on the clock

ASSUME LifecycleAssumption ==
    /\ StallTimeout \in Nat /\ VelocityWindow \in Nat /\ MaxMachines \in Nat /\ LastMinute \in Nat

LifeStates == {"waiting", "generating", "thinking", "idle", "stalled", "error", "completed"}
Live == {"generating", "thinking", "idle", "stalled"}

VARIABLES
    machines,   \* machine -> its state and times
    made,       \* machines made so far
    registry,   \* agent -> its machine, 0 for none
    lookup,     \* caller -> the agent it saw no machine of under the read lock
    holds,      \* caller -> the agent and the machine it works with
    minute,     \* the clock

    \* what happened, for the properties
    reported    \* machine -> when a caller last reported to it

lifeVars == <<machines, made, registry, lookup, holds, minute, reported>>

NoHold == [agent |-> "none", machine |-> 0]

LifeInit ==
    /\ machines = [m \in 1..MaxMachines |-> [state |-> "waiting", active |-> 0]]
    /\ made = 0
    /\ registry = [a \in AgentIds |-> 0]
    /\ lookup = [c \in Callers |-> "none"]
    /\ holds = [c \in Callers |-> NoHold]
    /\ minute = 0
    /\ reported = [m \in 1..MaxMachines |-> 0]

CanTransition(from, to) ==
    \/ from = "waiting" /\ to \in {"generating", "thinking", "error", "completed"}
    \/ from \in Live /\ to \in (Live \cup {"error", "completed"}) \ {from}
    \/ from = "error" /\ to \in {"waiting", "idle"}

Holding(c, a) == [holds EXCEPT ![c] = [agent |-> a, machine |-> registry[a]]]

\* Get, under the read lock.
GetRead(c, a) ==
    /\ lookup[c] = "none" /\ holds[c] = NoHold
    /\ IF registry[a] # 0
       THEN holds' = Holding(c, a) /\ UNCHANGED lookup
       ELSE lookup' = [lookup EXCEPT ![c] = a] /\ UNCHANGED holds
    /\ UNCHANGED <<machines, made, registry, minute, reported>>

\* The write lock is taken and the machine is made at once.
StillMissing_Unchecked(a) == TRUE

StillMissing(a) == registry[a] = 0

\* Get, under the write lock.
GetWrite(c) ==
    LET a == lookup[c] IN
    /\ a # "none"
    /\ lookup' = [lookup EXCEPT ![c] = "none"]
    /\ IF StillMissing(a)
       THEN /\ made < MaxMachines
            /\ made' = made + 1
            /\ machines' = [machines EXCEPT ![made + 1] =
                  [state |-> "waiting", active |-> minute]]
            /\ registry' = [registry EXCEPT ![a] = made + 1]
            /\ holds' = [holds EXCEPT ![c] = [agent |-> a, machine |-> made + 1]]
       ELSE holds' = Holding(c, a) /\ UNCHANGED <<made, machines, registry>>
    /\ UNCHANGED <<minute, reported>>

LetGo(c) ==
    /\ holds[c] # NoHold
    /\ holds' = [holds EXCEPT ![c] = NoHold]
    /\ UNCHANGED <<machines, made, registry, lookup, minute, reported>>

\* Others that hold the machine go on with it unseen.
RemoveMachine(a) ==
    /\ registry[a] # 0
    /\ registry' = [registry EXCEPT ![a] = 0]
    /\ UNCHANGED <<machines, made, lookup, holds, minute, reported>>

Entered(m, to) == [machines EXCEPT ![m].state = to, ![m].active = minute]

Transition(c, to) ==
    LET m == holds[c].machine IN
    /\ m # 0 /\ CanTransition(machines[m].state, to)
    /\ machines' = Entered(m, to)
    /\ reported' = [reported EXCEPT ![m] = minute]
    /\ UNCHANGED <<made, registry, lookup, holds, minute>>

RecordActivity(c) ==
    LET m == holds[c].machine IN
    /\ m # 0
    /\ machines' = [machines EXCEPT ![m].active = minute]
    /\ reported' = [reported EXCEPT ![m] = minute]
    /\ UNCHANGED <<made, registry, lookup, holds, minute>>

MayStall(state) == state \in {"generating", "thinking"}

\* Past the window there is no output left to count.
Silent(m) ==
    \/ minute - machines[m].active >= StallTimeout
    \/ minute - machines[m].active > VelocityWindow

\* Registry.CheckStalls: every registered machine in one pass under the read lock.
CheckStalls ==
    LET stalled == {registry[a] : a \in {b \in AgentIds :
            registry[b] # 0 /\ MayStall(machines[registry[b]].state) /\ Silent(registry[b])}} IN
    /\ stalled # {}
    /\ machines' = [m \in 1..MaxMachines |->
          IF m \in stalled THEN [machines[m] EXCEPT !.state = "stalled"] ELSE machines[m]]
    /\ UNCHANGED <<made, registry, lookup, holds, minute, reported>>

Minute == minute < LastMinute /\ minute' = minute + 1 /\ UNCHANGED <<machines, made, registry, lookup, holds, reported>>

LifeNext ==
    \/ \E c \in Callers :
          \/ \E a \in AgentIds : GetRead(c, a)
          \/ GetWrite(c) \/ LetGo(c) \/ RecordActivity(c)
          \/ \E to \in LifeStates : Transition(c, to)
    \/ \E a \in AgentIds : RemoveMachine(a)
    \/ CheckStalls \/ Minute

LifeSpec == LifeInit /\ [][LifeNext]_lifeVars

---------------------------------------------------------------------------

\* While nobody removes it, an agent has one machine: two callers that looked it up at the
\* same time report to the same one (Registry.Get: "Double-check after write lock").
OneMachine ==
    [][\A a \in AgentIds : registry[a] # 0 => registry'[a] \in {0, registry[a]}]_lifeVars

\* An agent that completed is not woken or called stalled by a check that raced it.
CompletedFinal ==
    [][\A m \in 1..MaxMachines : machines[m].state = "completed" => machines'[m].state = "completed"]_lifeVars

\* A check calls an agent stalled only when nobody reported a change or output of it for the
\* shorter of the two times.
StallsAreReal ==
    [][CheckStalls => \A m \in 1..MaxMachines :
         machines[m].state # "stalled" /\ machines'[m].state = "stalled"
            => minute - reported[m] >= StallTimeout \/ minute - reported[m] > VelocityWindow]_lifeVars

\* Callers and stall checks that race see one machine per agent, and never take an agent
\* for stalled that completed or reported in time.
AgentsTold == OneMachine /\ CompletedFinal /\ StallsAreReal
=============================================================================
