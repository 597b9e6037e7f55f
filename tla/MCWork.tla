------------------------------ MODULE MCWork ------------------------------
(* What has to come to an end: the jobs of the scheduler and the gated      *)
(* pushes of a publish.  They share nothing, so a behaviour is of one of    *)
(* them, chosen in the initial state.                                       *)
EXTENDS Scheduler, PushGate, TLC

CONSTANT Parts  \* the components to explore

VARIABLE focus

workVars == <<focus, schedVars, gateVars>>

J(priority, born, session, batch, agent, maxRetries) ==
    [priority |-> priority, born |-> born, session |-> session, batch |-> batch,
     agent |-> agent, maxRetries |-> maxRetries]

(* Two jobs of one type, of two sessions and one batch; one may be retried. *)
Pair ==
    [j1 |-> J(2, 1, "s", "b", "codex", 1),
     j2 |-> J(1, 2, "t", "b", "codex", 0)]

(* A cap of two that halves when it cools down.                             *)
AllCooling ==
    [a \in AgentTypes |->
       [max |-> 2, ramp |-> FALSE, initial |-> 2, cooldown |-> TRUE, reduction |-> 1]]

Jobbing(A) == focus = "jobs" /\ A /\ UNCHANGED <<focus, gateVars>>
Pushing(A) == focus = "pushes" /\ A /\ UNCHANGED <<focus, schedVars>>

WorkInit == focus \in Parts /\ SchedInit /\ GateInit

WorkNext ==
    \/ focus = "jobs" /\ SchedNext /\ UNCHANGED <<focus, gateVars>>
    \/ focus = "pushes" /\ GateNext /\ UNCHANGED <<focus, schedVars>>

(* The fairness of SchedFairSpec and of GateFairSpec.                       *)
WorkFairness ==
    /\ \A w \in Workers : WF_workVars(Jobbing(WorkerStep(w)))
    /\ WF_workVars(Jobbing(BackoffTimer))
    /\ \A j \in Jobs : WF_workVars(Jobbing(RetryTimer(j)))
    /\ \A a \in AgentTypes : WF_workVars(Jobbing(CooldownTimer(a)))
    /\ \A p \in Pushers :
         /\ WF_workVars(Pushing(PusherStep(p)))
         /\ SF_workVars(Pushing(AwaitPoll(p) /\ push'[p].past = "deadline"))

WorkSpec == WorkInit /\ [][WorkNext]_workVars /\ WorkFairness

=============================================================================
