----------------------------- MODULE Escalation -----------------------------
(* Retrying a failed dispatch up the ladder of models: the state of a chain   *)
(* of attempts is one value of the state store, read, changed and written     *)
(* back by each call of RetryWithEscalation, in steps others come between.    *)
(*   chain    <-> ChainState in the state store    attempts <-> dispatch rows *)
(*   climbing <-> the calls in progress, cs their copy of the chain           *)
(* A call resolves the frontier through the routing policy, as the command    *)
(* does; which candidates are available is for the policy to say.             *)
EXTENDS Integers, Sequences, FiniteSets, Functions

CONSTANTS
    Retriers,        \* processes that call retry --escalate with one chain key
    BaseModel,
    FrontierModels,  \* what ResolveDecision("escalation") may offer
    StrikesPerRung,
    MaxEscalations,
    MaxAttempts,     \* bound: rows of the chain
    MaxCalls,        \* bound: calls of retry --escalate
    MaxRetryCount    \* RetryPolicy.MaxRetries

ASSUME EscalationAssumption ==
    /\ BaseModel \notin FrontierModels
    /\ StrikesPerRung \in Nat \ {0} /\ MaxEscalations \in Nat
    /\ MaxAttempts \in Nat /\ MaxCalls \in Nat /\ MaxRetryCount \in Nat

VARIABLES chain, attempts, climbing, routingPolicy, calls,
    disturbed  \* a call was killed between its row and its save, or two overlapped

escalationVars == <<chain, attempts, climbing, routingPolicy, calls, disturbed>>

FailureModes == {"capability", "premise", "infrastructure"}
capabilityStrike(mode) == mode \in {"capability", "premise"}

NoModel == "no model"
NoContract == [hash |-> 0, review |-> FALSE]

freshChain ==
    [ dispatches |-> <<>>, models |-> <<>>, failures |-> <<>>, current |-> NoModel,
      strikes |-> 0, escalations |-> 0, exhausted |-> FALSE,
      decision |-> NoContract, retries |-> {} ]

noCall == [pc |-> "idle", id |-> 0, mode |-> "none", cs |-> freshChain]

EscalationInit ==
    /\ chain = freshChain
    /\ attempts = <<>>
    /\ climbing = [p \in Retriers |-> noCall]
    /\ routingPolicy = 1
    /\ calls = 0
    /\ disturbed = FALSE

-----------------------------------------------------------------------------
\* A first attempt, or a fresh trigger of the same work under the same key.
Trigger ==
    /\ Len(attempts) < MaxAttempts
    /\ \E contract \in {NoContract, [hash |-> routingPolicy, review |-> TRUE]} :
         attempts' = Append(attempts, [model |-> BaseModel, count |-> 0, of |-> 0,
                                       decision |-> contract])
    /\ UNCHANGED <<chain, climbing, routingPolicy, disturbed, calls>>

PolicyChanges ==
    /\ routingPolicy = 1
    /\ routingPolicy' = 2
    /\ UNCHANGED <<chain, attempts, climbing, disturbed, calls>>

-----------------------------------------------------------------------------
ShouldRetry(a) == a.count < MaxRetryCount

\* The call reads the row of an attempt that has failed by then, and the chain;
\* it refuses an exhausted chain and an attempt the chain has a retry of.
LoadChainState(p) ==
    /\ climbing[p].pc = "idle"
    /\ \E i \in DOMAIN attempts, mode \in FailureModes :
         /\ ShouldRetry(attempts[i])
         /\ ~chain.exhausted
         /\ i \notin chain.retries
         /\ climbing' = [climbing EXCEPT ![p] =
              [pc |-> "loaded", id |-> i, mode |-> mode,
               cs |-> IF chain.current = NoModel
                      THEN [chain EXCEPT !.current = attempts[i].model] ELSE chain]]
    /\ disturbed' = (disturbed \/ \E q \in Retriers : climbing[q].pc # "idle")
    /\ calls < MaxCalls /\ calls' = calls + 1
    /\ UNCHANGED <<chain, attempts, routingPolicy>>

\* A failure that counts each time it is reported.
Recorded_Again(cs, i, mode) ==
    [cs EXCEPT !.dispatches = Append(@, i), !.models = Append(@, cs.current),
               !.failures = Append(@, mode),
               !.strikes = IF mode = "premise" THEN StrikesPerRung
                           ELSE IF capabilityStrike(mode) THEN @ + 1 ELSE @]

\* A failure is recorded once for each attempt; only a failure of the model
\* or of the premise costs a strike, and one of the premise costs them all.
Recorded(cs, i, mode) ==
    IF i \in Range(cs.dispatches) THEN cs
    ELSE [cs EXCEPT !.dispatches = Append(@, i),
                    !.models = Append(@, cs.current),
                    !.failures = Append(@, mode),
                    !.strikes = IF mode = "premise" THEN StrikesPerRung
                                ELSE IF capabilityStrike(mode) THEN @ + 1 ELSE @]

RecordFailure(p) ==
    LET c == climbing[p]
        cs == Recorded(c.cs, c.id, c.mode)
    IN  /\ c.pc = "loaded"
        /\ chain' = cs
        /\ climbing' = [climbing EXCEPT ![p].pc = "recorded", ![p].cs = cs]
        /\ UNCHANGED <<attempts, routingPolicy, disturbed, calls>>

\* The chain's decision if it has one, or the one recorded for the attempt.
Contract(c) ==
    IF c.cs.decision # NoContract THEN c.cs.decision ELSE attempts[c.id].decision

StruckOut(c) == capabilityStrike(c.mode) /\ c.cs.strikes >= StrikesPerRung

\* The policy changed since the contract, or a review must be resolved anew.
Refused(c) ==
    \/ Contract(c) # NoContract /\ Contract(c).hash # routingPolicy
    \/ Contract(c).review /\ StruckOut(c)

\* The retry is admitted with the chain's model and contract; the chain that
\* knows of it is saved by a later step.
AdmitRetry(p, cs) ==
    LET c == climbing[p]
    IN  /\ Len(attempts) < MaxAttempts
        /\ attempts' = Append(attempts, [model |-> cs.current,
                          count |-> attempts[c.id].count + 1, of |-> c.id,
                          decision |-> cs.decision])
        /\ climbing' = [climbing EXCEPT ![p].pc = "admitted",
                          ![p].cs = [cs EXCEPT !.retries = @ \cup {c.id}]]
        /\ UNCHANGED <<chain, routingPolicy, disturbed, calls>>

\* No rung is left: the chain is closed for a person to look at.
Exhaust(p, cs) ==
    /\ chain' = [cs EXCEPT !.exhausted = TRUE]
    /\ climbing' = [climbing EXCEPT ![p] = noCall]
    /\ UNCHANGED <<attempts, routingPolicy, disturbed, calls>>

GiveUp(p) ==
    /\ climbing' = [climbing EXCEPT ![p] = noCall]
    /\ UNCHANGED <<chain, attempts, routingPolicy, disturbed, calls>>

\* The same rung again: not struck out.
RetrySameModel(p) ==
    LET c == climbing[p]
    IN  /\ c.pc = "recorded" /\ ~Refused(c) /\ ~StruckOut(c)
        /\ AdmitRetry(p, [c.cs EXCEPT !.decision = Contract(c)])

\* The next rung: a candidate of the frontier that the chain has not tried.
StepUp(p) ==
    LET c == climbing[p]
    IN  /\ c.pc = "recorded" /\ ~Refused(c) /\ StruckOut(c)
        /\ \E available \in SUBSET FrontierModels \ {{}} :
             LET unseen == available \ Range(c.cs.models)
             IN  IF unseen = {} \/ c.cs.escalations >= MaxEscalations THEN Exhaust(p, c.cs)
                 ELSE \E m \in unseen :
                        AdmitRetry(p, [c.cs EXCEPT !.escalations = @ + 1, !.current = m,
                                         !.strikes = 0,
                                         !.decision = [hash |-> routingPolicy, review |-> FALSE]])

\* Refused, or the required frontier is unavailable.
EscalationRefused(p) ==
    LET c == climbing[p]
    IN  /\ c.pc = "recorded"
        /\ Refused(c) \/ StruckOut(c)
        /\ GiveUp(p)

SaveChainState(p) ==
    /\ climbing[p].pc = "admitted"
    /\ chain' = climbing[p].cs
    /\ climbing' = [climbing EXCEPT ![p] = noCall]
    /\ UNCHANGED <<attempts, routingPolicy, disturbed, calls>>

\* The process is killed, or the contract of its row cannot be recorded.
RetrierDies(p) ==
    /\ climbing[p].pc # "idle"
    /\ climbing' = [climbing EXCEPT ![p] = noCall]
    /\ disturbed' = (disturbed \/ climbing[p].pc = "admitted")
    /\ UNCHANGED <<chain, attempts, routingPolicy, calls>>

EscalationNext ==
    \/ Trigger \/ PolicyChanges
    \/ \E p \in Retriers :
         \/ LoadChainState(p) \/ RecordFailure(p) \/ RetrySameModel(p) \/ StepUp(p)
         \/ EscalationRefused(p) \/ SaveChainState(p) \/ RetrierDies(p)

EscalationSpec == EscalationInit /\ [][EscalationNext]_escalationVars

-----------------------------------------------------------------------------
\* What the recorded failures are worth in strikes.
Earned(cs) ==
    LET count(mode) == Cardinality({i \in DOMAIN cs.failures : cs.failures[i] = mode})
    IN  StrikesPerRung * count("premise") + count("capability")

\* Every rung climbed was paid for by failures of the model or of a premise,
\* each attempt counted once, within the limit on rungs; an infrastructure
\* failure, a lost update or a repeated call buys none.
RungsAreEarned ==
    \A cs \in {chain} \cup {climbing[p].cs : p \in Retriers} :
        /\ cs.escalations * StrikesPerRung + cs.strikes <= Earned(cs)
        /\ cs.escalations <= MaxEscalations
        /\ Cardinality(Range(cs.dispatches)) = Len(cs.dispatches)

\* Calls one after another, none of them killed between the row and the save,
\* retry an attempt once.
RetriedOnce ==
    ~disturbed => \A i, j \in DOMAIN attempts :
        (attempts[i].of # 0 /\ attempts[i].of = attempts[j].of) => i = j

\* Nor do they step the chain to a model it has tried, back down included.
NoRungAgain ==
    (~disturbed' /\ chain.current # NoModel /\ chain'.current # chain.current) =>
        chain'.current \notin Range(chain.models)

\* The ladder: rungs are earned; undisturbed, each attempt is retried once and
\* each rung taken once.
Escalates == [][RungsAreEarned' /\ RetriedOnce' /\ NoRungAgain]_escalationVars
=============================================================================
