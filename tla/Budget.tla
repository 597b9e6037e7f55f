------------------------------- MODULE Budget -------------------------------
(****************************************************************************)
(* The token budget of a run (internal/budget/budget.go and reconcile.go):  *)
(* any ic process that reports tokens, shows the budget or checks a gate    *)
(* runs Check, which reads the total, reads a flag of the state store,      *)
(* sets it and records an event, each with a statement of its own. The      *)
(* gate inside an advance asks txBudgetQuerier instead                      *)
(* (internal/phase/tx_queriers.go).                                         *)
(****************************************************************************)
EXTENDS Integers, Sequences, FiniteSets

CONSTANTS
    Checkers,     \* processes that run a check
    TokenBudget,  \* runs.token_budget
    WarnPct,      \* runs.budget_warn_pct
    Totals,       \* token totals the dispatches of the run may add up to
    MaxReports    \* bound on the checks that find a crossing

ASSUME BudgetAssumption ==
    /\ TokenBudget \in Nat \ {0} /\ WarnPct \in 1..99
    /\ Totals \subseteq Nat /\ MaxReports \in Nat

Marks == {"warning", "exceeded"}

VARIABLES
    used,      \* the tokens reported by the dispatches of the run
    flags,     \* the marks that have a row in the state store
    recorded,  \* the run's budget events, in order
    check,     \* where each checker is, and the total it read
    lost       \* history: flagged marks whose event a check failed or died to record

budgetVars == <<used, flags, recorded, check, lost>>

NotChecking == [step |-> "idle", mark |-> "none", total |-> 0]

BudgetInit ==
    /\ used = 0 /\ flags = {} /\ recorded = <<>> /\ lost = {}
    /\ check = [c \in Checkers |-> NotChecking]

\* budget * pct / 100, in integers; a threshold of 0 never warns.
WarnThreshold == (TokenBudget * WarnPct) \div 100

Crossed(mark, total) ==
    IF mark = "warning" THEN WarnThreshold > 0 /\ total >= WarnThreshold
    ELSE total >= TokenBudget

At(step, mark, total) == [step |-> step, mark |-> mark, total |-> total]

Steps(c, s) == check' = [check EXCEPT ![c] = At(s, check[c].mark, check[c].total)]

\* The warning first, then the excess.
NextMark(c) ==
    check' = [check EXCEPT ![c] = IF check[c].mark = "warning" THEN At("read", "exceeded", check[c].total)
                                  ELSE NotChecking]

---------------------------------------------------------------------------

\* Reported tokens replace those a dispatch had, so the total may also shrink.
ReportTokens ==
    \E total \in Totals : used' = total /\ UNCHANGED <<flags, recorded, check, lost>>

BeginCheck(c) ==
    /\ check[c] = NotChecking
    /\ check' = [check EXCEPT ![c] = At("read", "warning", used)]
    /\ UNCHANGED <<used, flags, recorded, lost>>

\* Not crossed, or its flag is there: on to the next mark.
PassMark(c) ==
    /\ check[c].step = "read"
    /\ ~Crossed(check[c].mark, check[c].total) \/ check[c].mark \in flags
    /\ NextMark(c)
    /\ UNCHANGED <<used, flags, recorded, lost>>

FindCrossing(c) ==
    /\ check[c].step = "read"
    /\ Crossed(check[c].mark, check[c].total) /\ check[c].mark \notin flags
    /\ Steps(c, "set")
    /\ UNCHANGED <<used, flags, recorded, lost>>

\* setFlag ignores an error of its insert.
SetFlag(c) ==
    /\ check[c].step = "set"
    /\ flags' \in {flags, flags \cup {check[c].mark}}
    /\ Steps(c, "emit")
    /\ UNCHANGED <<used, recorded, lost>>

Emitting(c) == {mark \in Marks : check[c].step = "emit" /\ check[c].mark = mark}

\* emitEvent ignores an error of the recorder, and the flag stays.
Emit(c) ==
    /\ check[c].step = "emit"
    /\ \/ /\ Len(recorded) < MaxReports
          /\ recorded' = Append(recorded, check[c].mark)
          /\ UNCHANGED lost
       \/ /\ lost' = lost \cup (Emitting(c) \cap flags)
          /\ UNCHANGED recorded
    /\ NextMark(c)
    /\ UNCHANGED <<used, flags>>

CheckDies(c) ==
    /\ check[c] # NotChecking
    /\ check' = [check EXCEPT ![c] = NotChecking]
    /\ lost' = lost \cup (Emitting(c) \cap flags)
    /\ UNCHANGED <<used, flags, recorded>>

BudgetNext ==
    \/ ReportTokens
    \/ \E c \in Checkers :
          BeginCheck(c) \/ PassMark(c) \/ FindCrossing(c) \/ SetFlag(c) \/ Emit(c)
          \/ CheckDies(c)

BudgetSpec == BudgetInit /\ [][BudgetNext]_budgetVars

---------------------------------------------------------------------------
(* Answers *)

\* ic gate check and the spawn veto: result.Exceeded of a check that starts now
\* and that nothing interrupts.
CheckSaysExceeded == Crossed("exceeded", used) /\ "exceeded" \notin flags

\* The gate of an advance, on the rows of its transaction.
TxSaysExceeded == used > TokenBudget

---------------------------------------------------------------------------
(* Properties *)

Recording(mark) ==
    \/ \E i \in DOMAIN recorded : recorded[i] = mark
    \/ \E c \in Checkers : mark \in Emitting(c)

\* A flag that keeps later checks from recording a mark was set by one that
\* records it itself: whoever overlaps or sees the flag, the mark is in the event
\* log or on its way, or a recording of it failed or died (Check, setFlag and
\* emitEvent, budget.go).
CrossingRecorded == \A mark \in flags \ lost : Recording(mark)

\* "a crossed budget leaves a durable record instead of only an in-memory Result"
\* (newBudgetRecorder, cmd/ic/recorders.go:28). The code does not keep this: the
\* flag is set first, the error of the insert is ignored (budget.go:121), and no
\* later check tries again.
EveryCrossingRecorded == \A mark \in flags : Recording(mark)

\* The gate of an advance gives the answer of a check: txBudgetQuerier "replicates
\* the budget.Checker.Check" (internal/phase/tx_queriers.go).
TxReplicates == CheckSaysExceeded = TxSaysExceeded
=============================================================================
