---------------------------- MODULE MergeIntents ----------------------------
(****************************************************************************)
(* The outbox of merges (internal/dispatch/intent.go). An orchestrator      *)
(* records an intent, merges in git, and records the outcome; when it died  *)
(* in between, the next start settles the pending intents by looking at     *)
(* HEAD. The git side is external: HEAD only moves forward, and others      *)
(* commit too.                                                              *)
(****************************************************************************)
EXTENDS Integers, Sequences

CONSTANTS
    MaxIntents,     \* bound on the intents recorded
    MaxHead         \* bound on the commits

ASSUME IntentAssumption == MaxIntents \in Nat /\ MaxHead \in Nat

VARIABLES
    intents,    \* the merge_intents, in the order of their creation
    head,       \* commits behind HEAD; the number stands for the commit
    up,         \* whether the orchestrator runs
    recovering, \* intents its recovery has yet to settle

    \* what happened, for the properties
    merged      \* intent -> the commit its merge made, 0 for none

intentVars == <<intents, head, up, recovering, merged>>

IntentsInit ==
    /\ intents = <<>> /\ head = 1 /\ up = TRUE /\ recovering = {}
    /\ merged = [i \in 1..MaxIntents |-> 0]

Working == up /\ recovering = {}

\* Only a pending intent is settled.
Settle(i, status, result, why) ==
    /\ intents[i].status = "pending"
    /\ intents' = [intents EXCEPT ![i] = [@ EXCEPT !.status = status, !.result = result, !.why = why]]

RecordIntent ==
    /\ Working /\ Len(intents) < MaxIntents
    /\ intents' = Append(intents, [base |-> head, status |-> "pending", result |-> 0, why |-> "none"])
    /\ UNCHANGED <<head, up, recovering, merged>>

GitMerge(i) ==
    /\ Working /\ intents[i].status = "pending" /\ merged[i] = 0 /\ head < MaxHead
    /\ head' = head + 1
    /\ merged' = [merged EXCEPT ![i] = head + 1]
    /\ UNCHANGED <<intents, up, recovering>>

OthersCommit == head < MaxHead /\ head' = head + 1 /\ UNCHANGED <<intents, up, recovering, merged>>

CompleteIntent(i) ==
    /\ Working /\ merged[i] # 0
    /\ Settle(i, "completed", merged[i], "none")
    /\ UNCHANGED <<head, up, recovering, merged>>

FailIntent(i) ==
    /\ Working /\ merged[i] = 0
    /\ Settle(i, "failed", 0, "conflict")
    /\ UNCHANGED <<head, up, recovering, merged>>

Crash ==
    /\ up
    /\ up' = FALSE /\ recovering' = {}
    /\ UNCHANGED <<intents, head, merged>>

ListPendingIntents == {i \in DOMAIN intents : intents[i].status = "pending"}

Restart ==
    /\ ~up
    /\ up' = TRUE /\ recovering' = ListPendingIntents
    /\ UNCHANGED <<intents, head, merged>>

\* A commit of one's own on the base is not noticed.
Advanced_Past(i) == head > intents[i].base + 1

Advanced(i) == head # intents[i].base

\* The listed intents in turn, those of one second in any order. git may fail to
\* answer, which fails the intent.
RecoverPendingIntents ==
    /\ up
    /\ \E i \in recovering :
          /\ \/ Settle(i, "failed", 0, "git")
             \/ Advanced(i) /\ Settle(i, "completed", head, "recovered")
             \/ ~Advanced(i) /\ Settle(i, "failed", 0, "unchanged")
          /\ recovering' = recovering \ {i}
    /\ UNCHANGED <<head, up, merged>>

IntentsNext ==
    \/ RecordIntent \/ OthersCommit \/ Crash \/ Restart \/ RecoverPendingIntents
    \/ \E i \in DOMAIN intents : GitMerge(i) \/ CompleteIntent(i) \/ FailIntent(i)

IntentsSpec == IntentsInit /\ [][IntentsNext]_intentVars

---------------------------------------------------------------------------

\* A merge that landed is not written off while git answered: over any crash its intent
\* is pending or completed, with a commit that contains it.
LandedNotLost ==
    \A i \in DOMAIN intents :
        merged[i] # 0 /\ intents[i].why # "git" =>
            /\ intents[i].status \in {"pending", "completed"}
            /\ intents[i].status = "completed" => intents[i].result >= merged[i]

\* What recovery completes did land ("resolve each one by checking whether the git commit
\* actually landed"; recovery asks only whether HEAD has moved).
CompletedLanded == \A i \in DOMAIN intents : intents[i].status = "completed" => merged[i] # 0
=============================================================================
