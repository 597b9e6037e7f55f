--------------------------- MODULE MCPublishing ---------------------------
(* What decides on behalf of a human: the authorization policy and tokens,   *)
(* the publish with the marketplaces, caches and canaries it moves, and the  *)
(* ladder of models a failed dispatch is retried on.  A behaviour is of one  *)
(* of them, chosen in the initial state.                                     *)
EXTENDS AuthzTokens, Publish, PluginCache, Escalation, Policy, TLC

CONSTANT Parts  \* the components to explore

VARIABLE focus

\* Processes, and models of the frontier, only differ in what they do.
Symmetry ==
    Permutations(TokProcs \cup Publishers \cup Retriers)

\* Rules for the operation of each mode and demand, and two catch-alls.
PolicyRules ==
    LET demands == { <<>>, NumericKey :> 1, NumericKey :> 2, BooleanKey :> TRUE, BooleanKey :> FALSE }
        rule(op, mode, allow, requires) ==
            [op |-> op, mode |-> mode, allow |-> allow, requires |-> requires]
    IN  {rule("git-push-main", m, a, r) : m \in {"auto", "confirm", "block"}, a \in BOOLEAN, r \in demands}
        \cup {rule("*", m, FALSE, <<>>) : m \in {"block", "force_auto"}}

\* Two processes at a time are followed over two versions until one of a pair that overlapped has
\* returned or died, and one process at a time over MaxVersion until one leaves its row or a peer
\* it has written to and not committed.
PublishBound ==
    \/ /\ history \subseteq 1..2 /\ plug.wt <= 2 /\ \A p \in Publishers : pub[p].target <= 2
       /\ overlapped => \A p \in Publishers : At(p) # "idle"
    \/ /\ ~overlapped /\ leaks = 0 /\ CleanTree(peer)
       /\ \A p, q \in Publishers : p # q => "idle" \in {At(p), At(q)}

\* What a component that is not in focus is given does not matter.
PublishingInit ==
    /\ focus \in Parts
    /\ IF focus = "policy" THEN TRUE ELSE layers = <<>>
    /\ TokInit /\ PubInit /\ CacheInit /\ EscalationInit
    /\ PolicyInit

\* Only the component in focus moves.
OnlyFocus ==
    /\ UNCHANGED focus
    /\ IF focus = "tokens" THEN TRUE ELSE UNCHANGED tokVars
    /\ IF focus = "publish" THEN TRUE ELSE UNCHANGED pubVars
    /\ IF focus = "cache" THEN TRUE ELSE UNCHANGED cacheVars
    /\ IF focus = "escalation" THEN TRUE ELSE UNCHANGED escalationVars
    /\ IF focus = "policy" THEN TRUE ELSE UNCHANGED policyVars

PublishingNext ==
    \/ focus = "tokens" /\ TokNext /\ OnlyFocus
    \/ focus = "publish" /\ PubNext /\ OnlyFocus
    \/ focus = "cache" /\ CacheNext /\ OnlyFocus
    \/ focus = "escalation" /\ EscalationNext /\ OnlyFocus
    \/ focus = "policy" /\ PolicyNext /\ OnlyFocus

PublishingSpec == PublishingInit /\ [][PublishingNext]_<<focus, tokVars, pubVars, cacheVars, escalationVars, policyVars>>

=============================================================================
