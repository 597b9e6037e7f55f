---------------------------- MODULE MCRecords -----------------------------
(* The components that keep rows, files or a registry of their own beside   *)
(* the runs and dispatches.  They share none of it, so a behaviour is of    *)
(* one of them, chosen in the initial state.                                *)
EXTENDS Records, GoalClose, AuditChain, Discovery, MergeIntents,
        AgentLifecycle, Coordination, FileLock, GlobOverlap, ProjectDeps,
        Schema, Actions, Routing, TLC

CONSTANT Parts  \* the components to explore

VARIABLE focus

\* Every two patterns match one path.
Crossing == Patterns \X Patterns

GlobLetters == {"a", "b", "c"}
GlobClasses == {{}, {"a"}, {"b"}, Letters}

\* Discovery events have no run; of the others one kind stands for all.
Tables == <<"discovery", "phase">>

TwoStages == <<"discover", "build">>

\* Three children, one whose chain takes the shared phases in another order.
ChildChains == <<<<"a", "b", "c">>, <<"a", "b", "c">>, <<"a", "c", "b">>>>

\* Calibrated entries: one that may be recommended, and one short of each demand.
Entry(m, c, s, p) == [model |-> m, confidence |-> c, sessions |-> s, propagates |-> p]
GoodEntry == Entry("haiku", 7, 3, TRUE)
BadEntries ==
    { Entry("haiku", 6, 3, TRUE), Entry("opus", 7, 2, TRUE),
      Entry("fable", 10, 3, TRUE), Entry("haiku", 7, 3, FALSE) }
SomeEntries ==
    {<<GoodEntry>>, <<Entry("opus", 11, 3, TRUE), Entry("opus", 9, 4, TRUE)>>}
    \cup {<<e, GoodEntry>> : e \in BadEntries}
SomeArtifacts ==
    {<<>>, <<[valid |-> FALSE, schema |-> 2, entries |-> <<GoodEntry>>]>>}
    \cup {<<[valid |-> TRUE, schema |-> s, entries |-> e]>> : s \in {1, 2}, e \in SomeEntries}

\* Override, phase and default; floors of one role, of two, and an unknown one.
ModelQuestions ==
    [ levels : [1..3 -> {"inherit", "haiku", "fable"}], window : BOOLEAN,
      mode : {"off", "shadow", "enforce", "typo"},
      floors : {{None}, {"opus"}, {"fable"}, {"haiku", "opus"}, {"gpt"}},
      artifact : SomeArtifacts ]

\* Two models of one lab, one of another, aliases in a circle and of a dated name.
SomeAliases ==
    ("frontier" :> "openai/gpt-6-a") @@ ("gpt-6-b-20260101" :> "frontier") @@ ("loop" :> "pool") @@ ("pool" :> "loop")
DecoratedNames == "openai/gpt-6-a" :> "gpt-6-a"
DatedNames == ("gpt-6-a-20260101" :> "gpt-6-a") @@ ("gpt-6-b-20260101" :> "gpt-6-b")
SomeLabs == ("gpt-6-a" :> "openai") @@ ("gpt-6-b" :> "openai") @@ ("claude-opus-c" :> "anthropic")
SomeEfforts == ("gpt-6-a" :> 1..4) @@ ("gpt-6-b" :> 1..4) @@ ("claude-opus-c" :> 2..3)

\* Chains of fallbacks, one with an alias, two of them circular.
Profile(m, e, f) == [model |-> m, effort |-> e, fallbacks |-> f]
SomeTiers ==
    { ("a" :> Profile("gpt-6-a-20260101", 2, <<"b", "old">>)) @@ ("b" :> Profile("gpt-6-b", 1, <<"c", "a">>))
          @@ ("c" :> Profile("claude-opus-c", 2, <<"gone">>)),
      ("a" :> Profile("gpt-6-b", 1, <<"b">>)) @@ ("b" :> Profile("gpt-6-a", 3, <<"c">>))
          @@ ("c" :> Profile("claude-opus-c", 0, <<>>)),
      ("a" :> Profile("claude-opus-c", 3, <<"b">>)) @@ ("b" :> Profile("gpt-6-a", 3, <<"c">>))
          @@ ("c" :> Profile("frontier", 2, <<"a">>)) }
DispatchConfig(t) ==
    [ tiers |-> t, fallback |-> ("old" :> "c") @@ ("gone" :> "gone2") @@ ("gone2" :> "gone"),
      roles |-> [r \in {"planning", "frontier-planning", "plan-review", "routine-execution",
                        "deep-execution", "validation"} |->
                   IF r \in {"planning", "routine-execution"} THEN "b" ELSE "a"],
      profiles |-> "strict" :> [scope |-> "s1", roles |-> ("plan-review" :> "old")],
      frontier |-> {"gpt-6-a", "claude-opus-c"}, crossLab |-> {"plan-review"}, frontierReasons |-> {"r1", "r2"},
      dualReview |-> {"r2"},
      effortFloors |-> ("r1" :> 3) @@ ("r2" :> 4), exempt |-> "plan-review" :> {"r2"} ]
SomeAvailable ==
    {{}, {"gpt-6-a"}, {"claude-opus-c"}, {"gpt-6-b", "claude-opus-c"}, {"gpt-6-a", "gpt-6-b", "claude-opus-c"}}
RoleQuestions ==
    [ config : {DispatchConfig(t) : t \in SomeTiers},
      role : {"planning", "plan-review", "routine-execution"},
      producer : {None, "gpt-6-b-20260101", "gpt-6-b", "loop"}, profile : {"default", "strict"}, scope : {"s1"},
      reasons : {{}, {"r1"}, {"r1", "r2"}, {"r3"}}, rationale : {TRUE}, investigating : BOOLEAN, handoff : BOOLEAN,
      probed : BOOLEAN, available : SomeAvailable, effort : {0, 3} ]
TaskQuestions ==
    [ label : {None, "public", "internal", "client-confidential", "client_confidential"},
      zones : {<<>>} \cup [1..2 -> {"local", "approved-vendor", "vendor-cloud"}] ]

\* Feedback is followed on the first day, and the second signal between transactions; a
\* score below the gate is given while there is one discovery.
DiscoveryBound ==
    /\ signals # <<>> => day = 1
    /\ Len(signals) > 1 => \A p \in Scouts : request[p] = NoRequest
    /\ Cardinality(Submitted) > 1 =>
          /\ \A d \in Submitted : discovery[d].score # 40
          /\ \A p \in Scouts : request[p].score # 40

\* Syncs that overlap are followed while there is one lane.
LanesBound ==
    (\A p \in Syncers : sync[p] # NoSync) => \E n \in LaneNames : lanes[n] = "none"

RecordsBound == DiscoveryBound /\ LanesBound

\* What a component that is not in focus is given does not matter.
RecordsInit ==
    /\ focus \in Parts
    /\ IF focus = "schema" THEN TRUE ELSE found = CHOOSE v \in FirstVersions : TRUE
    /\ IF focus = "routing" THEN TRUE ELSE ask = CHOOSE q \in TaskAsks : TRUE
    /\ StateInit /\ BudgetInit /\ SentinelInit /\ GoalInit
    /\ AuditInit /\ LanesInit /\ DiscoveryInit /\ WorkLogInit
    /\ IntentsInit /\ LifeInit /\ CoordInit /\ FileLockInit
    /\ GlobInit /\ EventInit /\ RelayInit /\ PortfolioInit
    /\ SchemaInit /\ ActionsInit /\ RoutingInit

\* Only the component in focus moves.
OnlyFocus ==
    /\ UNCHANGED focus
    /\ IF focus = "state" THEN TRUE ELSE UNCHANGED stateVars
    /\ IF focus = "budget" THEN TRUE ELSE UNCHANGED budgetVars
    /\ IF focus = "sentinel" THEN TRUE ELSE UNCHANGED sentinelVars
    /\ IF focus = "goal" THEN TRUE ELSE UNCHANGED goalVars
    /\ IF focus = "audit" THEN TRUE ELSE UNCHANGED auditVars
    /\ IF focus = "lanes" THEN TRUE ELSE UNCHANGED laneVars
    /\ IF focus = "discovery" THEN TRUE ELSE UNCHANGED discoveryVars
    /\ IF focus = "worklog" THEN TRUE ELSE UNCHANGED workLogVars
    /\ IF focus = "intents" THEN TRUE ELSE UNCHANGED intentVars
    /\ IF focus = "agents" THEN TRUE ELSE UNCHANGED lifeVars
    /\ IF focus = "locks" THEN TRUE ELSE UNCHANGED coordVars
    /\ IF focus = "dirlock" THEN TRUE ELSE UNCHANGED flockVars
    /\ IF focus = "globs" THEN TRUE ELSE UNCHANGED globVars
    /\ IF focus = "events" THEN TRUE ELSE UNCHANGED eventVars
    /\ IF focus = "relay" THEN TRUE ELSE UNCHANGED relayVars
    /\ IF focus = "projects" THEN TRUE ELSE UNCHANGED portfolioVars
    /\ IF focus = "schema" THEN TRUE ELSE UNCHANGED schemaVars
    /\ IF focus = "actions" THEN TRUE ELSE UNCHANGED actionVars
    /\ IF focus = "routing" THEN TRUE ELSE UNCHANGED routeVars

RecordsNext ==
    \/ focus = "state" /\ StateNext /\ OnlyFocus
    \/ focus = "budget" /\ BudgetNext /\ OnlyFocus
    \/ focus = "sentinel" /\ SentinelNext /\ OnlyFocus
    \/ focus = "goal" /\ GoalNext /\ OnlyFocus
    \/ focus = "audit" /\ AuditNext /\ OnlyFocus
    \/ focus = "lanes" /\ LanesNext /\ OnlyFocus
    \/ focus = "discovery" /\ DiscoveryNext /\ OnlyFocus
    \/ focus = "worklog" /\ WorkLogNext /\ OnlyFocus
    \/ focus = "intents" /\ IntentsNext /\ OnlyFocus
    \/ focus = "agents" /\ LifeNext /\ OnlyFocus
    \/ focus = "locks" /\ CoordNext /\ OnlyFocus
    \/ focus = "dirlock" /\ FileLockNext /\ OnlyFocus
    \/ focus = "globs" /\ GlobNext /\ OnlyFocus
    \/ focus = "events" /\ EventNext /\ OnlyFocus
    \/ focus = "relay" /\ RelayNext /\ OnlyFocus
    \/ focus = "projects" /\ PortfolioNext /\ OnlyFocus
    \/ focus = "schema" /\ SchemaNext /\ OnlyFocus
    \/ focus = "actions" /\ ActionsNext /\ OnlyFocus
    \/ focus = "routing" /\ RoutingNext /\ OnlyFocus

RecordsSpec == RecordsInit /\ [][RecordsNext]_<<focus, stateVars, budgetVars, sentinelVars, goalVars, auditVars,
    laneVars, discoveryVars, workLogVars, intentVars, lifeVars,
    coordVars, flockVars, globVars, eventVars, relayVars,
    portfolioVars, schemaVars, actionVars, routeVars>>

---------------------------------------------------------------------------
(* Properties of several components, see their parts                        *)

\* No two owners hold overlapping paths, checked or granted, and a lock once
\* released stays released (coordination.Store, PatternsOverlap).
PathsExclusive ==
    /\ [](CoordTypeOK /\ ExclusiveHolds /\ ClearMeansFree)
    /\ [](focus = "globs" => OverlapExact)
    /\ LockEndsOnce

=============================================================================
