------------------------------ MODULE Routing -------------------------------
(* Routing: the model of a subagent (ic route model and batch), the profile   *)
(* of a dispatch role (ic route dispatch --role) and the deployment of a task *)
(* (ic route decide).  Every answer is computed from one reading of the       *)
(* configuration.                                                             *)
(*   ask <-> what the command is given and reads                              *)
(*   answer <-> what it prints                                                *)
EXTENDS Integers, Sequences, SequencesExt, FiniteSets, TLC

CONSTANTS
    ModelAsks,    \* questions for the model of a subagent
    RoleAsks,     \* questions for the profile of a role
    TaskAsks,     \* questions for a deployment
    Aliases,      \* dispatch.model_aliases
    Undecorated,  \* model names with a provider or a context window to the name without
    Undated,      \* names of dated snapshots to the name without the date
    Lab,          \* lab of every model identity of a known family
    EffortOrder   \* efforts the backend of an identity offers

\* A calibration artifact of an entry for each of the phase's names and for the agent.
CalibrationEntry == [model : STRING, confidence : Nat, sessions : Nat, propagates : BOOLEAN]
CalibrationArtifact == [valid : BOOLEAN, schema : 1..3, entries : Seq(CalibrationEntry)]

ASSUME RoutingAssumption ==
    /\ ModelAsks \cap RoleAsks = {} /\ ModelAsks \cap TaskAsks = {} /\ RoleAsks \cap TaskAsks = {}
    /\ \A identity \in DOMAIN EffortOrder : EffortOrder[identity] \subseteq Nat
    /\ \A question \in ModelAsks :
         /\ question.levels \in Seq(STRING)
         /\ question.artifact \in Seq(CalibrationArtifact)
    /\ \A config \in {question.config : question \in RoleAsks} :
         /\ IsFiniteSet(DOMAIN config.tiers)
         /\ \A tier \in DOMAIN config.tiers :
               config.tiers[tier].effort \in Nat /\ config.tiers[tier].fallbacks \in Seq(STRING)
    /\ \A question \in RoleAsks : question.effort \in Nat
    /\ \A question \in TaskAsks : question.zones \in Seq(STRING)

VARIABLES ask, answer

routeVars == <<ask, answer>>

None == "none"
NoAnswer == [given |-> FALSE]

RoutingInit ==
    /\ ask \in ModelAsks \cup RoleAsks \cup TaskAsks
    /\ answer = NoAnswer

\* What a sequence has at these of its places, in its order.
AtPlaces(s, places) ==
    LET nth(k) == CHOOSE i \in places : Cardinality({j \in places : j <= i}) = k
    IN  [k \in 1 .. Cardinality(places) |-> s[nth(k)]]

-----------------------------------------------------------------------------
(* The model of a subagent                                                    *)

Tier(model) ==
    CASE model = "haiku" -> 1 [] model = "sonnet" -> 2 [] model = "opus" -> 3
      [] model = "fable" -> 4 [] OTHER -> 0

\* What the levels say, from the agent's override down to the default model.
Said(levels) == {i \in DOMAIN levels : levels[i] # "inherit"}

resolveStaticModel(levels) ==
    IF Said(levels) = {} THEN "sonnet"
    ELSE levels[Min(Said(levels))]

overridden(levels) == levels[1] # "inherit"

\* The agent's floor is the minimum of the role read last, in any order.
applyFloor(model, floor) ==
    IF Tier(floor) = 0 \/ Tier(model) >= Tier(floor) THEN model ELSE floor

finalizeModel(model, windowOpen, floor) ==
    applyFloor(IF model = "fable" /\ ~windowOpen THEN "opus" ELSE model, floor)

\* Confidence in tenths.
entryEligible(entry, schema) ==
    /\ entry.model \in {"haiku", "sonnet", "opus"}
    /\ entry.confidence \in 7 .. 10
    /\ entry.sessions >= 3
    /\ schema >= 2 => entry.propagates

\* The entries of the phase's names, then the agent's own.
recommendation(artifact) ==
    LET eligible == {i \in DOMAIN artifact.entries :
                         entryEligible(artifact.entries[i], artifact.schema)}
    IN  IF ~artifact.valid \/ eligible = {} THEN None
        ELSE artifact.entries[Min(eligible)].model

\* A recommendation is used when the mode enforces it and nothing outranks it.
Calibrated(question) ==
    /\ question.artifact # <<>>
    /\ recommendation(question.artifact[1]) # None
    /\ ~overridden(question.levels)
    /\ question.mode = "enforce"
    /\ question.artifact[1].schema # 1

ResolveModelDetailed(question, floor) ==
    finalizeModel(IF Calibrated(question) THEN recommendation(question.artifact[1])
                  ELSE resolveStaticModel(question.levels),
                  question.window, floor)

RouteModel ==
    /\ answer = NoAnswer /\ ask \in ModelAsks
    /\ \E floor \in ask.floors :
          answer' = [given |-> TRUE, floor |-> floor,
                     model |-> ResolveModelDetailed(ask, floor)]
    /\ UNCHANGED ask

-----------------------------------------------------------------------------
(* Names of models and of profiles                                            *)

\* Where a chain of names ends; in a cycle it stays within the table.
Follow(table, name) ==
    LET hop[n \in 0 .. Cardinality(DOMAIN table)] ==
            IF n = 0 THEN name
            ELSE IF hop[n - 1] \in DOMAIN table THEN table[hop[n - 1]] ELSE hop[n - 1]
    IN  hop[Cardinality(DOMAIN table)]

stripModelDecoration(model) == IF model \in DOMAIN Undecorated THEN Undecorated[model] ELSE model

expandModelAlias(model) ==
    Follow([alias \in DOMAIN Aliases |-> stripModelDecoration(Aliases[alias])], stripModelDecoration(model))

\* The identity, or nothing for a name of no known family or in a cycle of aliases: the aliases
\* speak first, of a dated snapshot too, and again of the name without the date.
CanonicalModelIdentity(model) ==
    LET undated(m) == IF m \in DOMAIN Undated THEN Undated[m] ELSE m
        named == expandModelAlias(model)
        end == expandModelAlias(undated(named))
    IN  IF end \in DOMAIN Lab /\ {named, end} \cap DOMAIN Aliases = {} THEN end ELSE None

modelLab(identity) == IF identity \in DOMAIN Lab THEN Lab[identity] ELSE None

\* The alias of a missing tier is followed until a tier exists.
lookupDispatchProfile(config, ref) ==
    LET missing == DOMAIN config.fallback \ DOMAIN config.tiers
        end == Follow([m \in missing |-> config.fallback[m]], ref)
    IN  IF end \in DOMAIN config.tiers THEN end ELSE None

\* One reference of the depth-first walk over the fallbacks.
appendFallback(config, walk) ==
    IF walk.todo = <<>> THEN walk
    ELSE LET ref == lookupDispatchProfile(config, Head(walk.todo))
         IN  IF ref = None \/ ref \in ToSet(walk.chain)
             THEN [walk EXCEPT !.todo = Tail(@)]
             ELSE [ chain |-> Append(walk.chain, ref),
                    todo |-> config.tiers[ref].fallbacks \o Tail(walk.todo) ]

\* The profile and all it falls back to, in declaration order.
resolveDispatch(config, ref) ==
    LET declared == UNION {{tier} \X DOMAIN config.tiers[tier].fallbacks : tier \in DOMAIN config.tiers}
        steps == 1 + Cardinality(declared)
        walk[n \in 0 .. steps] ==
            IF n = 0 THEN [chain |-> <<>>, todo |-> <<ref>>]
            ELSE appendFallback(config, walk[n - 1])
    IN  walk[steps].chain

-----------------------------------------------------------------------------
(* The seats of a role                                                        *)

ReviewRoles == {"validation", "cross-lab-review", "plan-review"}

Seat(config, ref) ==
    [ ref |-> ref, effort |-> config.tiers[ref].effort,
      identity |-> CanonicalModelIdentity(config.tiers[ref].model) ]

Refs(seats) == [i \in DOMAIN seats |-> seats[i].ref]

\* Only the first seat is compared with the producer.
distinctSeats_First(seats, producer) ==
    IF producer # None /\ seats[1].identity = producer THEN Tail(seats) ELSE seats

\* The seats no producer stands behind.
distinctSeats(seats, producer) ==
    AtPlaces(seats, {i \in DOMAIN seats : producer = None \/ seats[i].identity # producer})

\* Another frontier lab than the producer's goes first, in policy order.
crossLabFirst(config, seats, producer) ==
    LET other(s) == /\ modelLab(s.identity) # modelLab(producer)
                    /\ \E m \in config.frontier : modelLab(m) = modelLab(s.identity)
        first == {i \in DOMAIN seats : other(seats[i])}
    IN  AtPlaces(seats, first) \o AtPlaces(seats, DOMAIN seats \ first)

Reordered(config, role, seats, producer) ==
    IF producer # None /\ role \in config.crossLab
    THEN crossLabFirst(config, seats, producer) ELSE seats

ResolveDispatchRoleForProducer(config, role, ref, producerName) ==
    LET producer == IF producerName = None THEN None ELSE CanonicalModelIdentity(producerName)
        chain == resolveDispatch(config, ref)
        seats == [i \in DOMAIN chain |-> Seat(config, chain[i])]
        distinct == distinctSeats(seats, producer)
        ordered == Reordered(config, role, distinct, producer)
    IN  [ ok |-> /\ ordered # <<>>
                 /\ role \in ReviewRoles => producerName # None
                 /\ \A i \in DOMAIN chain : expandModelAlias(config.tiers[chain[i]].model) \notin DOMAIN Aliases
                 /\ producerName # None =>
                        producer # None /\ \A i \in DOMAIN seats : seats[i].identity # None,
          policy |-> seats, distinct |-> distinct, seats |-> ordered,
          reason |-> IF distinct # <<>> /\ distinct[1] # seats[1] THEN "producer_model_conflict"
                     ELSE IF ordered # <<>> /\ ordered[1] # distinct[1] THEN "cross_lab_reorder"
                     ELSE None ]

-----------------------------------------------------------------------------
(* The reasoning contract                                                     *)

\* The efforts a seat can be raised to for these reasons.
Floors(config, reasons) == {config.effortFloors[r] : r \in reasons \cap DOMAIN config.effortFloors}

Offers(seat) == IF seat.identity \in DOMAIN EffortOrder THEN EffortOrder[seat.identity] ELSE {}

Enough(config, seat, reasons) ==
    {e \in Offers(seat) : e >= seat.effort /\ \A f \in Floors(config, reasons) : e >= f}

Raisable(config, seat, reasons) ==
    Floors(config, reasons) # {} =>
        seat.effort \in Offers(seat) /\ Enough(config, seat, reasons) # {}

applyEffortFloor(config, seat, reasons) ==
    IF Floors(config, reasons) = {} THEN seat
    ELSE [seat EXCEPT !.effort = Min(Enough(config, seat, reasons))]

\* An override is for the first seat of the resolved order.
Overridden(question, seats) ==
    [i \in DOMAIN seats |-> IF i = 1 /\ question.effort # 0 /\ question.effort \in Offers(seats[1])
                            THEN [seats[1] EXCEPT !.effort = question.effort] ELSE seats[i]]

elevated(question) == question.reasons # {} \/ question.investigating

otherFrontier(question) == question.reasons \cap question.config.dualReview # {}

unready(question) == elevated(question) /\ (~question.handoff \/ question.investigating)

selectedRole(question) ==
    CASE question.role = "planning" /\ elevated(question) -> "frontier-planning"
      [] question.role = "routine-execution" /\ unready(question) -> "deep-execution"
      [] OTHER -> question.role

frontierRequired(question) ==
    \/ question.role = "planning" /\ elevated(question)
    \/ question.role \in {"frontier-planning", "escalation"}
    \/ question.role = "plan-review" /\ otherFrontier(question)
    \/ question.role \in {"routine-execution", "deep-execution"} /\ unready(question)

Unfit(question, seat) ==
    \/ frontierRequired(question) /\ seat.identity \notin question.config.frontier
    \/ question.probed /\ seat.identity \notin {CanonicalModelIdentity(m) : m \in question.available}

\* The reasons whose floor counts: the exemptions are the requested role's.
floorReasons(question) ==
    IF question.role \in DOMAIN question.config.exempt
    THEN question.reasons \ question.config.exempt[question.role] ELSE question.reasons

\* A policy profile lays its roles over the others, in its scope.
rolesOf(question) ==
    IF question.profile = "default" THEN question.config.roles
    ELSE question.config.profiles[question.profile].roles @@ question.config.roles

Acceptable(question) ==
    /\ question.profile # "default" =>
           /\ question.profile \in DOMAIN question.config.profiles
           /\ question.config.profiles[question.profile].scope \in {None, question.scope}
    /\ question.reasons # {} => question.rationale
    /\ question.reasons \subseteq question.config.frontierReasons
    /\ question.investigating => question.reasons # {}
    /\ question.probed => \A m \in question.available : CanonicalModelIdentity(m) # None
    /\ selectedRole(question) \in DOMAIN rolesOf(question)

eligibleSeats(question, resolved) ==
    LET seats == Overridden(question, resolved.seats)
        overrideFails == question.effort # 0 /\ question.effort \notin Offers(seats[1])
        kept == {i \in DOMAIN seats :
                   /\ ~Unfit(question, seats[i])
                   /\ ~(i = 1 /\ overrideFails)
                   /\ Raisable(question.config, seats[i], floorReasons(question))}
        floored == [i \in kept |-> applyEffortFloor(question.config, seats[i], floorReasons(question))]
    IN  AtPlaces(floored, kept)

\* Why the seat is not the policy's first: the reorder explains the choice only
\* while it still moves the first of the seats that remain.
fallbackReason(resolved, eligible) ==
    LET distinct == resolved.distinct
        remain == AtPlaces(distinct, {i \in DOMAIN distinct : distinct[i].ref \in ToSet(Refs(eligible))})
        told == IF resolved.reason # "cross_lab_reorder" THEN resolved.reason
                ELSE IF remain[1].ref # eligible[1].ref THEN "cross_lab_reorder" ELSE None
    IN  IF told = None /\ (\/ eligible[1].ref # distinct[1].ref
                           \/ eligible[1].ref # resolved.seats[1].ref)
        THEN "reasoning_contract" ELSE told

\* Exit codes of the commands that answer nothing.
exitNoEligible == 1
exitMalformed == 3
exitConstraintViolation == 4

NoRoute(exit) == [given |-> TRUE, ok |-> FALSE, exit |-> exit]

\* The seats that are left make the decision.
Decision(question, resolved, passed) ==
    LET incomplete == \E i \in DOMAIN resolved.seats :
                          resolved.seats[i].effort = 0 /\ ~Unfit(question, resolved.seats[i])
    IN  IF ~resolved.ok \/ incomplete \/ passed = <<>> THEN NoRoute(exitNoEligible)
        ELSE [ given |-> TRUE, ok |-> TRUE, seats |-> passed, policy |-> resolved.policy,
               reason |-> fallbackReason(resolved, passed) ]

SeatsDecided(question, resolved) == Decision(question, resolved, eligibleSeats(question, resolved))

ResolveDecision(question) ==
    SeatsDecided(question,
        ResolveDispatchRoleForProducer(question.config, selectedRole(question),
            rolesOf(question)[selectedRole(question)], question.producer))

RouteRole ==
    /\ answer = NoAnswer /\ ask \in RoleAsks
    /\ answer' = IF Acceptable(ask) THEN ResolveDecision(ask) ELSE NoRoute(exitNoEligible)
    /\ UNCHANGED ask

-----------------------------------------------------------------------------
(* The deployment of a task                                                   *)

KnownDataLabels == {None, "public", "internal", "client-confidential"}

Permits(label, zone) == label = "client-confidential" => zone \in {"local", "approved-vendor"}

\* The keys whose zone the constraints permit; a zone for each key in their order.
EligibleDeployments(question) ==
    {k \in DOMAIN question.zones : Permits(question.label, question.zones[k])}

\* The first eligible key; a label nobody knows is refused, and that a
\* constraint left no key is told apart from a registry without any.
RouteTask ==
    /\ answer = NoAnswer /\ ask \in TaskAsks
    /\ answer' =
         IF ask.label \notin KnownDataLabels THEN NoRoute(exitMalformed)
         ELSE IF EligibleDeployments(ask) # {}
         THEN [given |-> TRUE, ok |-> TRUE, key |-> Min(EligibleDeployments(ask))]
         ELSE NoRoute(IF ask.label = "client-confidential" THEN exitConstraintViolation
                      ELSE exitNoEligible)
    /\ UNCHANGED ask

RoutingNext == RouteModel \/ RouteRole \/ RouteTask

RoutingSpec == RoutingInit /\ [][RoutingNext]_routeVars

-----------------------------------------------------------------------------
\* Whatever the levels, the window and the calibration say, the model is at
\* least the agent's floor; it is fable with the window closed only where the
\* floor asks for fable; and calibration moves only an agent without an
\* override, to a model that it may recommend or to the floor.
ModelHonoured ==
    (answer.given /\ ask \in ModelAsks) =>
        /\ answer.model # "inherit"
        /\ Tier(answer.floor) > 0 => Tier(answer.model) >= Tier(answer.floor)
        /\ (answer.model = "fable" /\ ~ask.window) => answer.floor = "fable"
        /\ (answer.model # finalizeModel(resolveStaticModel(ask.levels), ask.window, answer.floor))
              => /\ ask.levels[1] = "inherit" /\ ask.mode = "enforce" /\ ask.artifact[1].schema > 1
                 /\ answer.model \in {"haiku", "sonnet", "opus", answer.floor}

\* Not kept: resolve.go:227 says that fable resolves only while its window is open and is
\* degraded to opus otherwise; the floor, applied after it, raises opus to fable again.
FableNeedsWindow ==
    (answer.given /\ ask \in ModelAsks) => (answer.model = "fable" => ask.window)

\* Every seat of an answered role, the fallbacks too, satisfies the contract:
\* it is no alias or snapshot of the producer's model, a frontier model when
\* the judgment requires one, accessible, and at the effort of every floor.
SeatsQualified ==
    (answer.given /\ ask \in RoleAsks /\ answer.ok) =>
        \A i \in DOMAIN answer.seats :
            LET seat == answer.seats[i]
            IN  /\ ask.producer # None => seat.identity # CanonicalModelIdentity(ask.producer)
                /\ ~Unfit(ask, seat)
                /\ \A f \in Floors(ask.config, floorReasons(ask)) : seat.effort >= f
                /\ \A j \in DOMAIN answer.seats : answer.seats[j].ref = seat.ref => i = j

\* A seat that is not the policy's first says why.
ChoiceExplained ==
    (answer.given /\ ask \in RoleAsks /\ answer.ok) =>
        (answer.seats[1].ref # answer.policy[1].ref => answer.reason # None)

\* Where a review tries other labs first, no seat of the producer's lab comes
\* before one of another frontier lab.
OtherLabFirst ==
    (answer.given /\ ask \in RoleAsks /\ answer.ok /\ ask.producer # None) =>
        \A i, j \in DOMAIN answer.seats :
            LET lab(k) == modelLab(answer.seats[k].identity)
                mine == modelLab(CanonicalModelIdentity(ask.producer))
            IN  (/\ selectedRole(ask) \in ask.config.crossLab
                 /\ lab(i) = mine /\ lab(j) # mine
                 /\ \E m \in ask.config.frontier : modelLab(m) = lab(j)) => j < i

\* The order of the seats is the policy's, whatever was dropped between them, unless
\* the role tries other labs first.
PolicyOrderKept ==
    (/\ answer.given /\ ask \in RoleAsks /\ answer.ok
     /\ ask.producer = None \/ selectedRole(ask) \notin ask.config.crossLab) =>
        \A i, j \in DOMAIN answer.seats, m, n \in DOMAIN answer.policy :
            (/\ i < j
             /\ answer.policy[m].ref = answer.seats[i].ref
             /\ answer.policy[n].ref = answer.seats[j].ref) => m < n

\* A misspelt label never lets client data reach a general vendor, and that
\* data is told to halt rather than that no model matched.
ConfidentialStaysHome ==
    (/\ answer.given /\ ask \in TaskAsks
     /\ ask.label \notin {"public", "internal", None}) =>
        IF answer.ok THEN ask.zones[answer.key] # "vendor-cloud" ELSE answer.exit # exitNoEligible

\* What a route answers keeps floors, contracts, separation, order and trust zones.
RoutesHonoured ==
    /\ ModelHonoured /\ SeatsQualified /\ ChoiceExplained /\ OtherLabFirst /\ PolicyOrderKept
    /\ ConfidentialStaysHome
=============================================================================
