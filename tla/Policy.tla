------------------------------- MODULE Policy -------------------------------
(* The authorization policy: layers of rules merged in ascending precedence, *)
(* a rule at a time, and the decision for an operation, which the declared   *)
(* delegation level caps.                                                    *)
(*   pending <-> the rules of the layers still to merge, global ones first   *)
(*   merged  <-> MergePolicies' result so far     merging <-> how it stands  *)
(*   level   <-> the state entry kernel.autonomy.delegation_level            *)
EXTENDS Integers, Sequences, SequencesExt, FiniteSets

CONSTANTS
    LayerRules,  \* rules a layer may hold
    MaxRules     \* bound: rules over all layers

\* MergePolicies refuses another mode; demands are of the kind that Evaluate reads.
ASSUME PolicyAssumption ==
    /\ MaxRules \in Nat
    /\ \A r \in LayerRules :
        /\ r = [op |-> r.op, mode |-> r.mode, allow |-> r.allow,
                requires |-> [k \in DOMAIN r.requires |-> r.requires[k]]]
        /\ r.mode \in {"auto", "confirm", "block", "force_auto"} /\ r.allow \in BOOLEAN
        /\ DOMAIN r.requires \subseteq {"vetted_within_minutes", "tests_passed"}
        /\ "vetted_within_minutes" \in DOMAIN r.requires => r.requires["vetted_within_minutes"] \in Int
        /\ "tests_passed" \in DOMAIN r.requires => r.requires["tests_passed"] \in BOOLEAN

VARIABLES layers, pending, merged, merging, level

policyVars == <<layers, pending, merged, merging, level>>

Modes == {"auto", "confirm", "block", "force_auto"}
Proceeds == {"auto", "force_auto"}

\* requires maps a key to a number of minutes or to a boolean; one key of each
\* kind stands for its kind.
NumericKey == "vetted_within_minutes"
BooleanKey == "tests_passed"

\* What a level entry may hold: a level, something else, or nothing in force.
LevelPayloads == 0 .. 5
Unreadable == -1
Unset == -2

PolicyInit ==
    /\ layers \in UNION {[1 .. n -> LayerRules] : n \in 0 .. MaxRules}
    /\ pending = layers
    /\ merged = <<>>
    /\ merging = "merging"
    /\ level = Unset

-----------------------------------------------------------------------------
(* MergePolicies                                                              *)

findRuleByOp(rules, op) == {i \in DOMAIN rules : rules[i].op = op}

\* A rule for an operation goes before the catch-all.
insertRule(rules, incoming) ==
    IF incoming.op = "*" \/ findRuleByOp(rules, "*") = {} THEN Append(rules, incoming)
    ELSE InsertAt(rules, CHOOSE i \in findRuleByOp(rules, "*") : TRUE, incoming)

\* A confirm or a block is a floor unless the rule lets itself be overridden.
validateModeTransition(base, override) ==
    \/ base.allow
    \/ base.mode \notin {"confirm", "block"}
    \/ override.mode \notin Proceeds

\* The booleans required below that this layer drops, or sets to false.
Dropped(base, override) ==
    {k \in DOMAIN base : k = BooleanKey /\ base[k] /\ (k \in DOMAIN override => ~override[k])}

\* A merge in which the later layer's numbers win, the looser ones too.
mergeRequires_Replaces(base, override) ==
    [k \in (DOMAIN base \cup DOMAIN override) \ Dropped(base, override) |->
        IF k \in DOMAIN override THEN override[k] ELSE base[k]]

\* The smaller number; the conjunction of the booleans.
mergeRequires(base, override) ==
    [k \in (DOMAIN base \cup DOMAIN override) \ Dropped(base, override) |->
        IF k \notin DOMAIN base THEN override[k]
        ELSE IF k \notin DOMAIN override THEN base[k]
        ELSE IF k = BooleanKey THEN base[k] /\ override[k]
        ELSE IF override[k] < base[k] THEN override[k] ELSE base[k]]

Mergeable(base, override) ==
    /\ validateModeTransition(base, override)
    /\ base.allow \/ Dropped(base.requires, override.requires) = {}

mergeRule(base, override) ==
    [ op |-> base.op, mode |-> override.mode, allow |-> base.allow \/ override.allow,
      requires |-> mergeRequires(base.requires, override.requires) ]

\* One turn of the loop over the rules of the layers.
MergeRule ==
    /\ merging = "merging" /\ pending # <<>>
    /\ LET incoming == Head(pending)
           found == findRuleByOp(merged, incoming.op)
       IN  \/ /\ found = {}
              /\ merged' = insertRule(merged, incoming)
              /\ UNCHANGED merging
           \/ \E i \in found :
                /\ \A j \in found : i <= j
                /\ IF Mergeable(merged[i], incoming)
                   THEN /\ merged' = [merged EXCEPT ![i] = mergeRule(@, incoming)]
                        /\ UNCHANGED merging
                   ELSE /\ merging' = "error" /\ UNCHANGED merged
    /\ pending' = Tail(pending)
    /\ UNCHANGED <<layers, level>>

\* LoadEffective returns a policy only when every layer merged.
LoadEffective ==
    /\ merging = "merging" /\ pending = <<>>
    /\ merging' = "loaded"
    /\ UNCHANGED <<layers, pending, merged, level>>

-----------------------------------------------------------------------------
(* The delegation level                                                       *)

\* config set refuses what is not a level.
DeclareLevel ==
    /\ merging = "loaded"
    /\ level' \in LevelPayloads
    /\ UNCHANGED <<layers, pending, merged, merging>>

\* The entry is an ordinary one of the state store: state set writes anything
\* under its key, and it may expire or be deleted.
OverwriteLevel ==
    /\ merging = "loaded"
    /\ level' \in {Unreadable, Unset}
    /\ UNCHANGED <<layers, pending, merged, merging>>

DefaultLevel == 2
PushAutoFloor == 3

\* What cannot be read counts as the default.
Resolve(l) == IF l \in LevelPayloads THEN l ELSE DefaultLevel

MinLevelForAuto(op) == IF op = "git-push-main" THEN PushAutoFloor ELSE 0

PermitsAuto(l, op) == Resolve(l) >= MinLevelForAuto(op)

PolicyNext == MergeRule \/ LoadEffective \/ DeclareLevel \/ OverwriteLevel

PolicySpec == PolicyInit /\ [][PolicyNext]_policyVars

-----------------------------------------------------------------------------
(* Check                                                                      *)

\* The rule of the operation, or the catch-all.
matchRule(rules, op) ==
    LET own == findRuleByOp(rules, op)
        any == findRuleByOp(rules, "*")
    IN  IF own # {} THEN {rules[CHOOSE i \in own : \A j \in own : i <= j]}
        ELSE IF any # {} THEN {rules[CHOOSE i \in any : \A j \in any : i <= j]}
        ELSE {}

\* What the caller knows: the age of the vetting and whether tests passed.
Inputs == [age : 0 .. 2, tests : BOOLEAN]

Evaluate(rule, input) ==
    \A k \in DOMAIN rule.requires :
        IF k = NumericKey THEN input.age <= rule.requires[k]
        ELSE input.tests = rule.requires[k]

applyDelegationCeiling(mode, op, l) ==
    IF mode \in Proceeds /\ ~PermitsAuto(l, op) THEN "confirm" ELSE mode

Check(rules, op, input, l) ==
    IF \E r \in matchRule(rules, op) : r.mode = "block" THEN "block"
    ELSE IF \E r \in matchRule(rules, op) : Evaluate(r, input)
         THEN applyDelegationCeiling((CHOOSE r \in matchRule(rules, op) : TRUE).mode, op, l)
         ELSE "confirm"

-----------------------------------------------------------------------------
Ops == {"git-push-main", "bead-close"}

\* The layers hold no rule for the operation that lets itself be overridden or
\* requires a boolean to be false.
Strict(op) ==
    \A i \in DOMAIN layers : layers[i].op = op =>
        /\ ~layers[i].allow
        /\ BooleanKey \in DOMAIN layers[i].requires => layers[i].requires[BooleanKey]

\* A later layer only tightens: what the merged policy lets proceed, every
\* rule for the operation would have let proceed by itself.
LaterLayersTighten ==
    merging = "loaded" =>
        \A op \in Ops, input \in Inputs :
            (Strict(op) /\ Check(merged, op, input, 5) \in Proceeds) =>
                \A i \in DOMAIN layers : layers[i].op = op =>
                    layers[i].mode \in Proceeds /\ Evaluate(layers[i], input)

\* The merged policy has one rule for an operation, and the catch-all decides
\* only where no layer has a rule.
OneRuleEach ==
    \A i, j \in DOMAIN merged : merged[i].op = merged[j].op => i = j

\* No policy, of any layer or mode, pushes below the level a human declared:
\* a level that is unset, expired or unreadable is too low.
CeilingHolds ==
    merging = "loaded" =>
        \A input \in Inputs :
            Check(merged, "git-push-main", input, level) \in Proceeds =>
                level \in PushAutoFloor .. 5

\* The merged policy is no looser than its layers nor than the declared level.
PolicyTightens == LaterLayersTighten /\ OneRuleEach /\ CeilingHolds
=============================================================================
