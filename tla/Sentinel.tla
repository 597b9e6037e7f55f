------------------------------ MODULE Sentinel ------------------------------
(****************************************************************************)
(* Throttle sentinels (internal/sentinel/sentinel.go, ic sentinel in        *)
(* cmd/ic/main.go): a row with the time a name last fired. Check claims it  *)
(* in one transaction that begins with a write, and prunes rows over a      *)
(* week old in the same transaction.                                        *)
(****************************************************************************)
EXTENDS Integers, FiniteSets

CONSTANTS
    Sentinels,  \* pairs of name and scope
    Intervals,  \* the intervals callers give; 0 for once only
    Week,       \* the age of a row after which every check prunes it
    Dawn,       \* the first time, long after 0
    Dusk        \* bound on the clock

ASSUME SentinelAssumption ==
    /\ Intervals \subseteq Nat /\ Week \in Nat \ {0}
    /\ Dawn \in Nat /\ Dusk \in Nat /\ Dawn > Week

VARIABLES
    lastFired,  \* the rows: the time last fired, NotThere without a row
    moment,     \* the wall clock
    firings     \* history: each sentinel's last claim, its interval, and how long
                \* after the one before; a reset or a prune by hand starts anew

sentinelVars == <<lastFired, moment, firings>>

NotThere == -1
NeverFired == [at |-> 0, interval |-> 0, gap |-> 0]

SentinelInit ==
    /\ lastFired = [s \in Sentinels |-> NotThere]
    /\ moment = Dawn
    /\ firings = [s \in Sentinels |-> NeverFired]

Least(a, b) == IF a < b THEN a ELSE b
Ensured(s) == IF lastFired[s] = NotThere THEN 0 ELSE lastFired[s]

Eligible(s, interval) ==
    \/ interval = 0 /\ Ensured(s) = 0
    \/ interval > 0 /\ moment - Ensured(s) >= interval

Stale(t) == moment - t > Week

Pruned(rows) ==
    [s \in Sentinels |-> IF rows[s] # NotThere /\ Stale(rows[s]) THEN NotThere ELSE rows[s]]

Check(s, interval) ==
    LET fires == Eligible(s, interval) IN
    /\ lastFired' = Pruned([lastFired EXCEPT ![s] = IF fires THEN moment ELSE Ensured(s)])
    /\ firings' = IF ~fires THEN firings
                  ELSE [firings EXCEPT ![s] =
                           [at |-> moment, interval |-> interval,
                            gap |-> IF @.at = 0 THEN 0 ELSE moment - @.at]]
    /\ UNCHANGED moment

Forget(gone) ==
    /\ lastFired' = [s \in Sentinels |-> IF s \in gone THEN NotThere ELSE lastFired[s]]
    /\ firings' = [s \in Sentinels |-> IF s \in gone THEN NeverFired ELSE firings[s]]
    /\ UNCHANGED moment

ResetSentinel(s) == lastFired[s] # NotThere /\ Forget({s})

PruneSentinels(age) ==
    LET gone == {s \in Sentinels : lastFired[s] # NotThere /\ lastFired[s] < moment - age}
    IN  gone # {} /\ Forget(gone)

TimeGoesOn ==
    moment < Dusk /\ moment' = moment + 1 /\ UNCHANGED <<lastFired, firings>>

SentinelNext ==
    \/ \E s \in Sentinels : (\E i \in Intervals : Check(s, i)) \/ ResetSentinel(s)
    \/ \E age \in Intervals : PruneSentinels(age)
    \/ TimeGoesOn

SentinelSpec == SentinelInit /\ [][SentinelNext]_sentinelVars

---------------------------------------------------------------------------
(* Properties *)

\* Between two claims of a sentinel lies the interval the second asked for, up to
\* the week after which its row is pruned by any check, its own or another's.
ClaimsApart ==
    \A s \in Sentinels : firings[s].gap # 0 =>
        IF firings[s].interval = 0 THEN firings[s].gap > Week
        ELSE firings[s].gap >= Least(firings[s].interval, Week + 1)

\* "When intervalSec is 0, the sentinel fires at most once per scope_id"
\* (Store.Check), unless it is reset or pruned by hand.
OncePerScope ==
    \A s \in Sentinels : firings[s].interval = 0 => firings[s].gap = 0
=============================================================================
