---------------------------- MODULE GlobOverlap ----------------------------
(****************************************************************************)
(* Whether two glob patterns can match one path (internal/coordination/     *)
(* glob.go). A pattern is a sequence of segments, a segment a sequence of   *)
(* tokens; a token is a star, or the set of letters it can stand for (a     *)
(* literal, ?, or a class, which may be empty once the separator is taken   *)
(* out). PatternPairs enumerates pairs of patterns for the check.           *)
(****************************************************************************)
EXTENDS Integers, Sequences, FiniteSets

CONSTANTS
    Letters,    \* the runes of a path other than the separator
    Classes,    \* sets of letters that literals, ? and classes stand for
    MaxSegment   \* bound on the tokens of an enumerated pattern

ASSUME GlobAssumption == Classes \subseteq SUBSET Letters /\ MaxSegment \in Nat

Star == [kind |-> "star", set |-> Letters]
One(C) == [kind |-> "one", set |-> C]
Tokens == {Star} \cup {One(C) : C \in Classes}

---------------------------------------------------------------------------
(* segmentPatternsOverlap: the product of the two automata *)

IsStar(seg, i) == i <= Len(seg) /\ seg[i].kind = "star"

\* The positions an empty move of either side leads to.
Skips(a, b, s) ==
    {t \in {<<s[1] + 1, s[2]>>, <<s[1], s[2] + 1>>} :
        \/ t[1] > s[1] /\ IsStar(a, s[1])
        \/ t[2] > s[2] /\ IsStar(b, s[2])}

\* tokenConsume: a star stays where it is.
After(seg, i) == IF IsStar(seg, i) THEN i ELSE i + 1

\* A letter both tokens can stand for moves both sides.
Moves(a, b, s) ==
    IF s[1] <= Len(a) /\ s[2] <= Len(b) /\ a[s[1]].set \cap b[s[2]].set # {}
    THEN {<<After(a, s[1]), After(b, s[2])>>} ELSE {}

SegmentsOverlap(a, b) ==
    LET Wider(S) == S \cup UNION {Skips(a, b, s) \cup Moves(a, b, s) : s \in S}
        reached[n \in 0..((Len(a) + 1) * (Len(b) + 1))] ==
            IF n = 0 THEN {<<1, 1>>} ELSE Wider(reached[n - 1])
    IN  <<Len(a) + 1, Len(b) + 1>> \in reached[(Len(a) + 1) * (Len(b) + 1)]

\* Segment by segment; a star never crosses a separator.
PatternsOverlap(p, q) ==
    Len(p) = Len(q) /\ \A k \in DOMAIN p : SegmentsOverlap(p[k], q[k])

---------------------------------------------------------------------------
(* Reference: the paths a segment matches *)

Words == UNION {[1..n -> Letters] : n \in 0..(2 * (MaxSegment - 1))}

Matches(seg, w) ==
    LET m[i \in 1..(Len(seg) + 1), j \in 1..(Len(w) + 1)] ==
            IF i = Len(seg) + 1 THEN j = Len(w) + 1
            ELSE \/ seg[i].kind = "star" /\ (m[i + 1, j] \/ (j <= Len(w) /\ m[i, j + 1]))
                 \/ seg[i].kind = "one" /\ j <= Len(w) /\ w[j] \in seg[i].set /\ m[i + 1, j + 1]
    IN  m[1, 1]

Segments == UNION {[1..n -> Tokens] : n \in 0..MaxSegment}
Language == [seg \in Segments |-> {w \in Words : Matches(seg, w)}]

---------------------------------------------------------------------------
(* Enumeration *)

VARIABLES left, right  \* a pair of segments

globVars == <<left, right>>

GlobInit == left = <<>> /\ right = <<>>

Longer(seg) == {Append(seg, t) : t \in Tokens}

GlobNext ==
    \/ Len(left) < MaxSegment /\ left' \in Longer(left) /\ UNCHANGED right
    \/ Len(right) < MaxSegment /\ right' \in Longer(right) /\ UNCHANGED left

\* Two segments overlap exactly when a word both match exists, and in either
\* order: the lock store rejects a reservation on this answer alone
\* (PatternsOverlap).
OverlapExact ==
    /\ SegmentsOverlap(left, right) <=> Language[left] \cap Language[right] # {}
    /\ SegmentsOverlap(left, right) = SegmentsOverlap(right, left)
=============================================================================
