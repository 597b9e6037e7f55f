---------------------------- MODULE Coordination ----------------------------
(****************************************************************************)
(* Coordination locks (internal/coordination/store.go, cmd/ic/              *)
(* coordination.go): file reservations of owners on glob patterns. A        *)
(* reservation takes its time before it waits for the write lock, and a     *)
(* sweep selects expired rows first and releases them one by one, so other  *)
(* commands commit in between; every other operation is one transaction.    *)
(****************************************************************************)
EXTENDS Integers, Sequences, FiniteSets

CONSTANTS
    Claimants,   \* processes that run ic coordination reserve
    Sweepers,    \* processes that run ic coordination sweep
    Owners, LockScopes, Patterns,
    Overlaps,    \* the pairs of patterns that can match one path
    LockTTLs,    \* seconds a caller asks for, 0 for a lock that never expires
    MaxLocks,    \* bound on the rows
    LastSecond   \* bound on the clock

ASSUME CoordinationAssumption ==
    /\ Overlaps \subseteq Patterns \X Patterns
    /\ \A p, q \in Patterns : <<p, q>> \in Overlaps => <<q, p>> \in Overlaps
    /\ LockTTLs \subseteq Nat
    /\ LastSecond \in Nat \ {0}

VARIABLES
    locks,   \* coordination_locks, by insertion
    second,  \* the wall clock
    asks     \* what each caller has read and not yet written

coordVars == <<locks, second, asks>>

NoAsk == [step |-> "none"]
Sweeping(ids) == [step |-> "sweep", left |-> ids]
Asked(t) == [step |-> "reserve", at |-> t]

\* expires is 0 without a TTL, released is 0 while the row is not released.
LockRows ==
    [owner : Owners, scope : LockScopes, pattern : Patterns, exclusive : BOOLEAN,
     expires : Nat, released : 0..LastSecond]

CoordInit == locks = <<>> /\ second = 1 /\ asks = [c \in Claimants \cup Sweepers |-> NoAsk]

---------------------------------------------------------------------------
(* The rows a statement's WHERE clause selects *)

Unexpired(l) == l.expires = 0 \/ l.expires > second
Active(l) == l.released = 0 /\ Unexpired(l)
LockLapsed(l, cutoff) == l.released = 0 /\ l.expires # 0 /\ l.expires < cutoff
LapsedRows(cutoff) == {i \in DOMAIN locks : LockLapsed(locks[i], cutoff)}

\* A release that forgets AND released_at IS NULL.
ReleaseRows_Again(ids) ==
    [i \in DOMAIN locks |->
        IF i \in ids THEN [locks[i] EXCEPT !.released = second] ELSE locks[i]]

ReleaseRows(ids) ==
    [i \in DOMAIN locks |->
        IF i \in ids /\ locks[i].released = 0
        THEN [locks[i] EXCEPT !.released = second] ELSE locks[i]]

Overlap(p, q) == <<p, q>> \in Overlaps

\* What Reserve refuses on: another owner's active lock in the scope, unless
\* both are shared.
Blockers(r) ==
    {i \in DOMAIN locks :
        /\ Active(locks[i])
        /\ locks[i].scope = r.scope
        /\ locks[i].owner # r.owner
        /\ r.exclusive \/ locks[i].exclusive
        /\ Overlap(r.pattern, locks[i].pattern)}

\* Check: the active locks on the pattern, shared ones too.
CheckRows(scope, pattern, except) ==
    {i \in DOMAIN locks :
        /\ Active(locks[i])
        /\ locks[i].scope = scope
        /\ locks[i].owner # except
        /\ Overlap(pattern, locks[i].pattern)}

---------------------------------------------------------------------------
(* Reserve *)

\* The time of the request is taken before the transaction begins.
BeginReserve(c) ==
    /\ asks[c] = NoAsk
    /\ asks' = [asks EXCEPT ![c] = Asked(second)]
    /\ UNCHANGED <<locks, second>>

Requested(owner, scope, pattern, exclusive, ttl, at) ==
    [owner |-> owner, scope |-> scope, pattern |-> pattern, exclusive |-> exclusive,
     expires |-> IF ttl = 0 THEN 0 ELSE at + ttl, released |-> 0]

ReserveAnswered(row, swept) ==
    \/ Blockers(row) # {} /\ UNCHANGED locks
    \/ /\ Blockers(row) = {} /\ Len(locks) < MaxLocks
       /\ locks' = Append(ReleaseRows(swept), row)

\* The transaction: the sweep of expired rows commits only with the insert, and
\* its error is ignored.
CommitReserve(c) ==
    /\ asks[c].step = "reserve"
    /\ \E owner \in Owners, scope \in LockScopes, pattern \in Patterns,
          exclusive \in BOOLEAN, ttl \in LockTTLs, swept \in {{}, LapsedRows(second)} :
          ReserveAnswered(Requested(owner, scope, pattern, exclusive, ttl, asks[c].at), swept)
    /\ asks' = [asks EXCEPT ![c] = NoAsk]
    /\ UNCHANGED second

---------------------------------------------------------------------------
(* Release, transfer *)

ReleaseLocks(ids) == locks' = ReleaseRows(ids) /\ UNCHANGED <<second, asks>>

ReleaseById == \E i \in DOMAIN locks : ReleaseLocks({i})

ReleaseByOwner ==
    \E owner \in Owners, scope \in LockScopes :
        ReleaseLocks({i \in DOMAIN locks :
                    locks[i].owner = owner /\ locks[i].scope = scope})

Held(owner, scope) ==
    {i \in DOMAIN locks :
        Active(locks[i]) /\ locks[i].owner = owner /\ locks[i].scope = scope}

\* The locks that keep two owners apart when one takes over the other's.
TransferConflict(from, to, scope) ==
    \E i \in Held(from, scope), j \in Held(to, scope) :
        /\ locks[i].exclusive /\ locks[j].exclusive
        /\ Overlap(locks[i].pattern, locks[j].pattern)

Transfer(from, to, scope, force) ==
    /\ force \/ ~TransferConflict(from, to, scope)
    /\ locks' = [i \in DOMAIN locks |->
                    IF i \in Held(from, scope)
                    THEN [locks[i] EXCEPT !.owner = to] ELSE locks[i]]
    /\ UNCHANGED <<second, asks>>

TransferLocks ==
    \E from, to \in Owners, scope \in LockScopes, force \in BOOLEAN :
        Transfer(from, to, scope, force)

---------------------------------------------------------------------------
(* Sweep *)

SweepSelect(c) ==
    /\ asks[c] = NoAsk
    /\ \E age \in 0..1 :
          /\ LapsedRows(second - age) # {}
          /\ asks' = [asks EXCEPT ![c] = Sweeping(LapsedRows(second - age))]
    /\ UNCHANGED <<locks, second>>

\* A release that forgets what became of the row since the selection.
SweepRelease_Again(c) ==
    /\ asks[c].step = "sweep"
    /\ \E i \in asks[c].left :
          LET rest == asks[c].left \ {i} IN
          /\ locks' = ReleaseRows_Again({i})
          /\ asks' = [asks EXCEPT ![c] = IF rest = {} THEN NoAsk ELSE Sweeping(rest)]
    /\ UNCHANGED second

\* A release that fails is passed over.
SweepRelease(c) ==
    /\ asks[c].step = "sweep"
    /\ \E i \in asks[c].left :
          LET rest == asks[c].left \ {i} IN
          /\ locks' = ReleaseRows({i}) \/ UNCHANGED locks
          /\ asks' = [asks EXCEPT ![c] = IF rest = {} THEN NoAsk ELSE Sweeping(rest)]
    /\ UNCHANGED second

---------------------------------------------------------------------------

\* A command is killed before its next statement.
CallerDies(c) ==
    /\ asks[c] # NoAsk
    /\ asks' = [asks EXCEPT ![c] = NoAsk]
    /\ UNCHANGED <<locks, second>>

SecondPasses ==
    second < LastSecond /\ second' = second + 1 /\ UNCHANGED <<locks, asks>>

CoordNext ==
    \/ \E c \in Claimants :
          BeginReserve(c) \/ CommitReserve(c) \/ CallerDies(c)
    \/ \E c \in Sweepers :
          SweepSelect(c) \/ SweepRelease(c) \/ CallerDies(c)
    \/ ReleaseById \/ ReleaseByOwner \/ TransferLocks \/ SecondPasses

CoordSpec == CoordInit /\ [][CoordNext]_coordVars

---------------------------------------------------------------------------
(* Properties *)

CoordTypeOK ==
    /\ locks \in Seq(LockRows)
    /\ second \in 1..LastSecond
    /\ \A c \in Claimants \cup Sweepers :
          \/ asks[c] = NoAsk
          \/ asks[c] \in {Asked(t) : t \in 1..second}
          \/ asks[c].step = "sweep" /\ asks[c].left \subseteq DOMAIN locks

\* Two owners never both hold a pattern when one of them holds it exclusively,
\* whatever was transferred, forced or not, and however long a reservation
\* waited for its transaction (Store.Reserve, Store.Transfer).
ExclusiveHolds ==
    \A i, j \in DOMAIN locks :
        /\ Active(locks[i]) /\ Active(locks[j])
        /\ locks[i].scope = locks[j].scope
        /\ locks[i].owner # locks[j].owner
        /\ Overlap(locks[i].pattern, locks[j].pattern)
        => ~locks[i].exclusive /\ ~locks[j].exclusive

\* A row is released once: a sweep that works from an old selection, or that a
\* reserve makes on its way, changes neither a row its owner released meanwhile
\* nor one still held, and nothing revives a row (Store.Sweep over Store.Release,
\* the inline sweep of Store.Reserve).
LockEndsOnce ==
    [][\A i \in DOMAIN locks :
          /\ i \in DOMAIN locks'
          /\ locks[i].released # 0 => locks'[i] = locks[i]
          /\ (asks' # asks /\ locks'[i] # locks[i]) => ~Unexpired(locks[i])
          /\ locks'[i].expires = locks[i].expires]_coordVars

\* An owner for whom check finds the pattern free is not refused by a reserve
\* at the same moment (Store.Check, Store.Reserve).
ClearMeansFree ==
    \A owner \in Owners, scope \in LockScopes, pattern \in Patterns, exclusive \in BOOLEAN :
        CheckRows(scope, pattern, owner) = {} =>
            Blockers([owner |-> owner, scope |-> scope, pattern |-> pattern,
                      exclusive |-> exclusive]) = {}
=============================================================================
