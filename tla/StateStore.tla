----------------------------- MODULE StateStore -----------------------------
(****************************************************************************)
(* The state table (internal/state/state.go; ic state, ic config and ic     *)
(* compat in cmd/ic): a value by key and scope, with an optional expiry. A  *)
(* set takes the time for its expiry before its insert waits for the write  *)
(* lock; every other operation is one statement.                            *)
(****************************************************************************)
EXTENDS Integers

CONSTANTS
    StateKeys,    \* pairs of key and scope
    StateValues,  \* payloads ValidatePayload accepts
    BadPayloads,  \* payloads it rejects: malformed, too large, too deep, a secret
    StateTTLs,    \* TTLs a caller may give, in half seconds; 0 for none
    Writers,      \* processes that run ic state set
    LastHalf      \* bound on the clock, in half seconds

ASSUME StateAssumption ==
    /\ StateTTLs \subseteq Nat /\ LastHalf \in Nat
    /\ StateValues \cap BadPayloads = {}

VARIABLES
    state,     \* the rows
    half,      \* the wall clock, in half seconds
    setting    \* the set each writer is about to insert

stateVars == <<state, half, setting>>

NoRow == [value |-> "absent", expires |-> 0]
NoSet == [key |-> "none", row |-> NoRow]

\* unixepoch() and time.Now().Unix() count whole seconds.
Epoch == half \div 2

StateInit ==
    /\ state = [k \in StateKeys |-> NoRow]
    /\ half = 2
    /\ setting = [w \in Writers |-> NoSet]

Present(k) == state[k] # NoRow
Unended(k) == state[k].expires = 0 \/ state[k].expires > Epoch

\* Get, and List over the scopes of a key.
Readable(k) == Present(k) /\ Unended(k)
Get(k) == IF Readable(k) THEN state[k].value ELSE "not found"

\* IsDurable looks at the expiry column alone.
IsDurable(k) == Present(k) /\ state[k].expires = 0

\* A TTL under a second is refused; a fraction of a second is cut off.
ValidTTL(ttl) == ttl = 0 \/ ttl >= 2
Row(v, ttl) == [value |-> v, expires |-> IF ttl = 0 THEN 0 ELSE Epoch + ttl \div 2]

BeginSet(w) ==
    /\ setting[w] = NoSet
    /\ \E k \in StateKeys, v \in StateValues \cup BadPayloads, ttl \in StateTTLs :
          /\ ValidTTL(ttl) /\ v \notin BadPayloads
          /\ setting' = [setting EXCEPT ![w] = [key |-> k, row |-> Row(v, ttl)]]
    /\ UNCHANGED <<state, half>>

\* INSERT OR REPLACE.
CommitSet(w) ==
    /\ setting[w] # NoSet
    /\ state' = [state EXCEPT ![setting[w].key] = setting[w].row]
    /\ setting' = [setting EXCEPT ![w] = NoSet]
    /\ UNCHANGED half

SetFails(w) ==
    /\ setting[w] # NoSet
    /\ setting' = [setting EXCEPT ![w] = NoSet]
    /\ UNCHANGED <<state, half>>

Delete(k) ==
    Present(k) /\ state' = [state EXCEPT ![k] = NoRow] /\ UNCHANGED <<half, setting>>

\* A prune that rounds the expiry the other way.
Ended_Early(k) == Present(k) /\ state[k].expires # 0 /\ state[k].expires <= Epoch + 1

\* expires_at <= unixepoch().
Ended(k) == Present(k) /\ state[k].expires # 0 /\ state[k].expires <= Epoch

PruneState ==
    /\ \E k \in StateKeys : Ended(k)
    /\ state' = [k \in StateKeys |-> IF Ended(k) THEN NoRow ELSE state[k]]
    /\ UNCHANGED <<half, setting>>

HalfPasses == half < LastHalf /\ half' = half + 1 /\ UNCHANGED <<state, setting>>

StateNext ==
    \/ \E w \in Writers : BeginSet(w) \/ CommitSet(w) \/ SetFails(w)
    \/ \E k \in StateKeys : Delete(k)
    \/ PruneState \/ HalfPasses

StateSpec == StateInit /\ [][StateNext]_stateVars

---------------------------------------------------------------------------
(* Properties *)

\* Pruning takes exactly what no reader could see: get, list and prune agree on
\* the second at which a row ends (Store.Get, Store.Prune).
PruneUnseen ==
    [][PruneState => \A k \in StateKeys : Get(k)' = Get(k)]_stateVars

\* A durable row goes only by a delete or another set, however the clock and the
\* prunes run: what reads it as a lasting mark may trust it (Store.IsDurable).
DurableStays ==
    [][\A k \in StateKeys :
          IsDurable(k) /\ state'[k] # state[k] =>
              Delete(k) \/ \E w \in Writers : setting[w].key = k /\ setting'[w] = NoSet]_stateVars
=============================================================================
