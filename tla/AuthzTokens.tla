---------------------------- MODULE AuthzTokens ----------------------------
(****************************************************************************)
(* Authorization tokens (pkg/authz/token.go): issued as roots, delegated    *)
(* down a chain, spent once and revoked, by library calls of several        *)
(* processes over two tables. Delegating and spending read the token        *)
(* before their transaction begins, so each is a read step and a write      *)
(* step.                                                                    *)
(****************************************************************************)
EXTENDS Integers, Sequences

CONSTANTS
    TokProcs,   \* processes calling the library
    TokAgents,  \* agents a token is made out to
    TokenScopes,     \* (op_type, target) pairs a token permits
    Ttls,       \* lifetimes asked for
    MaxTokens,  \* bound on the rows of authz_tokens
    MaxClock    \* bound on time

ASSUME TokAssumption == /\ MaxTokens \in Nat
                        /\ MaxClock \in Nat \ {0}
                        /\ Ttls \subseteq Nat \ {0}
                        /\ TokProcs # {} /\ TokAgents # {} /\ TokenScopes # {}

VARIABLES
    token,   \* rows of authz_tokens, a token's id being its position
    audit,   \* rows of authorizations written by consumption, in order
    call,    \* what each process is about to write: an idle one, or a record
    clock    \* unix seconds

tokVars == <<token, audit, call, clock>>

None == 0
Idle == [op |-> "idle"]
Ids == 1..Len(token)
Times == 0..MaxClock
Delegations == 3

TokInit == /\ token = <<>>
           /\ audit = <<>>
           /\ call = [p \in TokProcs |-> Idle]
           /\ clock = 1

---------------------------------------------------------------------------
(* Issue and delegate *)

\* issueToken: a root, in one INSERT.
Issue(p, a, s, ttl) ==
    /\ call[p] = Idle
    /\ Len(token) < MaxTokens
    /\ token' = Append(token, [agent |-> a, scope |-> s, exp |-> clock + ttl,
                               parent |-> None, root |-> None, depth |-> 0,
                               by |-> a, consumed |-> None, revoked |-> None])
    /\ UNCHANGED <<audit, call, clock>>

RootFor_Parent(i) == i

\* The denormalized root of a child: its parent's, or the parent itself.
RootFor(i) == IF token[i].root = None THEN i ELSE token[i].root

\* The child DelegateToken builds from the parent it read: scope copied, life
\* clamped to the parent's.
Child(i, to, now, ttl) ==
    [agent |-> to, scope |-> token[i].scope,
     exp |-> IF now + ttl > token[i].exp THEN token[i].exp ELSE now + ttl,
     parent |-> i, root |-> RootFor(i), depth |-> token[i].depth + 1,
     by |-> token[i].agent, consumed |-> None, revoked |-> None]

\* The reads before the transaction; a caller that is not the parent's agent,
\* or a chain that is full, is turned away without a write.
DelegateRead(p, i, to, ttl) ==
    /\ call[p] = Idle
    /\ token[i].depth + 1 <= Delegations
    /\ call' = [call EXCEPT ![p] = [op |-> "delegate", child |-> Child(i, to, clock, ttl)]]
    /\ UNCHANGED <<token, audit, clock>>

\* The transaction selects the parent's depth again, and nothing else of it.
DelegateInsert(p) ==
    /\ call[p].op = "delegate"
    /\ call' = [call EXCEPT ![p] = Idle]
    /\ LET c == call[p].child
       IN  IF Len(token) < MaxTokens /\ token[c.parent].depth + 1 <= Delegations
           THEN token' = Append(token, c)
           ELSE UNCHANGED token
    /\ UNCHANGED <<audit, clock>>

---------------------------------------------------------------------------
(* Consume *)

\* The checks before the transaction: signature, agent and expected scope. Time
\* is the caller's, read before the call.
ConsumeRead(p, i) ==
    /\ call[p] = Idle
    /\ call' = [call EXCEPT ![p] = [op |-> "consume", id |-> i, agent |-> token[i].agent, now |-> clock]]
    /\ UNCHANGED <<token, audit, clock>>

\* The predicate of the UPDATE.
Consumable(i, now) ==
    token[i].consumed = None /\ token[i].revoked = None /\ token[i].exp > now

\* The audit row that names the token spent.
AuditOf(c) == [token |-> c.id, agent |-> c.agent, at |-> c.now, root |-> token[c.id].root]

\* UPDATE and INSERT, committed together.
ConsumeCommit(p) ==
    /\ call[p].op = "consume"
    /\ Consumable(call[p].id, call[p].now)
    /\ token' = [token EXCEPT ![call[p].id].consumed = call[p].now]
    /\ audit' = Append(audit, AuditOf(call[p]))
    /\ call' = [call EXCEPT ![p] = Idle]
    /\ UNCHANGED clock

\* The audit insert fails after the UPDATE: the deferred Rollback undoes both.
ConsumeFault(p) ==
    /\ call[p].op = "consume"
    /\ Consumable(call[p].id, call[p].now)
    /\ call' = [call EXCEPT ![p] = Idle]
    /\ UNCHANGED <<token, audit, clock>>

\* No row matched: the caller is told why, and nothing is written.
ConsumeRefused(p) ==
    /\ call[p].op = "consume"
    /\ ~Consumable(call[p].id, call[p].now)
    /\ call' = [call EXCEPT ![p] = Idle]
    /\ UNCHANGED <<token, audit, clock>>

---------------------------------------------------------------------------
(* Revoke *)

\* Flags the rows that are not flagged yet, in one UPDATE.
Flagged(S) == [i \in Ids |-> IF i \in S /\ token[i].revoked = None
                             THEN [token[i] EXCEPT !.revoked = clock] ELSE token[i]]

Revoke(i) ==
    /\ token' = Flagged({i})
    /\ UNCHANGED <<audit, call, clock>>

\* Refused for a token that is not a root.
RevokeCascade(i) ==
    /\ token[i].parent = None /\ token[i].root = None
    /\ token' = Flagged({j \in Ids : j = i \/ token[j].root = i})
    /\ UNCHANGED <<audit, call, clock>>

Tick == /\ clock < MaxClock
        /\ clock' = clock + 1
        /\ UNCHANGED <<token, audit, call>>

TokNext ==
    \/ \E p \in TokProcs : \/ \E a \in TokAgents, s \in TokenScopes, ttl \in Ttls : Issue(p, a, s, ttl)
                           \/ \E i \in Ids, to \in TokAgents, ttl \in Ttls : DelegateRead(p, i, to, ttl)
                           \/ DelegateInsert(p)
                           \/ \E i \in Ids : ConsumeRead(p, i)
                           \/ ConsumeCommit(p)
                           \/ ConsumeFault(p)
                           \/ ConsumeRefused(p)
    \/ \E i \in Ids : Revoke(i) \/ RevokeCascade(i)
    \/ Tick

TokSpec == TokInit /\ [][TokNext]_tokVars

---------------------------------------------------------------------------
(* Properties *)

TokenRow == [agent : TokAgents, scope : TokenScopes, exp : Nat, parent : Nat, root : Nat, depth : 0..Delegations,
        by : TokAgents, consumed : Times, revoked : Times]

\* Every row a token has, every audit row and every call in progress is of its type.
TokTypeOK ==
    /\ token \in Seq(TokenRow)
    /\ audit \in Seq([token : Nat, agent : TokAgents, at : Times, root : Nat])
    /\ \A p \in TokProcs :
          \/ call[p] = Idle
          \/ /\ call[p].op = "delegate" /\ call[p].child \in TokenRow
             /\ call[p].child.parent \in Ids
          \/ /\ call[p].op = "consume" /\ call[p].id \in Ids
             /\ call[p].agent = token[call[p].id].agent /\ call[p].now \in 1..clock
    /\ clock \in Times

\* A token is marked spent exactly when one audit row says who spent it, when
\* and under which root; whatever races, expires or fails between the two
\* statements (consumeToken's single transaction).
SpentOnceAudited ==
    /\ \A i \in Ids : token[i].consumed # None
                        <=> \E k \in 1..Len(audit) : audit[k].token = i
    /\ \A j, k \in 1..Len(audit) : audit[j].token = audit[k].token => j = k
    /\ \A k \in 1..Len(audit) : LET t == token[audit[k].token]
                                IN  audit[k] = [token |-> audit[k].token, agent |-> t.agent,
                                                at |-> t.consumed, root |-> t.root]

\* A delegated token never outgrows the chain above it: same scope, no longer
\* life, one step deeper, made by the parent's agent (DelegateToken's enforced
\* invariants), although the parent was read before the insert.
LineageNarrows ==
    \A i \in Ids : token[i].parent # None =>
        LET up == token[token[i].parent]
        IN  /\ token[i].parent < i
            /\ token[i].scope = up.scope /\ token[i].exp <= up.exp
            /\ token[i].depth = up.depth + 1 /\ token[i].depth <= Delegations
            /\ token[i].by = up.agent

\* A token and the tokens it was delegated from, parent by parent.
Up(S) == S \cup {token[i].parent : i \in S \ {None}}
Ancestry(i) == Up(Up(Up({i})))

\* A cascade over the denormalized root reaches every token that descends from
\* the root by parents (RevokeToken's comment on the NULL pitfall).
CascadeComplete ==
    [][\A i \in Ids : RevokeCascade(i) =>
          \A j \in Ids : i \in Ancestry(j) => (token[j].revoked)' # None]_tokVars

\* The tokens account for themselves: spent once and audited, narrower down each
\* chain, and revoked with the whole of it (ConsumeToken, DelegateToken, RevokeToken).
TokensSound == [](TokTypeOK /\ SpentOnceAudited /\ LineageNarrows) /\ CascadeComplete
=============================================================================
