---------------------------- MODULE LedgerProofs ----------------------------
(****************************************************************************)
(* What the ledgers account for: merge intents over crashes, tokens spent,  *)
(* delegated and revoked by racing processes, the cursors of those who read *)
(* the event tables, the tables and columns of a database file over its     *)
(* migrations, the actions of runs over the commands that write them, and   *)
(* the chain of checksums of an audit log, which tells whether it was       *)
(* changed.                                                                 *)
(****************************************************************************)
EXTENDS MergeIntents, AuthzTokens, Records, Schema, Actions, AuditChain, FiniteSetTheorems,
    SequenceTheorems, WellFoundedInduction, TLAPS

---------------------------------------------------------------------------
(* Merge intents *)

IntentRow ==
    [base : Nat, status : {"pending", "completed", "failed"}, result : Nat,
     why : {"none", "conflict", "git", "recovered", "unchanged"}]

IntentsTyped ==
    /\ intents \in Seq(IntentRow) /\ Len(intents) <= MaxIntents
    /\ head \in Nat \ {0} /\ recovering \subseteq DOMAIN intents
    /\ merged \in [1..MaxIntents -> Nat]

\* HEAD has passed the base of an intent and, where git merged it, its merge, which
\* came after the base: an intent that finds HEAD where it was has not landed.
HeadBehind ==
    \A i \in 1..MaxIntents :
        /\ merged[i] <= head
        /\ i \in DOMAIN intents => intents[i].base <= head
        /\ i \in DOMAIN intents /\ merged[i] # 0 => intents[i].base < merged[i]
        /\ i \notin DOMAIN intents => merged[i] = 0

IntentsInv == IntentsTyped /\ HeadBehind /\ LandedNotLost

\* A settled intent is the intent it was, but for its outcome.
LEMMA SettledRow ==
    ASSUME IntentsTyped, NEW i \in DOMAIN intents, NEW result \in Nat,
           NEW status \in {"completed", "failed"},
           NEW why \in {"none", "conflict", "git", "recovered", "unchanged"},
           Settle(i, status, result, why)
    PROVE /\ intents' \in Seq(IntentRow) /\ DOMAIN intents' = DOMAIN intents
          /\ Len(intents') = Len(intents)
          /\ \A j \in DOMAIN intents : intents'[j].base = intents[j].base
          /\ \A j \in DOMAIN intents \ {i} : intents'[j] = intents[j]
          /\ intents'[i].status = status /\ intents'[i].result = result
          /\ intents'[i].why = why
<1> DEFINE row == [intents[i] EXCEPT !.status = status, !.result = result, !.why = why]
<1>1. intents[i] \in IntentRow /\ DOMAIN intents = 1..Len(intents) /\ Len(intents) \in Nat
  BY DEF IntentsTyped
<1>2. row \in IntentRow /\ row.base = intents[i].base /\ row.status = status
      /\ row.result = result /\ row.why = why
  BY <1>1 DEF IntentRow
<1>3. intents' = [intents EXCEPT ![i] = row]
  BY DEF Settle
<1> HIDE DEF row
<1> QED
  BY <1>1, <1>2, <1>3 DEF IntentsTyped

LEMMA IntentsInvInit == IntentsInit => IntentsInv
BY IntentAssumption DEF IntentsInit, IntentsInv, IntentsTyped, HeadBehind, LandedNotLost

LEMMA IntentsInvStep == IntentsInv /\ [IntentsNext]_intentVars => IntentsInv'
<1> SUFFICES ASSUME IntentsInv, [IntentsNext]_intentVars PROVE IntentsInv'
  OBVIOUS
<1> USE IntentAssumption DEF IntentsInv
<1> DOMAIN intents = 1..Len(intents) /\ Len(intents) \in Nat
  BY DEF IntentsTyped
<1>11. \A j \in DOMAIN intents : intents[j] \in IntentRow /\ j \in 1..MaxIntents
  BY DEF IntentsTyped
<1>12. \A j \in DOMAIN intents : intents[j].base \in Nat /\ merged[j] \in Nat
  BY <1>11 DEF IntentRow, IntentsTyped
<1>1. ASSUME RecordIntent PROVE IntentsInv'
  <2> DEFINE row == [base |-> head, status |-> "pending", result |-> 0, why |-> "none"]
  <2>1. row \in IntentRow
    BY DEF IntentRow, IntentsTyped
  <2>2. intents' = Append(intents, row) /\ Len(intents) < MaxIntents
        /\ UNCHANGED <<head, up, recovering, merged>>
    BY <1>1 DEF RecordIntent
  <2>3. /\ intents' \in Seq(IntentRow) /\ DOMAIN intents' = 1..(Len(intents) + 1)
        /\ Len(intents') = Len(intents) + 1
        /\ \A j \in DOMAIN intents : intents'[j] = intents[j]
        /\ intents'[Len(intents) + 1] = row
    BY <2>1, <2>2 DEF IntentsTyped
  <2>4. row.base = head /\ row.status = "pending"
    OBVIOUS
  <2> HIDE DEF row
  <2>5. IntentsTyped'
    BY <2>2, <2>3 DEF IntentsTyped
  <2>6. merged[Len(intents) + 1] = 0
    BY <2>2 DEF HeadBehind
  <2>7. HeadBehind'
    BY <2>2, <2>3, <2>4, <2>6 DEF HeadBehind, IntentsTyped
  <2>8. LandedNotLost'
    BY <2>2, <2>3, <2>6 DEF LandedNotLost
  <2> QED
    BY <2>5, <2>7, <2>8
<1>2. ASSUME NEW i \in DOMAIN intents, GitMerge(i) PROVE IntentsInv'
  <2>1. /\ head' = head + 1 /\ merged' = [merged EXCEPT ![i] = head + 1]
        /\ intents' = intents /\ recovering' = recovering /\ intents[i].status = "pending"
    BY <1>2 DEF GitMerge
  <2>2. IntentsTyped'
    BY <2>1 DEF IntentsTyped
  <2>3. \A j \in 1..MaxIntents : merged'[j] = IF j = i THEN head + 1 ELSE merged[j]
    BY <2>1 DEF IntentsTyped
  <2>4. head \in Nat /\ \A j \in 1..MaxIntents : merged[j] \in Nat
    BY DEF IntentsTyped
  <2>5. HeadBehind'
    <3> SUFFICES ASSUME NEW j \in 1..MaxIntents
                 PROVE /\ merged'[j] <= head + 1
                       /\ j \in DOMAIN intents =>
                             /\ intents[j].base <= head + 1
                             /\ merged'[j] # 0 => intents[j].base < merged'[j]
                       /\ j \notin DOMAIN intents => merged'[j] = 0
      BY <2>1 DEF HeadBehind
    <3>1. CASE j = i
      BY <2>3, <2>4, <3>1, <1>12 DEF HeadBehind
    <3>2. CASE j # i
      BY <2>3, <2>4, <3>2, <1>12 DEF HeadBehind
    <3> QED
      BY <3>1, <3>2
  <2>6. LandedNotLost'
    BY <2>1, <2>3, <1>11, <1>12 DEF LandedNotLost
  <2> QED
    BY <2>2, <2>5, <2>6
<1>3. CASE OthersCommit
  <2>1. head' = head + 1 /\ UNCHANGED <<intents, recovering, merged>>
    BY <1>3 DEF OthersCommit
  <2>2. \A j \in 1..MaxIntents : merged[j] \in Nat
    BY DEF IntentsTyped
  <2>3. IntentsTyped'
    BY <2>1 DEF IntentsTyped
  <2>4. head \in Nat
    BY DEF IntentsTyped
  <2>5. HeadBehind'
    BY <2>1, <2>2, <2>4, <1>12 DEF HeadBehind
  <2>6. LandedNotLost'
    BY <2>1 DEF LandedNotLost
  <2> QED
    BY <2>3, <2>5, <2>6
<1>4. ASSUME NEW i \in DOMAIN intents, NEW result \in Nat,
             NEW status \in {"completed", "failed"},
             NEW why \in {"none", "conflict", "git", "recovered", "unchanged"},
             Settle(i, status, result, why), recovering' \subseteq recovering,
             UNCHANGED <<head, merged>>,
             status = "failed" => why = "git" \/ merged[i] = 0,
             status = "completed" => result >= merged[i]
      PROVE IntentsInv'
  <2>1. IntentsTyped'
    BY <1>4, SettledRow DEF IntentsTyped
  <2>2. HeadBehind'
    BY <1>4, SettledRow DEF HeadBehind
  <2>3. LandedNotLost'
    BY <1>4, SettledRow DEF LandedNotLost
  <2> QED
    BY <2>1, <2>2, <2>3
<1>5. ASSUME NEW i \in DOMAIN intents, CompleteIntent(i) PROVE IntentsInv'
  <2>1. merged[i] \in Nat
    BY DEF IntentsTyped
  <2> QED
    BY <1>4, <1>5, <2>1 DEF CompleteIntent
<1>6. ASSUME NEW i \in DOMAIN intents, FailIntent(i) PROVE IntentsInv'
  BY <1>4, <1>6 DEF FailIntent
<1>7. CASE Crash
  BY <1>7 DEF Crash, IntentsTyped, HeadBehind, LandedNotLost
<1>8. CASE Restart
  BY <1>8 DEF Restart, ListPendingIntents, IntentsTyped, HeadBehind, LandedNotLost
<1>9. CASE RecoverPendingIntents
  <2>1. PICK i \in recovering :
           /\ \/ Settle(i, "failed", 0, "git")
              \/ Advanced(i) /\ Settle(i, "completed", head, "recovered")
              \/ ~Advanced(i) /\ Settle(i, "failed", 0, "unchanged")
           /\ recovering' = recovering \ {i}
    BY <1>9 DEF RecoverPendingIntents
  <2>2. i \in DOMAIN intents /\ head \in Nat /\ merged[i] \in Nat /\ merged[i] <= head
        /\ intents[i].base \in Nat
    BY <1>11, <1>12 DEF IntentsTyped, HeadBehind
  <2>3. UNCHANGED <<head, merged>>
    BY <1>9 DEF RecoverPendingIntents
  <2>4. ~Advanced(i) => merged[i] = 0
    BY <2>2 DEF Advanced, HeadBehind, IntentsTyped
  <2> QED
    BY <1>4, <2>1, <2>2, <2>3, <2>4
<1>10. CASE UNCHANGED intentVars
  BY <1>10 DEF intentVars, IntentsTyped, HeadBehind, LandedNotLost
<1> QED
  BY <1>1, <1>2, <1>3, <1>5, <1>6, <1>7, <1>8, <1>9, <1>10 DEF IntentsNext

\* A merge that landed is never written off while git answers: recovery after any
\* crash finds HEAD past the base of every intent whose merge it can have missed
\* (IntentStore.RecoverPendingIntents).
THEOREM MergesAccounted == IntentsSpec => []LandedNotLost
<1>1. IntentsInv => LandedNotLost
  BY DEF IntentsInv
<1> QED
  BY IntentsInvInit, IntentsInvStep, <1>1, PTL DEF IntentsSpec

---------------------------------------------------------------------------
(* Authorization tokens *)

\* A row is what its parent, as t has it, allows: nothing a delegation reads of its
\* parent is ever written again, so a read before the transaction stays good.
FitsIn(c, t) ==
    /\ c.parent \in 1..Len(t)
    /\ c.scope = t[c.parent].scope /\ c.exp <= t[c.parent].exp
    /\ c.depth = t[c.parent].depth + 1 /\ c.by = t[c.parent].agent
    /\ c.root = IF t[c.parent].root = None THEN c.parent ELSE t[c.parent].root

Lineage ==
    \A i \in Ids : IF token[i].parent = None THEN token[i].root = None
                   ELSE token[i].parent < i /\ FitsIn(token[i], token)

\* What a process is about to write, and what it writes it of.
CallFits(c, t, now) ==
    \/ c = Idle
    \/ /\ c.op = "delegate" /\ c.child \in TokenRow /\ c.child.consumed = None
       /\ FitsIn(c.child, t)
    \/ /\ c.op = "consume" /\ c.id \in 1..Len(t) /\ c.agent = t[c.id].agent
       /\ c.now \in 1..now

TokCalls ==
    /\ call = [p \in TokProcs |-> call[p]]
    /\ \A p \in TokProcs : CallFits(call[p], token, clock)

AuditKnown == \A k \in 1..Len(audit) : audit[k].token \in Ids

TokInv == TokTypeOK /\ clock # None /\ TokCalls /\ Lineage /\ SpentOnceAudited /\ AuditKnown

\* A step that leaves the tokens, and what each was issued with, as they are.
Unmoved ==
    /\ Len(token') = Len(token)
    /\ \A i \in Ids :
          /\ token'[i].agent = token[i].agent /\ token'[i].scope = token[i].scope
          /\ token'[i].exp = token[i].exp /\ token'[i].parent = token[i].parent
          /\ token'[i].root = token[i].root /\ token'[i].depth = token[i].depth
          /\ token'[i].by = token[i].by

Unspent == \A i \in Ids : token'[i].consumed = token[i].consumed

\* A step that adds one token.
Grown(row) ==
    /\ Len(token') = Len(token) + 1
    /\ \A i \in Ids : token'[i] = token[i]
    /\ token'[Len(token) + 1] = row

LEMMA TokRows ==
    ASSUME TokTypeOK
    PROVE /\ Len(token) \in Nat /\ Ids = DOMAIN token
          /\ \A i \in Ids : token[i] \in TokenRow
          /\ \A i \in Ids : token[i].exp \in Nat /\ token[i].parent \in Nat
                            /\ token[i].root \in Nat /\ token[i].depth \in 0..Delegations
                            /\ token[i].agent \in TokAgents /\ token[i].scope \in TokenScopes
<1>1. token \in Seq(TokenRow)
  BY DEF TokTypeOK
<1>2. Len(token) \in Nat /\ Ids = DOMAIN token /\ \A i \in Ids : token[i] \in TokenRow
  BY <1>1 DEF Ids
<1> QED
  BY <1>2 DEF TokenRow

LEMMA TokCallKinds ==
    ASSUME TokTypeOK, NEW p \in TokProcs
    PROVE /\ call[p].op = "delegate" => call[p].child \in TokenRow /\ call[p].child.parent \in Ids
          /\ call[p].op = "consume" =>
                /\ call[p].id \in Ids /\ call[p].agent = token[call[p].id].agent
                /\ call[p].now \in 1..clock
<1>1. Idle.op = "idle"
  BY DEF Idle
<1>2. \/ call[p] = Idle
      \/ /\ call[p].op = "delegate" /\ call[p].child \in TokenRow
         /\ call[p].child.parent \in Ids
      \/ /\ call[p].op = "consume" /\ call[p].id \in Ids
         /\ call[p].agent = token[call[p].id].agent /\ call[p].now \in 1..clock
  BY DEF TokTypeOK
<1> QED
  BY <1>1, <1>2

LEMMA RootAppended ==
    ASSUME TokInv, NEW a \in TokAgents, NEW s \in TokenScopes, NEW ttl \in Ttls,
           NEW p \in TokProcs, Issue(p, a, s, ttl)
    PROVE /\ token' \in Seq(TokenRow)
          /\ \E row \in TokenRow : Grown(row) /\ row.parent = None /\ row.root = None
                                   /\ row.consumed = None
          /\ UNCHANGED <<audit, call, clock>>
<1> DEFINE row == [agent |-> a, scope |-> s, exp |-> clock + ttl,
                   parent |-> None, root |-> None, depth |-> 0,
                   by |-> a, consumed |-> None, revoked |-> None]
<1>1. clock + ttl \in Nat
  BY TokAssumption DEF TokInv, TokTypeOK, Times
<1>2. row \in TokenRow
  BY <1>1, TokAssumption DEF TokenRow, Times, None, Delegations
<1>3. token' = Append(token, row) /\ UNCHANGED <<audit, call, clock>>
  BY DEF Issue
<1>4. row.parent = None /\ row.root = None /\ row.consumed = None
  OBVIOUS
<1> HIDE DEF row
<1>5. token' \in Seq(TokenRow) /\ Grown(row)
  BY <1>2, <1>3 DEF Grown, TokInv, TokTypeOK, Ids
<1> QED
  BY <1>2, <1>3, <1>4, <1>5

LEMMA ChildAppended ==
    ASSUME TokInv, NEW p \in TokProcs, DelegateInsert(p)
    PROVE /\ token' \in Seq(TokenRow)
          /\ token' = token \/ Grown(call[p].child)
          /\ call' = [call EXCEPT ![p] = Idle] /\ UNCHANGED <<audit, clock>>
<1>1. call[p].child \in TokenRow /\ token \in Seq(TokenRow)
  BY TokCallKinds DEF DelegateInsert, TokInv, TokTypeOK
<1>2. token' = token \/ token' = Append(token, call[p].child)
  BY DEF DelegateInsert
<1>3. CASE token' = token
  BY <1>1, <1>3 DEF DelegateInsert
<1>4. CASE token' = Append(token, call[p].child)
  BY <1>1, <1>4 DEF DelegateInsert, Grown, Ids
<1> QED
  BY <1>2, <1>3, <1>4

LEMMA TokenSpent ==
    ASSUME TokInv, NEW p \in TokProcs, ConsumeCommit(p)
    PROVE /\ token' \in Seq(TokenRow) /\ Unmoved
          /\ call[p].id \in Ids /\ call[p].now \in Times \ {None}
          /\ token[call[p].id].consumed = None
          /\ token'[call[p].id].consumed = call[p].now
          /\ \A i \in Ids \ {call[p].id} : token'[i] = token[i]
<1> DEFINE id == call[p].id
           now == call[p].now
           row == [token[id] EXCEPT !.consumed = now]
<1>1. id \in Ids /\ now \in 1..clock /\ clock \in Times
  BY TokCallKinds DEF ConsumeCommit, TokInv, TokTypeOK
<1>2. now \in Times \ {None}
  BY <1>1, TokAssumption DEF Times, None
<1>3. token[id] \in TokenRow
  BY <1>1, TokRows DEF TokInv
<1> HIDE DEF id, now
<1>4. /\ row \in TokenRow /\ row.consumed = now
      /\ row.agent = token[id].agent /\ row.scope = token[id].scope
      /\ row.exp = token[id].exp /\ row.parent = token[id].parent
      /\ row.root = token[id].root /\ row.depth = token[id].depth /\ row.by = token[id].by
  BY <1>2, <1>3 DEF TokenRow
<1>5. token' = [token EXCEPT ![id] = row] /\ token[id].consumed = None
  BY DEF ConsumeCommit, Consumable, id, now
<1> HIDE DEF row
<1>6. /\ token' \in Seq(TokenRow) /\ Len(token') = Len(token)
      /\ \A i \in Ids : token'[i] = IF i = id THEN row ELSE token[i]
  BY <1>1, <1>4, <1>5, TokRows DEF TokInv, TokTypeOK, Ids
<1>7. Unmoved
  BY <1>4, <1>6 DEF Unmoved
<1> QED
  BY <1>1, <1>2, <1>4, <1>5, <1>6, <1>7 DEF id, now

LEMMA FlaggedRows ==
    ASSUME TokInv, NEW S, token' = Flagged(S)
    PROVE /\ token' \in Seq(TokenRow) /\ Unmoved /\ Unspent
          /\ \A i \in Ids : i \in S => token'[i].revoked # None
<1>1. clock \in Times /\ clock # None /\ token \in Seq(TokenRow)
  BY DEF TokInv, TokTypeOK
<1>2. ASSUME NEW i \in Ids
      PROVE /\ Flagged(S)[i] \in TokenRow
            /\ Flagged(S)[i].consumed = token[i].consumed
            /\ Flagged(S)[i].agent = token[i].agent /\ Flagged(S)[i].scope = token[i].scope
            /\ Flagged(S)[i].exp = token[i].exp /\ Flagged(S)[i].parent = token[i].parent
            /\ Flagged(S)[i].root = token[i].root /\ Flagged(S)[i].depth = token[i].depth
            /\ Flagged(S)[i].by = token[i].by
            /\ i \in S => Flagged(S)[i].revoked # None
  <2> DEFINE row == [token[i] EXCEPT !.revoked = clock]
  <2>1. token[i] \in TokenRow
    BY TokRows DEF TokInv
  <2>2. /\ row \in TokenRow /\ row.revoked = clock /\ row.consumed = token[i].consumed
        /\ row.agent = token[i].agent /\ row.scope = token[i].scope
        /\ row.exp = token[i].exp /\ row.parent = token[i].parent
        /\ row.root = token[i].root /\ row.depth = token[i].depth /\ row.by = token[i].by
    BY <1>1, <2>1 DEF TokenRow
  <2>3. Flagged(S)[i] = IF i \in S /\ token[i].revoked = None THEN row ELSE token[i]
    BY DEF Flagged
  <2> HIDE DEF row
  <2> QED
    BY <1>1, <2>1, <2>2, <2>3
<1>3. Flagged(S) = [i \in 1..Len(token) |-> Flagged(S)[i]] /\ Len(token) \in Nat
  BY <1>1 DEF Flagged, Ids
<1>4. Flagged(S) \in Seq(TokenRow) /\ Len(Flagged(S)) = Len(token)
  BY <1>2, <1>3 DEF Ids
<1> QED
  BY <1>2, <1>4 DEF Unmoved, Unspent

\* What a call has read holds on, whatever others write.
LEMMA FitsOn ==
    ASSUME TokInv, Unmoved \/ \E row \in TokenRow : Grown(row), NEW c, FitsIn(c, token)
    PROVE FitsIn(c, token')
<1>1. Len(token) \in Nat
  BY TokRows DEF TokInv
<1>2. CASE Unmoved
  BY <1>1, <1>2 DEF Unmoved, FitsIn, Ids
<1>3. CASE \E row \in TokenRow : Grown(row)
  BY <1>1, <1>3 DEF Grown, FitsIn, Ids
<1> QED
  BY <1>2, <1>3

LEMMA CallsOn ==
    ASSUME TokInv, Unmoved \/ \E row \in TokenRow : Grown(row),
           clock' \in Times, clock' >= clock, NEW p \in TokProcs
    PROVE CallFits(call[p], token', clock')
<1>1. Len(token) \in Nat /\ clock \in Nat /\ clock' \in Nat
  BY TokRows, TokAssumption DEF TokInv, TokTypeOK, Times
<1>2. CallFits(call[p], token, clock)
  BY DEF TokInv, TokCalls
<1>3. CASE call[p] = Idle
  BY <1>3 DEF CallFits
<1>4. CASE /\ call[p].op = "delegate" /\ call[p].child \in TokenRow
           /\ call[p].child.consumed = None /\ FitsIn(call[p].child, token)
  BY <1>4, FitsOn DEF CallFits
<1>5. CASE /\ call[p].op = "consume" /\ call[p].id \in 1..Len(token)
           /\ call[p].agent = token[call[p].id].agent /\ call[p].now \in 1..clock
  <2>1. call[p].id \in 1..Len(token') /\ token'[call[p].id].agent = token[call[p].id].agent
    BY <1>1, <1>5 DEF Unmoved, Grown, Ids
  <2>2. call[p].now \in 1..clock'
    BY <1>1, <1>5
  <2> QED
    BY <1>5, <2>1, <2>2 DEF CallFits
<1> QED
  BY <1>2, <1>3, <1>4, <1>5 DEF CallFits

LEMMA LineageOn ==
    ASSUME TokInv,
           \/ Unmoved
           \/ \E row \in TokenRow : /\ Grown(row)
                                    /\ \/ row.parent = None /\ row.root = None
                                       \/ row.parent # None /\ FitsIn(row, token)
    PROVE Lineage'
<1>1. Len(token) \in Nat /\ \A i \in Ids : token[i].parent \in Nat
  BY TokRows DEF TokInv
<1>2. CASE Unmoved
  <2> SUFFICES ASSUME NEW i \in Ids
               PROVE IF token'[i].parent = None THEN token'[i].root = None
                     ELSE token'[i].parent < i /\ FitsIn(token'[i], token')
    BY <1>2 DEF Lineage, Unmoved, Ids
  <2>1. CASE token[i].parent = None
    BY <1>2, <2>1 DEF Lineage, Unmoved, TokInv
  <2>2. CASE token[i].parent # None
    <3>1. token[i].parent < i /\ FitsIn(token[i], token)
      BY <2>2 DEF Lineage, TokInv
    <3>2. FitsIn(token[i], token')
      BY <1>2, <3>1, FitsOn
    <3> QED
      BY <1>2, <2>2, <3>1, <3>2 DEF Unmoved, FitsIn
  <2> QED
    BY <2>1, <2>2
<1>3. ASSUME NEW row \in TokenRow, Grown(row),
             \/ row.parent = None /\ row.root = None
             \/ row.parent # None /\ FitsIn(row, token)
      PROVE Lineage'
  <2>1. \A i \in Ids : IF token'[i].parent = None THEN token'[i].root = None
                       ELSE token'[i].parent < i /\ FitsIn(token'[i], token')
    <3> SUFFICES ASSUME NEW i \in Ids, token[i].parent # None
                 PROVE token[i].parent < i /\ FitsIn(token[i], token')
      BY <1>3 DEF Grown, Lineage, TokInv
    <3>1. token[i].parent < i /\ FitsIn(token[i], token)
      BY DEF Lineage, TokInv
    <3> QED
      BY <1>3, <3>1, FitsOn
  <2>2. \/ row.parent = None /\ row.root = None
        \/ row.parent # None /\ row.parent < Len(token) + 1 /\ FitsIn(row, token')
    BY <1>1, <1>3, FitsOn DEF FitsIn
  <2>3. Ids' = Ids \cup {Len(token) + 1} /\ token'[Len(token) + 1] = row
    BY <1>1, <1>3 DEF Grown, Ids
  <2> QED
    BY <2>1, <2>2, <2>3 DEF Lineage
<1> QED
  BY <1>2, <1>3

LEMMA AuditOn ==
    ASSUME TokInv, audit' = audit,
           \/ Unmoved /\ Unspent
           \/ \E row \in TokenRow : Grown(row) /\ row.consumed = None
    PROVE (SpentOnceAudited /\ AuditKnown)'
<1>1. Len(token) \in Nat /\ Len(audit) \in Nat
  BY TokRows DEF TokInv, TokTypeOK
<1>2. \A i \in Ids : i \in Ids' /\ token'[i].consumed = token[i].consumed
                     /\ token'[i].agent = token[i].agent /\ token'[i].root = token[i].root
  BY <1>1 DEF Unmoved, Unspent, Grown, Ids
<1>3. \A i \in Ids' \ Ids : token'[i].consumed = None
  BY <1>1 DEF Unmoved, Grown, Ids
<1>4. SpentOnceAudited /\ AuditKnown
  BY DEF TokInv
<1>5. AuditKnown'
  BY <1>2, <1>4 DEF AuditKnown
<1>6. \A i \in Ids' : token'[i].consumed # None <=> \E k \in 1..Len(audit') : audit'[k].token = i
  BY <1>2, <1>3, <1>4 DEF SpentOnceAudited, AuditKnown
<1>7. \A k \in 1..Len(audit') :
         LET t == token'[audit'[k].token]
         IN  audit'[k] = [token |-> audit'[k].token, agent |-> t.agent,
                          at |-> t.consumed, root |-> t.root]
  BY <1>2, <1>4 DEF SpentOnceAudited, AuditKnown
<1> QED
  BY <1>4, <1>5, <1>6, <1>7 DEF SpentOnceAudited

LEMMA AuditSpent ==
    ASSUME TokInv, NEW p \in TokProcs, ConsumeCommit(p)
    PROVE /\ audit' \in Seq([token : Nat, agent : TokAgents, at : Times, root : Nat])
          /\ (SpentOnceAudited /\ AuditKnown)'
<1> DEFINE id == call[p].id
           row == AuditOf(call[p])
           n == Len(audit) + 1
<1>1. Len(token) \in Nat /\ Len(audit) \in Nat
      /\ audit \in Seq([token : Nat, agent : TokAgents, at : Times, root : Nat])
  BY TokRows DEF TokInv, TokTypeOK
<1>2. /\ Unmoved /\ id \in Ids /\ call[p].now \in Times \ {None}
      /\ token[id].consumed = None /\ token'[id].consumed = call[p].now
      /\ \A i \in Ids \ {id} : token'[i] = token[i]
  BY TokenSpent
<1>3. row = [token |-> id, agent |-> token[id].agent, at |-> call[p].now, root |-> token[id].root]
  BY TokCallKinds DEF AuditOf, ConsumeCommit, TokInv
<1>4. row = [token |-> id, agent |-> token'[id].agent, at |-> token'[id].consumed,
             root |-> token'[id].root] /\ row.token = id
  BY <1>2, <1>3 DEF Unmoved
<1>5. row \in [token : Nat, agent : TokAgents, at : Times, root : Nat]
  BY <1>1, <1>2, <1>3, TokRows DEF TokInv, Ids
<1>6. audit' = Append(audit, row)
  BY DEF ConsumeCommit
<1> HIDE DEF id, row
<1>7. /\ audit' \in Seq([token : Nat, agent : TokAgents, at : Times, root : Nat])
      /\ Len(audit') = n /\ audit'[n] = row /\ \A k \in 1..Len(audit) : audit'[k] = audit[k]
  BY <1>1, <1>5, <1>6
<1>8. SpentOnceAudited /\ AuditKnown /\ Ids' = Ids
  BY <1>2 DEF TokInv, Unmoved, Ids
<1>9. 1..n = (1..Len(audit)) \cup {n} /\ n \notin 1..Len(audit)
  BY <1>1
<1> HIDE DEF n
<1>10. \A k \in 1..Len(audit) : audit[k].token # id
  BY <1>2, <1>8 DEF SpentOnceAudited
<1>11. AuditKnown'
  BY <1>2, <1>4, <1>7, <1>8, <1>9 DEF AuditKnown
<1>12. \A i \in Ids : token'[i].consumed # None <=> \E k \in 1..n : audit'[k].token = i
  <2>1. ASSUME NEW i \in Ids, i = id
        PROVE token'[i].consumed # None /\ \E k \in 1..n : audit'[k].token = i
    BY <1>2, <1>4, <1>7, <1>9, <2>1
  <2>2. ASSUME NEW i \in Ids, i # id
        PROVE token'[i].consumed # None <=> \E k \in 1..n : audit'[k].token = i
    <3>1. token'[i] = token[i]
      BY <1>2, <2>2
    <3>2. (\E k \in 1..n : audit'[k].token = i) <=> \E k \in 1..Len(audit) : audit[k].token = i
      BY <1>4, <1>7, <1>9, <2>2
    <3>3. token[i].consumed # None <=> \E k \in 1..Len(audit) : audit[k].token = i
      BY <1>8 DEF SpentOnceAudited
    <3> QED
      BY <3>1, <3>2, <3>3
  <2> QED
    BY <2>1, <2>2
<1>13. \A j, k \in 1..n : audit'[j].token = audit'[k].token => j = k
  <2>1. \A j \in 1..n : audit'[j].token = IF j = n THEN id ELSE audit[j].token
    BY <1>4, <1>7, <1>9
  <2>2. \A j, k \in 1..Len(audit) : audit[j].token = audit[k].token => j = k
    BY <1>8 DEF SpentOnceAudited
  <2> QED
    BY <1>9, <1>10, <2>1, <2>2
<1>14. \A k \in 1..n :
         LET t == token'[audit'[k].token]
         IN  audit'[k] = [token |-> audit'[k].token, agent |-> t.agent,
                          at |-> t.consumed, root |-> t.root]
  <2>1. ASSUME NEW k \in 1..Len(audit)
        PROVE LET t == token'[audit'[k].token]
              IN  audit'[k] = [token |-> audit'[k].token, agent |-> t.agent,
                               at |-> t.consumed, root |-> t.root]
    <3>1. audit[k].token \in Ids \ {id}
      BY <1>8, <1>10 DEF AuditKnown
    <3>2. token'[audit[k].token] = token[audit[k].token]
      BY <1>2, <3>1
    <3> QED
      BY <1>7, <1>8, <3>2 DEF SpentOnceAudited
  <2> QED
    BY <1>4, <1>7, <1>9, <2>1
<1> QED
  BY <1>7, <1>8, <1>11, <1>12, <1>13, <1>14 DEF SpentOnceAudited

\* What a step has to show for the invariant.
LEMMA TokInvOn ==
    ASSUME TokInv, token' \in Seq(TokenRow), clock' \in Times, clock' >= clock,
           call' = [p \in TokProcs |-> call'[p]],
           \A p \in TokProcs : call'[p] = call[p] \/ CallFits(call'[p], token', clock'),
           \/ Unmoved /\ Unspent /\ audit' = audit
           \/ /\ audit' = audit
              /\ \E row \in TokenRow : /\ Grown(row) /\ row.consumed = None
                                       /\ \/ row.parent = None /\ row.root = None
                                          \/ row.parent # None /\ FitsIn(row, token)
           \/ \E p \in TokProcs : ConsumeCommit(p)
    PROVE TokInv'
<1>1. Unmoved \/ \E row \in TokenRow : Grown(row)
  BY TokenSpent
<1>2. clock' # None
  BY TokAssumption DEF TokInv, TokTypeOK, Times, None
<1>3. \A p \in TokProcs : CallFits(call'[p], token', clock')
  BY <1>1, CallsOn
<1>4. TokCalls'
  BY <1>3 DEF TokCalls
<1>5. Lineage'
  BY LineageOn, TokenSpent
<1>6. /\ audit' \in Seq([token : Nat, agent : TokAgents, at : Times, root : Nat])
      /\ (SpentOnceAudited /\ AuditKnown)'
  BY AuditOn, AuditSpent DEF TokInv, TokTypeOK
<1>7. TokTypeOK'
  BY <1>3, <1>6 DEF TokTypeOK, CallFits, FitsIn, Ids
<1> QED
  BY <1>2, <1>4, <1>5, <1>6, <1>7 DEF TokInv

LEMMA TokInvInit == TokInit => TokInv
BY TokAssumption
DEF TokInit, TokInv, TokTypeOK, TokCalls, CallFits, Lineage, SpentOnceAudited, AuditKnown, Ids,
    Times, None

LEMMA TokInvStep == TokInv /\ [TokNext]_tokVars => TokInv'
<1> SUFFICES ASSUME TokInv, [TokNext]_tokVars PROVE TokInv'
  OBVIOUS
<1>1. /\ token \in Seq(TokenRow) /\ clock \in Times /\ clock \in 1..clock
      /\ call = [p \in TokProcs |-> call[p]]
      /\ \A p \in TokProcs : CallFits(call[p], token, clock)
  BY TokAssumption DEF TokInv, TokTypeOK, TokCalls, Times, None
<1>2. \A c, t, now : c = Idle => CallFits(c, t, now)
  BY DEF CallFits
<1>3. ASSUME NEW p \in TokProcs, NEW c, call' = [call EXCEPT ![p] = c]
      PROVE call' = [q \in TokProcs |-> call'[q]] /\ call'[p] = c
            /\ \A q \in TokProcs \ {p} : call'[q] = call[q]
  BY <1>1, <1>3
<1>4. token' = token => token' \in Seq(TokenRow) /\ Unmoved /\ Unspent
  BY <1>1 DEF Unmoved, Unspent
<1>5. ASSUME NEW p \in TokProcs, NEW a \in TokAgents, NEW s \in TokenScopes, NEW ttl \in Ttls,
             Issue(p, a, s, ttl)
      PROVE TokInv'
  BY <1>1, <1>5, RootAppended, TokInvOn, TokAssumption DEF Times
<1>6. ASSUME NEW p \in TokProcs, NEW i \in Ids, NEW to \in TokAgents, NEW ttl \in Ttls,
             DelegateRead(p, i, to, ttl)
      PROVE TokInv'
  <2> DEFINE c == Child(i, to, clock, ttl)
             w == [op |-> "delegate", child |-> c]
  <2>1. /\ token[i] \in TokenRow /\ token[i].exp \in Nat /\ token[i].parent \in Nat
        /\ token[i].root \in Nat /\ token[i].depth \in 0..Delegations
        /\ token[i].agent \in TokAgents /\ token[i].scope \in TokenScopes /\ Len(token) \in Nat
    BY TokRows DEF TokInv
  <2>2. clock + ttl \in Nat
    BY <1>1, TokAssumption DEF Times
  <2>3. token[i].depth + 1 \in 0..Delegations
    BY <1>6, <2>1 DEF DelegateRead, Delegations
  <2>4. RootFor(i) \in Nat /\ i \in Nat /\ i \in 1..Len(token)
    BY <2>1 DEF RootFor, Ids
  <2>5. c \in TokenRow /\ c.consumed = None
    BY <2>1, <2>2, <2>3, <2>4, TokAssumption DEF Child, TokenRow, Times, None
  <2>6. FitsIn(c, token)
    BY <2>1, <2>2, <2>4 DEF Child, FitsIn, RootFor
  <2>7. call' = [call EXCEPT ![p] = w] /\ UNCHANGED <<token, audit, clock>>
    BY <1>6 DEF DelegateRead
  <2>8. w.op = "delegate" /\ w.child = c
    OBVIOUS
  <2> HIDE DEF c, w
  <2>9. CallFits(w, token, clock)
    BY <2>5, <2>6, <2>8 DEF CallFits
  <2> QED
    BY <1>1, <1>3, <1>4, <2>7, <2>9, TokInvOn, TokAssumption DEF Times
<1>7. ASSUME NEW p \in TokProcs, DelegateInsert(p) PROVE TokInv'
  <2>1. /\ call[p].op = "delegate" /\ call[p].child \in TokenRow
        /\ call[p].child.consumed = None /\ FitsIn(call[p].child, token)
    BY <1>1, <1>7 DEF DelegateInsert, CallFits, Idle
  <2>2. call[p].child.parent # None
    BY <2>1 DEF FitsIn, None
  <2> QED
    BY <1>1, <1>2, <1>3, <1>4, <1>7, <2>1, <2>2, ChildAppended, TokInvOn, TokAssumption DEF Times
<1>8. ASSUME NEW p \in TokProcs, NEW i \in Ids, ConsumeRead(p, i) PROVE TokInv'
  <2> DEFINE w == [op |-> "consume", id |-> i, agent |-> token[i].agent, now |-> clock]
  <2>1. CallFits(w, token, clock)
    BY <1>1 DEF CallFits, Ids
  <2>2. call' = [call EXCEPT ![p] = w] /\ UNCHANGED <<token, audit, clock>>
    BY <1>8 DEF ConsumeRead
  <2> HIDE DEF w
  <2> QED
    BY <1>1, <1>3, <1>4, <2>1, <2>2, TokInvOn, TokAssumption DEF Times
<1>9. ASSUME NEW p \in TokProcs, ConsumeCommit(p) PROVE TokInv'
  <2>1. call' = [call EXCEPT ![p] = Idle] /\ clock' = clock
    BY <1>9 DEF ConsumeCommit
  <2>2. token' \in Seq(TokenRow)
    BY <1>9, TokenSpent
  <2> QED
    BY <1>1, <1>2, <1>3, <1>9, <2>1, <2>2, TokInvOn, TokAssumption DEF Times
<1>10. ASSUME NEW p \in TokProcs, ConsumeFault(p) \/ ConsumeRefused(p) PROVE TokInv'
  <2>1. call' = [call EXCEPT ![p] = Idle] /\ UNCHANGED <<token, audit, clock>>
    BY <1>10 DEF ConsumeFault, ConsumeRefused
  <2> QED
    BY <1>1, <1>2, <1>3, <1>4, <2>1, TokInvOn, TokAssumption DEF Times
<1>11. ASSUME NEW i \in Ids, Revoke(i) \/ RevokeCascade(i) PROVE TokInv'
  <2>1. \E S : token' = Flagged(S)
    BY <1>11 DEF Revoke, RevokeCascade
  <2>2. UNCHANGED <<audit, call, clock>>
    BY <1>11 DEF Revoke, RevokeCascade
  <2> QED
    BY <1>1, <2>1, <2>2, FlaggedRows, TokInvOn, TokAssumption DEF Times
<1>12. CASE Tick
  <2>1. clock' \in Times /\ clock' >= clock /\ UNCHANGED <<token, audit, call>>
    BY <1>1, <1>12, TokAssumption DEF Tick, Times
  <2> QED
    BY <1>1, <1>4, <2>1, TokInvOn
<1>13. CASE UNCHANGED tokVars
  BY <1>1, <1>4, <1>13, TokInvOn, TokAssumption DEF tokVars, Times
<1> QED
  BY <1>5, <1>6, <1>7, <1>8, <1>9, <1>10, <1>11, <1>12, <1>13 DEF TokNext

\* One step up the parents stays under the same root.
LEMMA UpKeepsRoot ==
    ASSUME TokInv, NEW r, NEW S, \A x \in S : x = None \/ (x \in Ids /\ RootFor(x) = r)
    PROVE \A x \in Up(S) : x = None \/ (x \in Ids /\ RootFor(x) = r)
<1>1. ASSUME NEW y \in S \ {None}, token[y].parent # None
      PROVE token[y].parent \in Ids /\ RootFor(token[y].parent) = r
  <2>1. y \in Ids /\ RootFor(y) = r
    BY <1>1
  <2>2. FitsIn(token[y], token)
    BY <1>1, <2>1 DEF TokInv, Lineage
  <2>3. token[y].parent \in Ids /\ token[y].root = RootFor(token[y].parent)
    BY <2>2 DEF FitsIn, RootFor, Ids
  <2>4. token[y].root # None
    BY <2>3 DEF RootFor, Ids, None
  <2> QED
    BY <2>1, <2>3, <2>4 DEF RootFor
<1> QED
  BY <1>1 DEF Up

LEMMA AncestorsShareRoot ==
    ASSUME TokInv, NEW j \in Ids
    PROVE \A x \in Ancestry(j) : x = None \/ (x \in Ids /\ RootFor(x) = RootFor(j))
<1>1. \A x \in {j} : x = None \/ (x \in Ids /\ RootFor(x) = RootFor(j))
  OBVIOUS
<1> QED
  BY <1>1, UpKeepsRoot DEF Ancestry

LEMMA CascadeStep ==
    ASSUME TokInv, NEW i \in Ids, RevokeCascade(i), NEW j \in Ids, i \in Ancestry(j)
    PROVE (token[j].revoked)' # None
<1>1. i # None
  BY TokRows DEF TokInv, Ids, None
<1>2. RootFor(i) = RootFor(j) /\ RootFor(i) = i
  BY <1>1, AncestorsShareRoot DEF RevokeCascade, RootFor
<1>3. j = i \/ token[j].root = i
  BY <1>2 DEF RootFor
<1>4. token' = Flagged({k \in Ids : k = i \/ token[k].root = i})
  BY DEF RevokeCascade
<1> QED
  BY <1>3, <1>4, FlaggedRows

\* Over any race of issues, delegations, consumptions and revocations: a token is
\* spent at most once and with the audit row that says so, each is narrower than the
\* one it was delegated from, and a cascade revokes all of a chain (pkg/authz/token.go).
THEOREM TokensAccounted == TokSpec => TokensSound
<1>1. TokInv => TokTypeOK /\ SpentOnceAudited /\ LineageNarrows
  <2> SUFFICES ASSUME TokInv PROVE LineageNarrows
    BY DEF TokInv
  <2>1. \A i \in Ids : token[i].depth <= Delegations
    BY TokRows DEF TokInv, Delegations
  <2> QED
    BY <2>1 DEF LineageNarrows, TokInv, Lineage, FitsIn
<1>2. TokInv /\ [TokNext]_tokVars
        => [\A i \in Ids : RevokeCascade(i) =>
              \A j \in Ids : i \in Ancestry(j) => (token[j].revoked)' # None]_tokVars
  BY CascadeStep
<1> QED
  BY TokInvInit, TokInvStep, <1>1, <1>2, PTL DEF TokSpec, TokensSound, CascadeComplete

---------------------------------------------------------------------------
(* The portfolio relay *)

Copy == [project : RelayProjects, id : Nat]
RelayRow ==
    [at : {"off", "idle", "poll"}, cursors : [RelayProjects -> Nat], todo : SUBSET RelayProjects]

RelayTyped ==
    /\ projectLog \in [RelayProjects -> Nat] /\ stored \in [RelayProjects -> Nat]
    /\ copies \in Seq(Copy)
    /\ relay \in [Relays -> RelayRow]

\* No cursor is past the end of its project's log.
CursorsBehind ==
    \A p \in RelayProjects :
        /\ stored[p] <= projectLog[p]
        /\ \A r \in Relays : relay[r].cursors[p] <= projectLog[p]

RelayInv == RelayTyped /\ CursorsBehind /\ NothingSkipped

\* A batch is what follows the cursor, without a gap.
LEMMA BatchFollows ==
    ASSUME RelayTyped, CursorsBehind, NEW r \in Relays, NEW p \in RelayProjects
    PROVE /\ Batch(r, p) \in Seq(Copy) /\ CursorAfter(r, p) \in Nat
          /\ CursorAfter(r, p) <= projectLog[p]
          /\ \A n \in relay[r].cursors[p] + 1 .. CursorAfter(r, p) :
                \E i \in 1..Len(Batch(r, p)) : Batch(r, p)[i] = [project |-> p, id |-> n]
<1> DEFINE from == relay[r].cursors[p]
           upto == IF from + BatchSize < projectLog[p] THEN from + BatchSize ELSE projectLog[p]
<1>1. from \in Nat /\ projectLog[p] \in Nat /\ from <= projectLog[p] /\ BatchSize \in Nat
  BY RelayAssumption DEF RelayTyped, RelayRow, CursorsBehind
<1>2. upto \in Nat /\ from <= upto /\ upto <= projectLog[p]
  BY <1>1
<1>3. Batch(r, p) = [i \in 1..(upto - from) |-> [project |-> p, id |-> from + i]]
  BY DEF Batch
<1> HIDE DEF from, upto
<1>4. upto - from \in Nat /\ \A i \in 1..(upto - from) : [project |-> p, id |-> from + i] \in Copy
  BY <1>1, <1>2 DEF Copy
<1>5. Batch(r, p) \in Seq(Copy) /\ Len(Batch(r, p)) = upto - from
  BY <1>3, <1>4
<1>6. CursorAfter(r, p) = upto
  BY <1>1, <1>2, <1>5 DEF CursorAfter, from
<1>7. ASSUME NEW n \in from + 1 .. upto
      PROVE \E i \in 1..Len(Batch(r, p)) : Batch(r, p)[i] = [project |-> p, id |-> n]
  <2>1. n - from \in 1..(upto - from) /\ from + (n - from) = n
    BY <1>1, <1>2
  <2>2. Batch(r, p)[n - from] = [project |-> p, id |-> n]
    BY <1>3, <2>1
  <2> QED
    BY <1>5, <2>1, <2>2
<1> QED
  BY <1>2, <1>5, <1>6, <1>7 DEF from

LEMMA CopiesGrow ==
    ASSUME RelayTyped, NEW b \in Seq(Copy), copies' = copies \o b
    PROVE /\ copies' \in Seq(Copy)
          /\ \A q \in RelayProjects : Copied(q) \subseteq Copied(q)'
          /\ \A q \in RelayProjects, n \in Nat, i \in 1..Len(b) :
                b[i] = [project |-> q, id |-> n] => n \in Copied(q)'
<1>1. /\ Len(copies) \in Nat /\ Len(b) \in Nat /\ copies \in Seq(Copy)
      /\ DOMAIN copies = 1..Len(copies)
  BY DEF RelayTyped
<1>2. /\ copies' \in Seq(Copy) /\ DOMAIN copies' = 1..(Len(copies) + Len(b))
      /\ \A i \in 1..Len(copies) : copies'[i] = copies[i]
      /\ \A i \in 1..Len(b) : copies'[Len(copies) + i] = b[i]
  BY <1>1
<1>3. \A q \in RelayProjects : Copied(q) \subseteq Copied(q)'
  BY <1>1, <1>2 DEF Copied
<1>4. ASSUME NEW q \in RelayProjects, NEW n \in Nat, NEW i \in 1..Len(b),
             b[i] = [project |-> q, id |-> n]
      PROVE n \in Copied(q)'
  <2>1. Len(copies) + i \in DOMAIN copies' /\ copies'[Len(copies) + i] = b[i]
    BY <1>1, <1>2
  <2>2. b[i].project = q /\ b[i].id = n
    BY <1>4
  <2> QED
    BY <2>1, <2>2 DEF Copied
<1> QED
  BY <1>2, <1>3, <1>4

LEMMA PolledRow ==
    ASSUME RelayTyped, NEW r \in Relays, NEW p \in RelayProjects, NEW c \in Nat, Polled(r, p, c)
    PROVE /\ relay' \in [Relays -> RelayRow]
          /\ \A q \in Relays \ {r} : relay'[q] = relay[q]
          /\ \A x \in RelayProjects :
                relay'[r].cursors[x] = IF x = p THEN c ELSE relay[r].cursors[x]
<1> DEFINE row == [relay[r] EXCEPT !.todo = @ \ {p}, !.cursors[p] = c]
<1>1. relay[r] \in RelayRow
  BY DEF RelayTyped
<1>2. row \in RelayRow /\ row.cursors = [relay[r].cursors EXCEPT ![p] = c]
  BY <1>1 DEF RelayRow
<1>3. relay' = [relay EXCEPT ![r] = row]
  BY DEF Polled
<1>4. \A x \in RelayProjects : row.cursors[x] = IF x = p THEN c ELSE relay[r].cursors[x]
  BY <1>1, <1>2 DEF RelayRow
<1> HIDE DEF row
<1> QED
  BY <1>2, <1>3, <1>4 DEF RelayTyped

LEMMA RelayInvInit == RelayInit => RelayInv
BY DEF RelayInit, RelayInv, RelayTyped, RelayRow, RelayOff, CursorsBehind, NothingSkipped

\* A relay that starts, stops or finishes a poll has its cursors from the state
\* table, from nowhere, or keeps them.
LEMMA RelayMoved ==
    ASSUME RelayInv, UNCHANGED <<projectLog, copies, stored>>,
           NEW r \in Relays, NEW row \in RelayRow, relay' = [relay EXCEPT ![r] = row],
           \A p \in RelayProjects : row.cursors[p] \in {0, stored[p], relay[r].cursors[p]}
    PROVE RelayInv'
<1>1. /\ relay' \in [Relays -> RelayRow]
      /\ \A q \in Relays : relay'[q] = IF q = r THEN row ELSE relay[q]
  BY DEF RelayInv, RelayTyped
<1>2. \A p \in RelayProjects : projectLog[p] \in Nat /\ stored[p] \in Nat
  BY DEF RelayInv, RelayTyped
<1>3. RelayTyped'
  BY <1>1 DEF RelayInv, RelayTyped
<1>4. CursorsBehind'
  <2>1. \A p \in RelayProjects : row.cursors[p] <= projectLog[p]
    BY <1>2 DEF RelayInv, CursorsBehind
  <2> QED
    BY <1>1, <2>1 DEF RelayInv, CursorsBehind
<1>5. NothingSkipped'
  <2>1. \A p \in RelayProjects : Copied(p)' = Copied(p)
    BY DEF Copied
  <2>2. \A p \in RelayProjects : 1..row.cursors[p] \subseteq Copied(p)
    BY DEF RelayInv, NothingSkipped
  <2> QED
    BY <1>1, <2>1, <2>2 DEF RelayInv, NothingSkipped
<1> QED
  BY <1>3, <1>4, <1>5 DEF RelayInv

LEMMA RelayInvStep == RelayInv /\ [RelayNext]_relayVars => RelayInv'
<1> SUFFICES ASSUME RelayInv, [RelayNext]_relayVars PROVE RelayInv'
  OBVIOUS
<1>1. \A r \in Relays : relay[r] \in RelayRow
  BY DEF RelayInv, RelayTyped
<1>2. copies' = copies => \A p \in RelayProjects : Copied(p)' = Copied(p)
  BY DEF Copied
<1>3. ASSUME NEW p \in RelayProjects, ProjectEvent(p) PROVE RelayInv'
  <2>1. /\ UNCHANGED <<copies, stored, relay>> /\ projectLog' \in [RelayProjects -> Nat]
        /\ \A q \in RelayProjects : projectLog[q] \in Nat /\ projectLog'[q] >= projectLog[q]
    <3>1. projectLog \in [RelayProjects -> Nat]
      BY DEF RelayInv, RelayTyped
    <3>2. UNCHANGED <<copies, stored, relay>> /\ projectLog' = [projectLog EXCEPT ![p] = @ + 1]
      BY <1>3 DEF ProjectEvent
    <3> QED
      BY <3>1, <3>2
  <2>2. RelayTyped'
    BY <2>1 DEF RelayInv, RelayTyped
  <2>3. \A q \in RelayProjects : stored[q] \in Nat /\ projectLog'[q] \in Nat
                                 /\ \A r \in Relays : relay[r].cursors[q] \in Nat
    BY <1>1, <2>1 DEF RelayInv, RelayTyped, RelayRow
  <2>4. CursorsBehind'
    BY <2>1, <2>3 DEF RelayInv, CursorsBehind
  <2>5. NothingSkipped'
    BY <1>2, <2>1 DEF RelayInv, NothingSkipped
  <2> QED
    BY <2>2, <2>4, <2>5 DEF RelayInv
<1>4. ASSUME NEW p \in RelayProjects, ChildEnds(p) PROVE RelayInv'
  BY <1>2, <1>4 DEF ChildEnds, RelayInv, RelayTyped, CursorsBehind, NothingSkipped
<1>5. ASSUME NEW r \in Relays, StartRelay(r) PROVE RelayInv'
  <2> DEFINE row == [at |-> "idle", cursors |-> [p \in RelayProjects |-> ReadCursor(p)], todo |-> {}]
  <2>1. \A p \in RelayProjects : ReadCursor(p) \in {0, stored[p]} /\ ReadCursor(p) \in Nat
    BY DEF ReadCursor, RelayInv, RelayTyped
  <2>2. row \in RelayRow
        /\ \A p \in RelayProjects : row.cursors[p] \in {0, stored[p], relay[r].cursors[p]}
    BY <2>1 DEF RelayRow
  <2>3. relay' = [relay EXCEPT ![r] = row] /\ UNCHANGED <<projectLog, copies, stored>>
    BY <1>5 DEF StartRelay
  <2> HIDE DEF row
  <2> QED
    BY <2>2, <2>3, RelayMoved
<1>6. ASSUME NEW r \in Relays, BeginPoll(r) PROVE RelayInv'
  <2> DEFINE row == [relay[r] EXCEPT !.at = "poll", !.todo = RelayProjects \ childEnded]
  <2>1. row \in RelayRow /\ row.cursors = relay[r].cursors
    BY <1>1 DEF RelayRow
  <2>2. relay' = [relay EXCEPT ![r] = row] /\ UNCHANGED <<projectLog, copies, stored>>
    BY <1>6 DEF BeginPoll
  <2> HIDE DEF row
  <2> QED
    BY <2>1, <2>2, RelayMoved
<1>7. ASSUME NEW r \in Relays, RelayChild(r) PROVE RelayInv'
  <2>1. PICK p \in RelayProjects :
           /\ copies' = copies \o Batch(r, p)
           /\ stored' = IF Batch(r, p) = <<>> THEN stored
                        ELSE [stored EXCEPT ![p] = CursorAfter(r, p)]
           /\ Polled(r, p, CursorAfter(r, p))
    BY <1>1, <1>7 DEF RelayChild, RelayRow
  <2> DEFINE after == CursorAfter(r, p)
             from == relay[r].cursors[p]
  <2>2. /\ Batch(r, p) \in Seq(Copy) /\ after \in Nat /\ after <= projectLog[p]
        /\ \A n \in from + 1 .. after :
              \E i \in 1..Len(Batch(r, p)) : Batch(r, p)[i] = [project |-> p, id |-> n]
    BY BatchFollows DEF RelayInv
  <2>3. from \in Nat /\ 1..from \subseteq Copied(p)
    BY <1>1 DEF RelayInv, NothingSkipped, RelayRow
  <2> HIDE DEF after, from
  <2>4. /\ copies' \in Seq(Copy) /\ \A q \in RelayProjects : Copied(q) \subseteq Copied(q)'
        /\ \A n \in from + 1 .. after : n \in Copied(p)'
    <3>1. /\ copies' \in Seq(Copy) /\ \A q \in RelayProjects : Copied(q) \subseteq Copied(q)'
          /\ \A q \in RelayProjects, n \in Nat, i \in 1..Len(Batch(r, p)) :
                Batch(r, p)[i] = [project |-> q, id |-> n] => n \in Copied(q)'
      BY <2>1, <2>2, CopiesGrow DEF RelayInv
    <3>2. \A n \in from + 1 .. after : n \in Copied(p)'
      <4> SUFFICES ASSUME NEW n \in from + 1 .. after PROVE n \in Copied(p)'
        OBVIOUS
      <4>1. PICK i \in 1..Len(Batch(r, p)) : Batch(r, p)[i] = [project |-> p, id |-> n]
        BY <2>2
      <4>2. n \in Nat
        BY <2>2, <2>3
      <4> QED
        BY <3>1, <4>1, <4>2
    <3> QED
      BY <3>1, <3>2
  <2>5. 1..after \subseteq Copied(p)'
    <3> SUFFICES ASSUME NEW n \in 1..after PROVE n \in Copied(p)'
      OBVIOUS
    <3>1. n \in 1..from \/ n \in from + 1 .. after
      BY <2>2, <2>3
    <3> QED
      BY <2>3, <2>4, <3>1
  <2>6. /\ relay' \in [Relays -> RelayRow]
        /\ \A q \in Relays, x \in RelayProjects :
              relay'[q].cursors[x] = IF q = r /\ x = p THEN after ELSE relay[q].cursors[x]
    BY <2>1, <2>2, PolledRow DEF RelayInv, after
  <2>7. /\ stored' \in [RelayProjects -> Nat] /\ projectLog' = projectLog
        /\ \A x \in RelayProjects : stored'[x] = stored[x] \/ (x = p /\ stored'[x] = after)
    BY <1>7, <2>1, <2>2 DEF RelayInv, RelayTyped, RelayChild, after
  <2>8. RelayTyped'
    BY <2>4, <2>6, <2>7 DEF RelayInv, RelayTyped
  <2>9. CursorsBehind'
    BY <2>2, <2>6, <2>7 DEF RelayInv, CursorsBehind
  <2>10. NothingSkipped'
    BY <2>4, <2>5, <2>6, <2>7 DEF RelayInv, NothingSkipped
  <2> QED
    BY <2>8, <2>9, <2>10 DEF RelayInv
<1>8. ASSUME NEW r \in Relays, RelayChildFails(r) PROVE RelayInv'
  <2>1. PICK p \in RelayProjects : Polled(r, p, relay[r].cursors[p])
    BY <1>1, <1>8 DEF RelayChildFails, RelayRow, CursorOnFailure
  <2>2. relay[r].cursors[p] \in Nat
    BY <1>1 DEF RelayRow
  <2>3. /\ relay' \in [Relays -> RelayRow]
        /\ \A q \in Relays, x \in RelayProjects : relay'[q].cursors[x] = relay[q].cursors[x]
    BY <2>1, <2>2, PolledRow DEF RelayInv
  <2>4. UNCHANGED <<projectLog, copies, stored>>
    BY <1>8 DEF RelayChildFails
  <2> QED
    BY <1>2, <2>3, <2>4 DEF RelayInv, RelayTyped, CursorsBehind, NothingSkipped
<1>9. ASSUME NEW r \in Relays, EndPoll(r) PROVE RelayInv'
  <2> DEFINE row == [relay[r] EXCEPT !.at = "idle"]
  <2>1. row \in RelayRow /\ row.cursors = relay[r].cursors
    BY <1>1 DEF RelayRow
  <2>2. relay' = [relay EXCEPT ![r] = row] /\ UNCHANGED <<projectLog, copies, stored>>
    BY <1>9 DEF EndPoll
  <2> HIDE DEF row
  <2> QED
    BY <2>1, <2>2, RelayMoved, Zenon
<1>10. ASSUME NEW r \in Relays, StopRelay(r) PROVE RelayInv'
  <2>1. RelayOff \in RelayRow
        /\ \A p \in RelayProjects : RelayOff.cursors[p] \in {0, stored[p], relay[r].cursors[p]}
    BY DEF RelayOff, RelayRow
  <2>2. relay' = [relay EXCEPT ![r] = RelayOff] /\ UNCHANGED <<projectLog, copies, stored>>
    BY <1>10 DEF StopRelay
  <2> QED
    BY <2>1, <2>2, RelayMoved, Zenon
<1>11. CASE UNCHANGED relayVars
  BY <1>2, <1>11 DEF relayVars, RelayInv, RelayTyped, CursorsBehind, NothingSkipped
<1> QED
  BY <1>3, <1>4, <1>5, <1>6, <1>7, <1>8, <1>9, <1>10, <1>11 DEF RelayNext

---------------------------------------------------------------------------
(* The event log and its consumers *)

EventRow == [run : EventRuns, time : Nat]
SinceRow == [SourceNames -> Nat]
CursorRow == [there : BOOLEAN, since : SinceRow, durable : BOOLEAN]
TailRow ==
    [at : {"off", "list", "durable", "save"}, key : CursorKeys \cup {<<>>}, since : SinceRow,
     durable : BOOLEAN]

EventTyped ==
    /\ tables \in [SourceNames -> Seq(EventRow)] /\ stamp \in Nat
    /\ cursorRow \in [CursorKeys -> CursorRow]
    /\ tail \in [Tails -> TailRow]
    /\ \A t \in Tails : tail[t].at # "off" => tail[t].key \in CursorKeys
    /\ printed = [k \in CursorKeys |-> printed[k]]

\* The rows of a table are in the order of their times: the clock is not set back.
RowsInOrder ==
    \A s \in SourceNames : \A i \in 1..Len(tables[s]) :
        /\ tables[s][i].time <= stamp
        /\ \A j \in 1..i : tables[s][j].time <= tables[s][i].time

\* A cursor that is past neither the rows there are in tb, nor one that pr does not
\* hold as printed for its consumer.
Honest(k, since, tb, pr) ==
    /\ \A s \in SourceNames : since[s] <= Len(tb[s])
    /\ \A n \in DOMAIN Sources : \A i \in 1..since[Sources[n]] :
          k[2] = AllRuns \/ tb[Sources[n]][i].run = k[2] => <<n, i>> \in pr[k]

EventInv ==
    /\ EventTyped /\ RowsInOrder
    /\ \A k \in CursorKeys : Honest(k, cursorRow[k].since, tables, printed)
    /\ \A t \in Tails : tail[t].at # "off" => Honest(tail[t].key, tail[t].since, tables, printed)

\* A set of naturals under a bound has a largest one.
LEMMA LargestOf ==
    ASSUME NEW T, T # {}, NEW b \in Nat, T \subseteq 0..b
    PROVE Max(T) \in T /\ \A y \in T : Max(T) >= y
<1> DEFINE D == {b - x : x \in T}
<1>1. D \subseteq Nat /\ D # {}
  <2>1. \A x \in T : b - x \in Nat
    OBVIOUS
  <2>2. PICK x \in T : TRUE
    OBVIOUS
  <2>3. b - x \in D
    OBVIOUS
  <2> QED
    BY <2>1, <2>3
<1>2. PICK d \in D : \A y \in D : ~ (<<y, d>> \in OpToRel(<, Nat))
  BY <1>1, NatLessThanWellFounded, WFMin
<1>3. \A y \in D : ~(y < d)
  BY <1>1, <1>2 DEF OpToRel
<1>4. PICK x \in T : d = b - x
  OBVIOUS
<1>5. \A y \in T : x >= y
  <2> SUFFICES ASSUME NEW y \in T PROVE x >= y
    OBVIOUS
  <2>1. ~(b - y < b - x)
    BY <1>3, <1>4
  <2>2. x \in 0..b /\ y \in 0..b
    OBVIOUS
  <2> QED
    BY <2>1, <2>2
<1> QED
  BY <1>4, <1>5 DEF Max

Events ==
    {e \in (DOMAIN Sources) \X Nat : e[2] \in 1..Len(tables[Sources[e[1]]])}

LEMMA EventFields ==
    ASSUME EventTyped
    PROVE /\ DOMAIN Sources = 1..Len(Sources) /\ Len(Sources) \in Nat
          /\ \A n \in DOMAIN Sources : Sources[n] \in SourceNames
          /\ \A s \in SourceNames : /\ Len(tables[s]) \in Nat
                                    /\ DOMAIN tables[s] = 1..Len(tables[s])
                                    /\ \A i \in 1..Len(tables[s]) : tables[s][i].time \in Nat
          /\ \A n \in DOMAIN Sources : \A i \in 1..Len(tables[Sources[n]]) : <<n, i>> \in Events
<1>1. DOMAIN Sources = 1..Len(Sources) /\ Len(Sources) \in Nat
  BY EventAssumption
<1>2. \A n \in DOMAIN Sources : Sources[n] \in SourceNames
  BY DEF SourceNames, Range
<1>3. ASSUME NEW s \in SourceNames
      PROVE /\ Len(tables[s]) \in Nat /\ DOMAIN tables[s] = 1..Len(tables[s])
            /\ \A i \in 1..Len(tables[s]) : tables[s][i].time \in Nat
  <2>1. tables[s] \in Seq(EventRow)
    BY DEF EventTyped
  <2>2. \A i \in 1..Len(tables[s]) : tables[s][i] \in EventRow
    BY <2>1
  <2> QED
    BY <2>1, <2>2 DEF EventRow
<1>4. \A n \in DOMAIN Sources : \A i \in 1..Len(tables[Sources[n]]) : <<n, i>> \in Events
  BY <1>2, <1>3 DEF Events
<1> QED
  BY <1>1, <1>2, <1>3, <1>4

LEMMA PrecedesTransitive ==
    ASSUME EventTyped, NEW a \in Events, NEW b \in Events, NEW c \in Events,
           Precedes(a, b), Precedes(b, c)
    PROVE Precedes(a, c)
<1>1. \A e \in Events : e[1] \in Nat /\ e[2] \in Nat /\ tables[Sources[e[1]]][e[2]].time \in Nat
  BY EventFields DEF Events
<1>2. PICK t : t = [e \in Events |-> tables[Sources[e[1]]][e[2]].time]
  OBVIOUS
<1>3. t[a] \in Nat /\ t[b] \in Nat /\ t[c] \in Nat
  BY <1>1, <1>2
<1>4. \A d, e \in Events :
        Precedes(d, e) <=> t[d] < t[e] \/ (t[d] = t[e] /\ (d[1] < e[1] \/ (d[1] = e[1] /\ d[2] < e[2])))
  BY <1>2, Zenon DEF Precedes
<1>5. PICK ta, tb, tc, a1, a2, b1, b2, c1, c2 \in Nat :
        /\ ta = t[a] /\ a1 = a[1] /\ a2 = a[2]
        /\ tb = t[b] /\ b1 = b[1] /\ b2 = b[2]
        /\ tc = t[c] /\ c1 = c[1] /\ c2 = c[2]
  BY <1>1, <1>3
<1>6. /\ ta < tb \/ (ta = tb /\ (a1 < b1 \/ (a1 = b1 /\ a2 < b2)))
      /\ tb < tc \/ (tb = tc /\ (b1 < c1 \/ (b1 = c1 /\ b2 < c2)))
  BY <1>4, <1>5, Zenon
<1>7. ta < tc \/ (ta = tc /\ (a1 < c1 \/ (a1 = c1 /\ a2 < c2)))
  BY <1>6
<1> QED
  BY <1>4, <1>5, <1>7, Zenon

\* What a limit lets through is closed downwards: with a row, every row before it.
LEMMA FirstOfDown ==
    ASSUME EventTyped, NEW S, S \subseteq Events, IsFiniteSet(S), NEW limit \in Int,
           NEW e \in FirstOf(S, limit), NEW d \in S, Precedes(d, e)
    PROVE d \in FirstOf(S, limit)
<1> DEFINE Below(x) == {c \in S : Precedes(c, x)}
<1>1. e \in S /\ Cardinality(Below(e)) < limit
  BY DEF FirstOf
<1>2. Below(d) \subseteq Below(e)
  BY <1>1, PrecedesTransitive
<1>3. IsFiniteSet(Below(e))
  BY FS_Subset
<1>4. Cardinality(Below(d)) <= Cardinality(Below(e)) /\ IsFiniteSet(Below(d))
  BY <1>2, <1>3, FS_Subset
<1>5. Cardinality(Below(d)) \in Nat /\ Cardinality(Below(e)) \in Nat
  BY <1>3, <1>4, FS_CardinalityType
<1>6. Cardinality(Below(d)) < limit
  BY <1>1, <1>4, <1>5
<1> QED
  BY <1>6 DEF FirstOf

ListedIn(scope) == {n \in DOMAIN Sources : Sources[n] \in ListedSources(scope)}
PickedOf(scope, since, n) ==
    FirstOf(Waiting(scope, since, n), PerSource(Cardinality(ListedIn(scope))))
Picked(scope, since) == UNION {PickedOf(scope, since, n) : n \in ListedIn(scope)}

LEMMA ListingIsFirst ==
    ASSUME NEW scope, NEW since
    PROVE Listing(scope, since) = FirstOf(Picked(scope, since), ListLimit)
BY DEF Listing, Picked, PickedOf, ListedIn

LEMMA UpToIsFinite == \A n \in Nat : IsFiniteSet(1..n)
<1> SUFFICES ASSUME NEW n \in Nat PROVE IsFiniteSet(1..n)
  OBVIOUS
<1>1. 1 \in Int /\ n \in Int
  OBVIOUS
<1> QED
  BY <1>1, FS_Interval

\* What is waiting, picked and listed are finitely many rows.
LEMMA WaitingFinite ==
    ASSUME EventTyped, NEW scope, NEW since, NEW n \in DOMAIN Sources
    PROVE Waiting(scope, since, n) \subseteq Events /\ IsFiniteSet(Waiting(scope, since, n))
<1>1. Len(tables[Sources[n]]) \in Nat /\ DOMAIN tables[Sources[n]] = 1..Len(tables[Sources[n]])
  BY EventFields
<1>2. Waiting(scope, since, n) \subseteq {n} \X (1..Len(tables[Sources[n]]))
  BY <1>1 DEF Waiting
<1>3. IsFiniteSet({n}) /\ IsFiniteSet(1..Len(tables[Sources[n]]))
  BY <1>1, FS_Singleton, UpToIsFinite
<1>4. IsFiniteSet({n} \X (1..Len(tables[Sources[n]])))
  BY <1>3, FS_Product
<1>5. IsFiniteSet(Waiting(scope, since, n))
  BY <1>2, <1>4, FS_Subset
<1>6. Waiting(scope, since, n) \subseteq Events
  BY <1>1, EventFields DEF Waiting
<1> QED
  BY <1>5, <1>6

LEMMA PickedFinite ==
    ASSUME EventTyped, NEW scope, NEW since
    PROVE /\ IsFiniteSet(ListedIn(scope)) /\ ListedIn(scope) \subseteq DOMAIN Sources
          /\ Picked(scope, since) \subseteq Events /\ IsFiniteSet(Picked(scope, since))
          /\ Listing(scope, since) \subseteq Picked(scope, since)
          /\ IsFiniteSet(Listing(scope, since))
<1> DEFINE P == {PickedOf(scope, since, n) : n \in ListedIn(scope)}
           f == [n \in ListedIn(scope) |-> PickedOf(scope, since, n)]
<1>1. ListedIn(scope) \subseteq DOMAIN Sources
  BY DEF ListedIn
<1>2. IsFiniteSet(ListedIn(scope))
  <2>1. IsFiniteSet(DOMAIN Sources)
    BY EventFields, UpToIsFinite
  <2> QED
    BY <1>1, <2>1, FS_Subset
<1>3. f \in Surjection(ListedIn(scope), P)
  BY DEF Surjection
<1>4. IsFiniteSet(P)
  BY <1>2, <1>3, FS_Surjection
<1>5. ASSUME NEW n \in ListedIn(scope)
      PROVE PickedOf(scope, since, n) \subseteq Events /\ IsFiniteSet(PickedOf(scope, since, n))
  <2>1. PickedOf(scope, since, n) \subseteq Waiting(scope, since, n)
    BY DEF PickedOf, FirstOf
  <2> QED
    BY <1>1, <2>1, WaitingFinite, FS_Subset
<1>6. Picked(scope, since) \subseteq Events
  BY <1>5 DEF Picked
<1>7. \A T \in P : IsFiniteSet(T)
  BY <1>5
<1>8. IsFiniteSet(UNION P)
  BY <1>4, <1>7, FS_UNION
<1>9. Listing(scope, since) \subseteq Picked(scope, since)
  BY ListingIsFirst DEF FirstOf
<1> QED
  BY <1>1, <1>2, <1>6, <1>8, <1>9, FS_Subset DEF Picked

\* A listing and every start of it leave no waiting row of a source behind.
LEMMA ListingClosed ==
    ASSUME EventTyped, RowsInOrder, NEW scope, NEW since \in SinceRow, NEW limit \in Int,
           NEW e \in FirstOf(Listing(scope, since), limit)
    PROVE /\ e \in Events
          /\ \A i \in since[Sources[e[1]]] + 1 .. e[2] :
                InScope(Sources[e[1]], i, scope)
                => <<e[1], i>> \in FirstOf(Listing(scope, since), limit)
<1> DEFINE per == PerSource(Cardinality(ListedIn(scope)))
<1>1. e \in Listing(scope, since) /\ e \in Picked(scope, since)
  BY PickedFinite DEF FirstOf
<1>2. PICK n \in ListedIn(scope) : e \in PickedOf(scope, since, n)
  BY <1>1 DEF Picked
<1>3. e \in Waiting(scope, since, n)
  BY <1>2 DEF PickedOf, FirstOf
<1>4. /\ n \in DOMAIN Sources /\ e[1] = n /\ e = <<n, e[2]>> /\ e[2] \in DOMAIN tables[Sources[n]]
      /\ e[2] > since[Sources[n]]
  BY <1>2, <1>3 DEF ListedIn, Waiting
<1>5. e \in Events
  BY <1>1, PickedFinite
<1>6. per \in Int
  <2>1. Cardinality(ListedIn(scope)) \in Nat /\ Cardinality(ListedIn(scope)) # 0
    BY <1>2, PickedFinite, FS_CardinalityType, FS_EmptySet
  <2> QED
    BY <2>1, EventAssumption DEF PerSource
<1>7. ASSUME NEW i \in since[Sources[n]] + 1 .. e[2], InScope(Sources[n], i, scope)
      PROVE <<n, i>> \in FirstOf(Listing(scope, since), limit)
  <2>1. /\ since[Sources[n]] \in Nat /\ Len(tables[Sources[n]]) \in Nat
        /\ DOMAIN tables[Sources[n]] = 1..Len(tables[Sources[n]])
    BY <1>4, EventFields DEF SinceRow
  <2>2. e[2] \in 1..Len(tables[Sources[n]]) /\ i \in 1..Len(tables[Sources[n]]) /\ i <= e[2]
        /\ i > since[Sources[n]]
    BY <1>4, <2>1
  <2>3. <<n, i>> \in Waiting(scope, since, n) /\ <<n, i>> \in Events
    BY <1>4, <1>7, <2>1, <2>2, EventFields DEF Waiting
  <2>4. CASE i = e[2]
    BY <1>4, <2>4
  <2>5. CASE i < e[2]
    <3>1. /\ tables[Sources[n]][i].time <= tables[Sources[n]][e[2]].time
          /\ tables[Sources[n]][i].time \in Nat /\ tables[Sources[n]][e[2]].time \in Nat
      BY <1>4, <2>2, EventFields DEF RowsInOrder
    <3>2. Precedes(<<n, i>>, e)
      BY <1>4, <2>5, <3>1 DEF Precedes
    <3>3. <<n, i>> \in PickedOf(scope, since, n)
      <4>1. e \in FirstOf(Waiting(scope, since, n), per)
        BY <1>2 DEF PickedOf
      <4>2. <<n, i>> \in FirstOf(Waiting(scope, since, n), per)
        BY <1>4, <1>6, <2>3, <3>2, <4>1, WaitingFinite, FirstOfDown
      <4> QED
        BY <4>2 DEF PickedOf
    <3>4. <<n, i>> \in Picked(scope, since)
      BY <1>2, <3>3 DEF Picked
    <3>5. <<n, i>> \in Listing(scope, since)
      BY <1>1, <3>2, <3>4, ListingIsFirst, PickedFinite, FirstOfDown, EventAssumption
    <3> QED
      BY <3>2, <3>5, PickedFinite, FirstOfDown
  <2> QED
    BY <2>2, <2>4, <2>5
<1> QED
  BY <1>4, <1>5, <1>7

\* Rows are only added, and nothing printed is taken back.
Keeps ==
    /\ \A s \in SourceNames :
          /\ Len(tables'[s]) >= Len(tables[s]) /\ Len(tables'[s]) \in Nat
          /\ \A i \in 1..Len(tables[s]) : tables'[s][i] = tables[s][i]
    /\ \A k \in CursorKeys : printed[k] \subseteq printed'[k]

LEMMA HonestOn ==
    ASSUME EventTyped, Keeps, NEW k \in CursorKeys, NEW since \in SinceRow,
           Honest(k, since, tables, printed)
    PROVE Honest(k, since, tables', printed')
<1>1. \A s \in SourceNames : since[s] \in Nat /\ Len(tables[s]) \in Nat /\ since[s] <= Len(tables[s])
  BY EventFields DEF SinceRow, Honest
<1>2. \A s \in SourceNames : since[s] <= Len(tables'[s])
  BY <1>1 DEF Keeps
<1>3. ASSUME NEW n \in DOMAIN Sources, NEW i \in 1..since[Sources[n]],
             k[2] = AllRuns \/ tables'[Sources[n]][i].run = k[2]
      PROVE <<n, i>> \in printed'[k]
  <2>1. Sources[n] \in SourceNames
    BY EventFields
  <2>2. i \in 1..Len(tables[Sources[n]])
    BY <1>1, <2>1
  <2>3. tables'[Sources[n]][i] = tables[Sources[n]][i]
    BY <2>1, <2>2 DEF Keeps
  <2>4. <<n, i>> \in printed[k]
    BY <1>3, <2>3 DEF Honest
  <2> QED
    BY <2>4 DEF Keeps
<1> QED
  BY <1>2, <1>3 DEF Honest

\* The marks of what was written of a listing stand past no row left behind.
LEMMA MarkedHonest ==
    ASSUME EventInv, NEW k \in CursorKeys, NEW since \in SinceRow,
           Honest(k, since, tables, printed), NEW limit \in Int,
           NEW written, written = FirstOf(Listing(k[2], since), limit),
           printed' = [printed EXCEPT ![k] = @ \cup written]
    PROVE Marked(since, written) \in SinceRow /\ Honest(k, Marked(since, written), tables, printed')
<1> DEFINE m == Marked(since, written)
           T(s) == {since[s]} \cup {e[2] : e \in {d \in written : Sources[d[1]] = s}}
<1>1. EventTyped /\ RowsInOrder
  BY DEF EventInv
<1>2. \A e \in written : e \in Events
  BY <1>1, ListingClosed
<1>3. printed'[k] = printed[k] \cup written
  BY <1>1 DEF EventTyped
<1>4. ASSUME NEW s \in SourceNames
      PROVE m[s] \in T(s) /\ m[s] \in Nat /\ m[s] <= Len(tables[s])
  <2>1. Len(tables[s]) \in Nat /\ since[s] \in 0..Len(tables[s])
    BY <1>1, EventFields DEF SinceRow, Honest
  <2>2. \A e \in written : Sources[e[1]] = s => e[2] \in 1..Len(tables[s])
    BY <1>2 DEF Events
  <2>3. T(s) \subseteq 0..Len(tables[s]) /\ T(s) # {}
    BY <2>1, <2>2
  <2>4. m[s] = Max(T(s))
    BY DEF Marked
  <2> HIDE DEF T, m
  <2>5. Max(T(s)) \in T(s)
    BY <2>1, <2>3, LargestOf
  <2> QED
    BY <2>1, <2>3, <2>4, <2>5
<1>5. m = [s \in SourceNames |-> m[s]]
  BY DEF Marked
<1> HIDE DEF m
<1>6. m \in SinceRow
  BY <1>4, <1>5 DEF SinceRow
<1>7. ASSUME NEW n \in DOMAIN Sources, NEW i \in 1..m[Sources[n]],
             k[2] = AllRuns \/ tables[Sources[n]][i].run = k[2]
      PROVE <<n, i>> \in printed'[k]
  <2>1. Sources[n] \in SourceNames /\ since[Sources[n]] \in Nat /\ m[Sources[n]] \in Nat
    BY <1>1, <1>4, EventFields DEF SinceRow
  <2>2. CASE i <= since[Sources[n]]
    <3>1. i \in 1..since[Sources[n]]
      BY <2>1, <2>2
    <3> QED
      BY <1>3, <1>7, <3>1 DEF Honest
  <2>3. CASE i > since[Sources[n]]
    <3>1. PICK e \in written : Sources[e[1]] = Sources[n] /\ e[2] = m[Sources[n]]
      <4>1. m[Sources[n]] # since[Sources[n]]
        BY <2>1, <2>3
      <4> QED
        BY <1>4, <2>1, <4>1
    <3>2. e[1] = n
      BY <1>2, <3>1, EventAssumption DEF Events, IsInjective
    <3>3. i \in since[Sources[e[1]]] + 1 .. e[2] /\ InScope(Sources[e[1]], i, k[2])
      BY <1>7, <2>1, <2>3, <3>1, <3>2 DEF InScope
    <3>4. <<e[1], i>> \in written
      BY <1>1, <3>3, ListingClosed
    <3> QED
      BY <1>3, <3>2, <3>4
  <2> QED
    BY <2>1, <2>2, <2>3
<1>8. Honest(k, m, tables, printed')
  BY <1>4, <1>7 DEF Honest
<1> QED
  BY <1>6, <1>8 DEF m

LEMMA ZeroHonest ==
    ASSUME EventTyped, NEW k \in CursorKeys
    PROVE Zero \in SinceRow /\ Honest(k, Zero, tables, printed)
<1>1. \A s \in SourceNames : Zero[s] = 0 /\ Len(tables[s]) \in Nat
  BY EventFields DEF Zero
<1>2. \A n \in DOMAIN Sources : Zero[Sources[n]] = 0
  BY <1>1, EventFields
<1> QED
  BY <1>1, <1>2 DEF Honest, SinceRow, Zero

\* What a step has to show: each cursor stays, is zero, or is another's that was honest.
LEMMA EventInvOn ==
    ASSUME EventInv, EventTyped', RowsInOrder', Keeps,
           \A k \in CursorKeys :
              \/ cursorRow'[k].since = Zero
              \/ cursorRow'[k].since = cursorRow[k].since
              \/ \E t \in Tails : tail[t].at # "off" /\ tail[t].key = k
                                  /\ cursorRow'[k].since = tail[t].since,
           \A t \in Tails : tail'[t].at # "off" =>
              \/ tail'[t].since = cursorRow[tail'[t].key].since
              \/ tail[t].at # "off" /\ tail'[t].key = tail[t].key /\ tail'[t].since = tail[t].since
              \/ Honest(tail'[t].key, tail'[t].since, tables', printed')
    PROVE EventInv'
<1>1. /\ EventTyped
      /\ \A k \in CursorKeys : Honest(k, cursorRow[k].since, tables, printed)
      /\ \A t \in Tails : tail[t].at # "off" => Honest(tail[t].key, tail[t].since, tables, printed)
  BY DEF EventInv
<1>2. /\ \A k \in CursorKeys : cursorRow[k].since \in SinceRow
      /\ \A t \in Tails : tail[t].since \in SinceRow
      /\ \A t \in Tails : tail[t].at # "off" => tail[t].key \in CursorKeys
      /\ \A t \in Tails : tail'[t].at # "off" => tail'[t].key \in CursorKeys
  BY <1>1 DEF EventTyped, CursorRow, TailRow
<1>3. ASSUME NEW k \in CursorKeys PROVE Honest(k, cursorRow'[k].since, tables', printed')
  <2>1. CASE cursorRow'[k].since = Zero
    BY <1>1, <2>1, ZeroHonest, HonestOn
  <2>2. CASE cursorRow'[k].since = cursorRow[k].since
    BY <1>1, <1>2, <2>2, HonestOn
  <2>3. CASE \E t \in Tails : tail[t].at # "off" /\ tail[t].key = k
                              /\ cursorRow'[k].since = tail[t].since
    BY <1>1, <1>2, <2>3, HonestOn
  <2> QED
    BY <2>1, <2>2, <2>3
<1>4. ASSUME NEW t \in Tails, tail'[t].at # "off"
      PROVE Honest(tail'[t].key, tail'[t].since, tables', printed')
  <2>1. CASE tail'[t].since = cursorRow[tail'[t].key].since
    BY <1>1, <1>2, <1>4, <2>1, HonestOn
  <2>2. CASE tail[t].at # "off" /\ tail'[t].key = tail[t].key /\ tail'[t].since = tail[t].since
    BY <1>1, <1>2, <2>2, HonestOn
  <2> QED
    BY <1>4, <2>1, <2>2
<1> QED
  BY <1>3, <1>4 DEF EventInv

LEMMA TailMoved ==
    ASSUME EventInv, UNCHANGED <<tables, stamp, cursorRow, printed>>,
           NEW t \in Tails, NEW row \in TailRow, tail' = [tail EXCEPT ![t] = row],
           row.at # "off" =>
              /\ row.key \in CursorKeys
              /\ \/ row.since = cursorRow[row.key].since
                 \/ tail[t].at # "off" /\ row.key = tail[t].key /\ row.since = tail[t].since
    PROVE EventInv'
<1>1. EventTyped /\ RowsInOrder
  BY DEF EventInv
<1>2. /\ tail' \in [Tails -> TailRow]
      /\ \A u \in Tails : tail'[u] = IF u = t THEN row ELSE tail[u]
  BY <1>1 DEF EventTyped
<1>3. EventTyped'
  BY <1>1, <1>2 DEF EventTyped
<1>4. RowsInOrder' /\ Keeps
  BY <1>1, EventFields DEF RowsInOrder, Keeps
<1> QED
  BY <1>2, <1>3, <1>4, EventInvOn

LEMMA CursorZeroed ==
    ASSUME EventInv, UNCHANGED <<tables, stamp, tail, printed>>,
           NEW k \in CursorKeys, NEW row \in CursorRow, row.since = Zero,
           cursorRow' = [cursorRow EXCEPT ![k] = row]
    PROVE EventInv'
<1>1. EventTyped /\ RowsInOrder
  BY DEF EventInv
<1>2. /\ cursorRow' \in [CursorKeys -> CursorRow]
      /\ \A x \in CursorKeys : cursorRow'[x] = IF x = k THEN row ELSE cursorRow[x]
  BY <1>1 DEF EventTyped
<1>3. EventTyped'
  BY <1>1, <1>2 DEF EventTyped
<1>4. RowsInOrder' /\ Keeps
  BY <1>1, EventFields DEF RowsInOrder, Keeps
<1> QED
  BY <1>2, <1>3, <1>4, EventInvOn

LEMMA EventInvInit == EventInit => EventInv
<1> SUFFICES ASSUME EventInit PROVE EventInv
  OBVIOUS
<1>1. Zero \in SinceRow
  BY DEF Zero, SinceRow
<1>2. EventTyped
  BY <1>1 DEF EventInit, EventTyped, NoCursor, NoTail, CursorRow, TailRow
<1>3. RowsInOrder
  BY DEF EventInit, RowsInOrder
<1>4. \A k \in CursorKeys : cursorRow[k].since = Zero
  BY DEF EventInit, NoCursor
<1>5. \A t \in Tails : tail[t].at = "off"
  BY DEF EventInit, NoTail
<1> QED
  BY <1>2, <1>3, <1>4, <1>5, ZeroHonest DEF EventInv

LEMMA EventInvStep == EventInv /\ [EventNext]_eventVars => EventInv'
<1> SUFFICES ASSUME EventInv, [EventNext]_eventVars PROVE EventInv'
  OBVIOUS
<1>1. EventTyped /\ RowsInOrder
  BY DEF EventInv
<1>2. /\ \A k \in CursorKeys : cursorRow[k] \in CursorRow /\ cursorRow[k].since \in SinceRow
      /\ \A t \in Tails : tail[t] \in TailRow /\ tail[t].since \in SinceRow
  BY <1>1 DEF EventTyped, CursorRow, TailRow
<1>3. \A s \in SourceNames : Len(tables[s]) \in Nat
  BY <1>1, EventFields
<1>4. ASSUME tables' = tables, stamp' = stamp PROVE RowsInOrder'
  BY <1>1, <1>4 DEF RowsInOrder
<1>5. ASSUME tables' = tables, printed' = printed PROVE Keeps
  BY <1>3, <1>5 DEF Keeps
<1>6. ASSUME NEW s \in SourceNames, NEW run \in EventRuns, RecordEvent(s, run) PROVE EventInv'
  <2> DEFINE row == [run |-> run, time |-> stamp]
  <2>1. /\ tables' = [tables EXCEPT ![s] = Append(tables[s], row)]
        /\ UNCHANGED <<stamp, cursorRow, tail, printed>>
    BY <1>6 DEF RecordEvent
  <2>2. row \in EventRow /\ row.time = stamp /\ stamp \in Nat
    BY <1>1 DEF EventTyped, EventRow
  <2> HIDE DEF row
  <2>3. tables[s] \in Seq(EventRow)
    BY <1>1 DEF EventTyped
  <2>4. /\ Append(tables[s], row) \in Seq(EventRow)
        /\ Len(Append(tables[s], row)) = Len(tables[s]) + 1
        /\ \A i \in 1..Len(tables[s]) : Append(tables[s], row)[i] = tables[s][i]
        /\ Append(tables[s], row)[Len(tables[s]) + 1] = row
    BY <2>2, <2>3
  <2>5. /\ tables' \in [SourceNames -> Seq(EventRow)]
        /\ tables'[s] = Append(tables[s], row)
        /\ \A x \in SourceNames \ {s} : tables'[x] = tables[x]
    BY <1>1, <2>1, <2>4 DEF EventTyped
  <2>6. EventTyped'
    BY <1>1, <2>1, <2>5 DEF EventTyped
  <2>7. Keeps
    BY <1>3, <2>1, <2>4, <2>5 DEF Keeps
  <2>8. RowsInOrder'
    <3> SUFFICES ASSUME NEW x \in SourceNames, NEW i \in 1..Len(tables'[x])
                 PROVE /\ tables'[x][i].time <= stamp
                       /\ \A j \in 1..i : tables'[x][j].time <= tables'[x][i].time
      BY <2>1 DEF RowsInOrder
    <3>1. CASE x # s
      BY <1>1, <2>5, <3>1 DEF RowsInOrder
    <3>2. CASE x = s /\ i \in 1..Len(tables[s])
      <4>1. \A j \in 1..i : j \in 1..Len(tables[s]) /\ tables'[x][j] = tables[s][j]
        BY <1>3, <2>4, <2>5, <3>2
      <4>2. tables'[x][i] = tables[s][i]
        BY <2>4, <2>5, <3>2
      <4> QED
        BY <1>1, <3>2, <4>1, <4>2 DEF RowsInOrder
    <3>3. CASE x = s /\ i = Len(tables[s]) + 1
      <4>1. tables'[x][i] = row
        BY <2>4, <2>5, <3>3
      <4>2. ASSUME NEW j \in 1..i PROVE tables'[x][j].time <= stamp
        <5>1. CASE j = i
          BY <2>2, <4>1, <5>1
        <5>2. CASE j \in 1..Len(tables[s])
          BY <1>1, <2>4, <2>5, <3>3, <5>2 DEF RowsInOrder
        <5> QED
          BY <1>3, <3>3, <5>1, <5>2
      <4> QED
        BY <2>2, <4>1, <4>2
    <3> QED
      BY <1>3, <2>4, <2>5, <3>1, <3>2, <3>3
  <2> QED
    BY <2>1, <2>6, <2>7, <2>8, EventInvOn
<1>7. CASE StampTick
  <2>1. stamp' \in Nat /\ stamp' > stamp /\ stamp \in Nat
        /\ UNCHANGED <<tables, cursorRow, tail, printed>>
    BY <1>1, <1>7 DEF StampTick, EventTyped
  <2>2. EventTyped'
    BY <1>1, <2>1 DEF EventTyped
  <2>3. RowsInOrder'
    <3>1. \A s \in SourceNames : \A i \in 1..Len(tables[s]) : tables[s][i].time \in Nat
      BY <1>1, EventFields
    <3> QED
      BY <1>1, <2>1, <3>1 DEF RowsInOrder
  <2> QED
    BY <1>5, <2>1, <2>2, <2>3, EventInvOn
<1>8. ASSUME NEW t \in Tails, StartTail(t) PROVE EventInv'
  <2>1. PICK k \in CursorKeys :
           tail' = [tail EXCEPT ![t] =
              [at |-> "list", key |-> k, since |-> cursorRow[k].since, durable |-> FALSE]]
    BY <1>8 DEF StartTail
  <2> DEFINE row == [at |-> "list", key |-> k, since |-> cursorRow[k].since, durable |-> FALSE]
  <2>2. row \in TailRow /\ row.key = k /\ row.since = cursorRow[k].since
    BY <1>2 DEF TailRow
  <2>3. tail' = [tail EXCEPT ![t] = row] /\ UNCHANGED <<tables, stamp, cursorRow, printed>>
    BY <1>8, <2>1 DEF StartTail
  <2> HIDE DEF row
  <2> QED
    BY <2>2, <2>3, TailMoved
<1>9. ASSUME NEW t \in Tails, PrintBatch(t) PROVE EventInv'
  <2> DEFINE k == tail[t].key
             since == tail[t].since
             batch == Listing(k[2], since)
  <2>1. PICK limit \in 0..Cardinality(batch) :
           /\ printed' = [printed EXCEPT ![k] = @ \cup FirstOf(batch, limit)]
           /\ tail' = [tail EXCEPT
                 ![t].since = Marked(@, FirstOf(batch, limit)),
                 ![t].at = AfterBatch(FirstOf(batch, limit) = batch)]
    BY <1>9 DEF PrintBatch
  <2> DEFINE written == FirstOf(batch, limit)
             row == [tail[t] EXCEPT !.since = Marked(since, written),
                                    !.at = AfterBatch(written = batch)]
  <2>2. /\ tail[t].at # "off" /\ k \in CursorKeys /\ since \in SinceRow
        /\ Honest(k, since, tables, printed)
    BY <1>1, <1>2, <1>9 DEF PrintBatch, EventInv, EventTyped
  <2>3. UNCHANGED <<tables, stamp, cursorRow>>
    BY <1>9 DEF PrintBatch
  <2>4. limit \in Int /\ printed' = [printed EXCEPT ![k] = @ \cup written]
    BY <2>1
  <2>5. /\ Marked(since, written) \in SinceRow
        /\ Honest(k, Marked(since, written), tables, printed')
    BY <2>2, <2>4, MarkedHonest
  <2>6. tail[t] \in TailRow /\ AfterBatch(written = batch) \in {"off", "list", "durable", "save"}
    BY <1>2 DEF AfterBatch
  <2>7. tail' = [tail EXCEPT ![t] = row]
    BY <2>1
  <2> HIDE DEF k, since, batch, written
  <2>8. row \in TailRow /\ row.key = tail[t].key /\ row.since = Marked(since, written)
    BY <2>5, <2>6 DEF TailRow
  <2> HIDE DEF row
  <2>9. /\ tail' \in [Tails -> TailRow]
        /\ \A u \in Tails : tail'[u] = IF u = t THEN row ELSE tail[u]
    BY <1>1, <2>7, <2>8 DEF EventTyped
  <2>10. /\ printed' = [x \in CursorKeys |-> printed'[x]]
         /\ \A x \in CursorKeys : printed[x] \subseteq printed'[x]
    BY <1>1, <2>2, <2>4 DEF EventTyped
  <2>11. EventTyped'
    BY <1>1, <2>2, <2>3, <2>8, <2>9, <2>10 DEF EventTyped, k
  <2>12. Keeps
    BY <1>3, <2>3, <2>10 DEF Keeps
  <2>13. Honest(row.key, row.since, tables', printed')
    BY <2>3, <2>5, <2>8 DEF k
  <2> QED
    BY <1>4, <2>3, <2>9, <2>11, <2>12, <2>13, EventInvOn
<1>10. ASSUME NEW t \in Tails, ReadDurable(t) PROVE EventInv'
  <2> DEFINE row == [tail[t] EXCEPT !.at = "save", !.durable = cursorRow[tail[t].key].durable]
  <2>1. tail[t].at # "off" /\ tail[t].key \in CursorKeys /\ tail[t] \in TailRow
    BY <1>1, <1>2, <1>10 DEF ReadDurable, EventTyped
  <2>2. cursorRow[tail[t].key].durable \in BOOLEAN
    BY <1>2, <2>1 DEF CursorRow
  <2>3. row \in TailRow /\ row.key = tail[t].key /\ row.since = tail[t].since
    BY <2>1, <2>2 DEF TailRow
  <2>4. tail' = [tail EXCEPT ![t] = row] /\ UNCHANGED <<tables, stamp, cursorRow, printed>>
    BY <1>10 DEF ReadDurable
  <2> HIDE DEF row
  <2> QED
    BY <2>1, <2>3, <2>4, TailMoved
<1>11. ASSUME NEW t \in Tails, SaveCursor(t) PROVE EventInv'
  <2> DEFINE row == [tail[t] EXCEPT !.at = "list"]
             saved == [there |-> TRUE, since |-> tail[t].since, durable |-> tail[t].durable]
  <2>1. tail[t].at # "off" /\ tail[t].key \in CursorKeys /\ tail[t] \in TailRow
    BY <1>1, <1>2, <1>11 DEF SaveCursor, EventTyped
  <2>2. row \in TailRow /\ row.key = tail[t].key /\ row.since = tail[t].since
    BY <2>1 DEF TailRow
  <2>3. saved \in CursorRow /\ saved.since = tail[t].since
    BY <1>2, <2>1 DEF TailRow, CursorRow
  <2>4. /\ tail' = [tail EXCEPT ![t] = row] /\ UNCHANGED <<tables, stamp, printed>>
        /\ cursorRow' = cursorRow \/ cursorRow' = [cursorRow EXCEPT ![tail[t].key] = saved]
    BY <1>11 DEF SaveCursor
  <2> HIDE DEF row, saved
  <2>5. /\ tail' \in [Tails -> TailRow]
        /\ \A u \in Tails : tail'[u] = IF u = t THEN row ELSE tail[u]
    BY <1>1, <2>2, <2>4 DEF EventTyped
  <2>6. /\ cursorRow' \in [CursorKeys -> CursorRow]
        /\ \A x \in CursorKeys : \/ cursorRow'[x] = cursorRow[x]
                                 \/ x = tail[t].key /\ cursorRow'[x] = saved
    BY <1>1, <2>1, <2>3, <2>4 DEF EventTyped
  <2>7. EventTyped'
    BY <1>1, <2>1, <2>2, <2>4, <2>5, <2>6 DEF EventTyped
  <2> QED
    BY <1>4, <1>5, <2>1, <2>2, <2>3, <2>4, <2>5, <2>6, <2>7, EventInvOn
<1>12. ASSUME NEW t \in Tails, EndTail(t) PROVE EventInv'
  <2>1. NoTail \in TailRow /\ NoTail.at = "off"
    BY <1>1, <1>12 DEF NoTail, TailRow, Zero, SinceRow
  <2>2. tail' = [tail EXCEPT ![t] = NoTail] /\ UNCHANGED <<tables, stamp, cursorRow, printed>>
    BY <1>12 DEF EndTail
  <2> QED
    BY <2>1, <2>2, TailMoved
<1>13. ASSUME NEW c \in Consumers, RegisterCursor(c) PROVE EventInv'
  <2>1. PICK durable \in BOOLEAN :
           cursorRow' = [cursorRow EXCEPT ![<<c, AllRuns>>] =
              [there |-> TRUE, since |-> Zero, durable |-> durable]]
    BY <1>13 DEF RegisterCursor
  <2> DEFINE row == [there |-> TRUE, since |-> Zero, durable |-> durable]
  <2>2. row \in CursorRow /\ row.since = Zero
    BY DEF CursorRow, SinceRow, Zero
  <2>3. cursorRow' = [cursorRow EXCEPT ![<<c, AllRuns>>] = row]
        /\ UNCHANGED <<tables, stamp, tail, printed>>
    BY <1>13, <2>1 DEF RegisterCursor
  <2>4. <<c, AllRuns>> \in CursorKeys
    BY DEF CursorKeys, EventScopes
  <2> HIDE DEF row
  <2> QED
    BY <2>2, <2>3, <2>4, CursorZeroed
<1>14. NoCursor \in CursorRow /\ NoCursor.since = Zero
  BY DEF NoCursor, CursorRow, SinceRow, Zero
<1>15. ASSUME NEW c \in Consumers, ResetCursor(c) PROVE EventInv'
  <2>1. <<c, AllRuns>> \in CursorKeys
    BY DEF CursorKeys, EventScopes
  <2>2. cursorRow' = [cursorRow EXCEPT ![<<c, AllRuns>>] = NoCursor]
        /\ UNCHANGED <<tables, stamp, tail, printed>>
    BY <1>15 DEF ResetCursor
  <2> QED
    BY <1>14, <2>1, <2>2, CursorZeroed
<1>16. ASSUME NEW k \in CursorKeys, ExpireCursor(k) PROVE EventInv'
  <2>1. cursorRow' = [cursorRow EXCEPT ![k] = NoCursor]
        /\ UNCHANGED <<tables, stamp, tail, printed>>
    BY <1>16 DEF ExpireCursor
  <2> QED
    BY <1>14, <2>1, CursorZeroed
<1>17. CASE UNCHANGED eventVars
  <2>1. UNCHANGED <<tables, stamp, cursorRow, tail, printed>>
    BY <1>17 DEF eventVars
  <2>2. EventTyped'
    BY <1>1, <2>1 DEF EventTyped
  <2> QED
    BY <1>4, <1>5, <2>1, <2>2, EventInvOn
<1> QED
  BY <1>6, <1>7, <1>8, <1>9, <1>10, <1>11, <1>12, <1>13, <1>15, <1>16, <1>17 DEF EventNext

\* However many tails share a cursor, and wherever they stop between a listing and
\* the save of its marks, no stored cursor passes a row its consumer was not given; and
\* no cursor of a relay passes an event that is not in the portfolio's log, whatever
\* poll, transaction or process failed (cmdEventsTail, relayChildEvents).
THEOREM CursorsStayBehind == EventSpec /\ RelaySpec => []CursorsHonest
<1>1. EventInv => AtLeastOnce
  BY DEF EventInv, AtLeastOnce, Given, Honest, InScope
<1>2. RelayInv => NothingSkipped
  BY DEF RelayInv
<1>3. AtLeastOnce /\ NothingSkipped => CursorsHonest
  BY DEF CursorsHonest
<1> QED
  BY EventInvInit, EventInvStep, RelayInvInit, RelayInvStep, <1>1, <1>2, <1>3, PTL
  DEF EventSpec, RelaySpec

---------------------------------------------------------------------------
(* The schema *)

Tables == DOMAIN schemaDDL
HasTable(v, t) == \E c \in schemaDDL[t] : c <= v

LEMMA FileFields ==
    ASSUME NEW v
    PROVE  /\ FileAt(v).version = v
           /\ FileAt(v).markers = {m \in cutoverMarkers : m <= v}
           /\ \A t : t \in DOMAIN FileAt(v).tables <=> t \in Tables /\ HasTable(v, t)
           /\ \A t \in Tables : HasTable(v, t) => FileAt(v).tables[t] = {c \in schemaDDL[t] : c <= v}
<1>1. PICK old : old = {u \in Tables : HasTable(v, u)}
  OBVIOUS
<1>2. PICK built : built = [t \in old |-> {c \in schemaDDL[t] : c <= v}]
  OBVIOUS
<1>3. FileAt(v) = [version |-> v, tables |-> built, markers |-> {m \in cutoverMarkers : m <= v}]
  BY <1>1, <1>2 DEF FileAt, Tables, HasTable
<1>4. FileAt(v).version = v /\ FileAt(v).markers = {m \in cutoverMarkers : m <= v} /\ FileAt(v).tables = built
  BY <1>3
<1> QED
  BY <1>1, <1>2, <1>4

\* The columns a table has after the steps.
ColumnsIn(f, t) ==
    LET v == f.version
        columns(old) == old \cup {c \in schemaDDL[t] : <<t, c>> \in Altered(v)}
        made == {c \in schemaDDL[t] : <<t, c>> \in Created(v)}
    IN  IF t \in DOMAIN f.tables THEN columns(f.tables[t])
        ELSE IF made # {} THEN columns(made) ELSE schemaDDL[t]

LEMMA MigratedFields ==
    ASSUME NEW f
    PROVE  /\ Migrated(f).version = currentSchemaVersion
           /\ Migrated(f).markers = cutoverMarkers
           /\ DOMAIN Migrated(f).tables = Tables
           /\ \A t \in Tables : Migrated(f).tables[t] = ColumnsIn(f, t)
<1>1. PICK built : built = [t \in Tables |-> ColumnsIn(f, t)]
  OBVIOUS
<1>2. Migrated(f) = [version |-> currentSchemaVersion, tables |-> built, markers |-> cutoverMarkers]
  BY <1>1 DEF Migrated, ColumnsIn, Tables
<1>3. /\ Migrated(f).version = currentSchemaVersion /\ Migrated(f).markers = cutoverMarkers
      /\ Migrated(f).tables = built
  BY <1>2
<1> QED
  BY <1>1, <1>3

\* Every column of the table the file has, or a step adds; a table it does not have is made
\* and brought up by the steps, or by the schema.
Reached(v, t) ==
    IF HasTable(v, t) THEN \A c \in schemaDDL[t] : c <= v \/ <<t, c>> \in Altered(v)
    ELSE \/ \A c \in schemaDDL[t] : <<t, c>> \notin Created(v)
         \/ \A c \in schemaDDL[t] : <<t, c>> \in Created(v) \cup Altered(v)

LEMMA ReachedColumns ==
    ASSUME NEW v, NEW t \in Tables, Reached(v, t)
    PROVE  ColumnsIn(FileAt(v), t) = schemaDDL[t]
<1> DEFINE made == {c \in schemaDDL[t] : <<t, c>> \in Created(v)}
           added == {c \in schemaDDL[t] : <<t, c>> \in Altered(v)}
<1>0. FileAt(v).version = v
  BY FileFields
<1>1. CASE HasTable(v, t)
  <2>1. t \in DOMAIN FileAt(v).tables /\ FileAt(v).tables[t] = {c \in schemaDDL[t] : c <= v}
    BY <1>1, FileFields
  <2>2. ColumnsIn(FileAt(v), t) = {c \in schemaDDL[t] : c <= v} \cup added
    BY <1>0, <2>1 DEF ColumnsIn
  <2>3. \A c \in schemaDDL[t] : c <= v \/ <<t, c>> \in Altered(v)
    BY <1>1 DEF Reached
  <2> QED
    BY <2>2, <2>3
<1>2. CASE ~HasTable(v, t)
  <2>1. t \notin DOMAIN FileAt(v).tables
    BY <1>2, FileFields
  <2>2. ColumnsIn(FileAt(v), t) = IF made # {} THEN made \cup added ELSE schemaDDL[t]
    BY <1>0, <2>1 DEF ColumnsIn
  <2>3. made = {} \/ \A c \in schemaDDL[t] : c \in made \cup added
    BY <1>2 DEF Reached
  <2> QED
    BY <2>2, <2>3
<1> QED
  BY <1>1, <1>2

StartsSound(v) == v \in 0 .. currentSchemaVersion /\ v \notin BeforeSteps

\* Table by table: what the steps add to it, and which step makes it.
LEMMA EachReached ==
    ASSUME NEW v, StartsSound(v), NEW t \in Tables \ WithoutStep
    PROVE  Reached(v, t)
<1> USE DEF When
<1>1. v \in 0 .. 40 /\ v \notin 2 .. 4
  BY DEF StartsSound, BeforeSteps, currentSchemaVersion
<1>2. Reached(v, "runs")
  <2>1. schemaDDL["runs"] = {3, 6, 10, 12, 16, 39}
    BY DEF schemaDDL
  <2>2. /\ 5 <= v /\ v < 6 => <<"runs", 6>> \in Altered(v)
        /\ 3 <= v /\ v < 10 => <<"runs", 10>> \in Altered(v)
        /\ 3 <= v /\ v < 12 => <<"runs", 12>> \in Altered(v)
        /\ 3 <= v /\ v < 16 => <<"runs", 16>> \in Altered(v)
        /\ 3 <= v /\ v < 39 => <<"runs", 39>> \in Altered(v)
    BY <1>1 DEF Altered, V6, V10, V12, V16, V39
  <2>3. \A c : <<"runs", c>> \notin Created(v)
    BY DEF Created, V20, V22, V24, V34, V35
  <2> QED
    BY <1>1, <2>1, <2>2, <2>3 DEF Reached, HasTable
<1>3. Reached(v, "dispatches")
  <2>1. schemaDDL["dispatches"] = {2, 6, 11, 12, 18}
    BY DEF schemaDDL
  <2>2. /\ 5 <= v /\ v < 6 => <<"dispatches", 6>> \in Altered(v)
        /\ 2 <= v /\ v < 11 => <<"dispatches", 11>> \in Altered(v)
        /\ 2 <= v /\ v < 12 => <<"dispatches", 12>> \in Altered(v)
        /\ 2 <= v /\ v < 18 => <<"dispatches", 18>> \in Altered(v)
    BY <1>1 DEF Altered, V6, V11, V12, V18
  <2>3. \A c : <<"dispatches", c>> \notin Created(v)
    BY DEF Created, V20, V22, V24, V34, V35
  <2> QED
    BY <1>1, <2>1, <2>2, <2>3 DEF Reached, HasTable
<1>4. Reached(v, "run_artifacts")
  <2>1. schemaDDL["run_artifacts"] = {4, 6, 8}
    BY DEF schemaDDL
  <2>2. /\ 5 <= v /\ v < 6 => <<"run_artifacts", 6>> \in Altered(v)
        /\ 4 <= v /\ v < 8 => <<"run_artifacts", 8>> \in Altered(v)
    BY <1>1 DEF Altered, V6, V8
  <2>3. \A c : <<"run_artifacts", c>> \notin Created(v)
    BY DEF Created, V20, V22, V24, V34, V35
  <2> QED
    BY <1>1, <2>1, <2>2, <2>3 DEF Reached, HasTable
<1>5. Reached(v, "phase_events")
  <2>1. schemaDDL["phase_events"] = {3, 21}
    BY DEF schemaDDL
  <2>2. 3 <= v /\ v < 21 => <<"phase_events", 21>> \in Altered(v)
    BY <1>1 DEF Altered, V21
  <2>3. \A c : <<"phase_events", c>> \notin Created(v)
    BY DEF Created, V20, V22, V24, V34, V35
  <2> QED
    BY <1>1, <2>1, <2>2, <2>3 DEF Reached, HasTable
<1>6. Reached(v, "dispatch_events")
  <2>1. schemaDDL["dispatch_events"] = {5, 21}
    BY DEF schemaDDL
  <2>2. 5 <= v /\ v < 21 => <<"dispatch_events", 21>> \in Altered(v)
    BY <1>1 DEF Altered, V21
  <2>3. \A c : <<"dispatch_events", c>> \notin Created(v)
    BY DEF Created, V20, V22, V24, V34, V35
  <2> QED
    BY <1>1, <2>1, <2>2, <2>3 DEF Reached, HasTable
<1>7. Reached(v, "audit_log")
  <2>1. schemaDDL["audit_log"] = {15, 23}
    BY DEF schemaDDL
  <2>2. 15 <= v /\ v < 23 => <<"audit_log", 23>> \in Altered(v)
    BY <1>1 DEF Altered, V23
  <2>3. \A c : <<"audit_log", c>> \notin Created(v)
    BY DEF Created, V20, V22, V24, V34, V35
  <2> QED
    BY <1>1, <2>1, <2>2, <2>3 DEF Reached, HasTable
<1>8. Reached(v, "coordination_locks")
  <2>1. schemaDDL["coordination_locks"] = {20}
    BY DEF schemaDDL
  <2>2. \A c : <<"coordination_locks", c>> \in Created(v) <=> c = 20 /\ 19 <= v /\ v < 20
    BY <1>1 DEF Created, V20, V22, V24, V34, V35
  <2> QED
    BY <1>1, <2>1, <2>2 DEF Reached, HasTable
<1>9. Reached(v, "coordination_events")
  <2>1. schemaDDL["coordination_events"] = {20, 21}
    BY DEF schemaDDL
  <2>2. 19 <= v /\ v < 21 => <<"coordination_events", 21>> \in Altered(v)
    BY <1>1 DEF Altered, V21
  <2>3. \A c : <<"coordination_events", c>> \in Created(v) <=> c = 20 /\ 19 <= v /\ v < 20
    BY <1>1 DEF Created, V20, V22, V24, V34, V35
  <2> QED
    BY <1>1, <2>1, <2>2, <2>3 DEF Reached, HasTable
<1>10. Reached(v, "run_replay_inputs")
  <2>1. schemaDDL["run_replay_inputs"] = {22}
    BY DEF schemaDDL
  <2>2. \A c : <<"run_replay_inputs", c>> \in Created(v) <=> c = 22 /\ 3 <= v /\ v < 22
    BY <1>1 DEF Created, V20, V22, V24, V34, V35
  <2> QED
    BY <1>1, <2>1, <2>2 DEF Reached, HasTable
<1>11. Reached(v, "review_events")
  <2>1. schemaDDL["review_events"] = {24, 28}
    BY DEF schemaDDL
  <2>2. 20 <= v /\ v < 28 => <<"review_events", 28>> \in Altered(v)
    BY <1>1 DEF Altered, V28
  <2>3. \A c : <<"review_events", c>> \in Created(v) <=> c = 24 /\ 20 <= v /\ v < 24
    BY <1>1 DEF Created, V20, V22, V24, V34, V35
  <2> QED
    BY <1>1, <2>1, <2>2, <2>3 DEF Reached, HasTable
<1>12. Reached(v, "authorizations")
  <2>1. schemaDDL["authorizations"] = {32, 33}
    BY DEF schemaDDL
  <2>2. 32 <= v /\ v < 33 => <<"authorizations", 33>> \in Altered(v)
    BY <1>1 DEF Altered, V33
  <2>3. \A c : <<"authorizations", c>> \notin Created(v)
    BY DEF Created, V20, V22, V24, V34, V35
  <2> QED
    BY <1>1, <2>1, <2>2, <2>3 DEF Reached, HasTable
<1>13. Reached(v, "authz_tokens")
  <2>1. schemaDDL["authz_tokens"] = {34}
    BY DEF schemaDDL
  <2>2. \A c : <<"authz_tokens", c>> \in Created(v) <=> c = 34 /\ 33 <= v /\ v < 34
    BY <1>1 DEF Created, V20, V22, V24, V34, V35
  <2> QED
    BY <1>1, <2>1, <2>2 DEF Reached, HasTable
<1>14. Reached(v, "action_receipts")
  <2>1. schemaDDL["action_receipts"] = {35}
    BY DEF schemaDDL
  <2>2. \A c : <<"action_receipts", c>> \in Created(v) <=> c = 35 /\ 34 <= v /\ v < 35
    BY <1>1 DEF Created, V20, V22, V24, V34, V35
  <2> QED
    BY <1>1, <2>1, <2>2 DEF Reached, HasTable
<1>15. Tables \ WithoutStep \subseteq
        {"runs", "dispatches", "run_artifacts", "phase_events", "dispatch_events", "audit_log",
         "coordination_locks", "coordination_events", "run_replay_inputs", "review_events", "authorizations",
          "authz_tokens", "action_receipts"}
  BY DEF Tables, schemaDDL, WithoutStep
<1> QED
  BY <1>2, <1>3, <1>4, <1>5, <1>6, <1>7, <1>8, <1>9, <1>10, <1>11, <1>12, <1>13, <1>14, <1>15

\* A file whose tables with steps have all their columns.
Complete(f) ==
    /\ \A t \in Tables \ WithoutStep : f.tables[t] = schemaDDL[t]
    /\ f.markers = cutoverMarkers

\* The file is as it was found until a migration is through, and every copy is of it.
\* Then it has what the steps promise, whoever renumbers it.
SchemaInv ==
    /\ found \in 0 .. currentSchemaVersion + 1
    /\ db.version \in found .. currentSchemaVersion + 1
    /\ DOMAIN db.tables \subseteq Tables
    /\ DOMAIN backups = 0 .. LastBackupSecond /\ nowSecond \in 0 .. LastBackupSecond
    /\ DOMAIN opener = Openers
    /\ found <= currentSchemaVersion /\ found \notin BeforeSteps /\ db.version >= currentSchemaVersion
          => Complete(db)
    /\ db.version < currentSchemaVersion =>
          /\ db = FileAt(found) /\ onDisk = found
          /\ \A s \in 0 .. LastBackupSecond : backups[s] \subseteq {found}
          /\ found > 0 /\ (\E p \in Openers : opener[p] = "copied") =>
                \E s \in 0 .. LastBackupSecond : found \in backups[s]

LEMMA FileCurrent ==
    ASSUME NEW v, v = currentSchemaVersion
    PROVE  Complete(FileAt(v))
<1>1. v = 40
  BY DEF currentSchemaVersion
<1>2. \A t \in Tables \ WithoutStep : \A c \in schemaDDL[t] : c <= v
  BY <1>1 DEF Tables, schemaDDL, WithoutStep
<1>3. \A t \in Tables \ WithoutStep : \E c \in schemaDDL[t] : TRUE
  BY DEF Tables, schemaDDL, WithoutStep
<1>4. ASSUME NEW t \in Tables \ WithoutStep PROVE FileAt(v).tables[t] = schemaDDL[t]
  <2>1. HasTable(v, t)
    BY <1>2, <1>3 DEF HasTable
  <2>2. FileAt(v).tables[t] = {c \in schemaDDL[t] : c <= v}
    BY <2>1, FileFields
  <2> QED
    BY <1>2, <2>2
<1>5. FileAt(v).markers = cutoverMarkers
  BY <1>1, FileFields DEF cutoverMarkers
<1> QED
  BY <1>4, <1>5 DEF Complete

LEMMA MigratedComplete ==
    ASSUME NEW v, StartsSound(v)
    PROVE  Complete(Migrated(FileAt(v)))
BY EachReached, ReachedColumns, MigratedFields DEF Complete

LEMMA SchemaInvInit == SchemaInit => SchemaInv
<1> SUFFICES ASSUME SchemaInit PROVE SchemaInv
  OBVIOUS
<1>1. found \in 0 .. 41 /\ LastBackupSecond \in Nat
  BY SchemaAssumption DEF SchemaInit, currentSchemaVersion
<1>2. /\ db = FileAt(found) /\ db.version = found /\ onDisk = found
      /\ \A t : t \in DOMAIN db.tables => t \in Tables
  BY FileFields DEF SchemaInit
<1>3. /\ DOMAIN backups = 0 .. LastBackupSecond /\ \A s \in 0 .. LastBackupSecond : backups[s] = {}
      /\ DOMAIN opener = Openers /\ (\A p \in Openers : opener[p] = "closed") /\ nowSecond = 0
  BY DEF SchemaInit
<1>4. found = currentSchemaVersion => Complete(db)
  BY <1>2, FileCurrent
<1>5. DOMAIN db.tables \subseteq Tables
  BY <1>2
<1> QED
  BY <1>1, <1>2, <1>3, <1>4, <1>5 DEF SchemaInv, currentSchemaVersion

\* What a migration does to the file, if anything.
LEMMA MigrationStep ==
    ASSUME SchemaInv, db' = Migrated(db), db.version < currentSchemaVersion,
           UNCHANGED <<onDisk, backups, nowSecond, found>>, DOMAIN opener' = Openers
    PROVE  SchemaInv' /\ ForwardOnly
<1>1. db = FileAt(found) /\ found \in 0 .. 40 /\ db.version = found
  BY FileFields DEF SchemaInv, currentSchemaVersion
<1>2. db'.version = 40 /\ DOMAIN db'.tables = Tables /\ \A t \in Tables : db'.tables[t] = ColumnsIn(db, t)
  BY MigratedFields DEF currentSchemaVersion
<1>3. found \notin BeforeSteps => Complete(db')
  BY <1>1, MigratedComplete DEF StartsSound, currentSchemaVersion
<1>4. SchemaInv'
  BY <1>1, <1>2, <1>3 DEF SchemaInv, currentSchemaVersion, Complete
<1>5. \A t \in DOMAIN db.tables : db.tables[t] \subseteq db'.tables[t]
  BY <1>2 DEF SchemaInv, ColumnsIn
<1> QED
  BY <1>1, <1>2, <1>4, <1>5 DEF ForwardOnly

LEMMA RenumberStep ==
    ASSUME SchemaInv, NewerMigrates
    PROVE  SchemaInv' /\ ForwardOnly /\ db'.version # currentSchemaVersion
<1>1. PICK f : f = db
  OBVIOUS
<1>2. f.version = 40 /\ db' = [f EXCEPT !.version = 41]
  BY <1>1 DEF NewerMigrates, currentSchemaVersion
<1>3. db'.version = 41 /\ db'.tables = f.tables /\ db'.markers = f.markers
  BY <1>2
<1>4. UNCHANGED <<onDisk, backups, opener, nowSecond, found>>
  BY DEF NewerMigrates
<1>5. Complete(db) => Complete(db')
  BY <1>1, <1>3 DEF Complete
<1>6. SchemaInv'
  <2>1. db.version = 40 /\ db'.version = 41 /\ db'.tables = db.tables
    BY <1>1, <1>2, <1>3
  <2>2. found \in 0 .. 40 /\ (found \notin BeforeSteps => Complete(db'))
    BY <1>5, <2>1 DEF SchemaInv, currentSchemaVersion
  <2> QED
    BY <1>4, <2>1, <2>2 DEF SchemaInv, Complete, currentSchemaVersion
<1>7. ForwardOnly
  BY <1>1, <1>2, <1>3 DEF ForwardOnly
<1> QED
  BY <1>3, <1>6, <1>7 DEF currentSchemaVersion

LEMMA SchemaInvStep ==
    ASSUME SchemaInv, [SchemaNext]_schemaVars
    PROVE  SchemaInv' /\ [ForwardOnly /\ BackedUpFirst]_db
<1>1. ASSUME NEW p \in Openers, OpenFile(p) \/ Health(p)
      PROVE  SchemaInv' /\ UNCHANGED db
  <2>1. /\ UNCHANGED <<db, onDisk, backups, nowSecond, found>> /\ DOMAIN opener' = Openers
        /\ \A q \in Openers : opener'[q] = "copied" => opener[q] = "copied"
    BY <1>1 DEF OpenFile, Health, SchemaInv
  <2> QED
    BY <2>1 DEF SchemaInv, Complete
<1>2. ASSUME NEW p \in Openers, Backup(p)
      PROVE  SchemaInv' /\ UNCHANGED db
  <2>1. /\ UNCHANGED <<db, onDisk, nowSecond, found>> /\ DOMAIN opener' = Openers
        /\ backups' = IF onDisk = 0 THEN backups ELSE [backups EXCEPT ![nowSecond] = {onDisk}]
    BY <1>2 DEF Backup, SchemaInv
  <2>2. db.version < currentSchemaVersion /\ found > 0 =>
          \E s \in 0 .. LastBackupSecond : found \in backups'[s]
    BY <2>1 DEF SchemaInv
  <2> QED
    BY <2>1, <2>2 DEF SchemaInv, Complete
<1>3. ASSUME NEW p \in Openers, Migrate(p)
      PROVE  SchemaInv' /\ [ForwardOnly /\ BackedUpFirst]_db
  <2>1. /\ opener[p] = "copied" /\ UNCHANGED <<onDisk, backups, nowSecond, found>> /\ DOMAIN opener' = Openers
        /\ \A q \in Openers : opener'[q] = "copied" => opener[q] = "copied"
    BY <1>3 DEF Migrate, SchemaInv
  <2>2. CASE UNCHANGED db
    BY <2>1, <2>2 DEF SchemaInv, Complete
  <2>3. CASE db' = Migrated(db) /\ ~(db.version >= currentSchemaVersion)
    <3>1. db.version < currentSchemaVersion
      BY <2>3 DEF SchemaInv, currentSchemaVersion
    <3>2. SchemaInv' /\ ForwardOnly
      BY <2>1, <2>3, <3>1, MigrationStep
    <3>3. db.version = found
      BY <3>1, FileFields DEF SchemaInv
    <3>4. BackedUpFirst
      BY <2>1, <3>1, <3>3 DEF SchemaInv, BackedUpFirst
    <3> QED
      BY <3>2, <3>4
  <2> QED
    BY <1>3, <2>2, <2>3 DEF Migrate
<1>4. ASSUME NEW p \in Openers, Close(p)
      PROVE  SchemaInv' /\ UNCHANGED db
  <2>1. /\ UNCHANGED <<db, backups, nowSecond, found>> /\ onDisk' \in {onDisk, db.version}
        /\ DOMAIN opener' = Openers
        /\ \A q \in Openers : opener'[q] = "copied" => opener[q] = "copied"
    BY <1>4 DEF Close, SchemaInv
  <2>2. db.version < currentSchemaVersion => db.version = found
    BY FileFields DEF SchemaInv
  <2> QED
    BY <2>1, <2>2 DEF SchemaInv, Complete
<1>5. CASE NewerMigrates
  BY <1>5, RenumberStep DEF BackedUpFirst
<1>6. CASE BackupSecondPasses
  <2>1. /\ nowSecond' = nowSecond + 1 /\ nowSecond < LastBackupSecond
        /\ UNCHANGED <<db, onDisk, backups, opener, found>>
    BY <1>6 DEF BackupSecondPasses
  <2> QED
    BY <2>1, SchemaAssumption DEF SchemaInv, Complete
<1>7. CASE UNCHANGED schemaVars
  BY <1>7 DEF schemaVars, SchemaInv, Complete
<1> QED
  BY <1>1, <1>2, <1>3, <1>4, <1>5, <1>6, <1>7 DEF SchemaNext

(* Whatever version the file is found at and however processes open, copy,    *)
(* migrate and die: a migration that goes through gives every table that has  *)
(* a step all its columns, never takes one away, never touches a later file,  *)
(* and what it replaces was copied before.                                    *)
THEOREM MigrationsAreSafe == SchemaSpec => MigratesSafely
<1>1. SchemaInv => StepsReachTheirTables
  BY DEF SchemaInv, StepsReachTheirTables, Complete, Tables, currentSchemaVersion
<1> QED
  BY <1>1, SchemaInvInit, SchemaInvStep, PTL DEF SchemaSpec, MigratesSafely

---------------------------------------------------------------------------
(* Runs and their actions *)

NewRun == [parent : Nat, replay : BOOLEAN, asked : SUBSET (Phases \X Commands)]
CommandRow ==
    [pc : {"idle", "created", "batch", "stage", "agents", "models"}, run : Nat, todo : Seq(STRING),
     settings : SettingsOf \cup {0}]

EverMade == DOMAIN phaseActions \cup dropped
StageDone(r, ph) ==
    (\E cmd \in Commands : <<r, ph, cmd>> \in EverMade) /\ <<r, ph>> \in DOMAIN agencyState

\* What a command under way has made so far; a load, every stage it is past.
CommandTrue(c) ==
    /\ c \in CommandRow
    /\ c.pc \in {"created", "batch"} => c.run \in DOMAIN runs
    /\ c.pc = "batch" => runs[c.run].replay
    /\ c.pc \in {"stage", "agents", "models"} =>
          c.todo # <<>> /\ \A ph \in Phases \ Range(c.todo) : StageDone(c.run, ph)
    /\ c.pc = "models" => \E cmd \in Commands : <<c.run, Head(c.todo), cmd>> \in EverMade

ReportTrue(s) ==
    /\ s.of = "created" =>
          /\ s.run \in DOMAIN runs /\ runs[s.run].replay
          /\ \A a \in runs[s.run].asked : <<s.run, a[1], a[2]>> \in EverMade
    /\ s.of = "portfolio" =>
          \E i, j \in DOMAIN runs : i # j /\ runs[i].parent = s.run /\ runs[j].parent = s.run
    /\ s.of = "loaded" => \A ph \in Phases : StageDone(s.run, ph)

ActionsInv ==
    /\ runs \in Seq(NewRun)
    /\ DOMAIN commanding = Commanders /\ DOMAIN shown = Commanders
    /\ \A p \in Commanders : CommandTrue(commanding[p]) /\ ReportTrue(shown[p])

\* Rows of runs stay, with what they asked for and their parent; what was made is
\* there or was deleted.
ActionsGrown ==
    /\ \A r \in DOMAIN runs :
          /\ r \in DOMAIN runs' /\ runs'[r].parent = runs[r].parent /\ runs'[r].asked = runs[r].asked
          /\ runs[r].replay => runs'[r].replay
    /\ EverMade \subseteq EverMade' /\ DOMAIN agencyState \subseteq DOMAIN agencyState'

LEMMA GrownKeepsStages ==
    ASSUME ActionsGrown, NEW r, NEW ph, StageDone(r, ph)
    PROVE  StageDone(r, ph)'
BY DEF ActionsGrown, StageDone

LEMMA GrownKeepsCommand ==
    ASSUME ActionsGrown, NEW c, CommandTrue(c)
    PROVE  CommandTrue(c)'
<1>1. \A ph : StageDone(c.run, ph) => StageDone(c.run, ph)'
  BY GrownKeepsStages
<1>2. \A cmd : <<c.run, Head(c.todo), cmd>> \in EverMade => <<c.run, Head(c.todo), cmd>> \in EverMade'
  BY DEF ActionsGrown
<1> QED
  BY <1>1, <1>2 DEF ActionsGrown, CommandTrue

LEMMA GrownKeepsReport ==
    ASSUME ActionsGrown, NEW s, ReportTrue(s)
    PROVE  ReportTrue(s)'
<1>1. \A ph : StageDone(s.run, ph) => StageDone(s.run, ph)'
  BY GrownKeepsStages
<1>2. s.of = "created" => \A a \in runs'[s.run].asked : <<s.run, a[1], a[2]>> \in EverMade'
  BY DEF ActionsGrown, ReportTrue
<1>3. s.of = "portfolio" =>
        \E i, j \in DOMAIN runs' : i # j /\ runs'[i].parent = s.run /\ runs'[j].parent = s.run
  BY DEF ActionsGrown, ReportTrue
<1> QED
  BY <1>1, <1>2, <1>3 DEF ActionsGrown, ReportTrue

\* A step of one process that leaves true what it knows and says.
LEMMA ActionsStep ==
    ASSUME ActionsInv, ActionsGrown, runs' \in Seq(NewRun), NEW p \in Commanders, NEW c, NEW s,
           DOMAIN commanding' = Commanders, DOMAIN shown' = Commanders,
           \A q \in Commanders : /\ commanding'[q] = IF q = p THEN c ELSE commanding[q]
                                /\ shown'[q] = IF q = p THEN s ELSE shown[q],
           CommandTrue(c)', ReportTrue(s)'
    PROVE  ActionsInv'
<1>1. ASSUME NEW q \in Commanders, q = p
      PROVE  CommandTrue(commanding[q])' /\ ReportTrue(shown[q])'
  <2>1. commanding'[q] = c /\ shown'[q] = s
    BY <1>1
  <2> QED
    BY <2>1 DEF CommandTrue, ReportTrue, StageDone
<1>2. ASSUME NEW q \in Commanders, q # p
      PROVE  CommandTrue(commanding[q])' /\ ReportTrue(shown[q])'
  <2>1. PICK d, t : d = commanding[q] /\ t = shown[q]
    OBVIOUS
  <2>2. commanding'[q] = d /\ shown'[q] = t
    BY <1>2, <2>1
  <2>3. CommandTrue(d)' /\ ReportTrue(t)'
    BY <2>1, GrownKeepsCommand, GrownKeepsReport DEF ActionsInv
  <2> QED
    BY <2>2, <2>3 DEF CommandTrue, ReportTrue, StageDone
<1> QED
  BY <1>1, <1>2 DEF ActionsInv

LEMMA IdleTrue == CommandTrue(NoCommand) /\ CommandTrue(NoCommand)'
BY DEF CommandTrue, NoCommand, CommandRow

\* A command ends with a report.
LEMMA ReportStep ==
    ASSUME ActionsInv, ActionsGrown, runs' \in Seq(NewRun), NEW p \in Commanders, NEW what, NEW r,
           Report(p, what, r),
           NEW s, s = [of |-> what, run |-> r], ReportTrue(s)'
    PROVE  ActionsInv'
<1>1. PICK c : c = NoCommand
  OBVIOUS
<1>2. /\ DOMAIN commanding' = Commanders /\ DOMAIN shown' = Commanders
      /\ \A q \in Commanders : /\ commanding'[q] = IF q = p THEN c ELSE commanding[q]
                               /\ shown'[q] = IF q = p THEN s ELSE shown[q]
  BY <1>1 DEF Report, ActionsInv
<1>3. CommandTrue(c)'
  BY <1>1, IdleTrue DEF CommandTrue, StageDone
<1> QED
  BY <1>2, <1>3, ActionsStep

\* Any other report than the three that say something.
LEMMA PlainStep ==
    ASSUME ActionsInv, ActionsGrown, runs' \in Seq(NewRun), NEW p \in Commanders, NEW what, NEW r,
           Report(p, what, r), what \notin {"created", "portfolio", "loaded"}
    PROVE  ActionsInv'
<1>1. PICK s : s = [of |-> what, run |-> r]
  OBVIOUS
<1>2. ReportTrue(s)'
  BY <1>1 DEF ReportTrue
<1> QED
  BY <1>1, <1>2, ReportStep

\* A command goes on, with a blank report or the one it has.
LEMMA GoesOnStep ==
    ASSUME ActionsInv, ActionsGrown, runs' \in Seq(NewRun), NEW p \in Commanders, NEW c,
           DOMAIN commanding' = Commanders,
           \A q \in Commanders : commanding'[q] = IF q = p THEN c ELSE commanding[q],
           shown' = [shown EXCEPT ![p] = NoReport] \/ shown' = shown,
           CommandTrue(c)'
    PROVE  ActionsInv'
<1>1. CASE shown' = [shown EXCEPT ![p] = NoReport]
  <2>1. PICK s : s = NoReport
    OBVIOUS
  <2>2. /\ DOMAIN shown' = Commanders
        /\ \A q \in Commanders : shown'[q] = IF q = p THEN s ELSE shown[q]
    BY <1>1, <2>1 DEF ActionsInv
  <2>3. ReportTrue(s)'
    BY <2>1 DEF ReportTrue, NoReport
  <2> QED
    BY <2>2, <2>3, ActionsStep
<1>2. CASE shown' = shown
  <2>1. PICK s : s = shown[p]
    OBVIOUS
  <2>2. /\ DOMAIN shown' = Commanders
        /\ \A q \in Commanders : shown'[q] = IF q = p THEN s ELSE shown[q]
    BY <1>2, <2>1 DEF ActionsInv
  <2>3. ReportTrue(s)'
    BY <2>1, GrownKeepsReport DEF ActionsInv
  <2> QED
    BY <2>2, <2>3, ActionsStep
<1> QED
  BY <1>1, <1>2

WithPc(c, pc) == [c EXCEPT !.pc = pc]
WithRun(c, r) == [c EXCEPT !.run = r]
WithTodo(c, todo) == [c EXCEPT !.todo = todo]
WithSettings(c, s) == [c EXCEPT !.settings = s]
Pcs == {"idle", "created", "batch", "stage", "agents", "models"}

LEMMA CommandFields ==
    ASSUME NEW c \in CommandRow
    PROVE  /\ \A pc \in Pcs : /\ WithPc(c, pc) \in CommandRow /\ WithPc(c, pc).pc = pc
                              /\ WithPc(c, pc).run = c.run /\ WithPc(c, pc).todo = c.todo
           /\ \A r \in Nat : /\ WithRun(c, r) \in CommandRow /\ WithRun(c, r).run = r
                             /\ WithRun(c, r).pc = c.pc /\ WithRun(c, r).todo = c.todo
           /\ \A t \in Seq(STRING) : /\ WithTodo(c, t) \in CommandRow /\ WithTodo(c, t).todo = t
                             /\ WithTodo(c, t).pc = c.pc /\ WithTodo(c, t).run = c.run
           /\ \A s \in SettingsOf : /\ WithSettings(c, s) \in CommandRow
                             /\ WithSettings(c, s).pc = c.pc /\ WithSettings(c, s).run = c.run
                             /\ WithSettings(c, s).todo = c.todo
BY DEF CommandRow, WithPc, WithRun, WithTodo, WithSettings, Pcs

\* What a step leaves alone has grown.
LEMMA GrownSame ==
    ASSUME UNCHANGED <<runs, phaseActions, agencyState, dropped>>
    PROVE  ActionsGrown
BY DEF ActionsGrown, EverMade

LEMMA RowAppended ==
    ASSUME ActionsInv, NEW row \in NewRun, runs' = Append(runs, row),
           UNCHANGED <<phaseActions, agencyState, dropped>>
    PROVE  ActionsGrown /\ runs' \in Seq(NewRun) /\ Len(runs) + 1 \in DOMAIN runs' /\ Len(runs) + 1 \in Nat
BY DEF ActionsGrown, EverMade, ActionsInv

LEMMA CreateKeeps ==
    ASSUME ActionsInv, NEW p \in Commanders, Create(p)
    PROVE  ActionsInv'
<1>1. PICK asked \in SUBSET (Phases \X Commands) : runs' = Append(runs, RunRow(0, asked))
  BY DEF Create
<1>2. PICK row : row = RunRow(0, asked)
  OBVIOUS
<1>3. row \in NewRun
  BY <1>2 DEF RunRow, NewRun
<1>4. ActionsGrown /\ runs' \in Seq(NewRun) /\ Len(runs) + 1 \in DOMAIN runs' /\ Len(runs) + 1 \in Nat
  BY <1>1, <1>2, <1>3, RowAppended DEF Create
<1>5. PICK c1, c : c1 = WithPc(commanding[p], "created") /\ c = WithRun(c1, Len(runs) + 1)
  OBVIOUS
<1>6. /\ DOMAIN commanding' = Commanders
      /\ \A q \in Commanders : commanding'[q] = IF q = p THEN c ELSE commanding[q]
  BY <1>5 DEF Create, ActionsInv, WithRun, WithPc
<1>7. c \in CommandRow /\ c.pc = "created" /\ c.run = Len(runs) + 1
  <2>1. commanding[p] \in CommandRow
    BY DEF ActionsInv, CommandTrue
  <2>2. c1 \in CommandRow /\ c1.pc = "created"
    BY <1>5, <2>1, CommandFields DEF Pcs
  <2> QED
    BY <1>4, <1>5, <2>2, CommandFields
<1>8. CommandTrue(c)'
  BY <1>4, <1>7 DEF CommandTrue
<1> QED
  BY <1>4, <1>6, <1>8, GoesOnStep DEF Create

WithReplay(row) == [row EXCEPT !.replay = TRUE]

LEMMA RecordKeeps ==
    ASSUME ActionsInv, NEW p \in Commanders, RecordRunID(p)
    PROVE  ActionsInv'
<1>1. PICK r : r = commanding[p].run
  OBVIOUS
<1>2. PICK row : row = WithReplay(runs[r])
  OBVIOUS
<1>3. r \in DOMAIN runs /\ commanding[p] \in CommandRow /\ runs \in Seq(NewRun)
  BY <1>1 DEF RecordRunID, ActionsInv, CommandTrue
<1>4. row \in NewRun /\ row.replay /\ row.parent = runs[r].parent /\ row.asked = runs[r].asked
  <2>1. PICK old : old = runs[r]
    OBVIOUS
  <2>2. old \in NewRun
    BY <1>3, <2>1
  <2>3. row \in NewRun /\ row.parent = old.parent /\ row.asked = old.asked
    BY <1>2, <2>1, <2>2 DEF WithReplay, NewRun
  <2>4. row.replay
    BY <1>2, <2>1, <2>2, Zenon DEF WithReplay, NewRun
  <2> QED
    BY <2>1, <2>3, <2>4
<1>5. runs' = [runs EXCEPT ![r] = row]
  BY <1>1, <1>2 DEF RecordRunID, WithReplay
<1>6. /\ runs' \in Seq(NewRun) /\ DOMAIN runs' = DOMAIN runs
      /\ \A k \in DOMAIN runs : runs'[k] = IF k = r THEN row ELSE runs[k]
  BY <1>3, <1>4, <1>5
<1>7. ActionsGrown
  BY <1>3, <1>4, <1>6 DEF RecordRunID, ActionsGrown, EverMade
<1>8. CASE runs[r].asked = {}
  <2>1. PICK s : s = [of |-> "created", run |-> r]
    OBVIOUS
  <2>2. ReportTrue(s)'
    BY <1>3, <1>4, <1>6, <1>8, <2>1 DEF ReportTrue
  <2> QED
    BY <1>1, <1>6, <1>7, <1>8, <2>1, <2>2, ReportStep DEF RecordRunID
<1>9. CASE runs[r].asked # {}
  <2>1. PICK c : c = WithPc(commanding[p], "batch")
    OBVIOUS
  <2>2. c \in CommandRow /\ c.pc = "batch" /\ c.run = r
    BY <1>1, <1>3, <2>1, CommandFields DEF Pcs
  <2>3. /\ DOMAIN commanding' = Commanders /\ shown' = shown
        /\ \A q \in Commanders : commanding'[q] = IF q = p THEN c ELSE commanding[q]
    BY <1>1, <1>9, <2>1 DEF RecordRunID, ActionsInv, WithPc
  <2>4. CommandTrue(c)'
    BY <1>3, <1>4, <1>6, <2>2 DEF CommandTrue
  <2> QED
    BY <1>6, <1>7, <2>3, <2>4, GoesOnStep
<1> QED
  BY <1>8, <1>9

\* Of the actions, a step adds some or deletes some.
LEMMA ActionsMade ==
    ASSUME UNCHANGED <<runs, agencyState>>, EverMade \subseteq EverMade'
    PROVE  ActionsGrown
BY DEF ActionsGrown

LEMMA BatchKeeps ==
    ASSUME ActionsInv, NEW p \in Commanders, AddBatch(p)
    PROVE  ActionsInv' /\ \A k \in DOMAIN phaseActions : phaseActions'[k] = phaseActions[k]
<1>1. PICK r : r = commanding[p].run
  OBVIOUS
<1>2. PICK keys : keys = {<<r, a[1], a[2]>> : a \in runs[r].asked}
  OBVIOUS
<1>3. r \in DOMAIN runs /\ runs[r].replay /\ runs \in Seq(NewRun)
  BY <1>1 DEF AddBatch, ActionsInv, CommandTrue
<1>4. UNCHANGED <<runs, agencyState, dropped>>
  BY DEF AddBatch
<1>5. CASE keys \cap DOMAIN phaseActions # {}
  <2>1. Report(p, "failed", r) /\ UNCHANGED phaseActions
    BY <1>1, <1>2, <1>5 DEF AddBatch
  <2> QED
    BY <1>3, <1>4, <2>1, GrownSame, PlainStep
<1>6. CASE keys \cap DOMAIN phaseActions = {}
  <2>1. Report(p, "created", r) /\ \E s \in SettingsOf : phaseActions' = Put(phaseActions, keys, s)
    BY <1>1, <1>2, <1>6 DEF AddBatch
  <2>2. /\ DOMAIN phaseActions' = keys \cup DOMAIN phaseActions
        /\ \A k \in DOMAIN phaseActions : phaseActions'[k] = phaseActions[k]
    BY <1>6, <2>1 DEF Put
  <2>3. ActionsGrown
    BY <1>4, <2>2, ActionsMade DEF EverMade
  <2>4. PICK s : s = [of |-> "created", run |-> r]
    OBVIOUS
  <2>5. ReportTrue(s)'
    BY <1>2, <1>3, <1>4, <2>2, <2>4 DEF ReportTrue, EverMade
  <2> QED
    BY <1>3, <1>4, <2>1, <2>2, <2>3, <2>4, <2>5, ReportStep
<1> QED
  BY <1>5, <1>6

LEMMA PortfolioKeeps ==
    ASSUME ActionsInv, NEW p \in Commanders, CreatePortfolio(p)
    PROVE  ActionsInv'
<1>1. PICK n : n = Len(runs)
  OBVIOUS
<1>2. PICK alone, child : alone = RunRow(0, {}) /\ child = RunRow(n + 1, {})
  OBVIOUS
<1>3. runs \in Seq(NewRun) /\ n \in Nat
  BY <1>1 DEF ActionsInv
<1>4. alone \in NewRun /\ child \in NewRun /\ child.parent = n + 1
  BY <1>2, <1>3 DEF RunRow, NewRun
<1>5. PICK three : three = <<alone, child, child>>
  OBVIOUS
<1>6. three \in Seq(NewRun) /\ Len(three) = 3 /\ three[2] = child /\ three[3] = child
  BY <1>4, <1>5
<1>7. /\ runs' = runs \o three /\ UNCHANGED <<phaseActions, agencyState, dropped>>
      /\ Report(p, "portfolio", n + 1)
  BY <1>1, <1>2, <1>5 DEF CreatePortfolio
<1>8. /\ runs' \in Seq(NewRun) /\ DOMAIN runs' = 1 .. n + 3 /\ DOMAIN runs = 1 .. n
      /\ \A k \in 1 .. n : runs'[k] = runs[k]
      /\ runs'[n + 2] = child /\ runs'[n + 3] = child
  <2>0. runs \o three \in Seq(NewRun) /\ Len(runs \o three) = Len(runs) + Len(three)
    BY <1>3, <1>6, ConcatProperties
  <2>1. runs' \in Seq(NewRun) /\ Len(runs') = n + 3
    BY <1>1, <1>6, <1>7, <2>0
  <2>2. \A k \in 1 .. n + 3 : runs'[k] = IF k <= n THEN runs[k] ELSE three[k - n]
    BY <1>1, <1>3, <1>6, <1>7, ConcatProperties
  <2>3. DOMAIN runs' = 1 .. n + 3 /\ DOMAIN runs = 1 .. n
    BY <1>1, <1>3, <2>1
  <2>4. (n + 2) - n = 2 /\ (n + 3) - n = 3 /\ n + 2 \in 1 .. n + 3 /\ n + 3 \in 1 .. n + 3
        /\ ~(n + 2 <= n) /\ ~(n + 3 <= n)
    BY <1>3
  <2>5. \A k \in 1 .. n : k \in 1 .. n + 3 /\ k <= n
    BY <1>3
  <2> QED
    BY <1>6, <2>1, <2>2, <2>3, <2>4, <2>5
<1>9. ActionsGrown
  BY <1>3, <1>7, <1>8 DEF ActionsGrown, EverMade
<1>10. PICK s : s = [of |-> "portfolio", run |-> n + 1]
  OBVIOUS
<1>11. ReportTrue(s)'
  <2>1. n + 2 \in DOMAIN runs' /\ n + 3 \in DOMAIN runs' /\ n + 2 # n + 3
    BY <1>3, <1>8
  <2> QED
    BY <1>4, <1>8, <1>10, <2>1 DEF ReportTrue
<1> QED
  BY <1>7, <1>8, <1>9, <1>10, <1>11, ReportStep

LEMMA EditKeeps ==
    ASSUME ActionsInv, NEW p \in Commanders, AddAction(p) \/ UpdateAction(p) \/ DeleteAction(p)
    PROVE  ActionsInv' /\ SettingsAreEdited
<1>1. UNCHANGED <<runs, agencyState>> /\ runs' \in Seq(NewRun) /\ DOMAIN shown = Commanders
  BY DEF AddAction, UpdateAction, DeleteAction, ActionsInv
<1>2. CASE AddAction(p)
  <2>1. PICK k \in (DOMAIN runs) \X Phases \X Commands, s \in SettingsOf :
            /\ k \notin DOMAIN phaseActions
            /\ phaseActions' = Put(phaseActions, {k}, s)
            /\ Report(p, "added", k[1])
    BY <1>2, Zenon DEF AddAction
  <2>2. UNCHANGED dropped
    BY <1>2, Zenon DEF AddAction
  <2>3. /\ DOMAIN phaseActions' = DOMAIN phaseActions \cup {k}
        /\ \A j \in DOMAIN phaseActions \ {k} : phaseActions'[j] = phaseActions[j]
    <3>1. phaseActions' = Put(phaseActions, {k}, s)
      BY <2>1, Zenon
    <3> QED
      BY <3>1 DEF Put
  <2>4. ActionsGrown
    BY <1>1, <2>2, <2>3, ActionsMade DEF EverMade
  <2>5. SettingsAreEdited
    BY <2>1, <2>3 DEF SettingsAreEdited
  <2> QED
    BY <1>1, <2>1, <2>4, <2>5, PlainStep
<1>3. CASE UpdateAction(p)
  <2>1. PICK k \in DOMAIN phaseActions, s \in SettingsOf :
            /\ phaseActions' = Put(phaseActions, {k}, s)
            /\ Report(p, "updated", k[1]) /\ UNCHANGED dropped
    BY <1>3, Zenon DEF UpdateAction
  <2>2. /\ DOMAIN phaseActions' = DOMAIN phaseActions \cup {k}
        /\ \A j \in DOMAIN phaseActions \ {k} : phaseActions'[j] = phaseActions[j]
    BY <2>1 DEF Put
  <2>3. ActionsGrown
    BY <1>1, <2>1, <2>2, ActionsMade DEF EverMade
  <2>4. shown'[p] = [of |-> "updated", run |-> k[1]]
    BY <1>1, <2>1, Zenon DEF Report
  <2>5. \A j \in DOMAIN phaseActions : phaseActions'[j] # phaseActions[j] => j = k
    BY <2>2
  <2>6. SettingsAreEdited
    BY <2>4, <2>5, Zenon DEF SettingsAreEdited
  <2> QED
    BY <1>1, <2>1, <2>3, <2>6, PlainStep
<1>4. CASE DeleteAction(p)
  <2>1. PICK k \in DOMAIN phaseActions :
            /\ phaseActions' = Restrict(phaseActions, DOMAIN phaseActions \ {k})
            /\ dropped' = dropped \cup {k} /\ Report(p, "deleted", k[1])
    BY <1>4 DEF DeleteAction
  <2>2. /\ DOMAIN phaseActions' = DOMAIN phaseActions \ {k}
        /\ \A j \in DOMAIN phaseActions \ {k} : phaseActions'[j] = phaseActions[j]
    BY <2>1 DEF Restrict
  <2>3. ActionsGrown
    BY <1>1, <2>1, <2>2, ActionsMade DEF EverMade
  <2>4. SettingsAreEdited
    BY <2>2 DEF SettingsAreEdited
  <2> QED
    BY <1>1, <2>1, <2>3, <2>4, PlainStep
<1> QED
  BY <1>2, <1>3, <1>4

LEMMA LoadKeeps ==
    ASSUME ActionsInv, NEW p \in Commanders, AgencyLoad(p)
    PROVE  ActionsInv'
<1>1. PICK r \in DOMAIN runs : commanding' = [commanding EXCEPT ![p] =
                                [NoCommand EXCEPT !.pc = "stage", !.run = r, !.todo = AgencyStages]]
  BY DEF AgencyLoad
<1>2. PICK c1, c2, c : /\ c1 = WithPc(NoCommand, "stage") /\ c2 = WithRun(c1, r)
                       /\ c = WithTodo(c2, AgencyStages)
  OBVIOUS
<1>3. r \in Nat /\ AgencyStages \in Seq(STRING) /\ NoCommand \in CommandRow
  BY ActionsAssumption, IdleTrue DEF ActionsInv, CommandTrue
<1>4. c1 \in CommandRow /\ c1.pc = "stage"
  BY <1>2, <1>3, CommandFields DEF Pcs
<1>5. c2 \in CommandRow /\ c2.pc = "stage" /\ c2.run = r
  BY <1>2, <1>3, <1>4, CommandFields
<1>6. c \in CommandRow /\ c.pc = "stage" /\ c.run = r /\ c.todo = AgencyStages
  BY <1>2, <1>3, <1>5, CommandFields
<1>7. commanding' = [commanding EXCEPT ![p] = c]
  BY <1>1, <1>2 DEF WithPc, WithRun, WithTodo
<1>8. ActionsGrown /\ runs' \in Seq(NewRun)
  BY GrownSame DEF AgencyLoad, ActionsInv
<1>9. CommandTrue(c)'
  BY <1>6, ActionsAssumption DEF CommandTrue, Phases
<1>10. /\ DOMAIN commanding' = Commanders /\ shown' = [shown EXCEPT ![p] = NoReport]
       /\ \A q \in Commanders : commanding'[q] = IF q = p THEN c ELSE commanding[q]
  BY <1>7 DEF AgencyLoad, ActionsInv
<1> QED
  BY <1>8, <1>9, <1>10, GoesOnStep

LEMMA ReadSpecKeeps ==
    ASSUME ActionsInv, NEW p \in Commanders, ReadSpec(p)
    PROVE  ActionsInv'
<1>1. ActionsGrown /\ runs' \in Seq(NewRun)
  BY GrownSame DEF ReadSpec, ActionsInv
<1>2. CASE Report(p, "failed", commanding[p].run)
  BY <1>1, <1>2, PlainStep
<1>3. ASSUME NEW s \in SettingsOf, UNCHANGED shown,
             commanding' = [commanding EXCEPT ![p].pc = "agents", ![p].settings = s]
      PROVE  ActionsInv'
  <2>1. PICK c0, c1, c : c0 = commanding[p] /\ c1 = WithPc(c0, "agents") /\ c = WithSettings(c1, s)
    OBVIOUS
  <2>2. CommandTrue(c0) /\ c0 \in CommandRow /\ c0.pc = "stage"
    BY <2>1 DEF ActionsInv, CommandTrue, ReadSpec
  <2>3. c1 \in CommandRow /\ c1.pc = "agents" /\ c1.run = c0.run /\ c1.todo = c0.todo
    BY <2>1, <2>2, CommandFields DEF Pcs
  <2>4. c \in CommandRow /\ c.pc = "agents" /\ c.run = c0.run /\ c.todo = c0.todo
    BY <2>1, <2>3, CommandFields
  <2>5. CommandTrue(c)
    BY <2>2, <2>4 DEF CommandTrue
  <2>6. /\ DOMAIN commanding' = Commanders
        /\ \A q \in Commanders : commanding'[q] = IF q = p THEN c ELSE commanding[q]
    BY <1>3, <2>1 DEF ActionsInv, WithPc, WithSettings
  <2> QED
    BY <1>1, <1>3, <2>5, <2>6, GrownKeepsCommand, GoesOnStep
<1> QED
  BY <1>2, <1>3 DEF ReadSpec

LEMMA RegisterKeeps ==
    ASSUME ActionsInv, NEW p \in Commanders, RegisterAgent(p)
    PROVE  ActionsInv' /\ \A k \in DOMAIN phaseActions : phaseActions'[k] = phaseActions[k]
<1>1. PICK c0, c : c0 = commanding[p] /\ c = WithPc(c0, "models")
  OBVIOUS
<1>2. CommandTrue(c0) /\ c0 \in CommandRow /\ c0.pc = "agents"
  BY <1>1 DEF ActionsInv, CommandTrue, RegisterAgent
<1>3. PICK cmd \in Commands :
          phaseActions' = IF <<c0.run, Head(c0.todo), cmd>> \in DOMAIN phaseActions THEN phaseActions
                          ELSE Put(phaseActions, {<<c0.run, Head(c0.todo), cmd>>}, c0.settings)
  BY <1>1 DEF RegisterAgent
<1>4. PICK key : key = <<c0.run, Head(c0.todo), cmd>>
  OBVIOUS
<1>5. /\ DOMAIN phaseActions' = DOMAIN phaseActions \cup {key}
      /\ \A k \in DOMAIN phaseActions : phaseActions'[k] = phaseActions[k]
  <2>1. CASE key \in DOMAIN phaseActions
    <3>1. phaseActions' = phaseActions
      BY <1>3, <1>4, <2>1, Zenon
    <3> QED
      BY <2>1, <3>1
  <2>2. CASE key \notin DOMAIN phaseActions
    <3>1. phaseActions' = Put(phaseActions, {key}, c0.settings)
      BY <1>3, <1>4, <2>2, Zenon
    <3>2. /\ DOMAIN phaseActions' = DOMAIN phaseActions \cup {key}
          /\ \A k \in DOMAIN phaseActions \ {key} : phaseActions'[k] = phaseActions[k]
      BY <3>1 DEF Put
    <3> QED
      BY <2>2, <3>2
  <2> QED
    BY <2>1, <2>2
<1>6. UNCHANGED <<runs, agencyState, shown, dropped>> /\ runs' \in Seq(NewRun)
  BY DEF RegisterAgent, ActionsInv
<1>7. ActionsGrown /\ key \in EverMade'
  BY <1>5, <1>6, ActionsMade DEF EverMade
<1>8. c \in CommandRow /\ c.pc = "models" /\ c.run = c0.run /\ c.todo = c0.todo
  BY <1>1, <1>2, CommandFields DEF Pcs
<1>9. \A ph : StageDone(c.run, ph) => StageDone(c.run, ph)'
  BY <1>7, GrownKeepsStages
<1>10. CommandTrue(c)'
  BY <1>2, <1>4, <1>7, <1>8, <1>9 DEF CommandTrue
<1>11. /\ DOMAIN commanding' = Commanders
       /\ \A q \in Commanders : commanding'[q] = IF q = p THEN c ELSE commanding[q]
  BY <1>1 DEF RegisterAgent, ActionsInv, WithPc
<1> QED
  BY <1>5, <1>6, <1>7, <1>10, <1>11, GoesOnStep

\* What is not at the head of a sequence is in its tail.
LEMMA HeadOrTail ==
    ASSUME NEW S, NEW t \in Seq(S), t # <<>>
    PROVE  /\ Len(t) = 1 => Range(t) = {Head(t)}
           /\ Tail(t) \in Seq(S) /\ Range(t) = {Head(t)} \cup Range(Tail(t))
           /\ Len(t) # 1 => Tail(t) # <<>>
<1>1. Len(t) \in Nat /\ Len(t) >= 1 /\ Head(t) = t[1] /\ Tail(t) \in Seq(S) /\ Len(Tail(t)) = Len(t) - 1
  OBVIOUS
<1>2. \A i \in 1 .. Len(t) - 1 : Tail(t)[i] = t[i + 1]
  BY <1>1
<1>3. \A i \in 1 .. Len(t) : i = 1 \/ (i - 1 \in 1 .. Len(t) - 1 /\ (i - 1) + 1 = i)
  BY <1>1
<1>4. \A i \in 1 .. Len(t) - 1 : i + 1 \in 1 .. Len(t)
  BY <1>1
<1>5. DOMAIN t = 1 .. Len(t) /\ DOMAIN Tail(t) = 1 .. Len(t) - 1
  BY <1>1
<1>6. ASSUME NEW x PROVE x \in Range(t) <=> \E i \in 1 .. Len(t) : x = t[i]
  BY <1>5 DEF Range
<1>7. ASSUME NEW x PROVE x \in Range(Tail(t)) <=> \E i \in 1 .. Len(t) - 1 : x = t[i + 1]
  BY <1>2, <1>5 DEF Range
<1>8. ASSUME NEW x, x \in Range(t), x # Head(t)
      PROVE  x \in Range(Tail(t))
  BY <1>1, <1>3, <1>6, <1>7, <1>8
<1>9. ASSUME NEW x, x = Head(t) \/ x \in Range(Tail(t))
      PROVE  x \in Range(t)
  BY <1>1, <1>4, <1>6, <1>7, <1>9
<1>10. Range(t) = {Head(t)} \cup Range(Tail(t))
  BY <1>8, <1>9
<1>11. ASSUME Len(t) = 1 PROVE Range(t) = {Head(t)}
  <2>1. \A i \in 1 .. Len(t) : i = 1
    BY <1>11
  <2>2. \A x : x \in Range(t) <=> x = Head(t)
    BY <1>1, <1>6, <2>1
  <2> QED
    BY <2>2
<1>12. Len(t) # 1 => Tail(t) # <<>>
  <2>1. Len(t) # 1 => Len(Tail(t)) # 0
    BY <1>1
  <2> QED
    BY <2>1
<1> QED
  BY <1>1, <1>10, <1>11, <1>12

LEMMA StoreKeeps ==
    ASSUME ActionsInv, NEW p \in Commanders, StoreModels(p)
    PROVE  ActionsInv'
<1>1. PICK c0 : c0 = commanding[p]
  OBVIOUS
<1>2. PICK stage : stage = Head(c0.todo)
  OBVIOUS
<1>3. CommandTrue(c0) /\ c0 \in CommandRow /\ c0.pc = "models" /\ c0.todo \in Seq(STRING) /\ c0.todo # <<>>
  BY <1>1 DEF ActionsInv, CommandTrue, StoreModels, CommandRow
<1>4. /\ DOMAIN agencyState' = DOMAIN agencyState \cup {<<c0.run, stage>>}
      /\ UNCHANGED <<runs, phaseActions, dropped>> /\ runs' \in Seq(NewRun)
  <2>1. agencyState' = Put(agencyState, {<<c0.run, stage>>}, c0.settings)
    BY <1>1, <1>2, Zenon DEF StoreModels
  <2>2. DOMAIN agencyState' = DOMAIN agencyState \cup {<<c0.run, stage>>}
    BY <2>1 DEF Put
  <2> QED
    BY <2>2 DEF StoreModels, ActionsInv
<1>5. ActionsGrown
  BY <1>4 DEF ActionsGrown, EverMade
<1>6. StageDone(c0.run, stage)'
  BY <1>2, <1>3, <1>4 DEF CommandTrue, StageDone, EverMade
<1>7. \A ph : StageDone(c0.run, ph) => StageDone(c0.run, ph)'
  BY <1>5, GrownKeepsStages
<1>8. CASE Len(c0.todo) = 1
  <2>1. PICK s : s = [of |-> "loaded", run |-> c0.run]
    OBVIOUS
  <2>2. \A ph \in Phases : StageDone(c0.run, ph)'
    BY <1>2, <1>3, <1>6, <1>7, <1>8, HeadOrTail DEF CommandTrue
  <2>3. ReportTrue(s)'
    BY <2>1, <2>2 DEF ReportTrue
  <2>4. Report(p, "loaded", c0.run)
    BY <1>1, <1>8 DEF StoreModels
  <2> QED
    BY <1>4, <1>5, <2>1, <2>3, <2>4, ReportStep
<1>9. CASE Len(c0.todo) # 1
  <2>1. PICK rest : rest = Tail(c0.todo)
    OBVIOUS
  <2>2. PICK c1, c : c1 = WithPc(c0, "stage") /\ c = WithTodo(c1, rest)
    OBVIOUS
  <2>3. rest \in Seq(STRING) /\ rest # <<>> /\ Range(c0.todo) = {stage} \cup Range(rest)
    BY <1>2, <1>3, <1>9, <2>1, HeadOrTail
  <2>4. c1 \in CommandRow /\ c1.pc = "stage" /\ c1.run = c0.run
    BY <1>3, <2>2, CommandFields DEF Pcs
  <2>5. c \in CommandRow /\ c.pc = "stage" /\ c.run = c0.run /\ c.todo = rest
    BY <2>2, <2>3, <2>4, CommandFields
  <2>6. \A ph \in Phases \ Range(rest) : StageDone(c0.run, ph)'
    BY <1>3, <1>6, <1>7, <2>3 DEF CommandTrue
  <2>7. CommandTrue(c)'
    BY <2>3, <2>5, <2>6 DEF CommandTrue
  <2>8. /\ DOMAIN commanding' = Commanders /\ shown' = shown
        /\ \A q \in Commanders : commanding'[q] = IF q = p THEN c ELSE commanding[q]
    BY <1>1, <1>9, <2>1, <2>2, <1>3 DEF StoreModels, ActionsInv, WithPc, WithTodo, CommandRow
  <2> QED
    BY <1>4, <1>5, <2>7, <2>8, GoesOnStep
<1> QED
  BY <1>8, <1>9

LEMMA ActionsInvInit == ActionsInit => ActionsInv
BY IdleTrue DEF ActionsInit, ActionsInv, ReportTrue, NoReport

LEMMA ActionsInvStep ==
    ASSUME ActionsInv, [ActionsNext]_actionVars
    PROVE  ActionsInv' /\ [SettingsAreEdited]_phaseActions
<1>1. ASSUME NEW p \in Commanders, CreateInvalid(p) \/ CommandStops(p)
      PROVE  ActionsInv' /\ UNCHANGED phaseActions
  <2>1. /\ UNCHANGED <<runs, phaseActions, agencyState, dropped>> /\ runs' \in Seq(NewRun)
        /\ Report(p, "invalid", 0) \/ Report(p, "failed", commanding[p].run)
    BY <1>1 DEF CreateInvalid, CommandStops, ActionsInv
  <2> QED
    BY <2>1, GrownSame, PlainStep
<1>2. ASSUME NEW p \in Commanders,
             \/ Create(p) \/ RecordRunID(p) \/ CreatePortfolio(p)
             \/ AgencyLoad(p) \/ ReadSpec(p) \/ StoreModels(p)
      PROVE  ActionsInv' /\ UNCHANGED phaseActions
  <2>1. UNCHANGED phaseActions
    BY <1>2 DEF Create, RecordRunID, CreatePortfolio, AgencyLoad, ReadSpec, StoreModels
  <2> QED
    BY <1>2, <2>1, CreateKeeps, RecordKeeps, PortfolioKeeps, LoadKeeps, ReadSpecKeeps, StoreKeeps
<1>3. ASSUME NEW p \in Commanders, AddBatch(p) \/ RegisterAgent(p)
      PROVE  ActionsInv' /\ SettingsAreEdited
  BY <1>3, BatchKeeps, RegisterKeeps DEF SettingsAreEdited
<1>4. ASSUME NEW p \in Commanders, AddAction(p) \/ UpdateAction(p) \/ DeleteAction(p)
      PROVE  ActionsInv' /\ SettingsAreEdited
  BY <1>4, EditKeeps
<1>5. CASE UNCHANGED actionVars
  <2>1. ActionsGrown /\ runs' = runs /\ commanding' = commanding /\ shown' = shown /\ UNCHANGED phaseActions
    BY <1>5, GrownSame DEF actionVars
  <2>2. ASSUME NEW q \in Commanders
        PROVE  CommandTrue(commanding[q])' /\ ReportTrue(shown[q])'
    <3>1. PICK c, s : c = commanding[q] /\ s = shown[q]
      OBVIOUS
    <3>2. CommandTrue(c)' /\ ReportTrue(s)'
      BY <2>1, <3>1, GrownKeepsCommand, GrownKeepsReport DEF ActionsInv
    <3> QED
      BY <2>1, <3>1, <3>2 DEF CommandTrue, ReportTrue, StageDone
  <2> QED
    BY <2>1, <2>2 DEF ActionsInv
<1> QED
  BY <1>1, <1>2, <1>3, <1>4, <1>5 DEF ActionsNext

(* A command that says it made a run, a portfolio or loaded an agency has     *)
(* made all of it, whoever edits the actions meanwhile and wherever others    *)
(* are killed, and only an update changes the settings of an action.          *)
THEOREM ActionsStayKept == ActionsSpec => ActionsKept
<1>1. ActionsInv => ReportsAreTrue
  <2> SUFFICES ASSUME ActionsInv, NEW p \in Commanders PROVE ReportsAreTrue!(p)
    BY DEF ReportsAreTrue
  <2>1. ReportTrue(shown[p])
    BY DEF ActionsInv
  <2> QED
    BY <2>1 DEF ReportTrue, StageDone, EverMade
<1> QED
  BY <1>1, ActionsInvInit, ActionsInvStep, PTL DEF ActionsSpec, ActionsKept

---------------------------------------------------------------------------
(* The audit chain *)

\* Counting up by one from 0 reaches every number: the least one missed would follow one that is not.
LEMMA CountedUp ==
    ASSUME NEW N \in Nat, NEW T, 0 \in T, \A n \in 1..N : n - 1 \in T => n \in T
    PROVE 0..N \subseteq T
<1>1. SUFFICES ASSUME (0..N) \ T # {}
               PROVE FALSE
  OBVIOUS
<1>2. PICK n \in (0..N) \ T : \A k \in (0..N) \ T : ~(<<k, n>> \in OpToRel(<, Nat))
  <2>1. (0..N) \ T \subseteq Nat
    OBVIOUS
  <2> QED BY <1>1, <2>1, NatLessThanWellFounded, WFMin, Zenon
<1>3. n # 0 /\ n - 1 \in 0..N /\ n \in 1..N
  OBVIOUS
<1>4. n - 1 \notin T
  BY <1>3
<1>5. <<n - 1, n>> \in OpToRel(<, Nat)
  BY <1>3 DEF OpToRel
<1> QED BY <1>2, <1>3, <1>4, <1>5

\* A step for each number from 1 on and a first value make a function on 0..N, so what a
\* recursive definition there chooses has its equations.
LEMMA RecursionExists ==
    ASSUME NEW S, NEW c \in S, NEW N \in Nat, NEW g \in [1..N -> [S -> S]]
    PROVE \E f \in [0..N -> S] : f[0] = c /\ \A n \in 1..N : f[n] = g[n][f[n - 1]]
<1> DEFINE Till(m) == \E f \in [0..m -> S] : f[0] = c /\ \A n \in 1..m : f[n] = g[n][f[n - 1]]
           T == {m \in 0..N : Till(m)}
<1>1. 0 \in T
  <2> DEFINE f == [n \in 0..0 |-> c]
  <2>1. f \in [0..0 -> S] /\ f[0] = c /\ \A n \in 1..0 : f[n] = g[n][f[n - 1]]
    OBVIOUS
  <2> HIDE DEF f
  <2>2. Till(0)
    BY <2>1
  <2> QED BY <2>2
<1>2. ASSUME NEW m \in 1..N, m - 1 \in T
      PROVE m \in T
  <2>1. PICK f \in [0..(m - 1) -> S] : f[0] = c /\ \A n \in 1..(m - 1) : f[n] = g[n][f[n - 1]]
    BY <1>2
  <2> DEFINE h == [n \in 0..m |-> IF n = m THEN g[m][f[m - 1]] ELSE f[n]]
  <2>2. h \in [0..m -> S] /\ h[0] = c
    <3>1. g[m][f[m - 1]] \in S
      OBVIOUS
    <3> QED BY <2>1, <3>1
  <2>3. ASSUME NEW n \in 1..m
        PROVE h[n] = g[n][h[n - 1]]
    BY <2>1
  <2> HIDE DEF h
  <2>4. Till(m)
    BY <2>2, <2>3
  <2> QED BY <2>4
<1>3. 0..N \subseteq T
  <2> HIDE DEF T
  <2> QED BY <1>1, <1>2, CountedUp
<1>4. N \in 0..N
  OBVIOUS
<1> QED BY <1>3, <1>4

LEMMA UpTo == \A n \in Nat : IsFiniteSet(1..n) /\ Cardinality(1..n) = n
<1> SUFFICES ASSUME NEW n \in Nat PROVE IsFiniteSet(1..n) /\ Cardinality(1..n) = n
  OBVIOUS
<1>1. 1 \in Int /\ n \in Int
  OBVIOUS
<1>2. IsFiniteSet(1..n) /\ Cardinality(1..n) = IF 1 > n THEN 0 ELSE n - 1 + 1
  BY <1>1, FS_Interval
<1> QED BY <1>2

Rows == {entries[i] : i \in DOMAIN entries}
RowsTyped == \E X : entries \in Seq(X)

\* A row put in its place is one row more; a row whose number none exceeds goes to the end.
LEMMA InsertedLonger ==
    ASSUME NEW X, NEW row \in X, NEW rows \in Seq(X)
    PROVE /\ Inserted(row, rows) \in Seq(X)
          /\ Len(Inserted(row, rows)) = Len(rows) + 1
          /\ (\A i \in DOMAIN rows : rows[i].seq <= row.seq) => Inserted(row, rows) = Append(rows, row)
<1> DEFINE under == {i \in DOMAIN rows : rows[i].seq <= row.seq}
           before == Cardinality(under)
<1>1. IsFiniteSet(1..Len(rows)) /\ Cardinality(1..Len(rows)) = Len(rows)
  <2>1. Len(rows) \in Nat
    OBVIOUS
  <2> QED BY <2>1, UpTo
<1>2. under \subseteq 1..Len(rows)
  OBVIOUS
<1>3. before \in 0..Len(rows)
  <2> HIDE DEF under
  <2>1. IsFiniteSet(under) /\ Cardinality(under) <= Cardinality(1..Len(rows))
    BY <1>1, <1>2, FS_Subset
  <2>2. Cardinality(under) \in Nat
    BY <2>1, FS_CardinalityType
  <2> QED BY <1>1, <2>1, <2>2
<1>4. Inserted(row, rows) = SubSeq(rows, 1, before) \o <<row>> \o SubSeq(rows, before + 1, Len(rows))
  BY DEF Inserted
<1>5. ASSUME \A i \in DOMAIN rows : rows[i].seq <= row.seq
      PROVE before = Len(rows)
  <2>1. under = 1..Len(rows)
    BY <1>5
  <2> QED BY <1>1, <2>1
<1> HIDE DEF before
<1>6. /\ SubSeq(rows, 1, before) \in Seq(X) /\ Len(SubSeq(rows, 1, before)) = before
      /\ SubSeq(rows, before + 1, Len(rows)) \in Seq(X)
      /\ Len(SubSeq(rows, before + 1, Len(rows))) = Len(rows) - before
  BY <1>3
<1>7. ASSUME before = Len(rows)
      PROVE Inserted(row, rows) = Append(rows, row)
  <2>1. SubSeq(rows, 1, before) = rows /\ SubSeq(rows, before + 1, Len(rows)) = <<>>
    BY <1>7
  <2>2. rows \o <<row>> \o <<>> = Append(rows, row)
    OBVIOUS
  <2> QED BY <1>4, <2>1, <2>2
<1> QED BY <1>4, <1>5, <1>6, <1>7

\* What VerifyIntegrity reads row by row.
Sorted == CHOOSE f : f = [n \in 0..Len(entries) |->
                              IF n = 0 THEN <<>> ELSE Inserted(entries[n], f[n - 1])]

LEMMA SortedEnd == BySeq = Sorted[Len(entries)]
  BY DEF BySeq, Sorted

\* The recursion of the read has a solution, so each step of it inserts the next row.
LEMMA SortedSteps ==
    ASSUME RowsTyped
    PROVE Sorted = [n \in 0..Len(entries) |-> IF n = 0 THEN <<>> ELSE Inserted(entries[n], Sorted[n - 1])]
<1>1. PICK X : entries \in Seq(X)
  BY DEF RowsTyped
<1> DEFINE N == Len(entries)
           g == [n \in 1..N |-> [s \in Seq(X) |-> Inserted(entries[n], s)]]
<1>2. N \in Nat /\ <<>> \in Seq(X)
  BY <1>1
<1>3. g \in [1..N -> [Seq(X) -> Seq(X)]]
  <2>1. ASSUME NEW n \in 1..N, NEW s \in Seq(X)
        PROVE Inserted(entries[n], s) \in Seq(X)
    <3>1. entries[n] \in X
      BY <1>1
    <3> QED BY <3>1, InsertedLonger
  <2> QED BY <2>1
<1>4. \E f \in [0..N -> Seq(X)] : f[0] = <<>> /\ \A n \in 1..N : f[n] = g[n][f[n - 1]]
  <2> HIDE DEF N, g
  <2> DEFINE S == Seq(X)
             c == <<>>
  <2>1. c \in S /\ g \in [1..N -> [S -> S]]
    BY <1>2, <1>3
  <2> HIDE DEF S, c
  <2>2. \E f \in [0..N -> S] : f[0] = c /\ \A n \in 1..N : f[n] = g[n][f[n - 1]]
    BY <1>2, <2>1, RecursionExists
  <2> QED BY <2>2 DEF S, c
<1>5. PICK f \in [0..N -> Seq(X)] : f[0] = <<>> /\ \A n \in 1..N : f[n] = g[n][f[n - 1]]
  BY <1>4
<1>6. \A n \in 1..N : f[n] = Inserted(entries[n], f[n - 1])
  <2> TAKE n \in 1..N
  <2>1. n - 1 \in 0..N
    BY <1>2
  <2>2. f[n - 1] \in Seq(X)
    BY <1>5, <2>1
  <2>3. g[n][f[n - 1]] = Inserted(entries[n], f[n - 1])
    BY <2>2
  <2> QED BY <1>5, <2>3
<1>7. f = [n \in 0..N |-> IF n = 0 THEN <<>> ELSE Inserted(entries[n], f[n - 1])]
  BY <1>2, <1>5, <1>6
<1> QED BY <1>7 DEF Sorted

\* The read finds rows of the log, as many as there are.
LEMMA SortedRows ==
    ASSUME RowsTyped
    PROVE BySeq \in Seq(Rows) /\ Len(BySeq) = Len(entries)
<1>1. PICK X : entries \in Seq(X)
  BY DEF RowsTyped
<1>2. Len(entries) \in Nat /\ DOMAIN entries = 1..Len(entries)
  BY <1>1
<1> DEFINE T == {n \in 0..Len(entries) : Sorted[n] \in Seq(Rows) /\ Len(Sorted[n]) = n}
<1>3. 0 \in T
  <2>1. Sorted[0] = <<>>
    BY <1>2, SortedSteps
  <2>2. <<>> \in Seq(Rows) /\ Len(<<>>) = 0 /\ 0 \in 0..Len(entries)
    BY <1>2
  <2> QED BY <2>1, <2>2
<1>4. ASSUME NEW n \in 1..Len(entries), n - 1 \in T
      PROVE n \in T
  <2>1. Sorted[n] = Inserted(entries[n], Sorted[n - 1])
    BY <1>2, SortedSteps
  <2>2. entries[n] \in Rows
    BY <1>2 DEF Rows
  <2>3. n - 1 \in 0..Len(entries) /\ Sorted[n - 1] \in Seq(Rows) /\ Len(Sorted[n - 1]) = n - 1
    BY <1>4
  <2>4. Sorted[n] \in Seq(Rows) /\ Len(Sorted[n]) = n - 1 + 1
    BY <2>1, <2>2, <2>3, InsertedLonger
  <2> QED BY <1>2, <2>4
<1>5. Len(entries) \in T
  <2> HIDE DEF T
  <2>1. 0..Len(entries) \subseteq T
    BY <1>2, <1>3, <1>4, CountedUp
  <2> QED BY <1>2, <2>1
<1> QED BY <1>5, SortedEnd

\* A log whose rows are numbered by their places is read as it stands.
LEMMA SortedAlready ==
    ASSUME RowsTyped, \A i \in DOMAIN entries : entries[i].seq = i
    PROVE BySeq = entries
<1>1. PICK X : entries \in Seq(X)
  BY DEF RowsTyped
<1>2. Len(entries) \in Nat /\ DOMAIN entries = 1..Len(entries)
  BY <1>1
<1> DEFINE T == {n \in 0..Len(entries) : Sorted[n] = SubSeq(entries, 1, n)}
<1>3. 0 \in T
  <2>1. Sorted[0] = <<>>
    BY <1>2, SortedSteps
  <2>2. SubSeq(entries, 1, 0) = <<>> /\ 0 \in 0..Len(entries)
    BY <1>1, <1>2
  <2> QED BY <2>1, <2>2
<1>4. ASSUME NEW n \in 1..Len(entries), n - 1 \in T
      PROVE n \in T
  <2> DEFINE front == SubSeq(entries, 1, n - 1)
  <2>1. Sorted[n] = Inserted(entries[n], front)
    <3>1. n \in 0..Len(entries) /\ n # 0 /\ Sorted[n - 1] = front
      BY <1>2, <1>4
    <3> HIDE DEF front, T
    <3>2. Sorted[n] = Inserted(entries[n], Sorted[n - 1])
      BY <3>1, SortedSteps
    <3> QED BY <3>1, <3>2
  <2>2. front \in Seq(X) /\ Len(front) = n - 1 /\ entries[n] \in X
    BY <1>1
  <2>3. \A i \in DOMAIN front : front[i] = entries[i] /\ i \in DOMAIN entries /\ i <= n
    BY <1>1
  <2>4. \A i \in DOMAIN front : front[i].seq <= entries[n].seq
    BY <1>2, <2>3
  <2>5. Append(front, entries[n]) = SubSeq(entries, 1, n)
    BY <1>1
  <2> HIDE DEF front
  <2>6. Inserted(entries[n], front) = Append(front, entries[n])
    BY <2>2, <2>4, InsertedLonger
  <2> QED BY <2>1, <2>5, <2>6
<1>5. Len(entries) \in T
  <2> HIDE DEF T
  <2>1. 0..Len(entries) \subseteq T
    BY <1>2, <1>3, <1>4, CountedUp
  <2> QED BY <1>2, <2>1
<1> QED BY <1>1, <1>5, SortedEnd

\* Each number up to the length of a log that verifies is that of a row whose checksum says so.
LEMMA AlteredIsSeen == RowsTyped => TamperingSeen
<1> SUFFICES ASSUME RowsTyped, Verifies, NEW i \in DOMAIN entries
             PROVE \E j \in DOMAIN entries : /\ entries[j].seq = i
                                             /\ entries[j].sum[1] = i /\ entries[j].sum[2] = entries[j].body
  BY DEF TamperingSeen
<1>1. DOMAIN entries = 1..Len(entries)
  BY DEF RowsTyped
<1>2. BySeq[i] \in Rows
  BY <1>1, SortedRows
<1>3. PICK j \in DOMAIN entries : BySeq[i] = entries[j]
  BY <1>2 DEF Rows
<1>4. entries[j].seq = i /\ entries[j].sum = <<i, entries[j].body, entries[j].prev>>
  BY <1>3 DEF Verifies, Good, Checksum
<1> QED BY <1>4

Opened(l) == memory[l].open
EndSum == IF entries = <<>> THEN NoHash ELSE entries[Len(entries)].sum

LoggerWith(X) == [open : BOOLEAN, hash : X, seq : X]
MemoryTyped == \E X : memory \in [Loggers -> LoggerWith(X)]

AuditTyped ==
    /\ RowsTyped
    /\ touched \in Nat /\ gapped \in BOOLEAN
    /\ MemoryTyped

\* While nobody touched the rows, no insert failed and no two loggers were open, the rows are a
\* chain, and the open logger remembers its end.
LogWhole ==
    touched = 0 /\ ~gapped =>
        /\ \A i \in DOMAIN entries : Good(entries, i)
        /\ \A l \in Loggers : Opened(l) => memory[l].seq = Len(entries) /\ memory[l].hash = EndSum
        /\ \A l, m \in Loggers : Opened(l) /\ Opened(m) => l = m

AuditInv == AuditTyped /\ LogWhole

LEMMA AuditInvInit == AuditInit => AuditInv
<1> SUFFICES ASSUME AuditInit PROVE AuditInv
  OBVIOUS
<1>1. RowsTyped
  BY DEF AuditInit, RowsTyped
<1>2. AuditTyped
  <2> DEFINE X == {NoHash, 0}
  <2>1. memory \in [Loggers -> LoggerWith(X)]
    BY DEF AuditInit, NotOpen, LoggerWith
  <2>2. MemoryTyped
    BY <2>1 DEF MemoryTyped
  <2> QED BY <1>1, <2>2 DEF AuditInit, AuditTyped
<1>3. LogWhole
  BY DEF AuditInit, LogWhole, NotOpen, Opened
<1> QED BY <1>2, <1>3 DEF AuditInv

\* An appended row leaves the others where they were.
LEMMA RowAdded ==
    ASSUME RowsTyped, NEW row, entries' = Append(entries, row)
    PROVE /\ RowsTyped'
          /\ Len(entries) \in Nat /\ Len(entries') = Len(entries) + 1
          /\ DOMAIN entries = 1..Len(entries) /\ DOMAIN entries' = 1..Len(entries) + 1
          /\ \A i \in DOMAIN entries : entries'[i] = entries[i]
          /\ entries'[Len(entries) + 1] = row
          /\ entries' # <<>>
<1>1. PICK X : entries \in Seq(X)
  BY DEF RowsTyped
<1>2. entries \in Seq(X \cup {row})
  BY <1>1
<1>3. entries' \in Seq(X \cup {row})
  BY <1>2
<1> QED BY <1>2, <1>3 DEF RowsTyped

\* The last row of a log that is whole is the one with the highest number.
LEMMA WholeEnds ==
    ASSUME RowsTyped, \A i \in DOMAIN entries : entries[i].seq = i, entries # <<>>
    PROVE LastRow = entries[Len(entries)] /\ LastRow.seq = Len(entries)
<1> DEFINE tops == {i \in DOMAIN entries : \A j \in DOMAIN entries : entries[j].seq <= entries[i].seq}
<1>1. DOMAIN entries = 1..Len(entries) /\ Len(entries) \in Nat \ {0}
  BY DEF RowsTyped
<1>2. Len(entries) \in tops
  BY <1>1
<1>3. ASSUME NEW i \in tops
      PROVE i = Len(entries)
  <2>1. i \in 1..Len(entries) /\ entries[i].seq = i
    BY <1>1
  <2>2. entries[Len(entries)].seq <= entries[i].seq /\ entries[Len(entries)].seq = Len(entries)
    BY <1>1
  <2> QED BY <1>1, <2>1, <2>2
<1>4. LastRow = entries[CHOOSE i \in tops : TRUE]
  BY DEF LastRow
<1> HIDE DEF tops
<1>5. (CHOOSE i \in tops : TRUE) = Len(entries)
  <2>1. tops # {}
    BY <1>2
  <2>2. (CHOOSE i \in tops : TRUE) \in tops
    BY <2>1
  <2> QED BY <1>3, <2>2
<1>6. entries[Len(entries)].seq = Len(entries)
  BY <1>1
<1> QED BY <1>4, <1>5, <1>6

\* What a logger remembers, replaced: the other loggers' memories stand.
LEMMA MemorySet ==
    ASSUME MemoryTyped, NEW l \in Loggers, NEW Y, NEW r \in LoggerWith(Y),
           memory' = [memory EXCEPT ![l] = r]
    PROVE MemoryTyped' /\ memory'[l] = r /\ \A m \in Loggers \ {l} : memory'[m] = memory[m]
<1>1. PICK X : memory \in [Loggers -> LoggerWith(X)]
  BY DEF MemoryTyped
<1> DEFINE Z == X \cup Y
<1>2. r \in LoggerWith(Z) /\ memory \in [Loggers -> LoggerWith(Z)]
  BY <1>1 DEF LoggerWith
<1>3. memory' \in [Loggers -> LoggerWith(Z)]
  BY <1>2
<1> QED BY <1>1, <1>3 DEF MemoryTyped

LEMMA AuditInvStep == AuditInv /\ [AuditNext]_auditVars => AuditInv'
<1> SUFFICES ASSUME AuditInv, [AuditNext]_auditVars PROVE AuditInv'
  OBVIOUS
<1> USE DEF AuditInv
<1>1. CASE UNCHANGED auditVars
  BY <1>1 DEF auditVars, AuditTyped, RowsTyped, MemoryTyped, LogWhole, Opened, EndSum, Good
<1>2. ASSUME NEW l \in Loggers, OpenLogger(l)
      PROVE AuditInv'
  <2> DEFINE new == [open |-> TRUE,
                     hash |-> IF entries = <<>> THEN NoHash ELSE LastRow.sum,
                     seq |-> IF entries = <<>> THEN 0 ELSE LastRow.seq]
  <2>1. /\ ~memory[l].open /\ gapped' = (gapped \/ \E m \in Loggers : memory[m].open)
        /\ memory' = [memory EXCEPT ![l] = new]
        /\ entries' = entries /\ touched' = touched
    BY <1>2 DEF OpenLogger
  <2>2. new \in LoggerWith({new.hash, new.seq}) /\ new.open = TRUE
    BY DEF LoggerWith
  <2>3. /\ new.hash = (IF entries = <<>> THEN NoHash ELSE LastRow.sum)
        /\ new.seq = (IF entries = <<>> THEN 0 ELSE LastRow.seq)
    OBVIOUS
  <2> HIDE DEF new
  <2>4. MemoryTyped' /\ memory'[l] = new /\ \A m \in Loggers \ {l} : memory'[m] = memory[m]
    BY <2>1, <2>2, MemorySet DEF AuditTyped
  <2>5. AuditTyped'
    BY <2>1, <2>2, <2>4 DEF AuditTyped, RowsTyped
  <2>6. ASSUME touched' = 0, ~gapped'
        PROVE /\ \A m \in Loggers \ {l} : ~Opened(m)'
              /\ \A i \in DOMAIN entries : Good(entries, i)
    BY <2>1, <2>4, <2>6 DEF AuditTyped, LogWhole, Opened
  <2>7. ASSUME touched' = 0, ~gapped'
        PROVE new.seq = Len(entries) /\ new.hash = EndSum
    <3>1. \A i \in DOMAIN entries : entries[i].seq = i
      BY <2>6, <2>7 DEF Good
    <3>2. CASE entries = <<>>
      BY <2>3, <3>2 DEF EndSum
    <3>3. CASE entries # <<>>
      BY <2>3, <3>1, <3>3, WholeEnds DEF EndSum, AuditTyped
    <3> QED BY <3>2, <3>3
  <2>8. LogWhole'
    <3> SUFFICES ASSUME touched' = 0, ~gapped'
                 PROVE /\ \A i \in DOMAIN entries' : Good(entries', i)
                       /\ \A m \in Loggers : Opened(m)' => memory'[m].seq = Len(entries') /\ memory'[m].hash = EndSum'
                       /\ \A m, k \in Loggers : Opened(m)' /\ Opened(k)' => m = k
      BY DEF LogWhole
    <3>1. \A i \in DOMAIN entries' : Good(entries', i)
      BY <2>1, <2>6
    <3>2. EndSum' = EndSum
      BY <2>1 DEF EndSum
    <3>3. \A m \in Loggers : Opened(m)' => m = l
      BY <2>6
    <3> QED BY <2>1, <2>4, <2>7, <3>1, <3>2, <3>3
  <2> QED BY <2>5, <2>8
<1>3. ASSUME NEW l \in Loggers, CloseLogger(l)
      PROVE AuditInv'
  <2>1. /\ memory' = [memory EXCEPT ![l] = NotOpen]
        /\ entries' = entries /\ touched' = touched /\ gapped' = gapped
    BY <1>3 DEF CloseLogger
  <2>2. MemoryTyped' /\ memory'[l] = NotOpen /\ \A m \in Loggers \ {l} : memory'[m] = memory[m]
    <3>1. NotOpen \in LoggerWith({NoHash, 0})
      BY DEF NotOpen, LoggerWith
    <3> QED BY <2>1, <3>1, MemorySet DEF AuditTyped
  <2>3. AuditTyped'
    BY <2>1, <2>2 DEF AuditTyped, RowsTyped, NotOpen
  <2>4. LogWhole'
    <3>1. ~Opened(l)' /\ \A m \in Loggers \ {l} : Opened(m)' <=> Opened(m)
      BY <2>2 DEF Opened, NotOpen
    <3> QED BY <2>1, <2>2, <3>1 DEF LogWhole, EndSum
  <2> QED BY <2>3, <2>4
<1>4. ASSUME NEW l \in Loggers, Log(l)
      PROVE AuditInv'
  <2>1. PICK body \in Bodies :
          \/ /\ entries' = Append(entries, NewEntry(l, body))
             /\ memory' = [memory EXCEPT ![l] = [@ EXCEPT !.seq = NewEntry(l, body).seq, !.hash = NewEntry(l, body).sum]]
             /\ gapped' = gapped
          \/ /\ memory' = [memory EXCEPT ![l].seq = NewEntry(l, body).seq]
             /\ gapped' = TRUE /\ entries' = entries
    BY <1>4 DEF Log
  <2>2. memory[l].open /\ touched' = touched
    BY <1>4 DEF Log
  <2> DEFINE row == NewEntry(l, body)
  <2>3. CASE /\ entries' = Append(entries, row)
             /\ memory' = [memory EXCEPT ![l] = [@ EXCEPT !.seq = row.seq, !.hash = row.sum]]
             /\ gapped' = gapped
    <3>1. /\ row.seq = memory[l].seq + 1 /\ row.prev = memory[l].hash
          /\ row.sum = Checksum(row.seq, row.body, row.prev)
      BY DEF NewEntry
    <3> HIDE DEF row
    <3>2. /\ MemoryTyped' /\ memory'[l].open /\ memory'[l].hash = row.sum /\ memory'[l].seq = row.seq
          /\ \A m \in Loggers \ {l} : memory'[m] = memory[m]
      <4>1. PICK X : memory \in [Loggers -> LoggerWith(X)]
        BY DEF AuditTyped, MemoryTyped
      <4> DEFINE new == [memory[l] EXCEPT !.seq = row.seq, !.hash = row.sum]
                 Y == X \cup {row.seq, row.sum}
      <4>2. new \in LoggerWith(Y) /\ new.open /\ new.hash = row.sum /\ new.seq = row.seq
        BY <2>2, <4>1 DEF LoggerWith
      <4>3. memory' = [memory EXCEPT ![l] = new]
        BY <2>3
      <4> HIDE DEF new, Y
      <4> QED BY <4>2, <4>3, MemorySet DEF AuditTyped
    <3>3. RowsTyped'
      BY <2>3, RowAdded DEF AuditTyped
    <3>4. AuditTyped'
      BY <2>2, <2>3, <3>2, <3>3 DEF AuditTyped
    <3>5. LogWhole'
      <4> SUFFICES ASSUME touched' = 0, ~gapped'
                   PROVE /\ \A i \in DOMAIN entries' : Good(entries', i)
                         /\ \A m \in Loggers : Opened(m)' => memory'[m].seq = Len(entries') /\ memory'[m].hash = EndSum'
                         /\ \A m, k \in Loggers : Opened(m)' /\ Opened(k)' => m = k
        BY DEF LogWhole
      <4>1. /\ \A i \in DOMAIN entries : Good(entries, i)
            /\ memory[l].seq = Len(entries) /\ memory[l].hash = EndSum
            /\ \A m \in Loggers : Opened(m) => m = l
        BY <2>2, <2>3 DEF LogWhole, Opened
      <4>2. \A m \in Loggers : Opened(m)' => m = l
        BY <3>2, <4>1 DEF Opened
      <4>3. row.seq = Len(entries) + 1 /\ row.prev = EndSum
        BY <3>1, <4>1
      <4>4. /\ Len(entries) \in Nat /\ Len(entries') = Len(entries) + 1
            /\ DOMAIN entries = 1..Len(entries) /\ DOMAIN entries' = 1..Len(entries) + 1
            /\ \A i \in DOMAIN entries : entries'[i] = entries[i]
            /\ entries'[Len(entries) + 1] = row
            /\ entries' # <<>>
        BY <2>3, RowAdded DEF AuditTyped
      <4>5. EndSum' = row.sum
        BY <4>4 DEF EndSum
      <4>6. ASSUME NEW i \in DOMAIN entries
            PROVE Good(entries', i)
        <5>1. entries'[i] = entries[i] /\ (i # 1 => entries'[i - 1] = entries[i - 1])
          BY <4>4
        <5> QED BY <4>1, <5>1 DEF Good
      <4>7. Good(entries', Len(entries) + 1)
        <5>1. (IF Len(entries) + 1 = 1 THEN NoHash ELSE entries'[Len(entries) + 1 - 1].sum) = EndSum
          <6>1. CASE entries = <<>>
            BY <6>1 DEF EndSum
          <6>2. CASE entries # <<>>
            <7>1. Len(entries) # 0 /\ Len(entries) \in DOMAIN entries /\ Len(entries) + 1 - 1 = Len(entries)
              BY <4>4, <6>2 DEF AuditTyped, RowsTyped
            <7> QED BY <4>4, <6>2, <7>1 DEF EndSum
          <6> QED BY <6>1, <6>2
        <5> QED BY <3>1, <4>3, <4>4, <5>1 DEF Good
      <4> QED BY <3>2, <4>2, <4>3, <4>4, <4>5, <4>6, <4>7
    <3> QED BY <3>4, <3>5
  <2>4. CASE /\ memory' = [memory EXCEPT ![l].seq = row.seq]
             /\ gapped' = TRUE /\ entries' = entries
    <3> HIDE DEF row
    <3>1. MemoryTyped'
      <4>1. PICK X : memory \in [Loggers -> LoggerWith(X)]
        BY DEF AuditTyped, MemoryTyped
      <4> DEFINE new == [memory[l] EXCEPT !.seq = row.seq]
                 Y == X \cup {row.seq}
      <4>2. new \in LoggerWith(Y)
        BY <4>1 DEF LoggerWith
      <4>3. memory' = [memory EXCEPT ![l] = new]
        BY <2>4
      <4> HIDE DEF new, Y
      <4> QED BY <4>2, <4>3, MemorySet DEF AuditTyped
    <3>3. AuditTyped'
      BY <2>2, <2>4, <3>1 DEF AuditTyped, RowsTyped
    <3>2. LogWhole'
      BY <2>4 DEF LogWhole
    <3> QED BY <3>2, <3>3
  <2> QED BY <2>1, <2>3, <2>4
<1>5. ASSUME AlterRow \/ DeleteRow
      PROVE AuditInv'
  <2>1. RowsTyped'
    <3>1. PICK X : entries \in Seq(X)
      BY DEF AuditTyped, RowsTyped
    <3>2. ASSUME NEW i \in DOMAIN entries, NEW body \in Bodies, entries' = [entries EXCEPT ![i].body = body]
          PROVE RowsTyped'
      <4> DEFINE row == [entries[i] EXCEPT !.body = body]
      <4>1. entries' \in Seq(X \cup {row})
        BY <3>1, <3>2
      <4> QED BY <4>1 DEF RowsTyped
    <3>3. ASSUME NEW i \in DOMAIN entries,
                 entries' = SubSeq(entries, 1, i - 1) \o SubSeq(entries, i + 1, Len(entries))
          PROVE RowsTyped'
      <4>1. SubSeq(entries, 1, i - 1) \in Seq(X) /\ SubSeq(entries, i + 1, Len(entries)) \in Seq(X)
        BY <3>1
      <4>2. entries' \in Seq(X)
        BY <3>3, <4>1
      <4> QED BY <4>2 DEF RowsTyped
    <3> QED BY <1>5, <3>2, <3>3 DEF AlterRow, DeleteRow
  <2>2. touched' = touched + 1 /\ memory' = memory /\ gapped' = gapped
    BY <1>5 DEF AlterRow, DeleteRow
  <2>3. AuditTyped'
    BY <2>1, <2>2 DEF AuditTyped, MemoryTyped
  <2>4. LogWhole'
    BY <2>2 DEF LogWhole, AuditTyped
  <2> QED BY <2>3, <2>4
<1> QED BY <1>1, <1>2, <1>3, <1>4, <1>5 DEF AuditNext

\* A log nobody touched, written by one logger at a time with no failed insert, verifies.
LEMMA UntouchedIsWhole == AuditInv => UntouchedVerifies
<1> SUFFICES ASSUME AuditInv, touched = 0, ~gapped PROVE Verifies
  BY DEF UntouchedVerifies
<1>1. RowsTyped /\ \A i \in DOMAIN entries : Good(entries, i)
  BY DEF AuditInv, AuditTyped, LogWhole
<1>2. BySeq = entries
  BY <1>1, SortedAlready DEF Good
<1> QED BY <1>1, <1>2 DEF Verifies

\* Verification passes every log that nobody touched, that one logger at a time wrote and whose
\* inserts all succeeded, over any number of restarts of the logger, and passes no log in which a
\* row was altered or moved (Logger.Log, loadLastEntry and VerifyIntegrity of internal/audit).
THEOREM TheLogTells == AuditSpec => []ChainTells
<1>1. AuditSpec => []AuditInv
  BY AuditInvInit, AuditInvStep, PTL DEF AuditSpec
<1>2. AuditInv => ChainTells
  BY UntouchedIsWhole, AlteredIsSeen DEF AuditInv, AuditTyped, ChainTells
<1> QED BY <1>1, <1>2, PTL

=============================================================================
