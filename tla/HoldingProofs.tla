--------------------------- MODULE HoldingProofs ---------------------------
(****************************************************************************)
(* Who holds what and who may proceed: the fenced close of a goal, the      *)
(* coordination locks, the lock directory, the gate in front of a branch,   *)
(* the merged authorization policy, the cached versions of a plugin, and    *)
(* the publishes that share a machine's clones and lock rows.               *)
(****************************************************************************)
EXTENDS GoalClose, Coordination, FileLock, PushGate, Policy, PluginCache, Publish,
    FiniteSetTheorems, SequenceTheorems, WellFoundedInduction, TLAPS

---------------------------------------------------------------------------
(* Goals *)

GoalRow ==
    [status : {"open", "closing", "closed"}, fence : Nat, owner : Closers \cup {NoOne}, expires : Nat,
     stamps : [TerminalSteps -> Nat], successor : BOOLEAN, advanced : Nat]

\* Each fence was given to one closer, and the row's to the owner of the lease.
FencesApart ==
    /\ fence \in [Closers -> Nat]
    /\ \A c \in Closers : fence[c] <= goal.fence
    /\ \A c, d \in Closers : fence[c] = fence[d] /\ fence[c] # 0 => c = d
    /\ goal.status = "closing" => goal.owner \in Closers /\ fence[goal.owner] = goal.fence

\* A goal is only closed with every step stamped, which no later statement takes back.
GoalInv ==
    /\ goal \in GoalRow
    /\ tick \in Nat
    /\ goal.status = "closed" => Complete
    /\ FencesApart

LEMMA GoalInvInit == GoalInit => GoalInv
BY DEF GoalInit, NewGoal, GoalInv, GoalRow, FencesApart

LEMMA GoalInvStep == GoalInv /\ [GoalNext]_goalVars => GoalInv'
<1> SUFFICES ASSUME GoalInv, [GoalNext]_goalVars PROVE GoalInv'
  OBVIOUS
<1> USE GoalAssumption DEF GoalInv, GoalRow, Complete
<1>1. ASSUME NEW c \in Closers, AcquireClose(c) PROVE GoalInv'
  <2>1. PICK ttl \in LeaseTTLs :
          goal' = [goal EXCEPT !.status = "closing", !.fence = @ + 1,
                                !.owner = c, !.expires = tick + ttl]
    BY <1>1 DEF AcquireClose, Update
  <2>2. tick + ttl \in Nat /\ tick' = tick
    BY <1>1 DEF AcquireClose
  <2>3. goal.fence + 1 \in Nat /\ tick + ttl \in Nat
    BY <2>2
  <2>4. goal' \in GoalRow
    BY <2>1, <2>3
  <2>5. goal'.status # "closed"
    BY <2>1
  <2>6. FencesApart'
    <3>1. fence' = [fence EXCEPT ![c] = goal.fence + 1]
      BY <1>1 DEF AcquireClose
    <3>2. goal'.fence = goal.fence + 1 /\ goal'.owner = c
      BY <2>1
    <3> QED
      BY <3>1, <3>2 DEF FencesApart
  <2> QED
    BY <2>2, <2>4, <2>5, <2>6
<1>2. ASSUME NEW c \in Closers, RenewLease(c) PROVE GoalInv'
  BY <1>2 DEF RenewLease, Update, Mine, FencesApart
<1>3. ASSUME NEW c \in Closers, StampStep(c) PROVE GoalInv'
  BY <1>3 DEF StampStep, Update, Mine, FencesApart
<1>4. ASSUME NEW c \in Closers, FinishClose(c) PROVE GoalInv'
  BY <1>4 DEF FinishClose, Update, Mine, FencesApart
<1>5. ASSUME NEW c \in Closers, ReleaseLease(c) PROVE GoalInv'
  BY <1>5 DEF ReleaseLease, Update, Mine, FencesApart
<1>6. CASE SetSuccessor
  BY <1>6 DEF SetSuccessor, FencesApart
<1>7. CASE TouchRunAdvance
  BY <1>7 DEF TouchRunAdvance, FencesApart
<1>8. CASE GoalTick
  BY <1>8 DEF GoalTick, FencesApart
<1>9. CASE UNCHANGED goalVars
  BY <1>9 DEF goalVars, FencesApart
<1> QED
  BY <1>1, <1>2, <1>3, <1>4, <1>5, <1>6, <1>7, <1>8, <1>9 DEF GoalNext

LEMMA ClosedStaysSealed ==
    ASSUME GoalInv, [GoalNext]_goalVars, goal.status = "closed"
    PROVE  /\ goal'.status = "closed" /\ goal'.fence = goal.fence
           /\ goal'.stamps = goal.stamps /\ Complete
<1> USE DEF GoalInv, GoalRow
<1>1. ~\E c \in Closers :
          AcquireClose(c) \/ RenewLease(c) \/ StampStep(c) \/ FinishClose(c) \/ ReleaseLease(c)
  BY DEF AcquireClose, RenewLease, StampStep, FinishClose, ReleaseLease, Update, Free, Mine
<1> QED
  BY <1>1 DEF GoalNext, SetSuccessor, TouchRunAdvance, GoalTick, goalVars

LEMMA RunningLeaseHonoured ==
    ASSUME GoalInv, [GoalNext]_goalVars, goal.status = "closing", ~Lapsed
    PROVE  goal'.fence = goal.fence
<1> USE DEF GoalInv, GoalRow
<1>1. ~\E c \in Closers : AcquireClose(c)
  BY DEF Free, AcquireClose, Update
<1>2. ASSUME NEW c \in Closers, RenewLease(c) \/ StampStep(c) \/ FinishClose(c) \/ ReleaseLease(c)
      PROVE  goal'.fence = goal.fence
  <2>1. CASE RenewLease(c)
    BY <2>1 DEF RenewLease, Update
  <2>2. CASE StampStep(c)
    BY <2>2 DEF StampStep, Update
  <2>3. CASE FinishClose(c)
    BY <2>3 DEF FinishClose, Update
  <2>4. CASE ReleaseLease(c)
    BY <2>4 DEF ReleaseLease, Update
  <2> QED
    BY <1>2, <2>1, <2>2, <2>3, <2>4
<1>3. SetSuccessor \/ TouchRunAdvance \/ GoalTick \/ UNCHANGED goalVars => goal'.fence = goal.fence
  BY DEF SetSuccessor, TouchRunAdvance, GoalTick, goalVars
<1> QED
  BY <1>1, <1>2, <1>3 DEF GoalNext

\* The statements of the other sessions, with their older fences, miss the row.
LEMMA HolderWrites ==
    ASSUME GoalInv, NEW c \in Closers,
           RenewLease(c) \/ StampStep(c) \/ FinishClose(c) \/ ReleaseLease(c)
    PROVE  c = goal.owner
<1>1. Mine(c)
  BY DEF RenewLease, StampStep, FinishClose, ReleaseLease, Update
<1> QED
  BY <1>1 DEF Mine, GoalInv, FencesApart

\* A close is settled by its fence: what is closed is sealed, a lease that runs
\* is honoured, and only the session that holds the close writes it (internal/goal).
THEOREM GoalClosesAreFenced == GoalSpec => ClosesFenced
<1>1. GoalInv /\ [GoalNext]_goalVars
        => [\A c \in Closers :
              RenewLease(c) \/ StampStep(c) \/ FinishClose(c) \/ ReleaseLease(c) => c = goal.owner]_goalVars
  BY HolderWrites
<1>2. GoalInv /\ [GoalNext]_goalVars
        => [goal.status = "closed" =>
              /\ goal'.status = "closed" /\ goal'.fence = goal.fence
              /\ goal'.stamps = goal.stamps /\ Complete]_goalVars
  BY ClosedStaysSealed
<1>3. GoalInv /\ [GoalNext]_goalVars
        => [(goal.status = "closing" /\ ~Lapsed) => goal'.fence = goal.fence]_goalVars
  BY RunningLeaseHonoured
<1> QED
  BY <1>1, <1>2, <1>3, GoalInvInit, GoalInvStep, PTL
     DEF GoalSpec, ClosesFenced, ClosedSealed, LeaseHonoured, OnlyHolderWrites

---------------------------------------------------------------------------
(* Coordination locks *)

\* What a release leaves: the same rows, some of them with the time they ended.
Faded(ls) ==
    /\ ls \in Seq(LockRows) /\ Len(ls) = Len(locks)
    /\ \A i \in DOMAIN locks :
          /\ ls[i].owner = locks[i].owner /\ ls[i].scope = locks[i].scope
          /\ ls[i].pattern = locks[i].pattern /\ ls[i].exclusive = locks[i].exclusive
          /\ ls[i].expires = locks[i].expires
          /\ ls[i] = locks[i] \/ (locks[i].released = 0 /\ ls[i].released # 0)

LEMMA ReleasedRow ==
    ASSUME NEW l \in LockRows, NEW t \in 1..LastSecond
    PROVE  LET r == [l EXCEPT !.released = t]
           IN  /\ r \in LockRows /\ r.released = t
               /\ r.owner = l.owner /\ r.scope = l.scope /\ r.pattern = l.pattern
               /\ r.exclusive = l.exclusive /\ r.expires = l.expires
BY CoordinationAssumption DEF LockRows

LEMMA TransferredRow ==
    ASSUME NEW l \in LockRows, NEW o \in Owners
    PROVE  LET r == [l EXCEPT !.owner = o]
           IN  /\ r \in LockRows /\ r.owner = o /\ r.scope = l.scope /\ r.pattern = l.pattern
               /\ r.exclusive = l.exclusive /\ r.expires = l.expires /\ r.released = l.released
BY DEF LockRows

LEMMA ReleaseFades == ASSUME CoordTypeOK, NEW ids PROVE Faded(ReleaseRows(ids))
<1>1. locks \in Seq(LockRows) /\ second \in 1..LastSecond /\ LastSecond \in Nat
  BY CoordinationAssumption DEF CoordTypeOK
<1>2. \A i \in 1..Len(locks) : locks[i] \in LockRows
  BY <1>1
<1>3. ASSUME NEW i \in 1..Len(locks), locks[i].released = 0
      PROVE  /\ [locks[i] EXCEPT !.released = second] \in LockRows
             /\ [locks[i] EXCEPT !.released = second].owner = locks[i].owner
             /\ [locks[i] EXCEPT !.released = second].scope = locks[i].scope
             /\ [locks[i] EXCEPT !.released = second].pattern = locks[i].pattern
             /\ [locks[i] EXCEPT !.released = second].exclusive = locks[i].exclusive
             /\ [locks[i] EXCEPT !.released = second].expires = locks[i].expires
             /\ [locks[i] EXCEPT !.released = second].released # 0
  BY <1>1, <1>2, ReleasedRow
<1>4. DOMAIN locks = 1..Len(locks) /\ Len(locks) \in Nat
  BY <1>1
<1>5. ReleaseRows(ids) \in Seq(LockRows) /\ Len(ReleaseRows(ids)) = Len(locks)
  <2>1. ReleaseRows(ids) \in [1..Len(locks) -> LockRows]
    BY <1>2, <1>3, <1>4 DEF ReleaseRows
  <2> QED
    BY <1>4, <2>1
<1>6. ASSUME NEW i \in 1..Len(locks)
      PROVE  ReleaseRows(ids)[i] = IF i \in ids /\ locks[i].released = 0
                                   THEN [locks[i] EXCEPT !.released = second] ELSE locks[i]
  BY <1>4 DEF ReleaseRows
<1> QED
  BY <1>3, <1>4, <1>5, <1>6 DEF Faded

LEMMA CoordTypeInit == CoordInit => CoordTypeOK
<1> SUFFICES ASSUME CoordInit PROVE CoordTypeOK
  OBVIOUS
<1>1. locks \in Seq(LockRows)
  BY DEF CoordInit
<1> QED
  BY <1>1, CoordinationAssumption DEF CoordInit, CoordTypeOK

CoordCallers == Claimants \cup Sweepers

CoordTyped == CoordTypeOK /\ DOMAIN asks = CoordCallers

LEMMA FadedType ==
    ASSUME CoordTypeOK, NEW ls, Faded(ls)
    PROVE  ls \in Seq(LockRows) /\ DOMAIN ls = DOMAIN locks
BY DEF Faded, CoordTypeOK

\* A reserve that is not refused adds a row nothing blocks, and ends none that has not lapsed.
Grants ==
    /\ second' = second
    /\ \E row \in LockRows : \E ids \in {{}, LapsedRows(second)} :
          Blockers(row) = {} /\ locks' = Append(ReleaseRows(ids), row)

LEMMA ReserveGrants ==
    ASSUME CoordTypeOK, NEW c \in CoordCallers, CommitReserve(c) PROVE UNCHANGED locks \/ Grants
<1>1. asks[c].at \in Nat
  BY CoordinationAssumption DEF CommitReserve, CoordTypeOK, CoordCallers, NoAsk, Asked
<1>2. PICK owner \in Owners, scope \in LockScopes, pattern \in Patterns, exclusive \in BOOLEAN,
           ttl \in LockTTLs, swept \in {{}, LapsedRows(second)} :
              ReserveAnswered(Requested(owner, scope, pattern, exclusive, ttl, asks[c].at), swept)
  BY DEF CommitReserve
<1>3. Requested(owner, scope, pattern, exclusive, ttl, asks[c].at) \in LockRows
  BY <1>1, CoordinationAssumption DEF Requested, LockRows
<1> QED
  BY <1>2, <1>3 DEF CommitReserve, Grants, ReserveAnswered

\* A caller that turns to something else, or to nothing, leaves the others alone.
LEMMA AsksKept ==
    ASSUME CoordTyped, NEW c \in CoordCallers, NEW x,
           second' \in second..LastSecond, locks' \in Seq(LockRows), DOMAIN locks \subseteq DOMAIN locks',
           asks' = [asks EXCEPT ![c] = x],
           \/ x = NoAsk
           \/ x \in {Asked(t) : t \in 1..second'}
           \/ x.step = "sweep" /\ x.left \subseteq DOMAIN locks'
    PROVE  CoordTyped'
<1>1. DOMAIN asks' = CoordCallers /\ asks'[c] = x /\ \A d \in CoordCallers \ {c} : asks'[d] = asks[d]
  BY DEF CoordTyped
<1>2. second' \in 1..LastSecond /\ 1..second \subseteq 1..second'
  BY CoordinationAssumption DEF CoordTyped, CoordTypeOK, CoordCallers
<1>3. ASSUME NEW d \in CoordCallers \ {c}
      PROVE  \/ asks'[d] = NoAsk
             \/ asks'[d] \in {Asked(t) : t \in 1..second'}
             \/ asks'[d].step = "sweep" /\ asks'[d].left \subseteq DOMAIN locks'
  BY <1>1, <1>2 DEF CoordTyped, CoordTypeOK, CoordCallers
<1> QED
  BY <1>1, <1>2, <1>3 DEF CoordTyped, CoordTypeOK, CoordCallers

LEMMA CoordTypeStep == CoordTyped /\ [CoordNext]_coordVars => CoordTyped'
<1> SUFFICES ASSUME CoordTyped, [CoordNext]_coordVars PROVE CoordTyped'
  OBVIOUS
<1>0. CoordTypeOK /\ locks \in Seq(LockRows) /\ second \in 1..LastSecond /\ second \in second..LastSecond
      /\ LastSecond \in Nat
  BY CoordinationAssumption DEF CoordTyped, CoordTypeOK, CoordCallers
<1>1. ASSUME NEW c \in CoordCallers, BeginReserve(c) PROVE CoordTyped'
  <2>1. Asked(second) \in {Asked(t) : t \in 1..second'}
    BY <1>0, <1>1 DEF BeginReserve
  <2> QED
    BY <1>0, <1>1, <2>1, AsksKept DEF BeginReserve
<1>2. ASSUME NEW c \in CoordCallers, CommitReserve(c) PROVE CoordTyped'
  <2>1. asks' = [asks EXCEPT ![c] = NoAsk] /\ second' = second
    BY <1>2 DEF CommitReserve
  <2>2. locks' \in Seq(LockRows) /\ DOMAIN locks \subseteq DOMAIN locks'
    <3>1. CASE UNCHANGED locks
      BY <1>0, <3>1
    <3>2. CASE \E row, ids : row \in LockRows /\ locks' = Append(ReleaseRows(ids), row)
      <4>1. PICK row, ids : row \in LockRows /\ locks' = Append(ReleaseRows(ids), row)
        BY <3>2
      <4>2. ReleaseRows(ids) \in Seq(LockRows) /\ DOMAIN ReleaseRows(ids) = DOMAIN locks
        BY <1>0, ReleaseFades, FadedType
      <4> QED
        BY <4>1, <4>2
    <3>3. UNCHANGED locks \/ Grants
      BY <1>0, <1>2, ReserveGrants
    <3> QED
      BY <3>1, <3>2, <3>3 DEF Grants
  <2> QED
    BY <1>0, <2>1, <2>2, AsksKept
<1>3. ASSUME NEW c \in CoordCallers, SweepSelect(c) PROVE CoordTyped'
  <2>1. PICK ids \in SUBSET DOMAIN locks : asks' = [asks EXCEPT ![c] = Sweeping(ids)]
    BY <1>3 DEF SweepSelect, LapsedRows
  <2> QED
    BY <1>0, <1>3, <2>1, AsksKept DEF SweepSelect, Sweeping
<1>4. ASSUME NEW c \in CoordCallers, SweepRelease(c) PROVE CoordTyped'
  <2>1. PICK i \in asks[c].left : /\ locks' = ReleaseRows({i}) \/ UNCHANGED locks
           /\ asks' = [asks EXCEPT ![c] = IF asks[c].left \ {i} = {} THEN NoAsk ELSE Sweeping(asks[c].left \ {i})]
    BY <1>4 DEF SweepRelease
  <2>2. asks[c].left \subseteq DOMAIN locks
    BY <1>0, <1>4 DEF SweepRelease, CoordTypeOK, CoordCallers, NoAsk, Asked
  <2>3. locks' \in Seq(LockRows) /\ DOMAIN locks' = DOMAIN locks
    BY <1>0, <2>1, ReleaseFades, FadedType
  <2>4. second' = second
    BY <1>4 DEF SweepRelease
  <2> QED
    BY <1>0, <2>1, <2>2, <2>3, <2>4, AsksKept DEF Sweeping
<1>5. ASSUME NEW c \in CoordCallers, CallerDies(c) PROVE CoordTyped'
  BY <1>0, <1>5, AsksKept DEF CallerDies
<1>6. ASSUME NEW ids, ReleaseLocks(ids) PROVE CoordTyped'
  <2>1. locks' \in Seq(LockRows) /\ DOMAIN locks' = DOMAIN locks
    BY <1>0, <1>6, ReleaseFades, FadedType DEF ReleaseLocks
  <2> QED
    BY <2>1, <1>6 DEF ReleaseLocks, CoordTyped, CoordTypeOK, CoordCallers
<1>7. ASSUME NEW from \in Owners, NEW to \in Owners, NEW scope, NEW force, Transfer(from, to, scope, force)
      PROVE  CoordTyped'
  <2>1. locks' \in Seq(LockRows) /\ DOMAIN locks' = DOMAIN locks
    <3>1. locks' = [i \in 1..Len(locks) |->
                      IF i \in Held(from, scope) THEN [locks[i] EXCEPT !.owner = to] ELSE locks[i]]
      BY <1>0, <1>7 DEF Transfer
    <3>2. \A i \in 1..Len(locks) : locks[i] \in LockRows /\ [locks[i] EXCEPT !.owner = to] \in LockRows
      BY <1>0, TransferredRow
    <3>3. locks' \in [1..Len(locks) -> LockRows] /\ Len(locks) \in Nat
      BY <1>0, <3>1, <3>2
    <3> QED
      BY <1>0, <3>3
  <2> QED
    BY <2>1, <1>7 DEF Transfer, CoordTyped, CoordTypeOK, CoordCallers
<1>8. CASE SecondPasses
  <2>1. second' \in 1..LastSecond /\ 1..second \subseteq 1..second'
    BY <1>0, <1>8 DEF SecondPasses
  <2> QED
    BY <1>8, <2>1 DEF SecondPasses, CoordTyped, CoordTypeOK, CoordCallers
<1>9. CASE UNCHANGED coordVars
  BY <1>9 DEF coordVars, CoordTyped, CoordTypeOK, CoordCallers
<1> QED
  BY <1>1, <1>2, <1>3, <1>4, <1>5, <1>6, <1>7, <1>8, <1>9
     DEF CoordNext, CoordCallers, ReleaseById, ReleaseByOwner, TransferLocks

\* What a step can do to the table.
Fades == Faded(locks') /\ second' \in second..LastSecond

PassesOn ==
    /\ second' = second
    /\ \E to \in Owners, from \in Owners : \E scope :
          locks' = [i \in DOMAIN locks |-> IF i \in Held(from, scope)
                                          THEN [locks[i] EXCEPT !.owner = to] ELSE locks[i]]

LEMMA CoordShape == CoordTyped /\ [CoordNext]_coordVars => Fades \/ Grants \/ PassesOn
<1> SUFFICES ASSUME CoordTyped, [CoordNext]_coordVars PROVE Fades \/ Grants \/ PassesOn
  OBVIOUS
<1>0. CoordTypeOK /\ locks \in Seq(LockRows) /\ second \in 1..LastSecond /\ LastSecond \in Nat
  BY CoordinationAssumption DEF CoordTyped, CoordTypeOK, CoordCallers
<1>1. UNCHANGED <<locks, second>> => Fades
  BY <1>0 DEF Fades, Faded
<1>2. ASSUME NEW ids, locks' = ReleaseRows(ids), second' = second PROVE Fades
  BY <1>0, <1>2, ReleaseFades DEF Fades
<1>3. ASSUME NEW c \in CoordCallers, CommitReserve(c) PROVE Fades \/ Grants
  <2> QED
    BY <1>0, <1>1, <1>3, ReserveGrants DEF CommitReserve
<1>4. ASSUME NEW from \in Owners, NEW to \in Owners, NEW scope, NEW force, Transfer(from, to, scope, force)
      PROVE  PassesOn
  BY <1>4 DEF Transfer, PassesOn
<1>5. CASE SecondPasses
  BY <1>0, <1>5 DEF SecondPasses, Fades, Faded
<1>6. ASSUME NEW c \in CoordCallers, BeginReserve(c) \/ SweepSelect(c) \/ CallerDies(c) PROVE Fades
  BY <1>1, <1>6 DEF BeginReserve, SweepSelect, CallerDies
<1>7. ASSUME NEW c \in CoordCallers, SweepRelease(c) PROVE Fades
  BY <1>1, <1>2, <1>7 DEF SweepRelease
<1>8. ASSUME NEW ids, ReleaseLocks(ids) PROVE Fades
  BY <1>2, <1>8 DEF ReleaseLocks
<1>9. CASE UNCHANGED coordVars
  BY <1>1, <1>9 DEF coordVars
<1> QED
  BY <1>3, <1>4, <1>5, <1>6, <1>7, <1>8, <1>9
     DEF CoordNext, CoordCallers, ReleaseById, ReleaseByOwner, TransferLocks

\* Active, of a time.
Lives(l, t) == l.released = 0 /\ (l.expires = 0 \/ l.expires > t)

\* Two rows that may not both be held.
Apart(l, m) ==
    /\ l.scope = m.scope /\ l.owner # m.owner /\ Overlap(l.pattern, m.pattern)
    /\ l.exclusive \/ m.exclusive

LEMMA ExclusiveMeansApart ==
    ExclusiveHolds <=> \A i, j \in DOMAIN locks :
        ~(Lives(locks[i], second) /\ Lives(locks[j], second) /\ Apart(locks[i], locks[j]))
BY DEF ExclusiveHolds, Apart, Active, Unexpired, Lives

LEMMA FadedHolds ==
    ASSUME CoordTyped, ExclusiveHolds, NEW ls, Faded(ls),
           NEW i \in DOMAIN locks, NEW j \in DOMAIN locks,
           Lives(ls[i], second), Lives(ls[j], second)
    PROVE  ~Apart(ls[i], ls[j])
<1>1. Lives(locks[i], second) /\ Lives(locks[j], second)
  BY DEF Faded, Lives
<1> QED
  BY <1>1, ExclusiveMeansApart DEF Faded, Apart

LEMMA ExclusiveStep == CoordTyped /\ ExclusiveHolds /\ [CoordNext]_coordVars => ExclusiveHolds'
<1> SUFFICES ASSUME CoordTyped, ExclusiveHolds, [CoordNext]_coordVars,
                    NEW i \in DOMAIN locks', NEW j \in DOMAIN locks',
                    Lives(locks'[i], second'), Lives(locks'[j], second')
             PROVE  ~Apart(locks'[i], locks'[j])
  BY DEF ExclusiveHolds, Apart, Active, Unexpired, Lives
<1>0. CoordTypeOK /\ locks \in Seq(LockRows) /\ second \in 1..LastSecond /\ LastSecond \in Nat
  BY CoordinationAssumption DEF CoordTyped, CoordTypeOK, CoordCallers
<1>1. CASE Fades
  <2>1. i \in DOMAIN locks /\ j \in DOMAIN locks
    BY <1>0, <1>1 DEF Fades, Faded
  <2>2. locks' \in Seq(LockRows) /\ locks'[i] \in LockRows /\ locks'[j] \in LockRows
    BY <1>0, <1>1, <2>1 DEF Fades, Faded
  <2>3. Lives(locks'[i], second) /\ Lives(locks'[j], second)
    BY <1>0, <1>1, <2>2 DEF Fades, Lives, LockRows
  <2> QED
    BY <1>1, <2>1, <2>3, FadedHolds DEF Fades
<1>2. CASE Grants
  <2>1. PICK row, ids : row \in LockRows /\ Blockers(row) = {} /\ locks' = Append(ReleaseRows(ids), row)
    BY <1>2 DEF Grants
  <2> DEFINE ls == ReleaseRows(ids)
  <2>2. Faded(ls) /\ ls \in Seq(LockRows) /\ DOMAIN ls = DOMAIN locks
    BY <1>0, ReleaseFades, FadedType
  <2>3. Lives(locks'[i], second) /\ Lives(locks'[j], second)
    BY <1>2 DEF Grants
  <2> HIDE DEF ls
  <2>4. DOMAIN locks' = DOMAIN locks \cup {Len(locks) + 1} /\ locks'[Len(locks) + 1] = row
        /\ \A k \in DOMAIN locks : locks'[k] = ls[k]
    <3>1. locks' = Append(ls, row) /\ Len(ls) = Len(locks) /\ Len(ls) \in Nat
      BY <1>0, <2>1, <2>2 DEF ls, Faded
    <3> QED
      BY <1>0, <2>2, <3>1
  <2>5. ASSUME NEW k \in DOMAIN locks, Lives(ls[k], second) PROVE ~Apart(row, ls[k]) /\ ~Apart(ls[k], row)
    <3>1. Active(locks[k])
      BY <2>2, <2>5 DEF Faded, Active, Unexpired, Lives
    <3>2. ~Apart(row, locks[k])
      BY <2>1, <3>1 DEF Blockers, Apart
    <3>3. ls[k] \in LockRows
      BY <2>2
    <3>4. ls[k].pattern \in Patterns /\ row.pattern \in Patterns
      BY <2>1, <3>3 DEF LockRows
    <3> QED
      BY <2>2, <3>2, <3>4, CoordinationAssumption DEF Faded, Apart, Overlap
  <2> QED
    BY <2>2, <2>3, <2>4, <2>5, FadedHolds DEF Apart
<1>3. CASE PassesOn
  <2>0. PICK to \in Owners, from \in Owners : \E scope :
           locks' = [k \in DOMAIN locks |-> IF k \in Held(from, scope)
                                            THEN [locks[k] EXCEPT !.owner = to] ELSE locks[k]]
    BY <1>3 DEF PassesOn
  <2>1. PICK scope :
           locks' = [k \in DOMAIN locks |-> IF k \in Held(from, scope)
                                            THEN [locks[k] EXCEPT !.owner = to] ELSE locks[k]]
    BY <2>0
  <2>2. \A k \in DOMAIN locks : locks[k] \in LockRows
    BY <1>0
  <2>3. DOMAIN locks' = DOMAIN locks
    BY <2>1
  <2>4. ASSUME NEW k \in DOMAIN locks
        PROVE  /\ locks'[k].scope = locks[k].scope /\ locks'[k].pattern = locks[k].pattern
               /\ locks'[k].exclusive = locks[k].exclusive /\ locks'[k].expires = locks[k].expires
               /\ locks'[k].released = locks[k].released
               /\ locks'[k].owner = IF k \in Held(from, scope) THEN to ELSE locks[k].owner
    BY <2>1, <2>2, TransferredRow
  <2>5. Lives(locks[i], second) /\ Lives(locks[j], second)
    BY <1>3, <2>3, <2>4 DEF PassesOn, Lives
  <2>6. ~Apart(locks[i], locks[j])
    BY <2>3, <2>5, ExclusiveMeansApart
  <2>7. \A k \in {i, j} : k \in Held(from, scope) <=> locks[k].owner = from /\ locks[k].scope = scope
    BY <2>3, <2>5 DEF Held, Active, Unexpired, Lives
  <2> QED
    BY <2>3, <2>4, <2>6, <2>7 DEF Apart
<1> QED
  BY <1>1, <1>2, <1>3, CoordShape

LEMMA LocksEndOnceStep ==
    ASSUME CoordTyped, [CoordNext]_coordVars, NEW i \in DOMAIN locks
    PROVE  /\ i \in DOMAIN locks'
           /\ locks[i].released # 0 => locks'[i] = locks[i]
           /\ locks'[i].expires = locks[i].expires
<1>0. CoordTypeOK /\ locks \in Seq(LockRows)
  BY DEF CoordTyped, CoordTypeOK, CoordCallers
<1>1. CASE Fades
  BY <1>0, <1>1, FadedType DEF Fades, Faded
<1>2. CASE Grants
  <2>1. PICK row, ids : row \in LockRows /\ locks' = Append(ReleaseRows(ids), row)
    BY <1>2 DEF Grants
  <2> DEFINE ls == ReleaseRows(ids)
  <2>2. Faded(ls) /\ ls \in Seq(LockRows) /\ DOMAIN ls = DOMAIN locks /\ locks' = Append(ls, row)
    BY <1>0, <2>1, ReleaseFades, FadedType
  <2> HIDE DEF ls
  <2>3. i \in DOMAIN locks' /\ locks'[i] = ls[i]
    BY <2>2
  <2> QED
    BY <2>2, <2>3 DEF Faded
<1>3. CASE PassesOn
  <2>0. PICK to \in Owners, from \in Owners : \E scope :
           locks' = [k \in DOMAIN locks |-> IF k \in Held(from, scope)
                                            THEN [locks[k] EXCEPT !.owner = to] ELSE locks[k]]
    BY <1>3 DEF PassesOn
  <2>1. PICK scope :
           locks' = [k \in DOMAIN locks |-> IF k \in Held(from, scope)
                                            THEN [locks[k] EXCEPT !.owner = to] ELSE locks[k]]
    BY <2>0
  <2>2. locks[i] \in LockRows
    BY <1>0
  <2> QED
    BY <2>1, <2>2, TransferredRow DEF Held, Active
<1> QED
  BY <1>1, <1>2, <1>3, CoordShape

\* What a sweep has selected has lapsed, and stays so.
SelectedLapsed ==
    \A c \in CoordCallers : asks[c].step = "sweep" =>
        \A i \in asks[c].left : locks[i].expires \in 1..second

\* The selections of a step are old ones, or rows that lapse before its cutoff.
LEMMA LapsedStep == CoordTyped /\ SelectedLapsed /\ [CoordNext]_coordVars => SelectedLapsed'
<1> SUFFICES ASSUME CoordTyped, SelectedLapsed, [CoordNext]_coordVars PROVE SelectedLapsed'
  OBVIOUS
<1>0. /\ CoordTypeOK /\ locks \in Seq(LockRows) /\ second \in 1..LastSecond /\ LastSecond \in Nat
      /\ DOMAIN asks = CoordCallers
      /\ \A c \in CoordCallers : asks[c].step = "sweep" => asks[c].left \subseteq DOMAIN locks
  BY CoordinationAssumption DEF CoordTyped, CoordTypeOK, CoordCallers, NoAsk, Asked
<1>1. second' \in second..LastSecond
  BY <1>0, CoordShape DEF Fades, Grants, PassesOn
<1>2. \A i \in DOMAIN locks : locks'[i].expires = locks[i].expires
  BY LocksEndOnceStep
<1>3. ASSUME NEW c \in CoordCallers, asks'[c].step = "sweep",
             asks'[c] = asks[c] \/ (asks[c].step = "sweep" /\ asks'[c].left \subseteq asks[c].left)
      PROVE  \A i \in asks'[c].left : locks'[i].expires \in 1..second'
  BY <1>0, <1>1, <1>2, <1>3 DEF SelectedLapsed
<1>4. ASSUME NEW c \in CoordCallers, NEW x, asks' = [asks EXCEPT ![c] = x],
             \/ x.step # "sweep"
             \/ asks[c].step = "sweep" /\ x.left \subseteq asks[c].left
             \/ \A i \in x.left : locks'[i].expires \in 1..second'
      PROVE  SelectedLapsed'
  <2>1. asks'[c] = x /\ \A d \in CoordCallers \ {c} : asks'[d] = asks[d]
    BY <1>0, <1>4
  <2> QED
    BY <1>3, <1>4, <2>1 DEF SelectedLapsed
<1>5. ASSUME NEW c \in CoordCallers, SweepSelect(c) PROVE SelectedLapsed'
  <2>1. PICK age \in 0..1 :
           asks' = [asks EXCEPT ![c] = Sweeping(LapsedRows(second - age))]
    BY <1>5 DEF SweepSelect
  <2> DEFINE ids == LapsedRows(second - age)
  <2>2. ASSUME NEW i \in ids PROVE locks'[i].expires \in 1..second'
    <3>1. i \in DOMAIN locks /\ locks[i] \in LockRows /\ LockLapsed(locks[i], second - age)
      BY <1>0 DEF LapsedRows
    <3> QED
      BY <1>0, <1>1, <1>2, <3>1 DEF LockRows, LockLapsed
  <2> HIDE DEF ids
  <2>3. asks' = [asks EXCEPT ![c] = Sweeping(ids)] /\ Sweeping(ids).left = ids
    BY <2>1 DEF ids, Sweeping
  <2> QED
    BY <1>4, <2>2, <2>3
<1>6. ASSUME NEW c \in CoordCallers, SweepRelease(c) PROVE SelectedLapsed'
  <2>1. PICK i \in asks[c].left :
           asks' = [asks EXCEPT ![c] = IF asks[c].left \ {i} = {} THEN NoAsk ELSE Sweeping(asks[c].left \ {i})]
    BY <1>6 DEF SweepRelease
  <2>2. asks[c].step = "sweep"
    BY <1>6 DEF SweepRelease
  <2>3. CASE asks[c].left \ {i} = {}
    BY <1>4, <2>1, <2>3 DEF NoAsk
  <2>4. CASE asks[c].left \ {i} # {}
    BY <1>4, <2>1, <2>2, <2>4 DEF Sweeping
  <2> QED
    BY <2>3, <2>4
<1>7. ASSUME NEW c \in CoordCallers, BeginReserve(c) \/ CommitReserve(c) \/ CallerDies(c)
      PROVE  SelectedLapsed'
  <2>1. PICK x : asks' = [asks EXCEPT ![c] = x] /\ x.step # "sweep"
    BY <1>7 DEF BeginReserve, CommitReserve, CallerDies, NoAsk, Asked
  <2> QED
    BY <1>4, <2>1
<1>8. ASSUME UNCHANGED asks PROVE SelectedLapsed'
  BY <1>3, <1>8 DEF SelectedLapsed
<1> QED
  BY <1>5, <1>6, <1>7, <1>8
     DEF CoordNext, CoordCallers, ReleaseById, ReleaseByOwner, TransferLocks, ReleaseLocks, Transfer,
         SecondPasses, coordVars

\* A sweep, on its own or in a reserve, ends only what has lapsed.
LEMMA SweepsEndLapsed ==
    ASSUME CoordTyped, SelectedLapsed, [CoordNext]_coordVars, NEW i \in DOMAIN locks,
           asks' # asks, locks'[i] # locks[i]
    PROVE  ~Unexpired(locks[i])
<1>0. /\ CoordTypeOK /\ locks \in Seq(LockRows) /\ second \in 1..LastSecond /\ LastSecond \in Nat
      /\ DOMAIN asks = CoordCallers
  BY CoordinationAssumption DEF CoordTyped, CoordTypeOK, CoordCallers
<1>1. locks[i] \in LockRows
  BY <1>0
<1>2. ASSUME NEW ids, i \notin ids, locks' = ReleaseRows(ids) PROVE FALSE
  BY <1>0, <1>2 DEF ReleaseRows
<1>3. ASSUME NEW c \in CoordCallers, SweepRelease(c) PROVE ~Unexpired(locks[i])
  <2>1. PICK k \in asks[c].left : locks' = ReleaseRows({k}) \/ UNCHANGED locks
    BY <1>3 DEF SweepRelease
  <2>2. i = k
    BY <1>2, <2>1
  <2>3. locks[i].expires \in 1..second
    BY <1>3, <2>2 DEF SweepRelease, SelectedLapsed
  <2> QED
    BY <1>0, <2>3 DEF Unexpired
<1>4. ASSUME NEW c \in CoordCallers, CommitReserve(c) PROVE ~Unexpired(locks[i])
  <2>1. PICK row \in LockRows, ids \in {{}, LapsedRows(second)} : locks' = Append(ReleaseRows(ids), row)
    BY <1>0, <1>4, ReserveGrants DEF Grants
  <2> DEFINE ls == ReleaseRows(ids)
  <2>2. ls \in Seq(LockRows) /\ DOMAIN ls = DOMAIN locks
    BY <1>0, ReleaseFades, FadedType
  <2>3. ls[i] = IF i \in ids /\ locks[i].released = 0 THEN [locks[i] EXCEPT !.released = second] ELSE locks[i]
    BY DEF ReleaseRows
  <2> HIDE DEF ls
  <2>4. locks'[i] = ls[i]
    BY <2>1, <2>2 DEF ls
  <2>5. i \in ids
    BY <2>3, <2>4
  <2>6. LockLapsed(locks[i], second)
    BY <2>1, <2>5 DEF LapsedRows
  <2> QED
    BY <1>0, <1>1, <2>6 DEF LockLapsed, Unexpired, LockRows
<1> QED
  BY <1>3, <1>4
     DEF CoordNext, CoordCallers, BeginReserve, SweepSelect, CallerDies, ReleaseById, ReleaseByOwner,
         TransferLocks, ReleaseLocks, Transfer, SecondPasses, coordVars

\* No two owners ever hold overlapping patterns of a scope when one of them holds
\* its own exclusively: over forced transfers, late reservations, stale sweeps and
\* killed commands (Store.Reserve, Store.Transfer, Store.Sweep).
THEOREM ExclusiveLocksHold == CoordSpec => [](CoordTypeOK /\ ExclusiveHolds)
<1>1. CoordInit => CoordTyped /\ ExclusiveHolds
  BY CoordTypeInit DEF CoordInit, CoordTyped, CoordCallers, ExclusiveHolds
<1> QED
  BY <1>1, CoordTypeStep, ExclusiveStep, PTL DEF CoordSpec, CoordTyped

\* A row is released once, by a sweep only when it has lapsed, and nothing revives or
\* prolongs it, whatever an old selection of a sweep still names (Store.Sweep).
THEOREM LocksEndOnce == CoordSpec => LockEndsOnce
<1>1. CoordInit => CoordTyped /\ SelectedLapsed
  BY CoordTypeInit DEF CoordInit, CoordTyped, CoordCallers, SelectedLapsed, NoAsk
<1>2. CoordTyped /\ SelectedLapsed /\ [CoordNext]_coordVars
        => [\A i \in DOMAIN locks :
              /\ i \in DOMAIN locks'
              /\ locks[i].released # 0 => locks'[i] = locks[i]
              /\ (asks' # asks /\ locks'[i] # locks[i]) => ~Unexpired(locks[i])
              /\ locks'[i].expires = locks[i].expires]_coordVars
  BY LocksEndOnceStep, SweepsEndLapsed
<1> QED
  BY <1>1, <1>2, CoordTypeStep, LapsedStep, PTL DEF CoordSpec, LockEndsOnce

\* What check shows free, reserve does not refuse (Store.Check, Store.Reserve).
THEOREM ClearIsFree == CoordSpec => []ClearMeansFree
<1>1. ClearMeansFree
  BY DEF ClearMeansFree, CheckRows, Blockers
<1> QED
  BY <1>1, PTL

---------------------------------------------------------------------------
(* The lock directory *)

LockSteps ==
    {"idle", "acquire", "made", "exists", "wait", "undo", "rename", "broken", "rmdir",
     "unlink", "unmake", "clean", "cleandir"}

Readable == LockProcs \cup {NoOwner}

LockDir == [made : BOOLEAN, file : Readable, old : BOOLEAN, debris : BOOLEAN]

FileLockTyped ==
    /\ dir \in LockDir
    /\ running \subseteq LockProcs /\ holding \subseteq LockProcs /\ overtaken \in BOOLEAN
    /\ at \in [LockProcs -> LockSteps] /\ judged \in [LockProcs -> Readable]
    /\ ~dir.made => dir = NoDir

\* A process that made the directory and has not written its file is alone with it.
MakerAlone ==
    \A p \in running : at[p] = "made" =>
        /\ dir = FreshDir
        /\ \A q \in running \ {p} : at[q] \notin Acting \cup {"made"}

\* Who is about to remove a file it has read finds that file or none, and a
\* breaker's is a dead process's.
JudgedRight ==
    \A p \in running :
        /\ at[p] \in {"rename", "clean"} /\ HasFile => dir.file = judged[p]
        /\ at[p] = "rename" => Dead(judged[p])
        /\ at[p] = "unlink" => dir.file = p

HoldersNamed == \A p \in holding \cap running : dir.made /\ dir.file = p

FileLockInv == FileLockTyped /\ (~overtaken => MakerAlone /\ JudgedRight /\ HoldersNamed)

\* What a system call makes of the directory.
LEMMA LockDirRow ==
    ASSUME FileLockTyped
    PROVE /\ RemoveDir => dir' \in LockDir /\ (~dir'.made => dir' = NoDir)
          /\ RemoveFile => dir' \in LockDir /\ (~dir'.made => dir' = NoDir)
          /\ NoDir \in LockDir /\ FreshDir \in LockDir /\ FreshDir.made
          /\ \A p \in LockProcs : dir.made /\ dir' = [dir EXCEPT !.file = p, !.old = FALSE]
                => dir' \in LockDir /\ dir'.made
          /\ HasFile /\ dir' = [dir EXCEPT !.file = NoOwner, !.debris = TRUE, !.old = FALSE]
                => dir' \in LockDir /\ dir'.made
          /\ dir' = [dir EXCEPT !.debris = FALSE, !.old = FALSE]
                => dir' \in LockDir /\ (~dir'.made => dir' = NoDir)
<1>1. dir \in LockDir /\ (~dir.made => dir = NoDir)
  BY DEF FileLockTyped
<1>2. NoDir \in LockDir /\ FreshDir \in LockDir /\ FreshDir.made
  BY DEF LockDir, Readable, NoDir, FreshDir
<1>3. RemoveDir => dir' \in LockDir /\ (~dir'.made => dir' = NoDir)
  BY <1>1, <1>2 DEF RemoveDir
<1>4. dir = [made |-> dir.made, file |-> dir.file, old |-> dir.old, debris |-> dir.debris]
      /\ dir.made \in BOOLEAN /\ dir.file \in Readable /\ dir.debris \in BOOLEAN
  BY <1>1 DEF LockDir
<1>5. ASSUME RemoveFile PROVE dir' \in LockDir /\ (~dir'.made => dir' = NoDir)
  <2>1. dir' = [made |-> dir.made, file |-> NoOwner, old |-> FALSE, debris |-> dir.debris]
    BY <1>4, <1>5 DEF RemoveFile
  <2>2. dir' \in LockDir /\ dir'.made = dir.made
    BY <1>4, <2>1 DEF LockDir, Readable
  <2>3. ~dir.made => dir.file = NoOwner /\ dir.debris = FALSE
    BY <1>1 DEF NoDir
  <2> QED
    BY <2>1, <2>2, <2>3, <1>4 DEF NoDir
<1>6. ASSUME NEW p \in LockProcs, dir.made, dir' = [dir EXCEPT !.file = p, !.old = FALSE]
      PROVE dir' \in LockDir /\ dir'.made
  <2>1. dir' = [made |-> dir.made, file |-> p, old |-> FALSE, debris |-> dir.debris]
    BY <1>4, <1>6
  <2> QED
    BY <1>4, <1>6, <2>1 DEF LockDir, Readable
<1>7. ASSUME HasFile, dir' = [dir EXCEPT !.file = NoOwner, !.debris = TRUE, !.old = FALSE]
      PROVE dir' \in LockDir /\ dir'.made
  <2>1. dir' = [made |-> dir.made, file |-> NoOwner, old |-> FALSE, debris |-> TRUE]
    BY <1>4, <1>7
  <2>2. dir.made
    BY <1>1, <1>7 DEF HasFile, NoDir
  <2> QED
    BY <1>4, <2>1, <2>2 DEF LockDir, Readable
<1>8. ASSUME dir' = [dir EXCEPT !.debris = FALSE, !.old = FALSE]
      PROVE dir' \in LockDir /\ (~dir'.made => dir' = NoDir)
  <2>1. dir' = [made |-> dir.made, file |-> dir.file, old |-> FALSE, debris |-> FALSE]
    BY <1>4, <1>8
  <2>2. dir' \in LockDir /\ dir'.made = dir.made
    BY <1>1, <1>4, <2>1 DEF LockDir
  <2>3. ~dir.made => dir.file = NoOwner /\ dir.debris = FALSE
    BY <1>1 DEF NoDir
  <2> QED
    BY <2>1, <2>2, <2>3, <1>4 DEF NoDir
<1> QED
  BY <1>2, <1>3, <1>5, <1>6, <1>7, <1>8

LEMMA FileLockInvInit == FileLockInit => FileLockInv
<1> SUFFICES ASSUME FileLockInit PROVE FileLockInv
  OBVIOUS
<1>1. FileLockTyped
  BY DEF FileLockInit, FileLockTyped, NoDir, LockDir, Readable, LockSteps
<1>2. MakerAlone /\ JudgedRight /\ HoldersNamed
  BY DEF FileLockInit, MakerAlone, JudgedRight, HoldersNamed
<1> QED
  BY <1>1, <1>2 DEF FileLockInv

LEMMA FileLockTypeStep == FileLockTyped /\ [FileLockNext]_flockVars => FileLockTyped'
<1> SUFFICES ASSUME FileLockTyped, [FileLockNext]_flockVars PROVE FileLockTyped'
  OBVIOUS
<1> USE FileLockAssumption
    DEF FileLockTyped, LockSteps, Readable, Goes, Keep
<1> HIDE DEF LockDir, NoDir, FreshDir, RemoveDir, RemoveFile
<1>1. ASSUME NEW p \in LockProcs, MakeDir(p) PROVE FileLockTyped'
  BY <1>1, LockDirRow DEF MakeDir
<1>2. ASSUME NEW p \in LockProcs, WriteOwner(p) PROVE FileLockTyped'
  BY <1>2, LockDirRow DEF WriteOwner
<1>3. ASSUME NEW p \in LockProcs, UndoDir(p) PROVE FileLockTyped'
  BY <1>3, LockDirRow DEF UndoDir
<1>4. ASSUME NEW p \in LockProcs, Judge(p) PROVE FileLockTyped'
  <2>1. dir.file \in Readable
    BY DEF LockDir
  <2> QED
    BY <1>4, <2>1 DEF Judge
<1>5. ASSUME NEW p \in LockProcs, RenameOwner(p) PROVE FileLockTyped'
  BY <1>5, LockDirRow DEF RenameOwner
<1>6. ASSUME NEW p \in LockProcs, RemoveRenamed(p) PROVE FileLockTyped'
  BY <1>6, LockDirRow DEF RemoveRenamed
<1>7. ASSUME NEW p \in LockProcs, RemoveBroken(p) PROVE FileLockTyped'
  BY <1>7, LockDirRow DEF RemoveBroken
<1>8. ASSUME NEW p \in LockProcs, RetryOrTimeout(p) PROVE FileLockTyped'
  BY <1>8 DEF RetryOrTimeout
<1>9. ASSUME NEW p \in LockProcs, ReadOwner(p) PROVE FileLockTyped'
  BY <1>9 DEF ReadOwner
<1>10. ASSUME NEW p \in LockProcs, Unlink(p) PROVE FileLockTyped'
  BY <1>10, LockDirRow DEF Unlink
<1>11. ASSUME NEW p \in LockProcs, Unmake(p) PROVE FileLockTyped'
  BY <1>11, LockDirRow DEF Unmake
<1>12. ASSUME NEW p \in LockProcs, ListStale(p) PROVE FileLockTyped'
  <2>1. dir.file \in Readable
    BY DEF LockDir
  <2> QED
    BY <1>12, <2>1 DEF ListStale
<1>13. ASSUME NEW p \in LockProcs, CleanFile(p) PROVE FileLockTyped'
  BY <1>13, LockDirRow DEF CleanFile
<1>14. ASSUME NEW p \in LockProcs, CleanDir(p) PROVE FileLockTyped'
  BY <1>14, LockDirRow DEF CleanDir
<1>15. ASSUME NEW p \in LockProcs, ProcDies(p) PROVE FileLockTyped'
  BY <1>15 DEF ProcDies
<1>16. CASE GrowsOld
  BY <1>16 DEF GrowsOld, LockDir
<1>17. CASE UNCHANGED flockVars
  BY <1>17 DEF flockVars
<1> QED
  BY <1>1, <1>2, <1>3, <1>4, <1>5, <1>6, <1>7, <1>8, <1>9, <1>10, <1>11, <1>12, <1>13,
     <1>14, <1>15, <1>16, <1>17
  DEF FileLockNext

\* Each system call keeps what it finds, unless it overtakes someone: whoever
\* removes a file has judged that very file, and a directory that goes was empty.
LEMMA FileLockRightStep ==
    ASSUME FileLockInv, [FileLockNext]_flockVars, ~overtaken'
    PROVE (MakerAlone /\ JudgedRight /\ HoldersNamed)'
<1> ~overtaken /\ FileLockTyped
  BY DEF FileLockInv, FileLockNext, flockVars, MakeDir, WriteOwner, UndoDir, Judge,
         RenameOwner, RemoveRenamed, RemoveBroken, RetryOrTimeout, ReadOwner, Unlink, Unmake,
         ListStale, CleanFile, CleanDir, ProcDies, GrowsOld, Keep, FileLockTyped
<1> MakerAlone /\ JudgedRight /\ HoldersNamed
  BY DEF FileLockInv
<1> USE FileLockAssumption
    DEF FileLockTyped, LockSteps, Readable, Goes, Keep, NoDir, FreshDir, HasFile, Empty, Acting,
        MakerAlone, JudgedRight, HoldersNamed, Dead
<1> DEFINE Right == MakerAlone /\ JudgedRight /\ HoldersNamed
<1>1. ASSUME NEW p \in LockProcs, MakeDir(p) PROVE Right'
  <2>1. CASE ~dir.made
    <3>1. \A q \in running : at[q] \notin Acting
      BY <1>1, <2>1 DEF MakeDir
    <3>2. dir' = FreshDir /\ Goes(p, "made") /\ p \in running
          /\ holding' = holding /\ judged' = judged
      BY <1>1, <2>1 DEF MakeDir
    <3>3. \A q \in running : at[q] # "made" /\ q \notin holding
      BY <2>1
    <3>4. \A q \in running : at'[q] = IF q = p THEN "made" ELSE at[q]
      BY <3>2
    <3>5. MakerAlone'
      BY <3>1, <3>2, <3>3, <3>4
    <3>6. JudgedRight'
      BY <3>1, <3>2, <3>4
    <3>7. HoldersNamed'
      BY <3>2, <3>3
    <3> QED
      BY <3>5, <3>6, <3>7
  <2>2. CASE dir.made
    <3>1. \A q \in running' : at'[q] = at[q] \/ at'[q] = "exists"
      BY <1>1, <2>2 DEF MakeDir
    <3>2. UNCHANGED <<dir, running, judged, holding>>
      BY <1>1, <2>2 DEF MakeDir
    <3> QED
      BY <3>1, <3>2
  <2> QED
    BY <2>1, <2>2
<1>2. ASSUME NEW p \in LockProcs, WriteOwner(p) PROVE Right'
  <2>1. dir = FreshDir /\ \A q \in running \ {p} : at[q] \notin Acting \cup {"made"}
    BY <1>2 DEF WriteOwner
  <2>2. dir' = [dir EXCEPT !.file = p, !.old = FALSE] /\ holding' = holding \cup {p}
        /\ Goes(p, "idle") /\ judged' = judged
    BY <1>2, <2>1 DEF WriteOwner
  <2>3. \A q \in running : at'[q] \notin Acting \cup {"made"}
    BY <2>1, <2>2
  <2>4. \A q \in running : q \notin holding
    BY <2>1
  <2>5. dir'.made /\ dir'.file = p
    BY <2>1, <2>2
  <2> QED
    BY <2>2, <2>3, <2>4, <2>5
<1>3. ASSUME NEW p \in LockProcs, p \in running, at[p] \in Acting, RemoveDir,
             NEW s \in LockSteps \ (Acting \cup {"made"}), Goes(p, s), Keep(p)
      PROVE Right'
  <2>1. \A q \in running : at[q] # "made" /\ at'[q] # "made"
    BY <1>3
  <2>2. CASE Empty
    <3>1. dir' = NoDir
      BY <1>3, <2>2 DEF RemoveDir
    <3>2. \A q \in running : q \notin holding /\ at[q] # "unlink" /\ at'[q] # "unlink"
      BY <1>3, <2>2
    <3>3. \A q \in running : at'[q] = "rename" => at[q] = "rename"
      BY <1>3
    <3>4. running' = running /\ holding' = holding /\ judged' = judged /\ ~HasFile'
      BY <1>3, <3>1
    <3> QED
      BY <2>1, <3>2, <3>3, <3>4
  <2>3. CASE ~Empty
    BY <1>3, <2>1, <2>3 DEF RemoveDir
  <2> QED
    BY <2>2, <2>3
<1>4. ASSUME NEW p \in LockProcs, UndoDir(p) PROVE Right'
  BY <1>3, <1>4 DEF UndoDir
<1>5. ASSUME NEW p \in LockProcs, Judge(p) PROVE Right'
  <2>1. CASE HasFile /\ Breakable(dir.file)
    BY <1>5, <2>1 DEF Judge, Breakable
  <2>2. CASE ~(HasFile /\ Breakable(dir.file))
    <3>1. \A q \in running' : at'[q] = at[q] \/ at'[q] = "wait"
      BY <1>5, <2>2 DEF Judge
    <3>2. UNCHANGED <<dir, running, judged, holding>>
      BY <1>5, <2>2 DEF Judge
    <3> QED
      BY <3>1, <3>2
  <2> QED
    BY <2>1, <2>2
<1>6. ASSUME NEW p \in LockProcs, RenameOwner(p) PROVE Right'
  <2>1. \A q \in running : at[q] # "made"
    BY <1>6 DEF RenameOwner
  <2>2. CASE HasFile
    <3>1. dir.file \notin running
      BY <1>6, <2>2 DEF RenameOwner
    <3>2. \A q \in running : q \notin holding /\ at[q] # "unlink"
      BY <3>1
    <3>3. ~HasFile' /\ running' = running /\ holding' = holding
      BY <1>6, <2>2, <3>1 DEF RenameOwner, LockDir
    <3>4. \A q \in running : at'[q] \notin {"made", "unlink"}
                             /\ (at'[q] = "rename" => at[q] = "rename" /\ judged'[q] = judged[q])
      BY <1>6, <2>1, <2>2, <3>2 DEF RenameOwner
    <3> QED
      BY <3>2, <3>3, <3>4
  <2>3. CASE ~HasFile
    <3>1. \A q \in running' : at'[q] = at[q] \/ at'[q] = "wait"
      BY <1>6, <2>3 DEF RenameOwner
    <3>2. UNCHANGED <<dir, running, holding>> /\ \A q \in running : q = p \/ judged'[q] = judged[q]
      BY <1>6, <2>3 DEF RenameOwner
    <3>3. at'[p] = "wait"
      BY <1>6, <2>3 DEF RenameOwner
    <3> QED
      BY <3>1, <3>2, <3>3, <2>1
  <2> QED
    BY <2>2, <2>3
<1>7. ASSUME NEW p \in LockProcs, RemoveRenamed(p) PROVE Right'
  BY <1>7 DEF RemoveRenamed
<1>8. ASSUME NEW p \in LockProcs, RemoveBroken(p) PROVE Right'
  <2>1. PICK s \in {"acquire", "wait"} : Goes(p, s)
    BY <1>8 DEF RemoveBroken
  <2>2. p \in running /\ at[p] \in Acting /\ RemoveDir /\ Keep(p)
    BY <1>8 DEF RemoveBroken
  <2>3. s \in LockSteps \ (Acting \cup {"made"})
    OBVIOUS
  <2> QED
    BY <1>3, <2>1, <2>2, <2>3
<1>9. ASSUME NEW p \in LockProcs, RetryOrTimeout(p) PROVE Right'
  <2>1. \A q \in running' : at'[q] = at[q] \/ at'[q] \in {"acquire", "idle"}
    BY <1>9 DEF RetryOrTimeout
  <2>2. UNCHANGED <<dir, running, judged, holding>>
    BY <1>9 DEF RetryOrTimeout
  <2> QED
    BY <2>1, <2>2
<1>10. ASSUME NEW p \in LockProcs, ReadOwner(p) PROVE Right'
  BY <1>10 DEF ReadOwner, MayRelease
<1>11. ASSUME NEW p \in LockProcs, Unlink(p) PROVE Right'
  <2>1. dir.file = p /\ p \in running /\ at[p] = "unlink"
    BY <1>11 DEF Unlink
  <2>2. \A q \in running \ {p} : q \notin holding /\ at[q] \notin {"made", "unlink"}
    BY <2>1
  <2> QED
    BY <1>11, <2>1, <2>2 DEF Unlink, RemoveFile
<1>12. ASSUME NEW p \in LockProcs, Unmake(p) PROVE Right'
  BY <1>3, <1>12 DEF Unmake
<1>13. ASSUME NEW p \in LockProcs, ListStale(p) PROVE Right'
  BY <1>13 DEF ListStale
<1>14. ASSUME NEW p \in LockProcs, CleanFile(p) PROVE Right'
  <2>1. \A q \in running : at[q] # "made"
    BY <1>14 DEF CleanFile
  <2>2. CASE Dead(judged[p])
    <3>1. \A q \in running : q \notin holding \/ ~HasFile
      BY <1>14, <2>2 DEF CleanFile
    <3>2. \A q \in running : q \notin holding /\ at[q] # "unlink"
      BY <1>14, <2>2, <3>1 DEF CleanFile
    <3>3. dir' = [dir EXCEPT !.file = NoOwner, !.old = FALSE] /\ Goes(p, "cleandir")
          /\ holding' = holding
      BY <1>14, <2>2 DEF CleanFile, RemoveFile
    <3>4. ~HasFile'
      BY <3>3
    <3>5. \A q \in running : at'[q] \notin {"made", "unlink"}
                             /\ (at'[q] = "rename" => at[q] = "rename" /\ judged'[q] = judged[q])
      BY <1>14, <2>1, <3>2, <3>3 DEF CleanFile
    <3> QED
      BY <3>2, <3>3, <3>4, <3>5
  <2>3. CASE ~Dead(judged[p])
    BY <1>14, <2>1, <2>3 DEF CleanFile
  <2> QED
    BY <2>2, <2>3
<1>15. ASSUME NEW p \in LockProcs, CleanDir(p) PROVE Right'
  BY <1>3, <1>15 DEF CleanDir
<1>16. ASSUME NEW p \in LockProcs, ProcDies(p) PROVE Right'
  BY <1>16 DEF ProcDies
<1>17. CASE GrowsOld
  <2>1. \A q \in running : at[q] # "made"
    BY <1>17 DEF GrowsOld, Between
  <2>2. dir' = [dir EXCEPT !.old = TRUE] /\ UNCHANGED <<running, at, judged, holding>>
    BY <1>17 DEF GrowsOld
  <2>3. dir'.file = dir.file /\ dir'.made = dir.made
    BY <2>2 DEF LockDir
  <2> QED
    BY <2>1, <2>2, <2>3
<1>18. CASE UNCHANGED flockVars
  BY <1>18 DEF flockVars
<1> QED
  BY <1>1, <1>2, <1>4, <1>5, <1>6, <1>7, <1>8, <1>9, <1>10, <1>11, <1>12, <1>13, <1>14,
     <1>15, <1>16, <1>17, <1>18
  DEF FileLockNext

\* A file nobody has broken is there for one breaker to take; the next finds none until
\* somebody writes the file again.
BreakInv == OneBreaker /\ (HasFile => broke = {})

\* A system call takes the file, writes it or leaves it, and only a rename that took it
\* lets its breaker go on.
LEMMA BreakStep == FileLockTyped /\ BreakInv /\ [FileLockNext]_flockVars => BreakInv'
<1> SUFFICES ASSUME FileLockTyped, BreakInv, [FileLockNext]_flockVars PROVE BreakInv'
  OBVIOUS
<1> USE DEF HasFile
<1>1. dir \in LockDir
  BY DEF FileLockTyped
<1>2. /\ RemoveDir => (HasFile' => HasFile)
      /\ RemoveFile => ~HasFile'
      /\ dir' = FreshDir => ~HasFile'
      /\ dir' = [dir EXCEPT !.file = NoOwner, !.debris = TRUE, !.old = FALSE] => ~HasFile'
      /\ dir' = [dir EXCEPT !.debris = FALSE, !.old = FALSE] => (HasFile' => HasFile)
      /\ dir' = [dir EXCEPT !.old = TRUE] => (HasFile' => HasFile)
      /\ dir' = dir => (HasFile' => HasFile)
  <2>1. NoDir.file = NoOwner /\ FreshDir.file = NoOwner
    BY DEF NoDir, FreshDir
  <2>2. RemoveDir => (HasFile' => HasFile)
    BY <2>1 DEF RemoveDir
  <2>3. RemoveFile => ~HasFile'
    BY <1>1 DEF RemoveFile, LockDir
  <2>4. dir' = [dir EXCEPT !.file = NoOwner, !.debris = TRUE, !.old = FALSE] => ~HasFile'
    BY <1>1 DEF LockDir
  <2>5. dir' = [dir EXCEPT !.debris = FALSE, !.old = FALSE] => (HasFile' => HasFile)
    BY <1>1 DEF LockDir
  <2>6. dir' = [dir EXCEPT !.old = TRUE] => (HasFile' => HasFile)
    BY <1>1 DEF LockDir
  <2> QED
    BY <2>1, <2>2, <2>3, <2>4, <2>5, <2>6
<1>3. ASSUME broke' = broke, HasFile' => HasFile PROVE BreakInv'
  BY <1>3 DEF BreakInv, OneBreaker
<1>4. ASSUME NEW p \in LockProcs, MakeDir(p) PROVE BreakInv'
  BY <1>2, <1>3, <1>4 DEF MakeDir
<1>5. ASSUME NEW p \in LockProcs, WriteOwner(p) PROVE BreakInv'
  <2>1. CASE broke' = {}
    BY <2>1 DEF BreakInv, OneBreaker
  <2>2. CASE dir' = dir /\ broke' = broke
    BY <1>2, <1>3, <2>2
  <2> QED
    BY <1>5, <2>1, <2>2 DEF WriteOwner
<1>6. ASSUME NEW p \in LockProcs, RenameOwner(p) PROVE BreakInv'
  <2>1. CASE HasFile
    <3>1. broke' = {p} /\ ~HasFile'
      BY <1>2, <1>6, <2>1 DEF RenameOwner, BreakInv
    <3> QED
      BY <3>1 DEF BreakInv, OneBreaker
  <2>2. CASE ~HasFile
    BY <1>2, <1>3, <1>6, <2>2 DEF RenameOwner
  <2> QED
    BY <2>1, <2>2
<1>7. ASSUME NEW p \in LockProcs, UndoDir(p) \/ RemoveBroken(p) \/ Unmake(p) \/ CleanDir(p) PROVE BreakInv'
  BY <1>2, <1>3, <1>7 DEF UndoDir, RemoveBroken, Unmake, CleanDir, Keep
<1>8. ASSUME NEW p \in LockProcs, Judge(p) \/ RetryOrTimeout(p) \/ ReadOwner(p) \/ ListStale(p) \/ ProcDies(p)
      PROVE BreakInv'
  BY <1>2, <1>3, <1>8 DEF Judge, RetryOrTimeout, ReadOwner, ListStale, ProcDies, Keep
<1>9. ASSUME NEW p \in LockProcs, RemoveRenamed(p) PROVE BreakInv'
  BY <1>2, <1>3, <1>9 DEF RemoveRenamed, Keep
<1>10. ASSUME NEW p \in LockProcs, Unlink(p) \/ CleanFile(p) PROVE BreakInv'
  BY <1>2, <1>3, <1>10 DEF Unlink, CleanFile
<1>11. CASE GrowsOld \/ UNCHANGED flockVars
  BY <1>2, <1>3, <1>11 DEF GrowsOld, flockVars
<1> QED
  BY <1>4, <1>5, <1>6, <1>7, <1>8, <1>9, <1>10, <1>11 DEF FileLockNext

\* Of the breakers of one owner file one wins, whatever overtakes them (lock.go, tryBreakStale), and a
\* live holder's lock names it, whoever dies and wherever, as long as no command is overtaken: a
\* breaker then renames only the file of the dead process it judged, and release and clean likewise.
THEOREM LockNamesItsHolder == FileLockSpec => []HolderNamed
<1>1. FileLockInv /\ [FileLockNext]_flockVars => FileLockInv'
  BY FileLockTypeStep, FileLockRightStep DEF FileLockInv
<1>2. FileLockInit => BreakInv
  BY DEF FileLockInit, BreakInv, OneBreaker
<1>3. FileLockInv /\ BreakInv /\ [FileLockNext]_flockVars => BreakInv'
  BY BreakStep DEF FileLockInv
<1>4. FileLockInv /\ BreakInv => HolderNamed
  BY DEF FileLockInv, HoldersNamed, HolderNamed, BreakInv
<1> QED
  BY FileLockInvInit, <1>1, <1>2, <1>3, <1>4, PTL DEF FileLockSpec

---------------------------------------------------------------------------
(* The push gate *)

CheckRun == [start : Nat, state : RunStates]

PushState ==
    [at : {"idle", "candidate", "fetch", "sleep", "advance", "clean"}, sha : Commits,
     appeared : BOOLEAN, past : {"none", "grace", "deadline"}, seen : [Contexts -> Nat]]

GateTyped ==
    /\ clone \in Commits /\ branch \in Commits /\ refs \subseteq Commits
    /\ runs \in [Commits -> [Contexts -> Seq(CheckRun)]]
    /\ push \in [Pushers -> PushState]

\* A run of this start passed.
PassedAt(run, start) == \E i \in DOMAIN run : run[i] = [start |-> start, state |-> Passed]

\* What let a pusher through still stands: of runs that passed nothing is taken back,
\* whatever starts, begins or ends since.
CountedRunsStand ==
    \A p \in Pushers : PushAt(p, "advance") =>
        \A k \in Contexts : PassedAt(runs[push[p].sha][k], push[p].seen[k])

GateInv == GateTyped /\ CountedRunsStand /\ CandidateOwned

LEMMA GateInvInit == GateInit => GateInv
<1> SUFFICES ASSUME GateInit PROVE GateInv
  OBVIOUS
<1> USE GateAssumption
<1>1. 1 \in Commits /\ Unpushed \in PushState
  BY DEF Commits, Unpushed, PushState
<1>2. GateTyped
  <2>1. <<>> \in Seq(CheckRun)
    OBVIOUS
  <2> QED
    BY <1>1, <2>1 DEF GateInit, GateTyped
<1>3. CountedRunsStand /\ CandidateOwned
  BY DEF GateInit, CountedRunsStand, CandidateOwned, PushAt, Unpushed
<1> QED
  BY <1>2, <1>3 DEF GateInv

\* A step of one pusher that leaves the checks alone keeps what the others counted and own.
LEMMA PusherMoves ==
    ASSUME GateInv, NEW p \in Pushers, NEW s \in PushState,
           push' = [push EXCEPT ![p] = s], UNCHANGED <<clone, watched, runs>>,
           branch' \in Commits,
           s.at = "advance" => \A k \in Contexts : PassedAt(runs[s.sha][k], s.seen[k]),
           refs' \subseteq Commits,
           \A c \in refs' \ left' : \/ c \in (refs \ left) /\ c # push[p].sha
                                    \/ c \in (refs \ left) /\ push[p].at \in {"idle", "candidate"}
                                    \/ s.sha = c /\ s.at \notin {"idle", "candidate"}
    PROVE  GateInv'
<1> USE DEF GateInv, GateTyped
<1>1. GateTyped'
  OBVIOUS
<1>2. push'[p] = s /\ \A q \in Pushers \ {p} : push'[q] = push[q]
  OBVIOUS
<1>3. CountedRunsStand'
  BY <1>2 DEF CountedRunsStand, PushAt
<1>4. ASSUME NEW c \in refs' \ left'
      PROVE  \E q \in Pushers : push'[q].sha = c /\ push'[q].at \notin {"idle", "candidate"}
  <2>1. CASE s.sha = c /\ s.at \notin {"idle", "candidate"}
    BY <1>2, <2>1
  <2>2. CASE c \in (refs \ left) /\ (c # push[p].sha \/ push[p].at \in {"idle", "candidate"})
    <3>1. PICK q \in Pushers : push[q].sha = c /\ push[q].at \notin {"idle", "candidate"}
      BY <2>2 DEF CandidateOwned
    <3> QED
      BY <1>2, <2>2, <3>1
  <2> QED
    BY <1>4, <2>1, <2>2
<1> QED
  BY <1>1, <1>3, <1>4 DEF CandidateOwned

\* The latest start is one of the run's, and whoever speaks for the check started then.
LEMMA SpeaksLatest ==
    ASSUME NEW run \in Seq(CheckRun), NEW i \in Newest(run)
    PROVE  run[i].start = LatestStart(run)
<1> DEFINE Best(j) == \A l \in DOMAIN run : run[l].start <= run[j].start
<1>1. i \in DOMAIN run /\ Best(i) /\ run # <<>>
  BY DEF Newest
<1>2. PICK j \in DOMAIN run : Best(j) /\ LatestStart(run) = run[j].start
  BY <1>1 DEF LatestStart
<1>3. run[i].start \in Nat /\ run[j].start \in Nat
  <2>1. run[i] \in CheckRun /\ run[j] \in CheckRun
    BY <1>1, <1>2
  <2> QED
    BY <2>1 DEF CheckRun
<1>4. run[j].start <= run[i].start /\ run[i].start <= run[j].start
  BY <1>1, <1>2
<1> QED
  BY <1>2, <1>3, <1>4

\* A pusher is let through by a run of every check that passed, and none started later.
LEMMA FetchCounts ==
    ASSUME GateTyped, NEW p \in Pushers, NEW st \in States(p), Failed(st) = {}, Pending(st) = {},
           NEW k \in Contexts
    PROVE  /\ Starts(p)[k] \in Nat
           /\ PassedAt(runs[push[p].sha][k], Starts(p)[k])
<1> DEFINE run == runs[push[p].sha][k]
<1>1. st[k] = Passed /\ st[k] \in State(p, k)
  BY DEF Failed, Pending, States, RunStates, Passed
<1>2. run \in Seq(CheckRun)
  BY DEF GateTyped, PushState
<1>3. Newest(run) # {}
  BY <1>1 DEF State, Passed
<1>4. PICK i \in Newest(run) : run[i].state = Passed
  BY <1>1, <1>3 DEF State
<1>5. i \in DOMAIN run /\ run[i] \in CheckRun
  BY <1>2, <1>4 DEF Newest
<1>6. run[i].start = LatestStart(run) /\ LatestStart(run) \in Nat
  BY <1>2, <1>4, <1>5, SpeaksLatest DEF CheckRun
<1>7. Starts(p)[k] = LatestStart(run)
  BY DEF Starts
<1>8. run[i] = [start |-> LatestStart(run), state |-> Passed]
  BY <1>4, <1>5, <1>6 DEF CheckRun
<1> QED
  BY <1>5, <1>6, <1>7, <1>8 DEF PassedAt

LEMMA GateInvStep == GateInv /\ [GateNext]_gateVars => GateInv'
<1> SUFFICES ASSUME GateInv, [GateNext]_gateVars PROVE GateInv'
  OBVIOUS
<1> USE DEF GateInv, GateTyped
<1>1. ASSUME NEW p \in Pushers, BeginPush(p) PROVE GateInv'
  <2> DEFINE s == [Unpushed EXCEPT !.at = "candidate", !.sha = clone]
  <2>1. s \in PushState /\ s.at = "candidate"
    BY DEF Unpushed, PushState
  <2> HIDE DEF s
  <2> QED
    BY <1>1, <2>1, PusherMoves DEF BeginPush, s, PushAt
<1>2. ASSUME NEW p \in Pushers, PushCandidate(p) PROVE GateInv'
  <2> DEFINE s == [push[p] EXCEPT !.at = "fetch"]
  <2>1. s \in PushState /\ s.at = "fetch" /\ s.sha = push[p].sha /\ push[p].sha \in Commits
    BY DEF PushState
  <2>2. push' = [push EXCEPT ![p] = s]
    BY <1>2 DEF PushCandidate, PushGoto
  <2> HIDE DEF s
  <2> QED
    BY <1>2, <2>1, <2>2, PusherMoves DEF PushCandidate, PushAt
<1>3. ASSUME NEW p \in Pushers, FetchStates(p) PROVE GateInv'
  <2>1. PICK st \in States(p), onto \in {"clean", "advance", "sleep"}, appeared \in BOOLEAN :
          /\ onto = "advance" => Failed(st) = {} /\ Pending(st) = {}
          /\ push' = [push EXCEPT ![p].at = onto, ![p].appeared = appeared,
                                  ![p].seen = IF onto = "advance" THEN Starts(p) ELSE @]
    BY <1>3 DEF FetchStates, PushState
  <2> DEFINE s == [push[p] EXCEPT !.at = onto, !.appeared = appeared,
                                  !.seen = IF onto = "advance" THEN Starts(p) ELSE @]
  <2>2. onto = "advance" => /\ Starts(p) \in [Contexts -> Nat]
                            /\ \A k \in Contexts : PassedAt(runs[push[p].sha][k], Starts(p)[k])
    BY <2>1, FetchCounts DEF Starts
  <2>3. s \in PushState /\ s.at = onto /\ s.sha = push[p].sha
        /\ (onto = "advance" => s.seen = Starts(p))
    BY <2>2 DEF PushState
  <2>4. push' = [push EXCEPT ![p] = s]
    BY <2>1
  <2> HIDE DEF s
  <2>5. onto = "advance" => \A k \in Contexts : PassedAt(runs[s.sha][k], s.seen[k])
    BY <2>2, <2>3
  <2>6. UNCHANGED <<clone, branch, refs, left, watched, runs>> /\ push[p].at = "fetch"
    BY <1>3 DEF FetchStates, PushAt
  <2>7. \A c \in refs' \ left' : \/ c \in (refs \ left) /\ c # push[p].sha
                                 \/ s.sha = c /\ s.at \notin {"idle", "candidate"}
    BY <2>3, <2>6
  <2>8. branch' \in Commits /\ refs' \subseteq Commits /\ UNCHANGED <<clone, watched, runs>>
    BY <2>6
  <2> QED
    BY <2>3, <2>4, <2>5, <2>7, <2>8, PusherMoves
<1>4. ASSUME NEW p \in Pushers, AwaitPoll(p) PROVE GateInv'
  <2>1. PICK past \in {"none", "grace", "deadline"} :
          push' = [push EXCEPT ![p].at = "fetch", ![p].past = past]
    BY <1>4 DEF AwaitPoll, PushState
  <2> DEFINE s == [push[p] EXCEPT !.at = "fetch", !.past = past]
  <2>2. s \in PushState /\ s.at = "fetch" /\ s.sha = push[p].sha
    BY DEF PushState
  <2>3. push' = [push EXCEPT ![p] = s]
    BY <2>1
  <2> HIDE DEF s
  <2> QED
    BY <1>4, <2>2, <2>3, PusherMoves DEF AwaitPoll, PushAt
<1>5. ASSUME NEW p \in Pushers, Advance(p) PROVE GateInv'
  <2> DEFINE s == [Unpushed EXCEPT !.at = "clean", !.sha = push[p].sha]
  <2>1. s \in PushState /\ s.at = "clean" /\ s.sha = push[p].sha /\ push[p].sha \in Commits
    BY DEF Unpushed, PushState
  <2>2. push' = [push EXCEPT ![p] = s]
    BY <1>5 DEF Advance
  <2> HIDE DEF s
  <2> QED
    BY <1>5, <2>1, <2>2, PusherMoves DEF Advance, PushAt
<1>6. ASSUME NEW p \in Pushers, DeleteCandidate(p) PROVE GateInv'
  <2>1. Unpushed \in PushState /\ Unpushed.at = "idle"
    BY GateAssumption DEF Unpushed, PushState, Commits
  <2> QED
    BY <1>6, <2>1, PusherMoves DEF DeleteCandidate, PushAt
<1>7. ASSUME NEW p \in Pushers, CandidateFails(p) \/ PusherKilled(p) PROVE GateInv'
  <2>1. Unpushed \in PushState /\ Unpushed.at = "idle" /\ push[p].sha \in Commits
    BY GateAssumption DEF Unpushed, PushState, Commits
  <2>2. push' = [push EXCEPT ![p] = Unpushed] /\ UNCHANGED <<clone, branch, watched, runs>>
    BY <1>7 DEF CandidateFails, PusherKilled
  <2>3. \A c \in refs' \ left' : c \in (refs \ left) /\ (c # push[p].sha \/ push[p].at \in {"idle", "candidate"})
    BY <1>7 DEF CandidateFails, PusherKilled, PushAt
  <2>4. refs' \subseteq Commits
    BY <1>7, <2>1 DEF CandidateFails, PusherKilled
  <2> QED
    BY <2>1, <2>2, <2>3, <2>4, PusherMoves
<1>13. ASSUME NEW p \in Pushers, FetchFails(p) PROVE GateInv'
  <2> DEFINE s == [Unpushed EXCEPT !.at = "clean", !.sha = push[p].sha]
  <2>1. s \in PushState /\ s.at = "clean" /\ s.sha = push[p].sha
    BY GateAssumption DEF Unpushed, PushState, Commits
  <2>2. push' = [push EXCEPT ![p] = s]
    BY <1>13 DEF FetchFails
  <2> HIDE DEF s
  <2> QED
    BY <1>13, <2>1, <2>2, PusherMoves DEF FetchFails
<1>8. CASE CloneCommits
  <2>1. clone' \in Commits
    BY <1>8, GateAssumption DEF CloneCommits, Commits
  <2> QED
    BY <1>8, <2>1 DEF CloneCommits, CountedRunsStand, CandidateOwned, PushAt
<1>9. ASSUME NEW c \in Commits, NEW k \in Contexts, NEW run \in Seq(CheckRun),
             runs' = [runs EXCEPT ![c] = [runs[c] EXCEPT ![k] = run]],
             \A start \in Nat : PassedAt(runs[c][k], start) => PassedAt(run, start),
             UNCHANGED <<clone, branch, refs, left, watched, push>>
      PROVE  GateInv'
  <2>1. GateTyped'
    BY <1>9
  <2>2. /\ runs'[c][k] = run
        /\ \A d \in Commits, l \in Contexts : d # c \/ l # k => runs'[d][l] = runs[d][l]
    BY <1>9
  <2>3. CountedRunsStand'
    <3> SUFFICES ASSUME NEW p \in Pushers, PushAt(p, "advance"), NEW l \in Contexts
                 PROVE  PassedAt(runs'[push[p].sha][l], push[p].seen[l])
      BY <1>9, ZenonT(40) DEF CountedRunsStand, PushAt
    <3>1. push[p].sha \in Commits /\ push[p].seen[l] \in Nat
      BY DEF PushState
    <3>2. PassedAt(runs[push[p].sha][l], push[p].seen[l])
      BY DEF CountedRunsStand
    <3>3. CASE push[p].sha = c /\ l = k
      BY <1>9, <2>2, <3>1, <3>2, <3>3
    <3>4. CASE push[p].sha # c \/ l # k
      BY <2>2, <3>1, <3>2, <3>4
    <3> QED
      BY <3>3, <3>4
  <2> QED
    BY <1>9, <2>1, <2>3 DEF CandidateOwned
<1>10. ASSUME NEW c \in Commits, NEW k \in Contexts, RunStarts(c, k) PROVE GateInv'
  <2>1. runs[c][k] \in Seq(CheckRun)
    OBVIOUS
  <2>2. PICK s \in {0} \cup Seconds(runs[c][k]) :
          runs' = [runs EXCEPT ![c][k] = Append(@, [start |-> s, state |-> "running"])]
    BY <1>10 DEF RunStarts
  <2>3. s \in Nat
    BY <2>2, GateAssumption DEF Seconds
  <2> DEFINE new == [start |-> s, state |-> "running"]
             run == Append(runs[c][k], new)
  <2>4. new \in CheckRun
    BY <2>3 DEF CheckRun, RunStates
  <2> HIDE DEF new
  <2>5. /\ run \in Seq(CheckRun)
        /\ \A i \in DOMAIN runs[c][k] : i \in DOMAIN run /\ run[i] = runs[c][k][i]
    BY <2>1, <2>4
  <2>6. runs' = [runs EXCEPT ![c] = [runs[c] EXCEPT ![k] = run]]
    BY <2>2 DEF new
  <2> HIDE DEF run
  <2>7. \A start \in Nat : PassedAt(runs[c][k], start) => PassedAt(run, start)
    BY <2>5 DEF PassedAt
  <2> QED
    BY <1>9, <1>10, <2>5, <2>6, <2>7 DEF RunStarts
<1>11. ASSUME NEW c \in Commits, NEW k \in Contexts, NEW i \in DOMAIN runs[c][k], NEW new \in CheckRun,
              runs[c][k][i].state = "running",
              runs' = [runs EXCEPT ![c][k] = [@ EXCEPT ![i] = new]],
              UNCHANGED <<clone, branch, refs, left, watched, push>>
       PROVE  GateInv'
  <2> DEFINE old == runs[c][k]
             run == [old EXCEPT ![i] = new]
  <2>1. old \in Seq(CheckRun)
    OBVIOUS
  <2>2. runs' = [runs EXCEPT ![c] = [runs[c] EXCEPT ![k] = run]]
    BY <1>11
  <2>3. i \in DOMAIN old /\ old[i].state = "running"
    BY <1>11
  <2> HIDE DEF old
  <2>4. run \in Seq(CheckRun) /\ DOMAIN run = DOMAIN old /\ \A l \in DOMAIN old : l # i => run[l] = old[l]
    <3>1. PICK n \in Nat : old \in [1 .. n -> CheckRun]
      BY <2>1
    <3>2. run \in [1 .. n -> CheckRun] /\ \A l \in DOMAIN old : l # i => run[l] = old[l]
      BY <1>11, <3>1
    <3> QED
      BY <3>1, <3>2
  <2> HIDE DEF run
  <2>5. \A start \in Nat : PassedAt(old, start) => PassedAt(run, start)
    BY <2>3, <2>4 DEF PassedAt, Passed
  <2> QED
    BY <1>9, <1>11, <2>2, <2>4, <2>5 DEF old
<1>14. ASSUME NEW c \in Commits, NEW k \in Contexts, NEW i \in 1 .. MaxRuns, RunBegins(c, k, i) PROVE GateInv'
  <2>1. PICK s \in Seconds(runs[c][k]) :
          runs' = [runs EXCEPT ![c][k] = [@ EXCEPT ![i] = [start |-> s, state |-> "running"]]]
    BY <1>14 DEF RunBegins
  <2>2. s \in Nat
    BY GateAssumption DEF Seconds
  <2> DEFINE new == [start |-> s, state |-> "running"]
  <2>3. new \in CheckRun
    BY <2>2 DEF CheckRun, RunStates
  <2>4. i \in DOMAIN runs[c][k] /\ runs[c][k][i].state = "running"
    BY <1>14 DEF RunBegins
  <2>5. UNCHANGED <<clone, branch, refs, left, watched, push>>
    BY <1>14 DEF RunBegins
  <2>6. runs' = [runs EXCEPT ![c][k] = [@ EXCEPT ![i] = new]]
    BY <2>1
  <2> HIDE DEF new
  <2> QED
    BY <1>11, <2>3, <2>4, <2>5, <2>6
<1>15. ASSUME NEW c \in Commits, NEW k \in Contexts, NEW i \in 1 .. MaxRuns, NEW r \in {Passed, "failed"},
              RunEnds(c, k, i, r)
       PROVE  GateInv'
  <2>1. i \in DOMAIN runs[c][k] /\ runs[c][k][i] \in CheckRun
    BY <1>15 DEF RunEnds
  <2>2. [start |-> runs[c][k][i].start, state |-> r] \in CheckRun
    BY <2>1 DEF CheckRun, RunStates
  <2> QED
    BY <1>11, <1>15, <2>1, <2>2 DEF RunEnds
<1>12. CASE UNCHANGED gateVars
  BY <1>12 DEF gateVars, CountedRunsStand, CandidateOwned, PushAt
<1> QED
  BY <1>1, <1>2, <1>3, <1>4, <1>5, <1>6, <1>7, <1>8, <1>10, <1>12, <1>13, <1>14, <1>15
     DEF GateNext, PusherStep

\* Whatever is pushed, checked and checked again meanwhile, and whoever fails or is killed: the
\* branch moves only to a commit whose required checks had passed when they were read, by runs no
\* later start overruled, and a candidate ref is left only by a delete that failed or a pusher
\* that is gone (GitPushGated, awaitChecks, mergeCheckRuns).
THEOREM BranchStaysGuarded == GateSpec => BranchGuarded
<1> DEFINE Checked == branch' # branch =>
                \E p \in Pushers :
                   /\ PushAt(p, "advance") /\ push[p].sha = branch'
                   /\ \A k \in Contexts : \E i \in DOMAIN runs[branch'][k] :
                         runs[branch'][k][i] = [start |-> push[p].seen[k], state |-> Passed]
<1>1. ASSUME GateInv, GateNext, branch' # branch PROVE Checked
  <2>1. PICK p \in Pushers : Advance(p)
    BY <1>1 DEF GateNext, BeginPush, CandidateFails, FetchFails, PusherKilled, PusherStep, PushCandidate,
       FetchStates, AwaitPoll, DeleteCandidate, CloneCommits, RunStarts, RunBegins, RunEnds
  <2>2. PushAt(p, "advance") /\ branch' = push[p].sha
    BY <1>1, <2>1 DEF Advance
  <2> QED
    BY <1>1, <2>2 DEF GateInv, CountedRunsStand, PassedAt
<1>2. GateInv /\ [GateNext]_gateVars => [Checked]_gateVars
  BY <1>1
<1>3. GateInv => CandidateOwned
  BY DEF GateInv
<1>4. GateSpec => []GateInv
  BY GateInvInit, GateInvStep, PTL DEF GateSpec
<1>5. GateSpec => BranchChecked
  BY <1>2, <1>4, PTL DEF GateSpec, BranchChecked
<1> QED
  BY <1>3, <1>4, <1>5, PTL DEF BranchGuarded

---------------------------------------------------------------------------
(* The authorization policy *)

PolicyRule ==
    [ op : {r.op : r \in LayerRules}, mode : Modes, allow : BOOLEAN,
      requires : {f \in UNION {[K -> Int \cup BOOLEAN] : K \in SUBSET {NumericKey, BooleanKey}} :
                    /\ NumericKey \in DOMAIN f => f[NumericKey] \in Int
                    /\ BooleanKey \in DOMAIN f => f[BooleanKey] \in BOOLEAN} ]

PolicyTyped ==
    /\ layers \in Seq(PolicyRule) /\ pending \in Seq(PolicyRule) /\ merged \in Seq(PolicyRule)
    /\ level \in LevelPayloads \cup {Unreadable, Unset}

\* How many rules of the layers were given to the merge.
Given == Len(layers) - Len(pending)

\* What is pending is the rest of the layers, none of it once a policy is loaded.
RestPending ==
    /\ Len(pending) <= Len(layers)
    /\ \A i \in 1 .. Len(pending) : pending[i] = layers[Given + i]
    /\ merging = "loaded" => pending = <<>>

\* m lets nothing proceed that r would not, and a later layer cannot change that.
NoLooser(m, r) ==
    /\ m.mode \in Proceeds => r.mode \in Proceeds
    /\ DOMAIN r.requires \subseteq DOMAIN m.requires
    /\ NumericKey \in DOMAIN r.requires => m.requires[NumericKey] <= r.requires[NumericKey]

Rigid(m) == ~m.allow /\ (BooleanKey \in DOMAIN m.requires => m.requires[BooleanKey])

\* Every rule given to the merge lives on in one that is no looser, where the layers
\* let nothing be overridden.
MergedHold ==
    merging # "error" =>
        /\ \A j \in DOMAIN merged : Strict(merged[j].op) => Rigid(merged[j])
        /\ \A i \in 1 .. Given : \E j \in DOMAIN merged :
              /\ merged[j].op = layers[i].op
              /\ Strict(layers[i].op) => NoLooser(merged[j], layers[i])

PolicyInv == PolicyTyped /\ RestPending /\ MergedHold /\ OneRuleEach

LEMMA LayerRulesTyped == LayerRules \subseteq PolicyRule
<1> SUFFICES ASSUME NEW r \in LayerRules PROVE r \in PolicyRule
  OBVIOUS
<1> DEFINE K == DOMAIN r.requires
           f == [k \in K |-> r.requires[k]]
<1>1. /\ r = [op |-> r.op, mode |-> r.mode, allow |-> r.allow, requires |-> f]
      /\ r.mode \in Modes /\ r.allow \in BOOLEAN
      /\ K \in SUBSET {NumericKey, BooleanKey}
      /\ NumericKey \in K => r.requires[NumericKey] \in Int
      /\ BooleanKey \in K => r.requires[BooleanKey] \in BOOLEAN
  BY PolicyAssumption DEF Modes, NumericKey, BooleanKey
<1>2. f \in [K -> Int \cup BOOLEAN] /\ DOMAIN f = K
      /\ (NumericKey \in K => f[NumericKey] \in Int)
      /\ (BooleanKey \in K => f[BooleanKey] \in BOOLEAN)
  BY <1>1
<1> HIDE DEF f
<1>3. f \in UNION {[L -> Int \cup BOOLEAN] : L \in SUBSET {NumericKey, BooleanKey}}
  BY <1>1, <1>2
<1>4. r.op \in {x.op : x \in LayerRules}
  OBVIOUS
<1> QED
  BY <1>1, <1>2, <1>3, <1>4 DEF PolicyRule

\* What two rules require together: at least as much as each, unless one overrides.
LEMMA RequiresTogether ==
    ASSUME NEW b \in PolicyRule, NEW o \in PolicyRule
    PROVE  /\ mergeRule(b, o) \in [op : {b.op}, mode : {o.mode}, allow : {b.allow \/ o.allow},
                                   requires : {mergeRequires(b.requires, o.requires)}]
           /\ b.op = o.op => mergeRule(b, o) \in PolicyRule
<1> DEFINE D == (DOMAIN b.requires \cup DOMAIN o.requires) \ Dropped(b.requires, o.requires)
           f == mergeRequires(b.requires, o.requires)
<1>1. /\ DOMAIN b.requires \subseteq {NumericKey, BooleanKey}
      /\ DOMAIN o.requires \subseteq {NumericKey, BooleanKey}
      /\ NumericKey \in DOMAIN b.requires => b.requires[NumericKey] \in Int
      /\ BooleanKey \in DOMAIN b.requires => b.requires[BooleanKey] \in BOOLEAN
      /\ NumericKey \in DOMAIN o.requires => o.requires[NumericKey] \in Int
      /\ BooleanKey \in DOMAIN o.requires => o.requires[BooleanKey] \in BOOLEAN
  BY DEF PolicyRule
<1>2. /\ D \in SUBSET {NumericKey, BooleanKey}
      /\ f \in [D -> Int \cup BOOLEAN] /\ DOMAIN f = D
      /\ NumericKey \in D => f[NumericKey] \in Int
      /\ BooleanKey \in D => f[BooleanKey] \in BOOLEAN
  BY <1>1 DEF mergeRequires, NumericKey, BooleanKey
<1> HIDE DEF f
<1>3. f \in UNION {[L -> Int \cup BOOLEAN] : L \in SUBSET {NumericKey, BooleanKey}}
  BY <1>2
<1>4. b.op \in {r.op : r \in LayerRules} /\ o.mode \in Modes /\ (b.allow \/ o.allow) \in BOOLEAN
  BY DEF PolicyRule
<1> QED
  BY <1>2, <1>3, <1>4 DEF mergeRule, f, PolicyRule

\* Of two rules that let nothing be overridden the merge is no looser than either.
LEMMA MergeTightens ==
    ASSUME NEW b \in PolicyRule, NEW o \in PolicyRule, Mergeable(b, o), Rigid(b), Rigid(o)
    PROVE  /\ Rigid(mergeRule(b, o))
           /\ NoLooser(mergeRule(b, o), b) /\ NoLooser(mergeRule(b, o), o)
<1> DEFINE m == mergeRule(b, o)
<1>1. /\ m.mode = o.mode /\ m.allow = (b.allow \/ o.allow)
      /\ m.requires = mergeRequires(b.requires, o.requires)
  BY RequiresTogether
<1>2. /\ DOMAIN b.requires \subseteq {NumericKey, BooleanKey}
      /\ DOMAIN o.requires \subseteq {NumericKey, BooleanKey}
      /\ NumericKey \in DOMAIN b.requires => b.requires[NumericKey] \in Int
      /\ NumericKey \in DOMAIN o.requires => o.requires[NumericKey] \in Int
      /\ b.mode \in Modes /\ o.mode \in Modes /\ b.allow \in BOOLEAN
  BY DEF PolicyRule
<1> DEFINE req == mergeRequires(b.requires, o.requires)
<1>3. ~b.allow /\ ~o.allow /\ Dropped(b.requires, o.requires) = {}
  BY DEF Rigid, Mergeable
<1>4. /\ DOMAIN req = DOMAIN b.requires \cup DOMAIN o.requires
      /\ BooleanKey \in DOMAIN req => req[BooleanKey]
      /\ NumericKey \in DOMAIN b.requires => req[NumericKey] <= b.requires[NumericKey]
      /\ NumericKey \in DOMAIN o.requires => req[NumericKey] <= o.requires[NumericKey]
  <2>1. DOMAIN req = DOMAIN b.requires \cup DOMAIN o.requires
    BY <1>3 DEF mergeRequires
  <2>2. ASSUME NEW k \in DOMAIN req
        PROVE  req[k] = IF k \notin DOMAIN b.requires THEN o.requires[k]
                        ELSE IF k \notin DOMAIN o.requires THEN b.requires[k]
                        ELSE IF k = BooleanKey THEN b.requires[k] /\ o.requires[k]
                        ELSE IF o.requires[k] < b.requires[k] THEN o.requires[k] ELSE b.requires[k]
    BY <2>2 DEF mergeRequires
  <2>3. BooleanKey \in DOMAIN req => req[BooleanKey]
    BY <2>1, <2>2 DEF Rigid
  <2>4. NumericKey # BooleanKey
    BY DEF NumericKey, BooleanKey
  <2> HIDE DEF req
  <2>5. ASSUME NumericKey \in DOMAIN b.requires
        PROVE  req[NumericKey] <= b.requires[NumericKey]
    BY <1>2, <2>1, <2>2, <2>4, <2>5
  <2>6. ASSUME NumericKey \in DOMAIN o.requires
        PROVE  req[NumericKey] <= o.requires[NumericKey]
    BY <1>2, <2>1, <2>2, <2>4, <2>6
  <2> QED
    BY <2>1, <2>3, <2>5, <2>6
<1>5. o.mode \in Proceeds => b.mode \in Proceeds
  BY <1>2, <1>3 DEF Mergeable, validateModeTransition, Modes, Proceeds
<1> HIDE DEF req, m
<1>6. Rigid(m)
  BY <1>1, <1>3, <1>4 DEF Rigid, req
<1>7. NoLooser(m, b) /\ NoLooser(m, o)
  BY <1>1, <1>4, <1>5 DEF NoLooser, req
<1> QED
  BY <1>6, <1>7 DEF m

\* A rule for an operation that has none is put somewhere, and the others keep their order.
LEMMA InsertKeeps ==
    ASSUME PolicyTyped, NEW r \in PolicyRule
    PROVE  \E k \in 1 .. Len(merged) + 1 :
             LET new == insertRule(merged, r) IN
               /\ new \in Seq(PolicyRule) /\ Len(new) = Len(merged) + 1
               /\ \A j \in 1 .. Len(merged) + 1 :
                    new[j] = IF j < k THEN merged[j] ELSE IF j = k THEN r ELSE merged[j - 1]
<1>1. merged \in Seq(PolicyRule) /\ Len(merged) \in Nat
  BY DEF PolicyTyped
<1>2. CASE r.op = "*" \/ findRuleByOp(merged, "*") = {}
  <2>1. insertRule(merged, r) = Append(merged, r)
    BY <1>2 DEF insertRule
  <2>2. Len(merged) + 1 \in 1 .. Len(merged) + 1
    BY <1>1
  <2>3. PICK new : new = Append(merged, r)
    OBVIOUS
  <2>4. /\ new \in Seq(PolicyRule) /\ Len(new) = Len(merged) + 1
        /\ \A j \in 1 .. Len(merged) : new[j] = merged[j]
        /\ new[Len(merged) + 1] = r
    BY <1>1, <2>3, AppendProperties
  <2>5. \A j \in 1 .. Len(merged) + 1 :
          new[j] = IF j < Len(merged) + 1 THEN merged[j]
                   ELSE IF j = Len(merged) + 1 THEN r ELSE merged[j - 1]
    BY <1>1, <2>4
  <2> QED
    BY <2>1, <2>2, <2>3, <2>4, <2>5, ZenonT(40)
<1>3. CASE ~(r.op = "*" \/ findRuleByOp(merged, "*") = {})
  <2>1. PICK k : k = CHOOSE i \in findRuleByOp(merged, "*") : TRUE
    OBVIOUS
  <2>2. k \in 1 .. Len(merged)
    BY <1>1, <1>3, <2>1 DEF findRuleByOp
  <2> DEFINE before == SubSeq(merged, 1, k - 1)
             after == SubSeq(merged, k, Len(merged))
  <2>3. insertRule(merged, r) = before \o <<r>> \o after
    BY <1>3, <2>1 DEF insertRule, InsertAt
  <2>4. /\ before \in Seq(PolicyRule) /\ Len(before) = k - 1
        /\ \A j \in 1 .. k - 1 : before[j] = merged[j]
    BY <1>1, <2>2
  <2>5. /\ after \in Seq(PolicyRule) /\ Len(after) = Len(merged) - k + 1
        /\ \A j \in 1 .. Len(merged) - k + 1 : after[j] = merged[k + j - 1]
    BY <1>1, <2>2
  <2> HIDE DEF before, after
  <2>6. PICK head : head = before \o <<r>>
    OBVIOUS
  <2>7. /\ head \in Seq(PolicyRule) /\ Len(head) = k
        /\ \A j \in 1 .. k - 1 : head[j] = merged[j]
        /\ head[k] = r
    BY <2>2, <2>4, <2>6
  <2>8. /\ head \o after \in Seq(PolicyRule) /\ Len(head \o after) = Len(merged) + 1
        /\ \A j \in 1 .. k : (head \o after)[j] = head[j]
        /\ \A j \in k + 1 .. Len(merged) + 1 : (head \o after)[j] = after[j - k]
    <3>1. Len(after) = Len(merged) - k + 1 /\ k \in Nat /\ Len(merged) \in Nat
      BY <1>1, <2>2, <2>5
    <3>2. head \o after \in Seq(PolicyRule) /\ Len(head \o after) = k + Len(after)
      BY <2>5, <2>7
    <3>3. \A j \in 1 .. k : (head \o after)[j] = head[j]
      BY <2>5, <2>7, <3>1
    <3>4. \A j \in k + 1 .. k + Len(after) : (head \o after)[j] = after[j - k]
      BY <2>5, <2>7, <3>1
    <3> QED
      BY <3>1, <3>2, <3>3, <3>4
  <2>9. \A j \in k + 1 .. Len(merged) + 1 : after[j - k] = merged[j - 1]
    BY <1>1, <2>2, <2>5
  <2>10. k \in 1 .. Len(merged) + 1
    BY <1>1, <2>2
  <2>11. PICK new : new = insertRule(merged, r)
    OBVIOUS
  <2>12. new = head \o after
    BY <2>3, <2>6, <2>11
  <2>13. ASSUME NEW j \in 1 .. Len(merged) + 1
         PROVE  new[j] = IF j < k THEN merged[j] ELSE IF j = k THEN r ELSE merged[j - 1]
    <3>1. j < k \/ j = k \/ j \in k + 1 .. Len(merged) + 1
      BY <1>1, <2>2
    <3>2. CASE j < k
      <4>1. j \in 1 .. k - 1 /\ j \in 1 .. k
        BY <1>1, <2>2, <3>2
      <4> QED
        BY <2>7, <2>8, <2>12, <3>2, <4>1
    <3>3. CASE j = k
      <4>1. k \in 1 .. k
        BY <1>1, <2>2
      <4> QED
        BY <1>1, <2>2, <2>7, <2>8, <2>12, <3>3, <4>1
    <3>4. CASE j \in k + 1 .. Len(merged) + 1
      <4>1. ~(j < k) /\ j # k
        BY <1>1, <2>2, <3>4
      <4> QED
        BY <2>8, <2>9, <2>12, <3>4, <4>1
    <3> QED
      BY <3>1, <3>2, <3>3, <3>4
  <2>14. new \in Seq(PolicyRule) /\ Len(new) = Len(merged) + 1
    BY <2>8, <2>12
  <2> QED
    BY <2>10, <2>11, <2>13, <2>14
<1> QED
  BY <1>2, <1>3

LEMMA PolicyInvInit == PolicyInit => PolicyInv
<1> SUFFICES ASSUME PolicyInit PROVE PolicyInv
  OBVIOUS
<1>1. PICK n \in 0 .. MaxRules : layers \in [1 .. n -> LayerRules]
  BY DEF PolicyInit
<1>2. n \in Nat
  BY PolicyAssumption
<1>3. layers \in Seq(PolicyRule) /\ pending = layers /\ merged = <<>> /\ merging = "merging"
      /\ level = Unset
  BY <1>1, <1>2, LayerRulesTyped DEF PolicyInit
<1>4. PolicyTyped /\ Given = 0
  BY <1>3 DEF PolicyTyped, Given
<1> QED
  BY <1>3, <1>4 DEF PolicyInv, RestPending, MergedHold, OneRuleEach

LEMMA PolicyInvStep == PolicyInv /\ [PolicyNext]_policyVars => PolicyInv'
<1> SUFFICES ASSUME PolicyInv, [PolicyNext]_policyVars PROVE PolicyInv'
  OBVIOUS
<1> USE DEF PolicyInv
<1>1. CASE MergeRule
  <2> DEFINE incoming == Head(pending)
             found == findRuleByOp(merged, incoming.op)
  <2>1. /\ pending # <<>> /\ merging = "merging" /\ pending' = Tail(pending)
        /\ layers' = layers /\ level' = level
    BY <1>1 DEF MergeRule
  <2>2. /\ Len(pending) \in Nat \ {0} /\ Len(layers) \in Nat /\ Len(merged) \in Nat
        /\ DOMAIN merged = 1 .. Len(merged) /\ DOMAIN layers = 1 .. Len(layers)
    BY <2>1 DEF PolicyTyped
  <2>3. /\ pending' \in Seq(PolicyRule) /\ Len(pending') = Len(pending) - 1
        /\ \A i \in 1 .. Len(pending) - 1 : pending'[i] = pending[i + 1]
    BY <2>1, <2>2 DEF PolicyTyped
  <2>4. Given \in Nat /\ Given' = Given + 1 /\ Given + 1 \in DOMAIN layers
    BY <2>1, <2>2, <2>3 DEF Given, RestPending
  <2>5. incoming \in PolicyRule /\ incoming = layers[Given + 1]
    BY <2>1, <2>2 DEF PolicyTyped, RestPending
  <2>6. ASSUME merging' # "loaded" PROVE RestPending'
    <3>1. Len(pending') <= Len(layers')
      BY <2>1, <2>2, <2>3 DEF RestPending
    <3>2. ASSUME NEW i \in 1 .. Len(pending')
          PROVE  pending'[i] = layers'[Given' + i]
      <4>1. i + 1 \in 1 .. Len(pending) /\ Given + (i + 1) = Given' + i
        BY <2>2, <2>3, <2>4
      <4> QED
        BY <2>1, <2>2, <2>3, <4>1 DEF RestPending
    <3> QED
      BY <2>6, <3>1, <3>2 DEF RestPending
  <2>7. Strict(incoming.op) => Rigid(incoming)
    BY <2>4, <2>5 DEF Strict, Rigid
  <2>8. \A op : Strict(op)' = Strict(op)
    BY <2>1 DEF Strict
  <2> HIDE DEF incoming
  <2>9. CASE found = {} /\ merged' = insertRule(merged, incoming) /\ merging' = merging
    <3>1. PICK k \in 1 .. Len(merged) + 1 :
             /\ merged' \in Seq(PolicyRule) /\ Len(merged') = Len(merged) + 1
             /\ \A j \in 1 .. Len(merged) + 1 :
                  merged'[j] = IF j < k THEN merged[j]
                               ELSE IF j = k THEN incoming ELSE merged[j - 1]
      BY <2>5, <2>9, InsertKeeps
    <3>2. DOMAIN merged' = 1 .. Len(merged) + 1
      BY <3>1
    <3>3. PolicyTyped'
      BY <2>1, <2>3, <3>1 DEF PolicyTyped
    <3>4. ASSUME NEW j \in DOMAIN merged'
          PROVE  \/ j = k /\ merged'[j] = incoming
                 \/ j < k /\ j \in DOMAIN merged /\ merged'[j] = merged[j]
                 \/ j > k /\ j - 1 \in DOMAIN merged /\ merged'[j] = merged[j - 1]
      BY <2>2, <3>1, <3>2
    <3>5. \A j \in DOMAIN merged : merged[j].op # incoming.op
      BY <2>9 DEF findRuleByOp
    <3>6. OneRuleEach'
      <4> SUFFICES ASSUME NEW i \in DOMAIN merged', NEW j \in DOMAIN merged',
                          merged'[i].op = merged'[j].op
                   PROVE  i = j
        BY DEF OneRuleEach
      <4>1. i \in Nat /\ j \in Nat /\ k \in Nat
        BY <2>2, <3>1, <3>2
      <4>2. CASE i = k \/ j = k
        BY <3>4, <3>5, <4>2
      <4>3. CASE i # k /\ j # k
        <5> DEFINE was(n) == IF n < k THEN n ELSE n - 1
        <5>1. was(i) \in DOMAIN merged /\ merged'[i] = merged[was(i)]
          BY <3>4, <4>1, <4>3
        <5>2. was(j) \in DOMAIN merged /\ merged'[j] = merged[was(j)]
          BY <3>4, <4>1, <4>3
        <5>3. was(i) = was(j) => i = j
          BY <4>1, <4>3
        <5> HIDE DEF was
        <5> QED
          BY <5>1, <5>2, <5>3 DEF OneRuleEach
      <4> QED
        BY <4>2, <4>3
    <3>7. ASSUME NEW j \in DOMAIN merged', Strict(merged'[j].op) PROVE Rigid(merged'[j])
      BY <2>1, <2>7, <3>4, <3>7 DEF MergedHold
    <3>8. ASSUME NEW x \in DOMAIN merged PROVE \E j \in DOMAIN merged' : merged'[j] = merged[x]
      <4>1. CASE x < k
        BY <2>2, <3>1, <3>2, <4>1
      <4>2. CASE ~(x < k)
        <5>1. x + 1 \in DOMAIN merged' /\ ~(x + 1 < k) /\ x + 1 # k /\ (x + 1) - 1 = x
          BY <2>2, <3>2, <4>2
        <5> QED
          BY <3>1, <3>2, <5>1
      <4> QED
        BY <4>1, <4>2
    <3>9. ASSUME NEW i \in 1 .. Given'
          PROVE  \E j \in DOMAIN merged' :
                    /\ merged'[j].op = layers[i].op
                    /\ Strict(layers[i].op) => NoLooser(merged'[j], layers[i])
      <4>1. CASE i \in 1 .. Given
        BY <2>1, <3>8, <4>1 DEF MergedHold
      <4>2. CASE i = Given + 1
        <5>1. k \in DOMAIN merged' /\ merged'[k] = incoming
          BY <2>2, <3>1, <3>2
        <5>2. NoLooser(incoming, incoming)
          BY <2>5 DEF NoLooser, PolicyRule
        <5> QED
          BY <2>5, <4>2, <5>1, <5>2
      <4> QED
        BY <2>4, <4>1, <4>2
    <3>10. MergedHold'
      BY <2>1, <2>8, <3>7, <3>9 DEF MergedHold
    <3> QED
      BY <2>1, <2>6, <2>9, <3>3, <3>6, <3>10
  <2>10. ASSUME NEW i \in found, Mergeable(merged[i], incoming),
                merged' = [merged EXCEPT ![i] = mergeRule(@, incoming)], merging' = merging
         PROVE  PolicyInv'
    <3>1. i \in DOMAIN merged /\ merged[i].op = incoming.op /\ merged[i] \in PolicyRule
      BY <2>2, <2>10 DEF findRuleByOp, PolicyTyped
    <3>2. PICK m : m = mergeRule(merged[i], incoming)
      OBVIOUS
    <3>3. m \in PolicyRule /\ m.op = incoming.op
      BY <2>5, <3>1, <3>2, RequiresTogether
    <3>4. merged' = [merged EXCEPT ![i] = m]
      BY <2>10, <3>2
    <3>5. /\ merged' \in Seq(PolicyRule) /\ DOMAIN merged' = DOMAIN merged
          /\ merged'[i] = m /\ \A j \in DOMAIN merged \ {i} : merged'[j] = merged[j]
      BY <2>2, <3>1, <3>3, <3>4 DEF PolicyTyped
    <3>6. \A j \in DOMAIN merged : merged'[j].op = merged[j].op
      BY <3>1, <3>3, <3>5
    <3>7. PolicyTyped' /\ OneRuleEach'
      BY <2>1, <2>3, <3>5, <3>6 DEF PolicyTyped, OneRuleEach
    <3>8. Strict(incoming.op) =>
            Rigid(m) /\ NoLooser(m, merged[i]) /\ NoLooser(m, incoming)
      BY <2>1, <2>5, <2>7, <2>10, <3>1, <3>2, MergeTightens DEF MergedHold
    <3>9. ASSUME NEW j \in DOMAIN merged', Strict(merged'[j].op) PROVE Rigid(merged'[j])
      BY <2>1, <3>3, <3>5, <3>8, <3>9 DEF MergedHold
    <3>10. ASSUME NEW n \in 1 .. Given'
           PROVE  \E j \in DOMAIN merged' :
                    /\ merged'[j].op = layers[n].op
                    /\ Strict(layers[n].op) => NoLooser(merged'[j], layers[n])
      <4>1. CASE n \in 1 .. Given
        <5>1. PICK j \in DOMAIN merged :
                 /\ merged[j].op = layers[n].op
                 /\ Strict(layers[n].op) => NoLooser(merged[j], layers[n])
          BY <2>1, <4>1 DEF MergedHold
        <5>2. CASE j # i
          <6>1. j \in DOMAIN merged' /\ merged'[j] = merged[j]
            BY <3>5, <5>2
          <6> QED
            BY <5>1, <6>1
        <5>3. CASE j = i
          <6>1. layers[n] \in PolicyRule
            BY <2>2, <2>4, <4>1 DEF PolicyTyped
          <6>2. NoLooser(m, merged[i]) /\ NoLooser(merged[i], layers[n]) => NoLooser(m, layers[n])
            BY <3>1, <3>3, <6>1 DEF NoLooser, PolicyRule
          <6> QED
            <7>1. i \in DOMAIN merged' /\ merged'[i] = m /\ layers[n].op = incoming.op
              BY <3>1, <3>5, <5>1, <5>3
            <7> QED
              BY <3>3, <3>8, <5>1, <5>3, <6>2, <7>1
        <5> QED
          BY <5>2, <5>3
      <4>2. CASE n = Given + 1
        BY <2>5, <3>1, <3>3, <3>5, <3>8, <4>2
      <4> QED
        BY <2>4, <4>1, <4>2
    <3>11. MergedHold'
      BY <2>1, <2>8, <3>9, <3>10 DEF MergedHold
    <3> QED
      BY <2>1, <2>6, <2>10, <3>7, <3>11
  <2>11. CASE merging' = "error" /\ merged' = merged
    BY <2>1, <2>3, <2>6, <2>11 DEF PolicyTyped, MergedHold, OneRuleEach
  <2> QED
    BY <1>1, <2>9, <2>10, <2>11 DEF MergeRule, incoming
<1>2. CASE LoadEffective \/ DeclareLevel \/ OverwriteLevel \/ UNCHANGED policyVars
  <2>1. /\ UNCHANGED <<layers, pending, merged>>
        /\ merging' = merging \/ (merging = "merging" /\ merging' = "loaded" /\ pending = <<>>)
        /\ level' \in LevelPayloads \cup {Unreadable, Unset}
    BY <1>2 DEF LoadEffective, DeclareLevel, OverwriteLevel, policyVars, PolicyTyped
  <2>2. PolicyTyped' /\ OneRuleEach'
    BY <2>1 DEF PolicyTyped, OneRuleEach
  <2>3. Given' = Given /\ \A op : Strict(op)' = Strict(op)
    BY <2>1 DEF Given, Strict
  <2>4. RestPending'
    BY <2>1, <2>3 DEF RestPending
  <2>5. MergedHold'
    BY <2>1, <2>3 DEF MergedHold
  <2> QED
    BY <2>2, <2>4, <2>5
<1> QED
  BY <1>1, <1>2 DEF PolicyNext

\* However the layers were written and the level was set: the merged policy lets
\* nothing proceed that a layer's rule would not, unless that rule lets itself be
\* overridden, nor a push below the declared level (MergePolicies, Check).
THEOREM PoliciesTighten == PolicySpec => []PolicyTightens
<1>1. ASSUME PolicyInv PROVE LaterLayersTighten
  <2> SUFFICES ASSUME merging = "loaded", NEW op \in Ops, NEW input \in Inputs,
                      Strict(op), Check(merged, op, input, 5) \in Proceeds,
                      NEW i \in DOMAIN layers, layers[i].op = op
               PROVE  layers[i].mode \in Proceeds /\ Evaluate(layers[i], input)
    BY DEF LaterLayersTighten
  <2>1. Given = Len(layers) /\ DOMAIN layers = 1 .. Len(layers)
    BY <1>1 DEF PolicyInv, PolicyTyped, RestPending, Given
  <2>2. PICK j \in DOMAIN merged : merged[j].op = op /\ NoLooser(merged[j], layers[i])
    BY <1>1, <2>1 DEF PolicyInv, MergedHold
  <2>3. Rigid(merged[j]) /\ merged[j] \in PolicyRule /\ layers[i] \in PolicyRule
    BY <1>1, <2>2 DEF PolicyInv, MergedHold, PolicyTyped
  <2>4. findRuleByOp(merged, op) = {j}
    BY <1>1, <2>2 DEF PolicyInv, OneRuleEach, findRuleByOp
  <2>5. matchRule(merged, op) = {merged[j]}
    <3>1. j \in Int
      BY <1>1, <2>2 DEF PolicyInv, PolicyTyped
    <3>2. (CHOOSE x \in {j} : \A y \in {j} : x <= y) = j
      BY <3>1
    <3> QED
      BY <2>4, <3>2 DEF matchRule
  <2>6. Evaluate(merged[j], input) /\ merged[j].mode \in Proceeds
    <3>1. \E r \in matchRule(merged, op) : Evaluate(r, input)
      BY DEF Check, Proceeds
    <3>2. (CHOOSE r \in matchRule(merged, op) : TRUE) = merged[j]
      BY <2>5
    <3>3. Check(merged, op, input, 5) = applyDelegationCeiling(merged[j].mode, op, 5)
      BY <3>1, <3>2 DEF Check, Proceeds
    <3> QED
      BY <2>5, <3>1, <3>3 DEF applyDelegationCeiling, Proceeds
  <2>7. layers[i].mode \in Proceeds
    BY <2>2, <2>6 DEF NoLooser
  <2>8. ASSUME NEW k \in DOMAIN layers[i].requires
        PROVE  IF k = NumericKey THEN input.age <= layers[i].requires[k]
               ELSE input.tests = layers[i].requires[k]
    <3>1. k \in {NumericKey, BooleanKey} /\ NumericKey # BooleanKey
      BY <2>3 DEF PolicyRule, NumericKey, BooleanKey
    <3>2. k \in DOMAIN merged[j].requires
      BY <2>2 DEF NoLooser
    <3>3. CASE k = NumericKey
      <4>1. /\ input.age <= merged[j].requires[k] /\ merged[j].requires[k] <= layers[i].requires[k]
            /\ input.age \in Int /\ merged[j].requires[k] \in Int /\ layers[i].requires[k] \in Int
        BY <2>2, <2>3, <2>6, <3>2, <3>3 DEF NoLooser, Evaluate, Inputs, PolicyRule
      <4> QED
        BY <3>3, <4>1
    <3>4. CASE k = BooleanKey
      <4>1. input.tests = merged[j].requires[k] /\ input.tests \in BOOLEAN
        BY <2>6, <3>1, <3>2, <3>4 DEF Evaluate, Inputs
      <4>2. merged[j].requires[k] /\ merged[j].requires[k] \in BOOLEAN
        BY <2>3, <3>2, <3>4 DEF Rigid, PolicyRule
      <4>3. layers[i].requires[k] /\ layers[i].requires[k] \in BOOLEAN
        BY <2>3, <3>4 DEF Strict, PolicyRule
      <4> QED
        BY <3>1, <3>4, <4>1, <4>2, <4>3
    <3> QED
      BY <3>1, <3>3, <3>4
  <2> QED
    BY <2>7, <2>8 DEF Evaluate
<1>2. ASSUME PolicyInv PROVE CeilingHolds
  <2> SUFFICES ASSUME NEW input \in Inputs,
                      Check(merged, "git-push-main", input, level) \in Proceeds
               PROVE  level \in PushAutoFloor .. 5
    BY DEF CeilingHolds
  <2>1. PermitsAuto(level, "git-push-main")
    BY DEF Check, applyDelegationCeiling, Proceeds
  <2>2. level \in LevelPayloads \cup {Unreadable, Unset}
    BY <1>2 DEF PolicyInv, PolicyTyped
  <2> QED
    BY <2>1, <2>2 DEF PermitsAuto, Resolve, MinLevelForAuto, LevelPayloads, Unreadable, Unset,
       DefaultLevel, PushAutoFloor
<1>3. PolicyInv => PolicyTightens
  BY <1>1, <1>2 DEF PolicyInv, PolicyTightens
<1> QED
  BY <1>3, PolicyInvInit, PolicyInvStep, PTL DEF PolicySpec

---------------------------------------------------------------------------
(* Caches *)

CommandSteps ==
    {"none", "build", "install", "read", "prune", "orphans", "walk", "canary", "done",
     "force", "copy", "missing", "hooks", "hookforce", "hookcopy"}
MaybeRelease == Releases \cup {NoRelease}
CommandRow == [at : CommandSteps, doctor : BOOLEAN, target : MaybeRelease, prior : MaybeRelease,
               seen : SUBSET Releases]
RecordRow == [version : MaybeRelease, prior : MaybeRelease,
              status : {"none", "pending", "passed", "failed", "rolled_back"}]

CacheTyped ==
    /\ dirs \subseteq Releases /\ (\A v \in dirs : v <= source) /\ marked \subseteq Releases /\ aged \subseteq marked
    /\ held \subseteq Releases
    /\ source \in Releases /\ market \in Releases /\ market <= source
    /\ installed \in MaybeRelease
    /\ canary \in RecordRow /\ cmd \in CommandRow /\ cmd.prior <= source

\* A publish put its version into the marketplace, over another one; the other
\* commands, and the pause between commands, have none.
ReleaseAhead ==
    /\ cmd.target # NoRelease => market = cmd.target /\ cmd.prior # cmd.target
    /\ CmdAt("none") => cmd.target = NoRelease
    /\ CmdAt("build") \/ CmdAt("install") \/ CmdAt("canary") => cmd.target # NoRelease
    /\ CmdAt("force") \/ CmdAt("copy") \/ CmdAt("missing") \/ cmd.doctor => cmd.prior # NoRelease

\* What a prune is about to delete is in nobody's hands, and not the version the
\* host may put back into the installed record.
PruneApart == CmdAt("prune") => cmd.seen \cap (held \cup {installed, market}) = {}

CacheInv == CacheTyped /\ ReleaseAhead /\ PruneApart /\ CanaryNamesPrior

LEMMA CacheInvInit == CacheInit => CacheInv
<1> SUFFICES ASSUME CacheInit PROVE CacheInv
  OBVIOUS
<1>1. 1 \in Releases
  BY CacheAssumption DEF Releases
<1>2. cmd \in CommandRow /\ cmd.at = "none" /\ cmd.target = NoRelease /\ cmd.prior = NoRelease /\ ~cmd.doctor
  BY DEF CacheInit, NoCommand, CommandRow, CommandSteps, MaybeRelease
<1>3. canary \in RecordRow
  BY DEF CacheInit, NoRecord, RecordRow, MaybeRelease
<1> QED
  BY <1>1, <1>2, <1>3
     DEF CacheInit, CacheInv, CacheTyped, ReleaseAhead, PruneApart, CanaryNamesPrior, MaybeRelease, CmdAt, NoRelease

\* The fields of a command that goes on.
GoesTo(c, step, seen) == [c EXCEPT !.at = step, !.seen = seen]

LEMMA GoesOn ==
    ASSUME NEW c \in CommandRow, NEW step \in CommandSteps, NEW seen \in SUBSET Releases
    PROVE  /\ GoesTo(c, step, seen) \in CommandRow
           /\ GoesTo(c, step, seen).at = step /\ GoesTo(c, step, seen).seen = seen
           /\ GoesTo(c, step, seen).target = c.target /\ GoesTo(c, step, seen).prior = c.prior
           /\ GoesTo(c, step, seen).doctor = c.doctor
BY DEF GoesTo, CommandRow

\* The fields of a command other than a publish, at its first step or over.
LEMMA OtherCommand ==
    ASSUME NEW step \in CommandSteps, NEW c, c = [NoCommand EXCEPT !.at = step]
    PROVE  c \in CommandRow /\ c.at = step /\ c.target = NoRelease /\ c.seen = {} /\ c.prior = NoRelease
           /\ ~c.doctor
BY DEF NoCommand, CommandRow, MaybeRelease

LEMMA CommandOver ==
    /\ NoCommand \in CommandRow /\ NoCommand.at = "none"
    /\ NoCommand.target = NoRelease /\ NoCommand.prior = NoRelease /\ ~NoCommand.doctor
BY DEF NoCommand, CommandRow, CommandSteps, MaybeRelease

WithStatus(r, status) == [r EXCEPT !.status = status]

LEMMA RecordMoves ==
    ASSUME NEW r \in RecordRow, NEW status \in {"passed", "failed", "rolled_back"}
    PROVE  /\ WithStatus(r, status) \in RecordRow
           /\ WithStatus(r, status).version = r.version /\ WithStatus(r, status).prior = r.prior
BY DEF RecordRow, WithStatus

LEMMA RecordKept ==
    ASSUME canary \in RecordRow, CanaryNamesPrior, NEW status \in {"passed", "failed", "rolled_back"},
           canary' = IF canary = NoRecord THEN canary ELSE WithStatus(canary, status)
    PROVE  canary' \in RecordRow /\ CanaryNamesPrior'
<1>1. CASE canary = NoRecord
  BY <1>1 DEF CanaryNamesPrior
<1>2. CASE canary # NoRecord
  BY <1>2, RecordMoves DEF CanaryNamesPrior
<1> QED
  BY <1>1, <1>2

\* There is a newest among versions.
LEMMA NewestIs ==
    ASSUME NEW S, S \subseteq Releases, S # {}
    PROVE  Max(S) \in S
<1> DEFINE Gaps == {MaxRelease - v : v \in S}
<1>1. Gaps \subseteq Nat /\ Gaps # {}
  <2>1. \A v \in S : MaxRelease - v \in Nat
    BY CacheAssumption DEF Releases
  <2> QED
    BY <2>1
<1>2. PICK least \in Gaps : \A n \in Gaps : ~(<<n, least>> \in OpToRel(<, Nat))
  BY <1>1, NatLessThanWellFounded, WFMin
<1>3. \A n \in Gaps : ~(n < least)
  BY <1>1, <1>2 DEF OpToRel
<1>4. PICK newest \in S : least = MaxRelease - newest
  BY <1>2
<1>5. \A v \in S : v \in Int /\ ~(MaxRelease - v < MaxRelease - newest)
  BY <1>3, <1>4 DEF Releases
<1>6. \A v \in S : newest >= v
  BY <1>4, <1>5, CacheAssumption
<1> QED
  BY <1>4, <1>6 DEF Max

\* A rollback goes to a directory that is there, below the version in the
\* marketplace or named by the canary.
LEMMA TargetKept ==
    ASSUME CacheTyped, CanaryNamesPrior, RollbackTarget # NoRelease
    PROVE  RollbackTarget \in Releases /\ RollbackTarget <= source
<1>1. Older \subseteq Releases /\ Retained \subseteq dirs /\ \A v \in Older : v <= source
  BY DEF Older, Retained, CacheTyped
<1>2. CASE canary.prior \in Retained
  BY <1>1, <1>2 DEF RollbackTarget, CacheTyped
<1>3. CASE canary.prior \notin Retained
  <2>1. RollbackTarget = Max(Older) /\ Older # {}
    BY <1>3 DEF RollbackTarget
  <2>2. Max(Older) \in Older
    BY <1>1, <2>1, NewestIs
  <2> QED
    BY <1>1, <2>1, <2>2
<1> QED
  BY <1>2, <1>3

LEMMA CacheInvStep == CacheInv /\ [CacheNext]_cacheVars => CacheInv'
<1> SUFFICES ASSUME CacheInv, [CacheNext]_cacheVars PROVE CacheInv'
  OBVIOUS
<1> USE DEF CacheInv, CmdAt
<1>a. /\ {"none", "build", "install", "read", "prune", "orphans", "walk", "canary", "done"} \subseteq CommandSteps
      /\ {"force", "copy", "missing", "hooks", "hookforce", "hookcopy"} \subseteq CommandSteps
  BY DEF CommandSteps
<1>b. source \in Int /\ market \in Int /\ NoRelease <= source
  BY DEF CacheTyped, Releases, NoRelease
<1>0. /\ \A step \in {"none", "build", "install", "read", "prune", "orphans", "walk", "canary", "done"} :
            step \in CommandSteps
      /\ \A step \in {"force", "copy", "missing", "hooks", "hookforce", "hookcopy"} : step \in CommandSteps
      /\ source \in Int /\ market \in Int /\ NoRelease <= source
  BY <1>a, <1>b
<1>1. CASE Release
  <2> DEFINE target == IF market < source THEN source ELSE source + 1
  <2>1. PICK c : c = [at |-> "build", doctor |-> FALSE, target |-> target,
                      prior |-> PriorOf(market, source, target), seen |-> {}]
    OBVIOUS
  <2>2. /\ target \in Releases /\ source' = target /\ market' = target /\ cmd' = c
        /\ UNCHANGED <<dirs, marked, aged, held, installed, canary>> /\ cmd.at = "none"
    BY <1>1, <2>1 DEF Release
  <2>3. target \in Int /\ target # NoRelease /\ market # target /\ \A v \in dirs : v <= target
    BY DEF CacheTyped, Releases, NoRelease
  <2>4. PriorOf(market, source, target) = market
    BY <2>3 DEF PriorOf
  <2>5. c \in CommandRow /\ c.at = "build" /\ c.target = target /\ c.prior = market /\ ~c.doctor
    BY <1>0, <2>1, <2>2, <2>4 DEF CommandRow, MaybeRelease, CacheTyped
  <2> HIDE DEF target
  <2>6. CacheTyped'
    <3>1. market <= target
      BY <1>0, <2>2, <2>3 DEF CacheTyped, target
    <3> QED
      BY <2>2, <2>3, <2>5, <3>1 DEF CacheTyped
  <2> QED
    BY <2>2, <2>3, <2>5, <2>6 DEF ReleaseAhead, PruneApart, CanaryNamesPrior
<1>2. ASSUME NEW ok \in BOOLEAN, Build(ok) PROVE CacheInv'
  <2>1. /\ cmd' = GoesTo(cmd, "install", {}) /\ UNCHANGED <<marked, aged, held, source, market, installed, canary>>
        /\ dirs' \subseteq dirs \cup {cmd.target} /\ cmd.at = "build"
    BY <1>2 DEF Build, CmdGoto, GoesTo, RebuildCache
  <2>2. cmd.target = market
    BY <2>1 DEF ReleaseAhead
  <2>3. cmd' \in CommandRow /\ cmd'.at = "install" /\ cmd'.target = cmd.target /\ cmd'.prior = cmd.prior
        /\ cmd'.doctor = cmd.doctor
    BY <1>0, <2>1, GoesOn DEF CacheTyped
  <2> QED
    BY <2>1, <2>2, <2>3 DEF CacheTyped, ReleaseAhead, PruneApart, CanaryNamesPrior
<1>3. ASSUME NEW ok \in BOOLEAN, UpdateInstalled(ok) PROVE CacheInv'
  <2>1. /\ cmd' = GoesTo(cmd, "read", {}) /\ UNCHANGED <<dirs, marked, aged, held, source, market, canary>>
        /\ installed' \in {cmd.target, installed} /\ cmd.at = "install"
    BY <1>3 DEF UpdateInstalled, CmdGoto, GoesTo
  <2>2. cmd.target \in MaybeRelease
    BY DEF CacheTyped, CommandRow
  <2>3. cmd' \in CommandRow /\ cmd'.at = "read" /\ cmd'.target = cmd.target /\ cmd'.prior = cmd.prior
        /\ cmd'.doctor = cmd.doctor
    BY <1>0, <2>1, GoesOn DEF CacheTyped
  <2> QED
    BY <2>1, <2>2, <2>3 DEF CacheTyped, ReleaseAhead, PruneApart, CanaryNamesPrior
<1>4. ASSUME NEW ok \in BOOLEAN, ReadForPrune(ok) PROVE CacheInv'
  <2>1. PICK seen : seen = IF ok THEN PruneCandidates(Protected) \ held ELSE {}
    OBVIOUS
  <2>2. /\ cmd' = GoesTo(cmd, "prune", seen)
        /\ UNCHANGED <<dirs, marked, aged, held, source, market, installed, canary>>
    BY <1>4, <2>1 DEF ReadForPrune, GoesTo
  <2>3. Protected = market
    BY DEF Protected, ReleaseAhead
  <2>4. seen \subseteq dirs \ (held \cup {installed, market})
    BY <2>1, <2>3 DEF PruneCandidates
  <2>5. /\ cmd' \in CommandRow /\ cmd'.at = "prune" /\ cmd'.seen = seen
        /\ cmd'.target = cmd.target /\ cmd'.prior = cmd.prior
        /\ cmd'.doctor = cmd.doctor
    BY <1>0, <2>2, <2>4, GoesOn DEF CacheTyped
  <2> QED
    BY <2>2, <2>4, <2>5 DEF CacheTyped, ReleaseAhead, PruneApart, CanaryNamesPrior
<1>5. CASE Prune
  <2>1. PICK step : step = IF cmd.doctor THEN "hooks" ELSE IF cmd.target = NoRelease THEN "none" ELSE "orphans"
    OBVIOUS
  <2>2. /\ cmd' = GoesTo(cmd, step, {}) /\ dirs' \subseteq dirs
        /\ UNCHANGED <<marked, aged, held, source, market, installed, canary>>
    BY <1>5, <2>1 DEF Prune, CmdGoto, GoesTo
  <2>3. cmd' \in CommandRow /\ cmd'.at = step /\ cmd'.target = cmd.target /\ cmd'.prior = cmd.prior
        /\ cmd'.doctor = cmd.doctor
    BY <1>0, <2>1, <2>2, GoesOn DEF CacheTyped
  <2> QED
    BY <2>1, <2>2, <2>3 DEF CacheTyped, ReleaseAhead, PruneApart, CanaryNamesPrior
<1>6. CASE ReadForOrphans
  <2>1. PICK seen \in SUBSET Releases : cmd' = GoesTo(cmd, "walk", seen)
    <3>1. PICK unread \in {{}, dirs} : cmd' = GoesTo(cmd, "walk", held \cup unread)
      BY <1>6 DEF ReadForOrphans, GoesTo
    <3> QED
      BY <3>1 DEF CacheTyped
  <2>2. UNCHANGED <<dirs, marked, aged, held, source, market, installed, canary>>
    BY <1>6 DEF ReadForOrphans
  <2>3. cmd' \in CommandRow /\ cmd'.at = "walk" /\ cmd'.target = cmd.target /\ cmd'.prior = cmd.prior
        /\ cmd'.doctor = cmd.doctor
    BY <1>0, <2>1, GoesOn DEF CacheTyped
  <2> QED
    BY <2>2, <2>3 DEF CacheTyped, ReleaseAhead, PruneApart, CanaryNamesPrior
<1>7. CASE CleanOrphans
  <2>1. PICK step : step = IF cmd.doctor THEN "missing" ELSE IF cmd.target = NoRelease THEN "read" ELSE "canary"
    OBVIOUS
  <2>2. PICK gone : /\ dirs' = dirs \ gone /\ marked' = marked \ gone /\ aged' = aged \ gone
    BY <1>7 DEF CleanOrphans
  <2>3. cmd' = GoesTo(cmd, step, {}) /\ UNCHANGED <<held, source, market, installed, canary>>
    BY <1>7, <2>1 DEF CleanOrphans, CmdGoto, GoesTo
  <2>4. cmd' \in CommandRow /\ cmd'.at = step /\ cmd'.target = cmd.target /\ cmd'.prior = cmd.prior
        /\ cmd'.doctor = cmd.doctor
    BY <1>0, <2>1, <2>3, GoesOn DEF CacheTyped
  <2> QED
    BY <2>1, <2>2, <2>3, <2>4 DEF CacheTyped, ReleaseAhead, PruneApart, CanaryNamesPrior
<1>8. CASE Clean
  <2>1. cmd' \in CommandRow /\ cmd'.at = "orphans" /\ cmd'.target = NoRelease
        /\ cmd'.prior = NoRelease /\ ~cmd'.doctor
    BY <1>0, <1>8, OtherCommand DEF Clean
  <2> QED
    BY <1>0, <1>8, <2>1 DEF Clean, CacheTyped, ReleaseAhead, PruneApart, CanaryNamesPrior
<1>9. ASSUME NEW ok \in BOOLEAN, RegisterCanary(ok) PROVE CacheInv'
  <2>1. cmd' \in CommandRow /\ cmd'.at = "done" /\ cmd'.target = NoRelease
        /\ cmd'.prior = NoRelease /\ ~cmd'.doctor
    BY <1>0, <1>9, OtherCommand DEF RegisterCanary
  <2>2. cmd.target \in MaybeRelease /\ cmd.prior \in MaybeRelease /\ cmd.prior # cmd.target
    BY <1>9 DEF RegisterCanary, CacheTyped, ReleaseAhead, CommandRow
  <2>3. PICK r : r = [version |-> cmd.target, prior |-> cmd.prior, status |-> "pending"]
    OBVIOUS
  <2>4. r \in RecordRow /\ r.prior # r.version
    BY <2>2, <2>3 DEF RecordRow
  <2>5. canary' \in {r, canary} /\ UNCHANGED <<dirs, marked, aged, held, source, market, installed>>
    BY <1>9, <2>3 DEF RegisterCanary
  <2> QED
    BY <1>0, <2>1, <2>4, <2>5 DEF CacheTyped, ReleaseAhead, PruneApart, CanaryNamesPrior
<1>10. CASE Published \/ CommandDies
  <2>1. cmd' = NoCommand /\ UNCHANGED <<dirs, marked, aged, held, source, market, installed, canary>>
    BY <1>10 DEF Published, CommandDies
  <2> QED
    BY <1>0, <2>1, CommandOver DEF CacheTyped, ReleaseAhead, PruneApart, CanaryNamesPrior
<1>11. CASE Rollback
  <2>1. /\ market' = RollbackTarget /\ installed' = RollbackTarget /\ cmd.at = "none"
        /\ UNCHANGED <<dirs, marked, aged, held, source, cmd>> /\ RollbackTarget # NoRelease
    BY <1>11 DEF Rollback
  <2>2. RollbackTarget \in Releases /\ RollbackTarget <= source
    BY <2>1, TargetKept
  <2>3. canary' \in RecordRow /\ CanaryNamesPrior'
    <3>1. canary' = IF canary = NoRecord THEN canary ELSE WithStatus(canary, "rolled_back")
      BY <1>11 DEF Rollback, WithStatus
    <3> QED
      BY <3>1, RecordKept DEF CacheTyped
  <2> QED
    BY <2>1, <2>2, <2>3 DEF CacheTyped, ReleaseAhead, PruneApart, MaybeRelease
<1>12. ASSUME NEW ok \in BOOLEAN, DoctorFix(ok) PROVE CacheInv'
  <2>1. PICK step : step = IF installed \notin {NoRelease, market} /\ ok THEN "force" ELSE "orphans"
    OBVIOUS
  <2>2. /\ cmd' = [NoCommand EXCEPT !.at = step, !.doctor = TRUE, !.prior = market] /\ cmd.at = "none"
        /\ installed' \in {market, installed} /\ market' \in {market, source}
        /\ UNCHANGED <<dirs, marked, aged, held, source, canary>>
    BY <1>12, <2>1 DEF DoctorFix
  <2>3. cmd' \in CommandRow /\ cmd'.at = step /\ cmd'.target = NoRelease /\ cmd'.prior = market
    <3>1. step \in CommandSteps /\ market \in Releases
      BY <1>0, <2>1 DEF CacheTyped
    <3>2. PICK c : c = [NoCommand EXCEPT !.at = step, !.doctor = TRUE, !.prior = market]
      OBVIOUS
    <3>3. c \in CommandRow /\ c.at = step /\ c.target = NoRelease /\ c.prior = market
      BY <3>1, <3>2 DEF NoCommand, CommandRow, MaybeRelease
    <3> QED
      BY <2>2, <3>2, <3>3
  <2>4. market # NoRelease /\ market' \in Releases /\ market' <= source /\ installed' \in MaybeRelease
    BY <1>0, <2>2 DEF CacheTyped, Releases, NoRelease, MaybeRelease
  <2>5. CacheTyped'
    BY <2>2, <2>3, <2>4 DEF CacheTyped
  <2> QED
    BY <2>1, <2>2, <2>3, <2>4, <2>5 DEF ReleaseAhead, PruneApart, CanaryNamesPrior
<1>17. ASSUME NEW v \in Releases, v <= source,
              NEW step \in {"copy", "hookcopy", "orphans", "read", "done"}, CmdGoto(step),
              cmd.prior # NoRelease \/ step # "copy",
              dirs' \subseteq dirs \cup {v}, marked' \subseteq marked, aged' \subseteq marked',
              UNCHANGED <<held, source, market, installed, canary>>
       PROVE  CacheInv'
  <2>1. cmd' = GoesTo(cmd, step, {})
    BY <1>17 DEF CmdGoto, GoesTo
  <2>2. cmd' \in CommandRow /\ cmd'.at = step /\ cmd'.target = cmd.target /\ cmd'.prior = cmd.prior
        /\ cmd'.doctor = cmd.doctor
    BY <1>0, <2>1, GoesOn DEF CacheTyped
  <2> QED
    BY <1>17, <2>2 DEF CacheTyped, ReleaseAhead, PruneApart, CanaryNamesPrior
<1>18. CASE RebuildDrifted \/ (\E ok \in BOOLEAN : RebuildMissing(ok))
  <2>1. PICK step \in {"copy", "orphans", "read"} :
          /\ CmdGoto(step) /\ dirs' \subseteq dirs \cup {cmd.prior}
          /\ marked' \subseteq marked /\ aged' \subseteq marked'
          /\ UNCHANGED <<held, source, market, installed, canary>>
    BY <1>18 DEF RebuildDrifted, RebuildMissing, RebuildCache, ForceRemove, ForceCopy, CacheTyped
  <2>2. cmd.prior \in MaybeRelease /\ cmd.prior <= source
    BY DEF CacheTyped, CommandRow
  <2>3. cmd.prior \in Releases /\ cmd.prior # NoRelease
    BY <1>18, <2>2 DEF RebuildDrifted, RebuildMissing, ReleaseAhead, MaybeRelease
  <2> QED
    BY <1>17, <2>1, <2>2, <2>3
<1>19. CASE CheckHooks
  <2>1. CASE cmd' \in {NoCommand, [cmd EXCEPT !.at = "hookforce"]}
             /\ UNCHANGED <<dirs, marked, aged, held, source, market, installed, canary>> /\ cmd.at = "hooks"
    <3>1. CASE cmd' = NoCommand
      BY <1>0, <2>1, <3>1, CommandOver DEF CacheTyped, ReleaseAhead, PruneApart, CanaryNamesPrior
    <3>2. CASE cmd' = [cmd EXCEPT !.at = "hookforce"]
      <4>1. cmd' \in CommandRow /\ cmd'.at = "hookforce" /\ cmd'.target = cmd.target /\ cmd'.prior = cmd.prior
        /\ cmd'.doctor = cmd.doctor
        BY <1>0, <3>2 DEF CacheTyped, CommandRow
      <4> QED
        BY <2>1, <4>1 DEF CacheTyped, ReleaseAhead, PruneApart, CanaryNamesPrior
    <3> QED
      BY <2>1, <3>1, <3>2
  <2>2. CASE \E step \in {"hookcopy", "done"} :
               /\ CmdGoto(step) /\ dirs' \subseteq dirs \cup {source}
               /\ marked' \subseteq marked /\ aged' \subseteq marked'
               /\ UNCHANGED <<held, source, market, installed, canary>>
    BY <1>0, <1>17, <2>2 DEF CacheTyped
  <2> QED
    BY <1>19, <2>1, <2>2 DEF CheckHooks, ForceRemove, ForceCopy, CacheTyped
<1>13. ASSUME NEW ok \in BOOLEAN, CheckCanary(ok) PROVE CacheInv'
  <2>1. UNCHANGED <<dirs, marked, aged, held, source, market, installed, cmd>>
    BY <1>13 DEF CheckCanary
  <2>2. canary # NoRecord
    BY <1>13 DEF CheckCanary, NoRecord
  <2>3. canary' \in RecordRow /\ CanaryNamesPrior'
    <3>1. PICK status \in {"passed", "failed"} : canary' = WithStatus(canary, status)
      BY <1>13 DEF CheckCanary, WithStatus
    <3>2. canary' = IF canary = NoRecord THEN canary ELSE WithStatus(canary, status)
      BY <2>2, <3>1
    <3> QED
      BY <3>1, <3>2, RecordKept DEF CacheTyped
  <2> QED
    BY <2>1, <2>3 DEF CacheTyped, ReleaseAhead, PruneApart
<1>14. CASE SessionStarts
  BY <1>14 DEF SessionStarts, CacheTyped, ReleaseAhead, PruneApart, CanaryNamesPrior
<1>15. CASE HostRewrites
  <2>1. NoRelease \notin Releases /\ cmd.seen \subseteq Releases
    BY DEF NoRelease, Releases, CacheTyped, CommandRow
  <2>2. /\ installed' \in {NoRelease, market} /\ dirs' \subseteq dirs \cup {market}
        /\ marked' \subseteq marked /\ aged' \subseteq marked' /\ UNCHANGED <<held, source, market, canary, cmd>>
    BY <1>15 DEF HostRewrites, CacheTyped
  <2> QED
    BY <2>1, <2>2 DEF CacheTyped, ReleaseAhead, PruneApart, CanaryNamesPrior, MaybeRelease
<1>16. CASE DayPasses \/ UNCHANGED cacheVars \/ \E v \in dirs : SessionEnds(v) \/ MarkOrphan(v)
  <2>1. /\ UNCHANGED <<dirs, source, market, installed, canary, cmd>>
        /\ held' \subseteq held /\ marked' \subseteq marked \cup dirs /\ aged' \subseteq marked'
    BY <1>16 DEF DayPasses, cacheVars, SessionEnds, MarkOrphan, CacheTyped
  <2> QED
    BY <2>1 DEF CacheTyped, ReleaseAhead, PruneApart, CanaryNamesPrior
<1> QED
  BY <1>1, <1>2, <1>3, <1>4, <1>5, <1>6, <1>7, <1>8, <1>9, <1>10, <1>11, <1>12, <1>13, <1>14, <1>15, <1>16,
     <1>18, <1>19 DEF CacheNext

\* Only a prune, a walk over marked directories and a forced rebuild remove any.
LEMMA CacheInvSpares ==
    CacheInv /\ [CacheNext]_cacheVars =>
        \A v \in held \cup {installed} : v \in dirs /\ v \notin dirs' => v \in marked \/ Forced
<1> SUFFICES ASSUME CacheInv, [CacheNext]_cacheVars,
                    NEW v \in held \cup {installed}, v \in dirs, v \notin dirs'
             PROVE  v \in marked \/ Forced
  OBVIOUS
<1>1. CASE Prune
  BY <1>1 DEF Prune, CacheInv, PruneApart
<1>2. CASE CleanOrphans
  BY <1>2 DEF CleanOrphans, CacheInv, CacheTyped
<1>3. CASE dirs \subseteq dirs'
  BY <1>3
<1>4. Prune \/ CleanOrphans \/ Forced \/ dirs \subseteq dirs'
  BY DEF CacheNext, cacheVars, Forced, RebuildDrifted, RebuildMissing, CheckHooks, ForceRemove, ForceCopy, CmdAt, Release, Build, RebuildCache, UpdateInstalled, ReadForPrune, ReadForOrphans,
         Clean, RegisterCanary, Published, CommandDies, Rollback, DoctorFix, CheckCanary, SessionStarts,
         SessionEnds, MarkOrphan, DayPasses, HostRewrites
<1> QED
  BY <1>1, <1>2, <1>3, <1>4

(* But for a doctor's forced rebuild, no version directory is taken from      *)
(* under the installed record or a session that the host has not given up,    *)
(* although a sweep reads both before the deletion; and a canary always names *)
(* another version to go back to.                                             *)
THEOREM CachesStaySound == CacheSpec => CachesSound
<1>1. CacheInv /\ [CacheNext]_cacheVars =>
        [\A v \in held \cup {installed} : v \in dirs /\ v \notin dirs' => v \in marked \/ Forced]_cacheVars
  BY CacheInvSpares
<1>2. CacheInv => CanaryNamesPrior
  BY DEF CacheInv
<1> QED
  BY <1>1, <1>2, CacheInvInit, CacheInvStep, PTL DEF CacheSpec, CachesSound, SweepsSpare

---------------------------------------------------------------------------
(* Publishes *)

PubLabels ==
    {"idle", "lock", "create", "verify", "validate", "bump", "commit", "pull", "push", "mpull",
     "mwrite", "mcommit", "mpush", "peers", "done", "rpush", "rpeer"}
PubWork == [at : PubLabels, auto : BOOLEAN, sync : BOOLEAN, target : Versions \cup {NoVersion}]
PubRow == [owner : Publishers \cup {Nobody}, stale : BOOLEAN]
PubClone == [wt : Versions, head : Versions, base : Versions, undo : BOOLEAN]

PubTyped ==
    /\ remote \in [plugin : Versions, market : Versions]
    /\ plug \in PubClone /\ mkt \in PubClone /\ peer \in PubClone
    /\ history \subseteq Versions
    /\ rows \in Seq(PubRow)
    /\ pub \in [Publishers -> PubWork]
    /\ \A p \in Publishers : At(p) = "idle" \/ pub[p].target \in Versions
    /\ leaks \in 0..MaxLeaked /\ overlapped \in BOOLEAN

\* A process at these labels may have a row; at the others past the lock it has none yet.
MayOwnRow(p) == At(p) \notin {"idle", "lock", "create", "rpush", "rpeer"}
DeadRows == {k \in DOMAIN rows : rows[k].owner = Nobody}
LockInv ==
    /\ \A k \in DOMAIN rows : rows[k].owner = Nobody \/ MayOwnRow(rows[k].owner)
    /\ \A j, k \in DOMAIN rows : rows[j].owner = rows[k].owner /\ j # k => rows[k].owner = Nobody
    /\ Cardinality(DeadRows) <= leaks

\* What a process at a label knows of the version it is taking along.
CarriesAt(label, v) ==
    /\ label = "commit" => plug.wt = v
    /\ label \in {"pull", "push", "mpull", "mwrite", "mcommit", "mpush", "peers", "rpush", "rpeer"}
          => v \in history
    /\ label = "mwrite" => mkt.head = mkt.wt /\ mkt.wt < v
Carries(p) == CarriesAt(At(p), pub[p].target)

\* The marketplace holds committed versions, and is behind its base only by a rollback.
MarketHeld ==
    /\ remote.market \in history /\ mkt.head \in history /\ mkt.wt \in history /\ peer.head \in history
    /\ mkt.head <= mkt.wt
    /\ mkt.head < mkt.base => mkt.undo

AloneInv ==
    /\ \A p, q \in InFlight : p = q
    /\ MarketHeld
    /\ \A p \in Publishers : Carries(p)

RepoInv ==
    /\ plug.head \in history /\ remote.plugin \in history
    /\ peer.head <= peer.wt /\ peer.base <= peer.head
    /\ ~overlapped => AloneInv

PubInv == PubTyped /\ LockInv /\ RepoInv

OverlapNoted == overlapped' = (overlapped \/ \E p, q \in InFlight' : p # q)

\* The step of one process moves its own entry.
MovesTo(p, w) ==
    /\ w \in PubWork /\ (w.at = "idle" \/ w.target \in Versions)
    /\ pub' \in [Publishers -> PubWork] /\ pub'[p] = w
    /\ \A q \in Publishers \ {p} : pub'[q] = pub[q]

LEMMA GotoMoves ==
    ASSUME PubTyped, NEW p \in Publishers, At(p) # "idle", NEW label \in PubLabels, PubGoto(p, label)
    PROVE  \E w : MovesTo(p, w) /\ w.at = label /\ w.target = pub[p].target
<1>1. PICK w : w = [pub[p] EXCEPT !.at = label]
  OBVIOUS
<1>2. w \in PubWork /\ w.at = label /\ w.target = pub[p].target
  BY <1>1 DEF PubTyped, PubWork
<1>3. pub' = [pub EXCEPT ![p] = w]
  BY <1>1 DEF PubGoto
<1>4. MovesTo(p, w)
  BY <1>2, <1>3 DEF MovesTo, PubTyped, At
<1> QED
  BY <1>2, <1>4

LEMMA RestMoves ==
    ASSUME PubTyped, NEW p \in Publishers, pub' = [pub EXCEPT ![p] = Resting]
    PROVE  \E w : MovesTo(p, w) /\ w.at = "idle"
<1>1. Resting \in PubWork /\ Resting.at = "idle"
  BY DEF Resting, PubWork, PubLabels, NoVersion
<1>2. MovesTo(p, Resting)
  BY <1>1 DEF MovesTo, PubTyped
<1> QED
  BY <1>1, <1>2

---------------------------------------------------------------------------
(* The rows of the lock *)

\* Rows are as they were, or fewer: each row left is one there was.
RowsLeft(f) ==
    /\ rows' \in Seq(PubRow)
    /\ f \in [DOMAIN rows' -> DOMAIN rows]
    /\ \A j, k \in DOMAIN rows' : f[j] = f[k] => j = k
    /\ \A k \in DOMAIN rows' : rows'[k].owner = rows[f[k]].owner

LEMMA DeadFinite ==
    ASSUME PubTyped
    PROVE  IsFiniteSet(DOMAIN rows) /\ IsFiniteSet(DeadRows)
<1>1. DOMAIN rows = 1..Len(rows) /\ Len(rows) \in Nat
  BY DEF PubTyped
<1>2. IsFiniteSet(DOMAIN rows)
  BY <1>1, FS_Interval
<1> QED
  BY <1>2, FS_Subset DEF DeadRows

LEMMA RowsLeftKeep ==
    ASSUME PubTyped, LockInv, NEW f, RowsLeft(f), leaks' = leaks,
           \A p \in Publishers : MayOwnRow(p)' \/ \A k \in DOMAIN rows' : rows'[k].owner # p
    PROVE  LockInv'
<1>1. ASSUME NEW j \in DOMAIN rows', NEW k \in DOMAIN rows', rows'[j].owner = rows'[k].owner, j # k
      PROVE  rows'[k].owner = Nobody
  <2>1. f[j] \in DOMAIN rows /\ f[k] \in DOMAIN rows /\ f[j] # f[k]
    BY <1>1 DEF RowsLeft
  <2>2. rows'[j].owner = rows[f[j]].owner /\ rows'[k].owner = rows[f[k]].owner
    BY <1>1 DEF RowsLeft
  <2> QED
    BY <1>1, <2>1, <2>2 DEF LockInv
<1>2. Cardinality(DeadRows') <= leaks'
  <2>1. PICK g : g = [k \in DeadRows' |-> f[k]]
    OBVIOUS
  <2>2. \A k \in DeadRows' : g[k] \in DeadRows
    BY <2>1 DEF DeadRows, RowsLeft
  <2>3. \A j, k \in DeadRows' : g[j] = g[k] => j = k
    BY <2>1 DEF DeadRows, RowsLeft
  <2>4. g \in Injection(DeadRows', DeadRows)
    BY <2>1, <2>2, <2>3 DEF Injection, IsInjective
  <2>5. IsFiniteSet(DeadRows)
    BY DeadFinite
  <2>6. Cardinality(DeadRows') <= Cardinality(DeadRows) /\ IsFiniteSet(DeadRows')
    BY <2>4, <2>5, FS_Injection
  <2>7. Cardinality(DeadRows') \in Nat /\ Cardinality(DeadRows) \in Nat /\ leaks \in Nat
    BY <2>5, <2>6, FS_CardinalityType DEF PubTyped
  <2> QED
    BY <2>6, <2>7 DEF LockInv
<1>3. ASSUME NEW k \in DOMAIN rows'
      PROVE  rows'[k].owner = Nobody \/ \E p \in Publishers : p = rows'[k].owner /\ MayOwnRow(p)'
  <2>1. rows'[k] \in PubRow
    BY <1>3 DEF RowsLeft
  <2> QED
    BY <2>1 DEF PubRow
<1> QED
  BY <1>1, <1>2, <1>3 DEF LockInv, DeadRows, MayOwnRow, At

LEMMA SameRowsLeft ==
    ASSUME PubTyped, DOMAIN rows' = DOMAIN rows, rows' \in Seq(PubRow),
           \A k \in DOMAIN rows : rows'[k].owner = rows[k].owner
    PROVE  \E f : RowsLeft(f)
<1>1. RowsLeft([k \in DOMAIN rows |-> k])
  BY DEF RowsLeft
<1> QED
  BY <1>1

LEMMA NoRowsLeft ==
    ASSUME PubTyped, rows' = <<>>
    PROVE  \E f : RowsLeft(f)
<1>1. RowsLeft([k \in {} |-> k])
  BY DEF RowsLeft
<1> QED
  BY <1>1

LEMMA FrontRowsLeft ==
    ASSUME PubTyped, rows # <<>>, rows' = Front(rows)
    PROVE  \E f : RowsLeft(f)
<1>1. PICK n : n = Len(rows) - 1
  OBVIOUS
<1>2. n \in Nat /\ DOMAIN rows = 1..n + 1 /\ Len(rows) = n + 1
  BY <1>1 DEF PubTyped
<1>3. rows' = SubSeq(rows, 1, n)
  BY <1>1 DEF Front
<1>4. rows' \in Seq(PubRow) /\ Len(rows') = n /\ \A k \in 1..n : rows'[k] = rows[k]
  BY <1>2, <1>3 DEF PubTyped
<1>5. DOMAIN rows' = 1..n /\ \A k \in 1..n : k \in DOMAIN rows
  BY <1>2, <1>4
<1>6. RowsLeft([k \in 1..n |-> k])
  BY <1>4, <1>5 DEF RowsLeft
<1> QED
  BY <1>6

LEMMA OneRowLess ==
    ASSUME PubTyped, NEW i \in DOMAIN rows, rows' = RemoveAt(rows, i)
    PROVE  \E f : RowsLeft(f) /\ \A k \in DOMAIN rows' : f[k] # i
<1>1. PICK n : n = Len(rows)
  OBVIOUS
<1>2. n \in Nat /\ DOMAIN rows = 1..n /\ i \in 1..n /\ rows \in Seq(PubRow)
  BY <1>1 DEF PubTyped
<1>3. PICK before, after : before = SubSeq(rows, 1, i - 1) /\ after = SubSeq(rows, i + 1, n)
  OBVIOUS
<1>4. rows' = before \o after
  BY <1>1, <1>3 DEF RemoveAt
<1>5. /\ before \in Seq(PubRow) /\ Len(before) = i - 1
      /\ \A k \in 1..i - 1 : before[k] = rows[k]
  BY <1>1, <1>2, <1>3
<1>6. /\ after \in Seq(PubRow) /\ Len(after) = n - i
      /\ \A k \in 1..n - i : after[k] = rows[i + k]
  BY <1>1, <1>2, <1>3
<1>7. /\ rows' \in Seq(PubRow) /\ Len(rows') = Len(before) + Len(after)
      /\ \A k \in 1..Len(before) + Len(after) :
            rows'[k] = IF k <= Len(before) THEN before[k] ELSE after[k - Len(before)]
  <2>1. before \in Seq(PubRow) /\ after \in Seq(PubRow)
    BY <1>5, <1>6
  <2>2. /\ before \o after \in Seq(PubRow) /\ Len(before \o after) = Len(before) + Len(after)
        /\ \A k \in 1..Len(before) + Len(after) :
              (before \o after)[k] = IF k <= Len(before) THEN before[k] ELSE after[k - Len(before)]
    BY <2>1, ConcatProperties
  <2> QED
    BY <1>4, <2>2
<1>8. Len(rows') = n - 1 /\ DOMAIN rows' = 1..n - 1
  BY <1>2, <1>5, <1>6, <1>7
<1>9. PICK f : f = [k \in 1..n - 1 |-> IF k < i THEN k ELSE k + 1]
  OBVIOUS
<1>10. \A k \in 1..n - 1 : rows'[k] = rows[f[k]]
  <2>1. ASSUME NEW k \in 1..n - 1, k < i PROVE rows'[k] = rows[f[k]]
    BY <1>2, <1>5, <1>6, <1>7, <1>9, <2>1
  <2>2. ASSUME NEW k \in 1..n - 1, ~(k < i) PROVE rows'[k] = rows[f[k]]
    <3>1. k - (i - 1) \in 1..n - i /\ i + (k - (i - 1)) = k + 1 /\ ~(k <= i - 1)
      BY <1>2, <2>2
    <3>2. rows'[k] = after[k - (i - 1)]
      BY <1>2, <1>5, <1>6, <1>7, <3>1, SMTT(30)
    <3> QED
      BY <1>6, <1>9, <2>2, <3>1, <3>2
  <2> QED
    BY <2>1, <2>2
<1>11. \A k \in 1..n - 1 : f[k] \in 1..n /\ f[k] # i
  BY <1>2, <1>9
<1>12. \A j, k \in 1..n - 1 : f[j] = f[k] => j = k
  BY <1>2, <1>9
<1>13. RowsLeft(f)
  BY <1>2, <1>7, <1>8, <1>9, <1>10, <1>11, <1>12 DEF RowsLeft
<1> QED
  BY <1>8, <1>11, <1>13

\* A return leaves no row of the process.
LEMMA ReturnRowsLeft ==
    ASSUME PubTyped, LockInv, NEW p \in Publishers, rows' = RowsWithout(p)
    PROVE  (\E f : RowsLeft(f)) /\ \A k \in DOMAIN rows' : rows'[k].owner # p
<1>1. CASE OwnRows(p) = {}
  <2>1. rows' = rows /\ rows' \in Seq(PubRow)
    BY <1>1 DEF RowsWithout, PubTyped
  <2>2. \A k \in DOMAIN rows : rows[k].owner # p
    BY <1>1 DEF OwnRows
  <2>3. \E f : RowsLeft(f)
    BY <2>1, SameRowsLeft
  <2> QED
    BY <2>1, <2>2, <2>3
<1>2. CASE OwnRows(p) # {}
  <2>1. PICK i : i = (CHOOSE k \in OwnRows(p) : TRUE)
    OBVIOUS
  <2>2. i \in OwnRows(p)
    BY <1>2, <2>1
  <2>3. i \in DOMAIN rows /\ rows[i].owner = p /\ p # Nobody
    BY <2>2, PublishAssumption DEF OwnRows, Nobody
  <2>4. rows' = RemoveAt(rows, i)
    BY <1>2, <2>1 DEF RowsWithout
  <2>5. PICK f : RowsLeft(f) /\ \A k \in DOMAIN rows' : f[k] # i
    BY <2>3, <2>4, OneRowLess
  <2>6. ASSUME NEW k \in DOMAIN rows', rows'[k].owner = p PROVE FALSE
    <3>1. f[k] \in DOMAIN rows /\ rows[f[k]].owner = p /\ f[k] # i
      BY <2>5, <2>6 DEF RowsLeft
    <3> QED
      BY <2>3, <3>1 DEF LockInv
  <2> QED
    BY <2>5, <2>6
<1> QED
  BY <1>1, <1>2

\* A process that dies, or fails to delete its row, leaves it to nobody.
LEMMA LeakKeepsLock ==
    ASSUME PubTyped, LockInv, NEW p \in Publishers,
           rows' = RowLeaked(p), leaks' = leaks + 1,
           \A q \in Publishers \ {p} : MayOwnRow(q) => MayOwnRow(q)'
    PROVE  LockInv' /\ rows' \in Seq(PubRow)
<1>1. PICK n : n = Len(rows)
  OBVIOUS
<1>2. n \in Nat /\ DOMAIN rows = 1..n /\ \A k \in 1..n : rows[k] \in PubRow
  BY <1>1 DEF PubTyped
<1>3. \A k \in 1..n :
        rows'[k] \in PubRow /\ rows'[k].owner = IF rows[k].owner = p THEN Nobody ELSE rows[k].owner
  BY <1>2 DEF PubRow, RowLeaked
<1>4. DOMAIN rows' = 1..n /\ rows' \in Seq(PubRow)
  <2>1. rows' \in [1..n -> PubRow]
    BY <1>2, <1>3 DEF RowLeaked
  <2> QED
    BY <1>2, <2>1, IsASeq
<1>5. ASSUME NEW k \in DOMAIN rows', rows'[k].owner # Nobody
      PROVE  \E q \in Publishers : q = rows'[k].owner /\ MayOwnRow(q)'
  <2>1. rows'[k].owner = rows[k].owner /\ rows[k].owner # p /\ rows[k].owner \in Publishers
    BY <1>2, <1>3, <1>4, <1>5 DEF PubRow
  <2> QED
    BY <1>2, <1>4, <1>5, <2>1 DEF LockInv
<1>6. ASSUME NEW j \in DOMAIN rows', NEW k \in DOMAIN rows', rows'[j].owner = rows'[k].owner, j # k
      PROVE  rows'[k].owner = Nobody
  BY <1>2, <1>3, <1>4, <1>6 DEF LockInv
<1>7. DeadRows' = DeadRows \cup OwnRows(p)
  BY <1>2, <1>3, <1>4 DEF DeadRows, OwnRows
<1>8. Cardinality(DeadRows') <= leaks'
  <2>0. IsFiniteSet(DeadRows) /\ Cardinality(DeadRows) \in Nat /\ leaks \in Nat
    BY DeadFinite, FS_CardinalityType DEF PubTyped
  <2>1. CASE OwnRows(p) = {}
    BY <1>7, <2>0, <2>1 DEF LockInv
  <2>2. CASE OwnRows(p) # {}
    <3>1. PICK i : i \in OwnRows(p)
      BY <2>2
    <3>2. p # Nobody
      BY PublishAssumption DEF Nobody
    <3>3. OwnRows(p) = {i}
      BY <3>1, <3>2 DEF OwnRows, LockInv
    <3>4. i \notin DeadRows
      BY <3>1, <3>2 DEF OwnRows, DeadRows
    <3>5. Cardinality(DeadRows \cup {i}) = Cardinality(DeadRows) + 1
      BY <2>0, <3>4, FS_AddElement
    <3> QED
      BY <1>7, <2>0, <3>3, <3>5 DEF LockInv
  <2> QED
    BY <2>1, <2>2
<1> QED
  BY <1>4, <1>5, <1>6, <1>8 DEF LockInv, DeadRows, MayOwnRow, At

\* A new row is of a process that had none.
LEMMA NewRowKeepsLock ==
    ASSUME PubTyped, LockInv, NEW p \in Publishers, ~MayOwnRow(p), MayOwnRow(p)',
           rows' = Append(rows, [owner |-> p, stale |-> FALSE]), leaks' = leaks,
           \A q \in Publishers \ {p} : MayOwnRow(q) => MayOwnRow(q)'
    PROVE  LockInv' /\ rows' \in Seq(PubRow)
<1>1. PICK n, new : n = Len(rows) /\ new = [owner |-> p, stale |-> FALSE]
  OBVIOUS
<1>2. n \in Nat /\ DOMAIN rows = 1..n /\ rows \in Seq(PubRow) /\ new \in PubRow /\ new.owner = p /\ p # Nobody
  BY <1>1, PublishAssumption DEF PubTyped, PubRow, Nobody
<1>3. /\ rows' \in Seq(PubRow) /\ DOMAIN rows' = 1..n + 1 /\ rows'[n + 1] = new
      /\ \A k \in 1..n : rows'[k] = rows[k]
  BY <1>1, <1>2, AppendProperties
<1>4. \A k \in 1..n : rows[k].owner # p /\ rows[k] \in PubRow
  BY <1>2 DEF LockInv
<1>5. \A k \in 1..n + 1 : k = n + 1 \/ k \in 1..n
  BY <1>2
<1>6. ASSUME NEW k \in DOMAIN rows', rows'[k].owner # Nobody
      PROVE  \E q \in Publishers : q = rows'[k].owner /\ MayOwnRow(q)'
  <2>1. CASE k = n + 1
    BY <1>2, <1>3, <2>1
  <2>2. CASE k \in 1..n
    <3>1. rows'[k] = rows[k] /\ rows[k].owner \in Publishers \ {p}
      BY <1>3, <1>4, <1>6, <2>2 DEF PubRow
    <3> QED
      BY <1>2, <1>6, <2>2, <3>1 DEF LockInv
  <2> QED
    BY <1>3, <1>5, <2>1, <2>2
<1>7. ASSUME NEW j \in DOMAIN rows', NEW k \in DOMAIN rows', rows'[j].owner = rows'[k].owner, j # k
      PROVE  rows'[k].owner = Nobody
  BY <1>2, <1>3, <1>4, <1>5, <1>7 DEF LockInv
<1>8. DeadRows' = DeadRows
  <2>1. ASSUME NEW k PROVE k \in DeadRows' <=> k \in DeadRows
    BY <1>2, <1>3, <1>5 DEF DeadRows
  <2> QED
    BY <2>1
<1> QED
  BY <1>3, <1>6, <1>7, <1>8 DEF LockInv, DeadRows, MayOwnRow, At

---------------------------------------------------------------------------
(* The repositories *)

LEMMA AloneKept ==
    ASSUME PubTyped, RepoInv, OverlapNoted, overlapped' \in BOOLEAN, NEW p \in Publishers,
           \A q \in Publishers \ {p} : pub'[q] = pub[q],
           \/ pub'[p].at \notin {"idle", "lock"}
           \/ UNCHANGED <<plug, mkt>> /\ history \subseteq history',
           ~overlapped' => MarketHeld' /\ Carries(p)'
    PROVE  ~overlapped' => AloneInv'
<1> SUFFICES ASSUME ~overlapped' PROVE AloneInv'
  OBVIOUS
<1>1. ~overlapped /\ \A q, r \in InFlight' : q = r
  BY DEF OverlapNoted
<1>2. AloneInv
  BY <1>1 DEF RepoInv
<1>3. ASSUME NEW q \in Publishers, q # p PROVE Carries(q)'
  <2>1. CASE pub'[p].at \notin {"idle", "lock"}
    <3>1. p \in InFlight'
      BY <2>1 DEF InFlight, At
    <3>2. q \notin InFlight'
      BY <1>1, <1>3, <3>1
    <3>3. At(q)' \in {"idle", "lock"}
      BY <3>2 DEF InFlight
    <3> QED
      BY <3>3 DEF Carries, CarriesAt
  <2>2. CASE UNCHANGED <<plug, mkt>> /\ history \subseteq history'
    <3>1. Carries(q) /\ pub'[q] = pub[q]
      BY <1>2, <1>3 DEF AloneInv
    <3> QED
      BY <2>2, <3>1 DEF Carries, CarriesAt, At
  <2> QED
    BY <2>1, <2>2
<1> QED
  BY <1>1, <1>3 DEF AloneInv

\* What a step must show besides the locks: types, and what the repositories hold.
ReposTyped ==
    /\ remote \in [plugin : Versions, market : Versions]
    /\ plug \in PubClone /\ mkt \in PubClone /\ peer \in PubClone
    /\ history \subseteq Versions
ReposHeld ==
    /\ plug.head \in history /\ remote.plugin \in history
    /\ peer.head <= peer.wt /\ peer.base <= peer.head

LEMMA SameLock ==
    ASSUME PubTyped, LockInv, UNCHANGED <<rows, leaks>>,
           \A q \in Publishers : MayOwnRow(q) => MayOwnRow(q)'
    PROVE  LockInv'
<1>1. PICK f : RowsLeft(f)
  BY SameRowsLeft DEF PubTyped
<1>2. \A q \in Publishers : MayOwnRow(q)' \/ \A k \in DOMAIN rows' : rows'[k].owner # q
  BY PublishAssumption DEF LockInv, Nobody
<1> QED
  BY <1>1, <1>2, RowsLeftKeep

LEMMA ProcessStep ==
    ASSUME PubInv, OverlapNoted, NEW p \in Publishers, NEW w, MovesTo(p, w),
           ReposTyped', ReposHeld', LockInv', rows' \in Seq(PubRow), leaks' \in 0..MaxLeaked,
           \/ w.at \notin {"idle", "lock"}
           \/ UNCHANGED <<plug, mkt>> /\ history \subseteq history',
           ~overlapped' => MarketHeld' /\ CarriesAt(w.at, w.target)'
    PROVE  PubInv'
<1>1. overlapped' \in BOOLEAN
  BY DEF OverlapNoted, PubInv, PubTyped
<1>2. ASSUME NEW q \in Publishers PROVE (At(q) = "idle" \/ pub[q].target \in Versions)'
  <2>1. CASE q = p
    BY <2>1 DEF MovesTo, At
  <2>2. CASE q # p
    BY <2>2 DEF MovesTo, At, PubInv, PubTyped
  <2> QED
    BY <2>1, <2>2
<1>3. PubTyped'
  BY <1>1, <1>2 DEF PubTyped, MovesTo, ReposTyped
<1>4. CarriesAt(w.at, w.target)' => Carries(p)'
  BY DEF Carries, MovesTo, At
<1>5. ~overlapped' => AloneInv'
  BY <1>1, <1>4, AloneKept DEF MovesTo, PubInv
<1> QED
  BY <1>3, <1>5 DEF PubInv, RepoInv, ReposHeld

\* A process goes on to its next step, with the lock as it is.
LEMMA GitStep ==
    ASSUME PubInv, OverlapNoted, NEW p \in Publishers, NEW label \in PubLabels, NEW v, v = pub[p].target,
           At(p) # "idle", PubGoto(p, label), UNCHANGED <<rows, leaks>>,
           label \notin {"idle", "lock", "create", "rpush"}, MayOwnRow(p) => label # "rpeer",
           ReposTyped', ReposHeld',
           ~overlapped' => MarketHeld' /\ CarriesAt(label, v)'
    PROVE  PubInv'
<1>1. PICK w : MovesTo(p, w) /\ w.at = label /\ w.target = v
  BY GotoMoves DEF PubInv
<1>2. \A q \in Publishers : MayOwnRow(q) => MayOwnRow(q)'
  BY <1>1 DEF MayOwnRow, At, MovesTo
<1>3. LockInv'
  BY <1>2, SameLock DEF PubInv
<1>4. rows' \in Seq(PubRow) /\ leaks' \in 0..MaxLeaked
  BY DEF PubInv, PubTyped
<1> QED
  BY <1>1, <1>3, <1>4, ProcessStep

\* Only a rollback lowers what the marketplace offers.
OnlyUndone == remote'.market < remote.market => mkt.undo \/ overlapped

LEMMA HeldAlone ==
    ASSUME PubInv
    PROVE  /\ ReposTyped /\ ReposHeld /\ overlapped \in BOOLEAN
           /\ ~overlapped => MarketHeld /\ \A p \in Publishers : CarriesAt(At(p), pub[p].target)
           /\ \A p \in Publishers : At(p) # "idle" => pub[p].target \in Versions
           /\ remote.market \in Int
BY PublishAssumption DEF PubInv, PubTyped, RepoInv, AloneInv, Carries, ReposTyped, ReposHeld, Versions

LEMMA QuietKeeps ==
    ASSUME PubInv, OverlapNoted, NEW p \in Publishers, VerifyCommitted(p) \/ Validate(p) \/ CreateRow(p, FALSE)
    PROVE  PubInv' /\ OnlyUndone
<1>1. PICK v : v = pub[p].target
  OBVIOUS
<1>2. UNCHANGED <<remote, plug, mkt, peer, history, rows, leaks>> /\ ~(remote.market < remote.market)
  BY HeldAlone DEF VerifyCommitted, Validate, CreateRow
<1>3. PICK label : /\ At(p) # "idle" /\ PubGoto(p, label) /\ label \in {"verify", "validate", "bump", "mpull"}
                   /\ label = "mpull" => plug.head = v
  <2>1. CASE VerifyCommitted(p)
    BY <1>1, <2>1 DEF VerifyCommitted
  <2>2. CASE Validate(p)
    BY <2>2 DEF Validate
  <2>3. CASE CreateRow(p, FALSE)
    <3>1. CASE pub[p].sync
      BY <2>3, <3>1 DEF CreateRow
    <3>2. CASE ~pub[p].sync
      BY <2>3, <3>2 DEF CreateRow
    <3> QED
      BY <3>1, <3>2
  <2> QED
    BY <2>1, <2>2, <2>3
<1>4. ReposTyped' /\ ReposHeld'
  BY <1>2, HeldAlone DEF ReposTyped, ReposHeld
<1>5. ~overlapped' => MarketHeld' /\ CarriesAt(label, v)'
  BY <1>2, <1>3, HeldAlone DEF OverlapNoted, MarketHeld, CarriesAt, ReposHeld
<1>6. label \in PubLabels \ {"idle", "lock", "create", "rpush", "rpeer"}
  BY <1>3 DEF PubLabels
<1>7. PubInv'
  BY <1>1, <1>2, <1>3, <1>4, <1>5, <1>6, GitStep
<1> QED
  BY <1>2, <1>7 DEF OnlyUndone

LEMMA PluginKeeps ==
    ASSUME PubInv, OverlapNoted, NEW p \in Publishers,
           Bump(p) \/ CommitPlugin(p) \/ PullPlugin(p) \/ PushPlugin(p)
    PROVE  PubInv' /\ OnlyUndone
<1>1. PICK v : v = pub[p].target
  OBVIOUS
<1>2. /\ UNCHANGED <<mkt, peer, rows, leaks>>
      /\ remote'.market = remote.market /\ ~(remote.market < remote.market)
  BY HeldAlone DEF Bump, CommitPlugin, PullPlugin, PushPlugin, ReposTyped
<1>3. PICK label : /\ At(p) # "idle" /\ PubGoto(p, label) /\ label \in {"commit", "pull", "push", "mpull"}
  BY DEF Bump, CommitPlugin, PullPlugin, PushPlugin
<1>4. v \in Versions
  BY <1>1, <1>3, HeldAlone
<1>5. ReposTyped'
  <2>1. CASE Bump(p)
    BY <1>1, <1>2, <1>4, <2>1, HeldAlone DEF Bump, ReposTyped, PubClone
  <2>2. CASE CommitPlugin(p)
    BY <1>2, <2>2, HeldAlone DEF CommitPlugin, ReposTyped, PubClone
  <2>3. CASE PullPlugin(p)
    BY <1>2, <2>3, HeldAlone DEF PullPlugin, ReposTyped, PubClone, Pulled, Clone
  <2>4. CASE PushPlugin(p)
    BY <1>2, <2>4, HeldAlone DEF PushPlugin, ReposTyped, PubClone, PushedClone
  <2> QED
    BY <2>1, <2>2, <2>3, <2>4
<1>6. history \subseteq history' /\ ReposHeld'
  <2>1. CASE Bump(p)
    BY <1>2, <2>1, HeldAlone DEF Bump, ReposHeld, ReposTyped, PubClone
  <2>2. CASE CommitPlugin(p)
    BY <1>2, <2>2, HeldAlone DEF CommitPlugin, ReposHeld, ReposTyped, PubClone
  <2>3. CASE PullPlugin(p)
    BY <1>2, <2>3, HeldAlone DEF PullPlugin, ReposHeld, ReposTyped, PubClone, Pulled, Clone
  <2>4. CASE PushPlugin(p)
    BY <1>2, <2>4, HeldAlone DEF PushPlugin, ReposHeld, ReposTyped, PubClone, PushedClone
  <2> QED
    BY <2>1, <2>2, <2>3, <2>4
<1>7. ASSUME ~overlapped PROVE CarriesAt(label, v)'
  <2>1. CASE Bump(p)
    <3>1. label = "commit" /\ plug'.wt = v
      BY <1>1, <1>3, <2>1, HeldAlone, GotoMoves DEF Bump, ReposTyped, PubClone, MovesTo, PubInv, PubLabels
    <3> QED
      BY <3>1 DEF CarriesAt
  <2>2. CASE CommitPlugin(p)
    <3>1. label = "pull" /\ plug.wt = v
      BY <1>1, <1>3, <1>7, <2>2, HeldAlone, GotoMoves
      DEF CommitPlugin, CarriesAt, MovesTo, PubInv, PubLabels
    <3>2. v \in history'
      BY <2>2, <3>1 DEF CommitPlugin
    <3> QED
      BY <3>1, <3>2 DEF CarriesAt
  <2>3. CASE PullPlugin(p) \/ PushPlugin(p)
    <3>1. label \in {"push", "mpull"}
      BY <1>1, <1>3, <2>3, GotoMoves DEF PullPlugin, PushPlugin, MovesTo, PubInv, PubLabels
    <3>2. v \in history
      BY <1>1, <1>7, <2>3, HeldAlone DEF PullPlugin, PushPlugin, CarriesAt
    <3> QED
      BY <1>6, <3>1, <3>2 DEF CarriesAt
  <2> QED
    BY <2>1, <2>2, <2>3
<1>8. ~overlapped' => MarketHeld' /\ CarriesAt(label, v)'
  BY <1>2, <1>6, <1>7, HeldAlone DEF OverlapNoted, MarketHeld
<1>9. label \in PubLabels \ {"idle", "lock", "create", "rpush", "rpeer"}
  BY <1>3 DEF PubLabels
<1>10. PubInv'
  BY <1>1, <1>2, <1>3, <1>5, <1>6, <1>8, <1>9, GitStep
<1> QED
  BY <1>2, <1>10 DEF OnlyUndone

LEMMA PullMarketKeeps ==
    ASSUME PubInv, OverlapNoted, NEW p \in Publishers, PullMarket(p)
    PROVE  PubInv' /\ OnlyUndone
<1>1. PICK v : v = pub[p].target
  OBVIOUS
<1>2. UNCHANGED <<remote, plug, peer, history, rows, leaks>> /\ ~(remote.market < remote.market)
  BY HeldAlone DEF PullMarket
<1>3. PICK label : label = IF mkt'.wt < v THEN "mwrite" ELSE IF Ahead(mkt') THEN "mpush" ELSE "peers"
  OBVIOUS
<1>4. At(p) = "mpull" /\ PubGoto(p, label) /\ mkt.wt = mkt.head
  BY <1>1, <1>3 DEF PullMarket, CanPull, CleanTree
<1>5. mkt' = mkt \/ mkt' = Clone(remote.market)
  BY DEF PullMarket, Pulled
<1>6. ReposTyped' /\ ReposHeld'
  <2>1. remote.market \in Versions
    BY HeldAlone DEF ReposTyped
  <2>2. Clone(remote.market) \in PubClone
    BY <2>1 DEF Clone, PubClone
  <2>3. mkt' \in PubClone
    BY <1>5, <2>2, HeldAlone DEF ReposTyped
  <2> QED
    BY <1>2, <2>3, HeldAlone DEF ReposTyped, ReposHeld
<1>7. mkt'.wt = mkt'.head
  BY <1>4, <1>5 DEF Clone
<1>8. ASSUME ~overlapped PROVE MarketHeld' /\ CarriesAt(label, v)'
  <2>1. v \in history /\ MarketHeld
    BY <1>1, <1>4, <1>8, HeldAlone DEF CarriesAt
  <2>2. MarketHeld'
    BY <1>2, <1>5, <2>1, HeldAlone DEF MarketHeld, Clone, ReposTyped
  <2>3. CarriesAt(label, v)'
    BY <1>2, <1>3, <1>7, <2>1 DEF CarriesAt
  <2> QED
    BY <2>2, <2>3
<1>9. label \in PubLabels \ {"idle", "lock", "create", "rpush", "rpeer"}
  BY <1>3 DEF PubLabels
<1>10. PubInv'
  BY <1>1, <1>2, <1>4, <1>6, <1>8, <1>9, GitStep DEF OverlapNoted
<1> QED
  BY <1>2, <1>10 DEF OnlyUndone

LEMMA WriteMarketKeeps ==
    ASSUME PubInv, OverlapNoted, NEW p \in Publishers, WriteMarket(p) \/ CommitMarket(p)
    PROVE  PubInv' /\ OnlyUndone
<1>1. PICK v : v = pub[p].target
  OBVIOUS
<1>2. UNCHANGED <<remote, plug, peer, history, rows, leaks>> /\ ~(remote.market < remote.market)
  BY HeldAlone DEF WriteMarket, CommitMarket
<1>3. PICK label : At(p) \in {"mwrite", "mcommit"} /\ PubGoto(p, label) /\ label \in {"mcommit", "mpush"}
  BY DEF WriteMarket, CommitMarket
<1>4. v \in Versions
  BY <1>1, <1>3, HeldAlone
<1>5. /\ mkt' \in PubClone /\ mkt'.base = mkt.base /\ mkt'.undo = mkt.undo
      /\ WriteMarket(p) => mkt'.wt = v /\ mkt'.head = mkt.head
      /\ CommitMarket(p) => mkt'.wt = mkt.wt /\ mkt'.head = mkt.wt
  <2>1. CASE WriteMarket(p)
    <3>1. mkt' = [mkt EXCEPT !.wt = v] /\ ~CommitMarket(p)
      BY <1>1, <2>1 DEF WriteMarket, CommitMarket
    <3> QED
      BY <1>4, <3>1, HeldAlone DEF ReposTyped, PubClone
  <2>2. CASE CommitMarket(p)
    <3>1. mkt' = [mkt EXCEPT !.head = mkt.wt] /\ ~WriteMarket(p)
      BY <2>2 DEF WriteMarket, CommitMarket
    <3> QED
      BY <3>1, HeldAlone DEF ReposTyped, PubClone
  <2> QED
    BY <2>1, <2>2
<1>6. ReposTyped' /\ ReposHeld'
  BY <1>2, <1>5, HeldAlone DEF ReposTyped, ReposHeld
<1>7. ASSUME ~overlapped PROVE MarketHeld' /\ CarriesAt(label, v)'
  <2>1. v \in history /\ MarketHeld /\ (At(p) = "mwrite" => mkt.head = mkt.wt /\ mkt.wt < v)
    BY <1>1, <1>3, <1>7, HeldAlone DEF CarriesAt
  <2>2. mkt.wt \in Int /\ mkt.head \in Int /\ mkt.base \in Int /\ v \in Int
    BY <1>4, HeldAlone, PublishAssumption DEF ReposTyped, PubClone, Versions
  <2>3. MarketHeld'
    <3>1. CASE WriteMarket(p)
      BY <1>2, <1>5, <2>1, <2>2, <3>1 DEF MarketHeld, WriteMarket
    <3>2. CASE CommitMarket(p)
      BY <1>2, <1>5, <2>1, <2>2, <3>2 DEF MarketHeld
    <3> QED
      BY <3>1, <3>2
  <2>4. CarriesAt(label, v)'
    BY <1>2, <1>3, <2>1 DEF CarriesAt
  <2> QED
    BY <2>3, <2>4
<1>8. label \in PubLabels \ {"idle", "lock", "create", "rpush", "rpeer"}
  BY <1>3 DEF PubLabels
<1>9. PubInv'
  BY <1>1, <1>2, <1>3, <1>6, <1>7, <1>8, GitStep DEF OverlapNoted
<1> QED
  BY <1>2, <1>9 DEF OnlyUndone

\* The clone's head goes out, or nothing does.
LEMMA PushMarketKeeps ==
    ASSUME PubInv, OverlapNoted, NEW p \in Publishers,
           PushMarket(p) \/ \E ok \in BOOLEAN : RollbackPush(p, ok)
    PROVE  PubInv' /\ OnlyUndone
<1>1. PICK v : v = pub[p].target
  OBVIOUS
<1>2. UNCHANGED <<plug, peer, history, rows, leaks>>
  BY DEF PushMarket, RollbackPush
<1>3. PICK label : /\ PubGoto(p, label) /\ At(p) \in {"mpush", "rpush"}
                   /\ label = IF At(p) = "mpush" THEN "peers" ELSE "rpeer"
  BY DEF PushMarket, RollbackPush
<1>4. \/ UNCHANGED <<remote, mkt>>
      \/ /\ mkt.base = remote.market /\ remote' = [remote EXCEPT !.market = mkt.head]
         /\ mkt' = [mkt EXCEPT !.base = mkt.head, !.undo = FALSE]
  <2>1. CASE PushMarket(p)
    BY <2>1 DEF PushMarket, CanPush, PushedClone
  <2>2. ASSUME NEW ok \in BOOLEAN, RollbackPush(p, ok)
        PROVE  \/ UNCHANGED <<remote, mkt>>
               \/ /\ mkt.base = remote.market /\ remote' = [remote EXCEPT !.market = mkt.head]
                  /\ mkt' = [mkt EXCEPT !.base = mkt.head, !.undo = FALSE]
    BY <2>2 DEF RollbackPush, CanPush, PushedClone
  <2> QED
    BY <2>1, <2>2
<1>5. \/ remote'.market = remote.market /\ mkt' = mkt
      \/ /\ mkt.base = remote.market /\ remote'.market = mkt.head
         /\ mkt'.wt = mkt.wt /\ mkt'.head = mkt.head /\ mkt'.base = mkt.head
  BY <1>4, HeldAlone DEF ReposTyped, PubClone
<1>6. ReposTyped' /\ remote'.plugin = remote.plugin
  <2>1. CASE UNCHANGED <<remote, mkt>>
    BY <1>2, <2>1, HeldAlone DEF ReposTyped
  <2>2. CASE /\ remote' = [remote EXCEPT !.market = mkt.head]
             /\ mkt' = [mkt EXCEPT !.base = mkt.head, !.undo = FALSE]
    BY <1>2, <2>2, HeldAlone DEF ReposTyped, PubClone
  <2> QED
    BY <1>4, <2>1, <2>2
<1>7. ReposHeld'
  BY <1>2, <1>6, HeldAlone DEF ReposHeld
<1>8. mkt.wt \in Int /\ mkt.head \in Int /\ mkt.base \in Int /\ remote.market \in Int
  BY HeldAlone, PublishAssumption DEF ReposTyped, PubClone, Versions
<1>9. ASSUME ~overlapped PROVE MarketHeld' /\ CarriesAt(label, v)'
  <2>1. v \in history /\ MarketHeld
    BY <1>1, <1>3, <1>9, HeldAlone DEF CarriesAt
  <2>2. MarketHeld'
    BY <1>2, <1>5, <1>8, <2>1 DEF MarketHeld
  <2>3. CarriesAt(label, v)'
    BY <1>2, <1>3, <2>1 DEF CarriesAt
  <2> QED
    BY <2>2, <2>3
<1>10. label \in PubLabels \ {"idle", "lock", "create", "rpush"} /\ (MayOwnRow(p) => label # "rpeer")
  BY <1>3 DEF PubLabels, MayOwnRow
<1>11. PubInv'
  BY <1>1, <1>2, <1>3, <1>6, <1>7, <1>9, <1>10, GitStep DEF OverlapNoted
<1>12. OnlyUndone
  BY <1>5, <1>8, HeldAlone DEF OnlyUndone, MarketHeld
<1> QED
  BY <1>11, <1>12

\* What the peer clone becomes, and what it pushes, for a version to bring along.
LEMMA PeerSynced ==
    ASSUME PubInv, NEW v \in Versions, NEW upto, SyncPeer(v, upto), UNCHANGED history
    PROVE  /\ remote' \in [plugin : Versions, market : Versions] /\ peer' \in PubClone
           /\ remote'.plugin = remote.plugin /\ remote'.market >= remote.market
           /\ peer'.head <= peer'.wt /\ peer'.base <= peer'.head
           /\ ~overlapped /\ v \in history => remote'.market \in history /\ peer'.head \in history
<1>1. PICK c : c = PeerWritten(v, upto)
  OBVIOUS
<1>2. \A u \in Versions : u \in Int
  BY PublishAssumption DEF Versions
<1>3. PICK c0 : c0 = PeerPulled
  OBVIOUS
<1>4. c0 \in PubClone /\ c0.head <= c0.wt /\ c0.base <= c0.head /\ (c0 = peer \/ c0.head = remote.market)
  BY <1>2, <1>3, HeldAlone DEF PeerPulled, Clone, ReposTyped, ReposHeld, PubClone
<1>5. \/ c = c0
      \/ c0.wt < v /\ c = [c0 EXCEPT !.wt = v]
      \/ c0.wt < v /\ c = [c0 EXCEPT !.wt = v, !.head = v]
  <2>1. c0.wt \in Int /\ v \in Int
    BY <1>2, <1>4 DEF PubClone
  <2> QED
    BY <1>1, <1>3, <2>1 DEF PeerWritten
<1>6. /\ c \in PubClone /\ c.head <= c.wt /\ c.base <= c.head
      /\ c.head = peer.head \/ c.head = remote.market \/ c.head = v
  <2>1. c0.base \in Int /\ c0.head \in Int /\ c0.wt \in Int
    BY <1>2, <1>4 DEF PubClone
  <2>2. CASE c0.wt < v /\ c = [c0 EXCEPT !.wt = v, !.head = v]
    <3>1. c \in PubClone /\ c.wt = v /\ c.head = v /\ c.base = c0.base
      BY <1>4, <2>2 DEF PubClone
    <3> QED
      BY <1>2, <1>4, <2>1, <2>2, <3>1
  <2>3. CASE c0.wt < v /\ c = [c0 EXCEPT !.wt = v]
    <3>1. c \in PubClone /\ c.wt = v /\ c.head = c0.head /\ c.base = c0.base
      BY <1>4, <2>3 DEF PubClone
    <3> QED
      BY <1>2, <1>4, <2>1, <2>3, <3>1
  <2>4. CASE c = c0
    BY <1>4, <2>4
  <2> QED
    BY <1>5, <2>2, <2>3, <2>4
<1>7. CASE c.base = remote.market /\ remote' = [remote EXCEPT !.market = c.head] /\ peer' = PushedClone(c)
  <2>1. /\ peer' \in PubClone /\ peer'.wt = c.wt /\ peer'.head = c.head /\ peer'.base = c.head
    BY <1>6, <1>7 DEF PushedClone, PubClone
  <2>2. /\ remote' \in [plugin : Versions, market : Versions]
        /\ remote'.plugin = remote.plugin /\ remote'.market = c.head
    BY <1>6, <1>7, HeldAlone DEF ReposTyped, PubClone
  <2>3. c.head \in Int /\ c.base \in Int
    BY <1>2, <1>6 DEF PubClone
  <2> QED
    BY <1>6, <1>7, <2>1, <2>2, <2>3, HeldAlone DEF MarketHeld
<1>8. CASE UNCHANGED remote /\ peer' = c
  BY <1>2, <1>6, <1>8, HeldAlone DEF ReposTyped, MarketHeld
<1> QED
  BY <1>1, <1>7, <1>8 DEF SyncPeer, CanPush

LEMMA PeersKeep ==
    ASSUME PubInv, OverlapNoted, NEW p \in Publishers, NEW upto, Peers(p, upto) \/ RollbackEnds(p, upto)
    PROVE  PubInv' /\ OnlyUndone
<1>1. PICK v : v = pub[p].target
  OBVIOUS
<1>2. UNCHANGED <<plug, mkt, history, rows, leaks>> /\ SyncPeer(v, upto)
  BY <1>1 DEF Peers, RollbackEnds
<1>3. At(p) \in {"peers", "rpeer"} /\ v \in Versions
  BY <1>1, HeldAlone DEF Peers, RollbackEnds
<1>4. /\ remote' \in [plugin : Versions, market : Versions] /\ peer' \in PubClone
      /\ remote'.plugin = remote.plugin /\ remote'.market >= remote.market
      /\ peer'.head <= peer'.wt /\ peer'.base <= peer'.head
      /\ ~overlapped /\ v \in history => remote'.market \in history /\ peer'.head \in history
  BY <1>2, <1>3, PeerSynced
<1>5. ReposTyped' /\ ReposHeld'
  BY <1>2, <1>4, HeldAlone DEF ReposTyped, ReposHeld
<1>6. remote'.market \in Int
  BY <1>4, PublishAssumption DEF Versions
<1>7. OnlyUndone
  BY <1>4, <1>6, HeldAlone DEF OnlyUndone
<1>8. CASE Peers(p, upto)
  <2>1. ASSUME ~overlapped PROVE MarketHeld' /\ CarriesAt("done", v)'
    <3>1. v \in history /\ MarketHeld
      BY <1>1, <1>8, <2>1, HeldAlone DEF CarriesAt, Peers
    <3> QED
      BY <1>2, <1>4, <2>1, <3>1 DEF MarketHeld, CarriesAt
  <2>2. PubGoto(p, "done") /\ "done" \in PubLabels
    BY <1>8 DEF Peers, PubLabels
  <2>3. PubInv'
    BY <1>1, <1>2, <1>3, <1>5, <2>1, <2>2, GitStep DEF OverlapNoted
  <2> QED
    BY <1>7, <2>3
<1>9. CASE RollbackEnds(p, upto)
  <2>1. PICK w : MovesTo(p, w) /\ w.at = "idle"
    BY <1>9, RestMoves DEF RollbackEnds, PubInv
  <2>2. At(p) = "rpeer"
    BY <1>9 DEF RollbackEnds
  <2>3. \A q \in Publishers : MayOwnRow(q) => MayOwnRow(q)'
    BY <2>1, <2>2 DEF MayOwnRow, At, MovesTo
  <2>4. LockInv'
    BY <1>2, <2>3, SameLock DEF PubInv
  <2>5. ASSUME ~overlapped PROVE MarketHeld' /\ CarriesAt(w.at, w.target)'
    <3>1. v \in history /\ MarketHeld
      BY <1>1, <2>2, <2>5, HeldAlone DEF CarriesAt
    <3> QED
      BY <1>2, <1>4, <2>1, <2>5, <3>1 DEF MarketHeld, CarriesAt
  <2>6. rows' \in Seq(PubRow) /\ leaks' \in 0..MaxLeaked /\ history \subseteq history'
    BY <1>2 DEF PubInv, PubTyped
  <2>7. PubInv'
    BY <1>2, <1>5, <2>1, <2>4, <2>5, <2>6, ProcessStep DEF OverlapNoted
  <2> QED
    BY <1>7, <2>7
<1> QED
  BY <1>8, <1>9

\* Commands that begin, end or die, and leave the repositories.
LEMMA ReturnKeeps ==
    ASSUME PubInv, OverlapNoted, NEW p \in Publishers,
           StepFails(p) \/ Done(p) \/ ActivePublish(p) \/ Dies(p)
    PROVE  PubInv' /\ OnlyUndone
<1>1. UNCHANGED <<remote, plug, mkt, peer, history>> /\ ~(remote.market < remote.market)
  BY HeldAlone DEF StepFails, Done, ActivePublish, Dies
<1>2. PICK w : MovesTo(p, w) /\ w.at = "idle"
  BY RestMoves DEF StepFails, Done, ActivePublish, Dies, Return, PubInv
<1>3. ReposTyped' /\ ReposHeld'
  BY <1>1, HeldAlone DEF ReposTyped, ReposHeld
<1>4. ~overlapped' => MarketHeld' /\ CarriesAt(w.at, w.target)'
  BY <1>1, <1>2, HeldAlone DEF OverlapNoted, MarketHeld, CarriesAt
<1>5. \A q \in Publishers \ {p} : MayOwnRow(q)' <=> MayOwnRow(q)
  BY <1>2 DEF MayOwnRow, At, MovesTo
<1>6. LockInv' /\ rows' \in Seq(PubRow) /\ leaks' \in 0..MaxLeaked
  <2>1. CASE rows' = RowsWithout(p) /\ leaks' = leaks
    <3>1. rows' = RowsWithout(p) /\ leaks' = leaks
      BY <2>1
    <3>2. (\E f : RowsLeft(f)) /\ \A k \in DOMAIN rows' : rows'[k].owner # p
      BY <3>1, ReturnRowsLeft DEF PubInv
    <3>3. PICK f : RowsLeft(f)
      BY <3>2
    <3>4. ASSUME NEW q \in Publishers, NEW k \in DOMAIN rows', rows'[k].owner = q PROVE MayOwnRow(q)'
      <4>1. q # p /\ f[k] \in DOMAIN rows /\ rows[f[k]].owner = q /\ q # Nobody
        BY <3>2, <3>3, <3>4, PublishAssumption DEF RowsLeft, Nobody
      <4> QED
        BY <1>5, <4>1 DEF PubInv, LockInv
    <3>5. LockInv'
      BY <3>1, <3>3, <3>4, RowsLeftKeep DEF PubInv
    <3> QED
      BY <3>1, <3>3, <3>5 DEF RowsLeft, PubInv, PubTyped
  <2>2. CASE ActivePublish(p)
    <3>1. UNCHANGED <<rows, leaks>> /\ ~MayOwnRow(p)
      BY <2>2 DEF ActivePublish, MayOwnRow
    <3>2. LockInv'
      BY <1>5, <3>1, SameLock DEF PubInv
    <3> QED
      BY <3>1, <3>2 DEF PubInv, PubTyped
  <2>3. CASE rows' = RowLeaked(p) /\ leaks < MaxLeaked /\ leaks' = leaks + 1
    <3>1. LockInv' /\ rows' \in Seq(PubRow)
      BY <1>5, <2>3, LeakKeepsLock DEF PubInv
    <3>2. leaks' \in 0..MaxLeaked
      BY <2>3, PublishAssumption DEF PubInv, PubTyped
    <3> QED
      BY <3>1, <3>2
  <2> QED
    BY <2>1, <2>2, <2>3 DEF StepFails, Done, Return, Dies
<1>7. PubInv'
  BY <1>1, <1>2, <1>3, <1>4, <1>6, ProcessStep
<1> QED
  BY <1>1, <1>7 DEF OnlyUndone

LEMMA BeginKeeps ==
    ASSUME PubInv, OverlapNoted, NEW p \in Publishers,
           \/ \E auto \in BOOLEAN, v \in Versions : Discover(p, auto, v)
           \/ TakeLock(p) \/ CreateRow(p, TRUE) \/ Unlock(p)
    PROVE  PubInv' /\ OnlyUndone
<1>1. UNCHANGED <<remote, plug, mkt, peer, history, leaks>> /\ ~(remote.market < remote.market)
  BY HeldAlone DEF Discover, TakeLock, CreateRow, Unlock
<1>2. ReposTyped' /\ ReposHeld'
  BY <1>1, HeldAlone DEF ReposTyped, ReposHeld
<1>3. PICK w : /\ MovesTo(p, w) /\ w.at \in {"idle", "lock", "create", "verify", "validate"}
               /\ MayOwnRow(p) => Unlock(p)
               /\ w.at \in {"verify", "validate"} => CreateRow(p, TRUE)
               /\ CreateRow(p, TRUE) => w.at \in {"verify", "validate"}
  <2>1. ASSUME NEW auto \in BOOLEAN, NEW v \in Versions, Discover(p, auto, v)
        PROVE  \E w : MovesTo(p, w) /\ w.at = "lock" /\ ~MayOwnRow(p) /\ ~CreateRow(p, TRUE)
    <3>1. PICK sync \in BOOLEAN, target \in Versions :
              pub' = [pub EXCEPT ![p] = [at |-> "lock", auto |-> auto, sync |-> sync, target |-> target]]
      BY <2>1 DEF Discover
    <3>2. PICK w : w = [at |-> "lock", auto |-> auto, sync |-> sync, target |-> target]
      OBVIOUS
    <3>3. w \in PubWork /\ w.at = "lock" /\ w.target \in Versions
      BY <3>2 DEF PubWork, PubLabels
    <3>4. MovesTo(p, w)
      BY <3>1, <3>2, <3>3 DEF MovesTo, PubInv, PubTyped
    <3> QED
      BY <2>1, <3>3, <3>4 DEF Discover, MayOwnRow, CreateRow
  <2>2. ASSUME TakeLock(p)
        PROVE  \E w : MovesTo(p, w) /\ w.at = "create" /\ ~MayOwnRow(p) /\ ~CreateRow(p, TRUE)
    BY <2>2, GotoMoves DEF TakeLock, MayOwnRow, CreateRow, PubInv, PubLabels
  <2>3. ASSUME CreateRow(p, TRUE)
        PROVE  \E w : MovesTo(p, w) /\ w.at \in {"verify", "validate"} /\ ~MayOwnRow(p)
    <3>1. At(p) = "create" /\ (PubGoto(p, "verify") \/ PubGoto(p, "validate"))
      BY <2>3 DEF CreateRow
    <3> QED
      BY <3>1, GotoMoves DEF MayOwnRow, PubInv, PubLabels
  <2>4. ASSUME Unlock(p)
        PROVE  \E w : MovesTo(p, w) /\ w.at = "idle" /\ ~CreateRow(p, TRUE)
    <3>1. MovesTo(p, pub[p]) /\ pub[p].at = "idle" /\ ~CreateRow(p, TRUE)
      BY <2>4 DEF Unlock, MovesTo, At, PubInv, PubTyped, CreateRow
    <3> QED
      BY <3>1
  <2> QED
    BY <2>1, <2>2, <2>3, <2>4
<1>4. ~overlapped' => MarketHeld' /\ CarriesAt(w.at, w.target)'
  BY <1>1, <1>3, HeldAlone DEF OverlapNoted, MarketHeld, CarriesAt
<1>5. \A q \in Publishers \ {p} : MayOwnRow(q)' <=> MayOwnRow(q)
  BY <1>3 DEF MayOwnRow, At, MovesTo
<1>6. LockInv' /\ rows' \in Seq(PubRow) /\ leaks' \in 0..MaxLeaked
  <2>1. CASE CreateRow(p, TRUE)
    <3>1. ~MayOwnRow(p) /\ MayOwnRow(p)' /\ rows' = Append(rows, [owner |-> p, stale |-> FALSE])
      BY <1>3, <2>1 DEF CreateRow, MayOwnRow, At, MovesTo
    <3> QED
      BY <1>1, <1>5, <3>1, NewRowKeepsLock DEF PubInv, PubTyped
  <2>2. CASE ~CreateRow(p, TRUE)
    <3>1. rows' = rows \/ (rows # <<>> /\ rows' = Front(rows)) \/ rows' = <<>>
      BY <2>2 DEF Discover, TakeLock, Unlock
    <3>2. PICK f : RowsLeft(f)
      BY <3>1, SameRowsLeft, FrontRowsLeft, NoRowsLeft DEF PubInv, PubTyped
    <3>3. MayOwnRow(p) => rows' = <<>>
      BY <1>3 DEF Unlock
    <3>4. ASSUME NEW q \in Publishers, NEW k \in DOMAIN rows', rows'[k].owner = q PROVE MayOwnRow(q)'
      <4>1. f[k] \in DOMAIN rows /\ rows[f[k]].owner = q /\ q # Nobody
        BY <3>2, <3>4, PublishAssumption DEF RowsLeft, Nobody
      <4>2. MayOwnRow(q) /\ rows' # <<>>
        BY <3>4, <4>1 DEF PubInv, LockInv
      <4> QED
        BY <1>5, <3>3, <4>2
    <3>5. LockInv'
      BY <1>1, <3>2, <3>4, RowsLeftKeep DEF PubInv
    <3> QED
      BY <1>1, <3>2, <3>5 DEF RowsLeft, PubInv, PubTyped
  <2> QED
    BY <2>1, <2>2
<1>7. UNCHANGED <<plug, mkt>> /\ history \subseteq history'
  BY <1>1
<1>8. PubInv'
  BY <1>2, <1>3, <1>4, <1>6, <1>7, ProcessStep
<1> QED
  BY <1>1, <1>8 DEF OnlyUndone

LEMMA RollbackKeeps ==
    ASSUME PubInv, OverlapNoted, NEW p \in Publishers, NEW v \in Versions, RollbackPublish(p, v)
    PROVE  PubInv' /\ OnlyUndone
<1>1. UNCHANGED <<remote, plug, peer, history, rows, leaks>> /\ ~(remote.market < remote.market)
  BY HeldAlone DEF RollbackPublish
<1>2. mkt' = [mkt EXCEPT !.wt = v, !.head = v, !.undo = TRUE] /\ v \in history
  BY DEF RollbackPublish
<1>3. mkt' \in PubClone /\ mkt'.wt = v /\ mkt'.head = v /\ mkt'.undo
  BY <1>2, HeldAlone DEF ReposTyped, PubClone
<1>4. ReposTyped' /\ ReposHeld'
  BY <1>1, <1>3, HeldAlone DEF ReposTyped, ReposHeld
<1>5. PICK w0, w : w0 = [pub[p] EXCEPT !.at = "rpush"] /\ w = [w0 EXCEPT !.target = v]
  OBVIOUS
<1>6. w0 \in PubWork /\ w0.at = "rpush"
  BY <1>5 DEF PubInv, PubTyped, PubWork, PubLabels
<1>7. w \in PubWork /\ w.at = "rpush" /\ w.target = v
  BY <1>5, <1>6 DEF PubWork
<1>8. pub' = [pub EXCEPT ![p] = w]
  BY <1>5 DEF RollbackPublish
<1>9. MovesTo(p, w)
  BY <1>7, <1>8 DEF MovesTo, PubInv, PubTyped
<1>10. ~overlapped' => MarketHeld' /\ CarriesAt(w.at, w.target)'
  <2>1. v \in Int
    BY PublishAssumption DEF Versions
  <2> QED
    BY <1>1, <1>2, <1>3, <1>7, <2>1, HeldAlone DEF OverlapNoted, MarketHeld, CarriesAt
<1>11. \A q \in Publishers : MayOwnRow(q) => MayOwnRow(q)'
  BY <1>9 DEF MayOwnRow, At, MovesTo, RollbackPublish
<1>12. LockInv' /\ rows' \in Seq(PubRow) /\ leaks' \in 0..MaxLeaked
  BY <1>1, <1>11, SameLock DEF PubInv, PubTyped
<1>13. PubInv'
  BY <1>4, <1>7, <1>9, <1>10, <1>12, ProcessStep
<1> QED
  BY <1>1, <1>13 DEF OnlyUndone

\* Time, other machines and people move no process.
LEMMA AroundKeeps ==
    ASSUME PubInv, OverlapNoted, (\E k \in DOMAIN rows : Ages(k)) \/ OtherMachine \/ Reset
    PROVE  PubInv' /\ OnlyUndone
<1>1. UNCHANGED <<peer, pub, leaks>> /\ history \subseteq history'
  BY DEF Ages, OtherMachine, Reset
<1>2. /\ DOMAIN rows' = DOMAIN rows /\ rows' \in Seq(PubRow)
      /\ \A k \in DOMAIN rows : rows'[k].owner = rows[k].owner
  <2>1. ASSUME NEW k \in DOMAIN rows, Ages(k)
        PROVE  DOMAIN rows' = DOMAIN rows /\ rows' \in Seq(PubRow)
               /\ \A j \in DOMAIN rows : rows'[j].owner = rows[j].owner
    <3>1. PICK row : row = [rows[k] EXCEPT !.stale = TRUE]
      OBVIOUS
    <3>2. rows[k] \in PubRow /\ rows \in Seq(PubRow)
      BY <2>1 DEF PubInv, PubTyped
    <3>3. row \in PubRow /\ row.owner = rows[k].owner
      BY <3>1, <3>2 DEF PubRow
    <3>4. rows' = [rows EXCEPT ![k] = row]
      BY <2>1, <3>1 DEF Ages
    <3> QED
      BY <3>2, <3>3, <3>4
  <2>2. CASE OtherMachine \/ Reset
    BY <2>2 DEF OtherMachine, Reset, PubInv, PubTyped
  <2> QED
    BY <2>1, <2>2
<1>3. LockInv'
  <2>1. PICK f : RowsLeft(f)
    BY <1>2, SameRowsLeft DEF PubInv
  <2>2. \A q \in Publishers : MayOwnRow(q)' \/ \A k \in DOMAIN rows' : rows'[k].owner # q
    BY <1>1, <1>2, PublishAssumption DEF PubInv, LockInv, MayOwnRow, At, Nobody
  <2> QED
    BY <1>1, <2>1, <2>2, RowsLeftKeep DEF PubInv
<1>4. /\ ReposTyped' /\ ReposHeld' /\ OnlyUndone
      /\ ~overlapped => MarketHeld'
      /\ UNCHANGED <<plug, mkt>> \/ InFlight = {}
  <2>0. \A v \in Versions : v \in Int
    BY PublishAssumption DEF Versions
  <2>1. ASSUME NEW k \in DOMAIN rows, Ages(k)
        PROVE  UNCHANGED <<remote, plug, mkt, peer, history>>
    BY <2>1 DEF Ages
  <2>2. CASE UNCHANGED <<remote, plug, mkt, peer, history>>
    BY <2>2, HeldAlone DEF ReposTyped, ReposHeld, OnlyUndone, MarketHeld
  <2>3. CASE OtherMachine
    <3>1. PICK v : v = remote.plugin + 1
      OBVIOUS
    <3>2. /\ remote' = [plugin |-> v, market |-> IF remote.market < v THEN v ELSE remote.market]
          /\ history' = history \cup {v} /\ UNCHANGED <<plug, mkt, peer>> /\ remote.plugin < MaxVersion
      BY <2>3, <3>1 DEF OtherMachine
    <3>3. v \in Versions
      BY <3>1, <3>2, PublishAssumption, HeldAlone DEF ReposTyped, Versions
    <3>4. /\ remote'.plugin = v
          /\ \/ remote'.market = v /\ remote.market < v
             \/ remote'.market = remote.market
          /\ remote' \in [plugin : Versions, market : Versions]
      BY <3>2, <3>3, HeldAlone DEF ReposTyped
    <3> QED
      BY <2>0, <3>2, <3>3, <3>4, HeldAlone DEF ReposTyped, ReposHeld, OnlyUndone, MarketHeld
  <2>4. CASE Reset
    <3>1. /\ UNCHANGED <<remote, peer, history>> /\ InFlight = {}
          /\ plug' = [plug EXCEPT !.wt = plug.head] /\ mkt' = [mkt EXCEPT !.wt = mkt.head]
      BY <2>4 DEF Reset
    <3>2. /\ plug' \in PubClone /\ plug'.head = plug.head /\ mkt' \in PubClone
          /\ mkt'.wt = mkt.head /\ mkt'.head = mkt.head /\ mkt'.base = mkt.base /\ mkt'.undo = mkt.undo
          /\ mkt.head \in Int
      BY <2>0, <3>1, HeldAlone DEF ReposTyped, PubClone
    <3> QED
      BY <3>1, <3>2, HeldAlone DEF ReposTyped, ReposHeld, OnlyUndone, MarketHeld
  <2> QED
    BY <2>1, <2>2, <2>3, <2>4
<1>5. ~overlapped' => AloneInv'
  <2> SUFFICES ASSUME ~overlapped' PROVE AloneInv'
    OBVIOUS
  <2>1. ~overlapped /\ AloneInv /\ \A q, r \in InFlight' : q = r
    BY DEF OverlapNoted, PubInv, RepoInv
  <2>2. ASSUME NEW q \in Publishers PROVE Carries(q)'
    <3>1. CASE UNCHANGED <<plug, mkt>>
      BY <1>1, <2>1, <3>1 DEF AloneInv, Carries, CarriesAt, At
    <3>2. CASE InFlight = {}
      <4>1. At(q)' \in {"idle", "lock"}
        BY <1>1, <3>2 DEF InFlight, At
      <4> QED
        BY <4>1 DEF Carries, CarriesAt
    <3> QED
      BY <1>4, <3>1, <3>2
  <2> QED
    BY <1>4, <2>1, <2>2 DEF AloneInv
<1>6. PubTyped'
  BY <1>1, <1>2, <1>4 DEF OverlapNoted, PubInv, PubTyped, ReposTyped, At
<1> QED
  BY <1>3, <1>4, <1>5, <1>6 DEF PubInv, RepoInv, ReposHeld

LEMMA PubInvInit == PubInit => PubInv
<1> SUFFICES ASSUME PubInit PROVE PubInv
  OBVIOUS
<1>1. 1 \in Versions
  BY PublishAssumption DEF Versions
<1>2. Clone(1) \in PubClone /\ Clone(1).head = 1 /\ Clone(1).wt = 1 /\ Clone(1).base = 1
  BY <1>1 DEF Clone, PubClone
<1>3. Resting \in PubWork /\ Resting.at = "idle"
  BY DEF Resting, PubWork, PubLabels
<1>4. remote \in [plugin : Versions, market : Versions] /\ remote.plugin = 1 /\ remote.market = 1
  BY <1>1 DEF PubInit
<1>5. pub \in [Publishers -> PubWork] /\ \A p \in Publishers : At(p) = "idle"
  BY <1>3 DEF PubInit, At
<1>6. rows = <<>> /\ rows \in Seq(PubRow) /\ DOMAIN rows = {}
  BY DEF PubInit
<1>7. PubTyped
  <2>1. plug \in PubClone /\ mkt \in PubClone /\ peer \in PubClone /\ history \subseteq Versions
    BY <1>1, <1>2 DEF PubInit
  <2>2. leaks \in 0..MaxLeaked
    BY PublishAssumption DEF PubInit
  <2>3. overlapped \in BOOLEAN
    BY DEF PubInit
  <2> QED
    BY <1>4, <1>5, <1>6, <2>1, <2>2, <2>3 DEF PubTyped
<1>8. LockInv
  <2>1. DeadRows = {}
    BY <1>6 DEF DeadRows
  <2>2. Cardinality(DeadRows) = 0 /\ leaks = 0
    BY <2>1, FS_EmptySet DEF PubInit
  <2> QED
    BY <1>6, <2>2 DEF LockInv
<1>9. RepoInv
  <2>1. InFlight = {}
    BY <1>5 DEF InFlight
  <2>2. plug = Clone(1) /\ mkt = Clone(1) /\ peer = Clone(1) /\ history = {1}
    BY DEF PubInit
  <2> QED
    BY <1>2, <1>4, <1>5, <2>1, <2>2 DEF RepoInv, AloneInv, MarketHeld, Carries, CarriesAt
<1> QED
  BY <1>7, <1>8, <1>9 DEF PubInv

LEMMA PubInvStep ==
    ASSUME PubInv, [PubNext]_pubVars
    PROVE  PubInv' /\ [remote'.market < remote.market => mkt.undo \/ overlapped]_pubVars
<1>1. CASE UNCHANGED pubVars
  BY <1>1 DEF pubVars, PubInv, PubTyped, LockInv, DeadRows, RepoInv, AloneInv, InFlight, MarketHeld,
      Carries, CarriesAt, MayOwnRow, At
<1>2. CASE PubNext
  <2>1. OverlapNoted
    BY <1>2 DEF PubNext, OverlapNoted
  <2>2. ASSUME NEW p \in Publishers, PubStep(p) PROVE PubInv' /\ OnlyUndone
    <3>1. ASSUME NEW tracked \in BOOLEAN, CreateRow(p, tracked) PROVE CreateRow(p, TRUE) \/ CreateRow(p, FALSE)
      BY <3>1
    <3> QED
      BY <2>1, <2>2, <3>1, QuietKeeps, PluginKeeps, PullMarketKeeps, WriteMarketKeeps, PushMarketKeeps,
         PeersKeep, ReturnKeeps, BeginKeeps, RollbackKeeps DEF PubStep
  <2>3. PubInv' /\ OnlyUndone
    BY <1>2, <2>1, <2>2, AroundKeeps DEF PubNext
  <2> QED
    BY <2>3 DEF OnlyUndone
<1> QED
  BY <1>1, <1>2

\* No more rows than processes and leaks: a row names a process, one each, or was left.
LEMMA RowsCounted ==
    ASSUME PubInv
    PROVE  Len(rows) <= Cardinality(Publishers) + leaks
<1>1. PICK living : living = DOMAIN rows \ DeadRows
  OBVIOUS
<1>2. DOMAIN rows = 1..Len(rows) /\ Len(rows) \in Nat /\ \A k \in DOMAIN rows : rows[k] \in PubRow
  BY DEF PubInv, PubTyped
<1>3. IsFiniteSet(DOMAIN rows) /\ IsFiniteSet(DeadRows) /\ IsFiniteSet(living)
  BY <1>1, DeadFinite, FS_Subset DEF PubInv
<1>4. PICK g : g = [k \in living |-> rows[k].owner]
  OBVIOUS
<1>5. g \in Injection(living, Publishers)
  <2>1. \A k \in living : g[k] \in Publishers
    BY <1>1, <1>2, <1>4 DEF DeadRows, PubRow
  <2>2. \A j, k \in living : g[j] = g[k] => j = k
    BY <1>1, <1>4 DEF DeadRows, PubInv, LockInv
  <2> QED
    BY <1>4, <2>1, <2>2 DEF Injection, IsInjective
<1>6. Cardinality(living) <= Cardinality(Publishers)
  BY <1>5, FS_Injection, PublishAssumption
<1>7. DOMAIN rows = DeadRows \cup living /\ DeadRows \cap living = {}
  BY <1>1 DEF DeadRows
<1>8. Cardinality(DOMAIN rows) = Cardinality(DeadRows) + Cardinality(living) - Cardinality(DeadRows \cap living)
  BY <1>3, <1>7, FS_Union
<1>9. Cardinality(DeadRows \cap living) = 0 /\ Cardinality(DOMAIN rows) = Len(rows)
  <2>1. Cardinality({}) = 0
    BY FS_EmptySet
  <2>2. Cardinality(1..Len(rows)) = Len(rows)
    BY <1>2, FS_Interval
  <2> QED
    BY <1>2, <1>7, <2>1, <2>2
<1>10. /\ Cardinality(DeadRows) \in Nat /\ Cardinality(living) \in Nat
       /\ Cardinality(Publishers) \in Nat /\ leaks \in Nat
  BY <1>3, FS_CardinalityType, PublishAssumption DEF PubInv, PubTyped
<1> QED
  BY <1>6, <1>8, <1>9, <1>10 DEF PubInv, LockInv

(* However many processes publish, overlap, fail and die on a machine, a row  *)
(* of publish_state is of one that runs, or one that died or failed to delete *)
(* it, one each; and until two of them overlap, the marketplace offers        *)
(* committed versions only, and goes back to an older one only by a rollback. *)
THEOREM MarketStaysSound == PubSpec => MarketSound
<1>1. PubInv => PubTypeOK
  <2> SUFFICES ASSUME PubInv PROVE PubTypeOK
    OBVIOUS
  <2>1. \A p \in Publishers : pub[p].target \in Versions \cup {NoVersion}
    BY DEF PubInv, PubTyped, PubWork
  <2> QED
    BY <2>1, RowsCounted DEF PubTypeOK, PubInv, PubTyped, PubClone
<1>2. PubInv => LockExplained
  <2> SUFFICES ASSUME PubInv PROVE LockExplained
    OBVIOUS
  <2>1. \A k \in DOMAIN rows : rows[k].owner = Nobody \/ rows[k].owner \in InFlight
    <3>1. ASSUME NEW k \in DOMAIN rows, rows[k].owner # Nobody PROVE rows[k].owner \in InFlight
      <4>1. PICK p : p = rows[k].owner
        OBVIOUS
      <4>2. rows[k] \in PubRow
        BY DEF PubInv, PubTyped
      <4>3. p \in Publishers /\ MayOwnRow(p)
        BY <3>1, <4>1, <4>2 DEF PubRow, PubInv, LockInv
      <4> QED
        BY <4>1, <4>3 DEF MayOwnRow, InFlight
    <3> QED
      BY <3>1
  <2> QED
    BY <2>1 DEF PubInv, LockInv, DeadRows, LockExplained
<1>3. PubInv => AdvertisedCommitted
  BY DEF PubInv, RepoInv, AloneInv, MarketHeld, AdvertisedCommitted
<1> QED
  BY <1>1, <1>2, <1>3, PubInvInit, PubInvStep, PTL DEF PubSpec, MarketSound, NeverDowngraded
=============================================================================
