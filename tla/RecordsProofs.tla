---------------------------- MODULE RecordsProofs ----------------------------
(****************************************************************************)
(* Proofs about what the tables beside runs and dispatches promise: marks   *)
(* made once, ledgers of what was reported, registered agents, and          *)
(* discoveries, for any number of processes, keys and rows.                 *)
(****************************************************************************)
EXTENDS Records, Discovery, AgentLifecycle, FiniteSetTheorems, TLAPS

----------------------------------------------------------------------------
(* State entries *)

\* Expiries are times, and each writer has a set of its own.
StateTyped ==
    /\ DOMAIN state = StateKeys /\ DOMAIN setting = Writers
    /\ \A k \in StateKeys : state[k].expires \in Nat
    /\ \A w \in Writers : setting[w].row.expires \in Nat
    /\ half \in Nat

LEMMA StateTypeInit == StateInit => StateTyped
BY DEF StateInit, StateTyped, NoRow, NoSet

LEMMA StateTypeStep == StateTyped /\ [StateNext]_stateVars => StateTyped'
<1> SUFFICES ASSUME StateTyped, [StateNext]_stateVars PROVE StateTyped'
  OBVIOUS
<1>1. ASSUME NEW w \in Writers, BeginSet(w)
      PROVE  StateTyped'
  <2>1. PICK k \in StateKeys, v \in StateValues \cup BadPayloads, ttl \in StateTTLs :
            /\ ValidTTL(ttl)
            /\ setting' = [setting EXCEPT ![w] = [key |-> k, row |-> Row(v, ttl)]]
    BY <1>1 DEF BeginSet
  <2>2. PICK row : row = Row(v, ttl)
    OBVIOUS
  <2>3. row.expires \in Nat
    BY <2>1, <2>2, StateAssumption DEF Row, ValidTTL, Epoch, StateTyped
  <2>4. PICK s : s = [key |-> k, row |-> row]
    OBVIOUS
  <2>5. setting' = [setting EXCEPT ![w] = s] /\ s.row = row
    BY <2>1, <2>2, <2>4
  <2> QED
    BY <1>1, <2>3, <2>5 DEF BeginSet, StateTyped
<1>2. ASSUME NEW w \in Writers, CommitSet(w)
      PROVE  StateTyped'
  <2>1. PICK row : row = setting[w].row
    OBVIOUS
  <2>2. state' = [state EXCEPT ![setting[w].key] = row] /\ row.expires \in Nat
    BY <1>2, <2>1 DEF CommitSet, StateTyped
  <2>3. setting' = [setting EXCEPT ![w] = NoSet] /\ NoSet.row.expires = 0
    BY <1>2 DEF CommitSet, NoSet, NoRow
  <2> QED
    BY <1>2, <2>2, <2>3 DEF CommitSet, StateTyped
<1>3. ASSUME NEW w \in Writers, SetFails(w)
      PROVE  StateTyped'
  <2>1. NoSet.row.expires = 0
    BY DEF NoSet, NoRow
  <2> QED
    BY <1>3, <2>1 DEF SetFails, StateTyped
<1>4. ASSUME NEW k \in StateKeys, Delete(k)
      PROVE  StateTyped'
  <2>1. NoRow.expires = 0
    BY DEF NoRow
  <2> QED
    BY <1>4, <2>1 DEF Delete, StateTyped
<1>5. CASE PruneState
  <2>1. NoRow.expires = 0
    BY DEF NoRow
  <2> QED
    BY <1>5, <2>1 DEF PruneState, StateTyped
<1>6. CASE HalfPasses
  BY <1>6 DEF HalfPasses, StateTyped
<1>7. CASE UNCHANGED stateVars
  BY <1>7 DEF stateVars, StateTyped
<1> QED
  BY <1>1, <1>2, <1>3, <1>4, <1>5, <1>6, <1>7 DEF StateNext

\* No reader saw what a prune takes.
LEMMA PrunedUnseen ==
    StateTyped /\ [StateNext]_stateVars =>
        [PruneState => \A k \in StateKeys : Get(k)' = Get(k)]_stateVars
<1> SUFFICES ASSUME StateTyped, PruneState, NEW k \in StateKeys
             PROVE  Get(k)' = Get(k)
  BY DEF PruneState
<1>1. state'[k] = IF Ended(k) THEN NoRow ELSE state[k]
  BY DEF PruneState
<1>2. Epoch' = Epoch
  BY DEF PruneState, Epoch
<1>3. CASE Ended(k)
  <2>1. ~Readable(k) /\ ~Readable(k)'
    BY <1>1, <1>3 DEF Readable, Present, Unended, Ended, StateTyped, Epoch
  <2> QED
    BY <2>1 DEF Get
<1>4. CASE ~Ended(k)
  BY <1>1, <1>2, <1>4 DEF Get, Readable, Present, Unended
<1> QED
  BY <1>3, <1>4

LEMMA DurableKept ==
    StateTyped /\ [StateNext]_stateVars =>
        [\A k \in StateKeys :
          IsDurable(k) /\ state'[k] # state[k] =>
              Delete(k) \/ \E w \in Writers : setting[w].key = k /\ setting'[w] = NoSet]_stateVars
<1> SUFFICES ASSUME StateTyped, StateNext, NEW k \in StateKeys, IsDurable(k), state'[k] # state[k]
             PROVE  Delete(k) \/ \E w \in Writers : setting[w].key = k /\ setting'[w] = NoSet
  OBVIOUS
<1>1. ASSUME NEW w \in Writers, CommitSet(w)
      PROVE  setting[w].key = k /\ setting'[w] = NoSet
  BY <1>1 DEF CommitSet, StateTyped
<1>2. ASSUME NEW j \in StateKeys, Delete(j)
      PROVE  Delete(k)
  BY <1>2 DEF Delete, StateTyped
<1>3. ~PruneState
  BY DEF PruneState, IsDurable, Ended
<1> QED
  BY <1>1, <1>2, <1>3 DEF StateNext, BeginSet, SetFails, HalfPasses

----------------------------------------------------------------------------
(* Budget crossings *)

\* A checker between its flag and its event, or done with one, is on a mark.
BudgetTyped ==
    /\ flags \subseteq Marks
    /\ DOMAIN check = Checkers
    /\ \A c \in Checkers : check[c].step # "idle" => check[c].mark \in Marks
    /\ recorded \in Seq(Marks)

BudgetInv == BudgetTyped /\ CrossingRecorded

LEMMA BudgetInvInit == BudgetInit => BudgetInv
BY DEF BudgetInit, BudgetInv, BudgetTyped, CrossingRecorded, NotChecking

\* Where a step leaves a checker.
LEMMA CheckerAt ==
    ASSUME BudgetTyped, NEW c \in Checkers
    PROVE  /\ NextMark(c) => /\ DOMAIN check' = Checkers
                             /\ \A d \in Checkers : d # c => check'[d] = check[d]
                             /\ check'[c].step # "idle" => check'[c].mark \in Marks
                             /\ check'[c].step # "emit"
           /\ \A s : Steps(c, s) => /\ DOMAIN check' = Checkers
                                    /\ \A d \in Checkers : d # c => check'[d] = check[d]
                                    /\ check'[c].step = s /\ check'[c].mark = check[c].mark
<1>1. PICK r : r = IF check[c].mark = "warning" THEN At("read", "exceeded", check[c].total) ELSE NotChecking
  OBVIOUS
<1>2. r.step # "emit" /\ (r.step # "idle" => r.mark \in Marks)
  BY <1>1 DEF At, NotChecking, Marks
<1>3. NextMark(c) => check' = [check EXCEPT ![c] = r]
  BY <1>1 DEF NextMark
<1>4. ASSUME NEW s, Steps(c, s)
      PROVE  /\ DOMAIN check' = Checkers
             /\ \A d \in Checkers : d # c => check'[d] = check[d]
             /\ check'[c].step = s /\ check'[c].mark = check[c].mark
  <2>1. PICK q : q = At(s, check[c].mark, check[c].total)
    OBVIOUS
  <2>2. q.step = s /\ q.mark = check[c].mark
    BY <2>1 DEF At
  <2>3. check' = [check EXCEPT ![c] = q]
    BY <1>4, <2>1 DEF Steps
  <2> QED
    BY <2>2, <2>3 DEF BudgetTyped
<1> QED
  BY <1>2, <1>3, <1>4 DEF BudgetTyped

LEMMA BudgetInvStep == BudgetInv /\ [BudgetNext]_budgetVars => BudgetInv'
<1> SUFFICES ASSUME BudgetInv, [BudgetNext]_budgetVars PROVE BudgetInv'
  OBVIOUS
<1> USE DEF BudgetInv
<1>1. CASE ReportTokens
  BY <1>1 DEF ReportTokens, BudgetTyped, CrossingRecorded, Recording, Emitting
<1>2. ASSUME NEW c \in Checkers, BeginCheck(c)
      PROVE  BudgetInv'
  <2>1. PICK r : r = At("read", "warning", used)
    OBVIOUS
  <2>2. check' = [check EXCEPT ![c] = r] /\ r.step = "read" /\ r.mark \in Marks
    BY <1>2, <2>1 DEF BeginCheck, At, Marks
  <2>3. check[c].step = "idle"
    BY <1>2 DEF BeginCheck, NotChecking
  <2> QED
    BY <1>2, <2>2, <2>3 DEF BeginCheck, BudgetTyped, CrossingRecorded, Recording, Emitting
<1>3. ASSUME NEW c \in Checkers, PassMark(c)
      PROVE  BudgetInv'
  BY <1>3, CheckerAt DEF PassMark, BudgetTyped, CrossingRecorded, Recording, Emitting
<1>4. ASSUME NEW c \in Checkers, FindCrossing(c)
      PROVE  BudgetInv'
  BY <1>4, CheckerAt DEF FindCrossing, BudgetTyped, CrossingRecorded, Recording, Emitting
<1>5. ASSUME NEW c \in Checkers, SetFlag(c)
      PROVE  BudgetInv'
  BY <1>5, CheckerAt DEF SetFlag, BudgetTyped, CrossingRecorded, Recording, Emitting
<1>6. ASSUME NEW c \in Checkers, Emit(c)
      PROVE  BudgetInv'
  <2>1. PICK mark : mark = check[c].mark
    OBVIOUS
  <2>2. mark \in Marks /\ NextMark(c) /\ check[c].step = "emit" /\ UNCHANGED flags
    BY <1>6, <2>1 DEF Emit, BudgetTyped
  <2>3. CASE recorded' = Append(recorded, mark) /\ UNCHANGED lost
    <3>1. /\ recorded' \in Seq(Marks)
          /\ \A i \in DOMAIN recorded : i \in DOMAIN recorded' /\ recorded'[i] = recorded[i]
          /\ Len(recorded) + 1 \in DOMAIN recorded' /\ recorded'[Len(recorded) + 1] = mark
      BY <2>2, <2>3 DEF BudgetTyped
    <3>2. BudgetTyped'
      BY <2>2, <3>1, CheckerAt DEF BudgetTyped
    <3>3. ASSUME NEW m \in flags \ lost
          PROVE  Recording(m)'
      <4>1. CASE m = mark
        BY <3>1, <4>1 DEF Recording
      <4>2. CASE \E i \in DOMAIN recorded : recorded[i] = m
        BY <3>1, <4>2 DEF Recording
      <4>3. CASE m # mark /\ \E d \in Checkers : m \in Emitting(d)
        BY <2>1, <2>2, <4>3, CheckerAt DEF Recording, Emitting, BudgetTyped
      <4> QED
        BY <4>1, <4>2, <4>3 DEF CrossingRecorded, Recording
    <3> QED
      BY <2>2, <2>3, <3>2, <3>3 DEF CrossingRecorded
  <2>4. CASE lost' = lost \cup (Emitting(c) \cap flags) /\ UNCHANGED recorded
    <3>1. BudgetTyped'
      BY <2>2, <2>4, CheckerAt DEF BudgetTyped
    <3>2. ASSUME NEW m \in flags \ lost'
          PROVE  Recording(m)'
      <4>1. m # mark /\ Recording(m)
        BY <2>1, <2>2, <2>4, <3>2 DEF Emitting, CrossingRecorded
      <4> QED
        BY <2>1, <2>2, <2>4, <4>1, CheckerAt DEF Recording, Emitting, BudgetTyped
    <3> QED
      BY <2>2, <3>1, <3>2 DEF CrossingRecorded
  <2> QED
    BY <1>6, <2>1, <2>3, <2>4 DEF Emit
<1>7. ASSUME NEW c \in Checkers, CheckDies(c)
      PROVE  BudgetInv'
  <2>1. check' = [check EXCEPT ![c] = NotChecking] /\ NotChecking.step = "idle"
    BY <1>7 DEF CheckDies, NotChecking
  <2> QED
    BY <1>7, <2>1 DEF CheckDies, BudgetTyped, CrossingRecorded, Recording, Emitting
<1>8. CASE UNCHANGED budgetVars
  BY <1>8 DEF budgetVars, BudgetTyped, CrossingRecorded, Recording, Emitting
<1> QED
  BY <1>1, <1>2, <1>3, <1>4, <1>5, <1>6, <1>7, <1>8 DEF BudgetNext

----------------------------------------------------------------------------
(* Sentinels *)

SentinelTyped ==
    /\ moment \in Nat /\ moment >= Dawn
    /\ DOMAIN lastFired = Sentinels /\ DOMAIN firings = Sentinels
    /\ \A s \in Sentinels :
          firings[s].at \in Nat /\ firings[s].interval \in Nat /\ firings[s].gap \in Nat

\* A row holds the last claim; without one there was none, or it is over a week old.
ClaimOfRow(row, claim, now) ==
    /\ claim.at <= now
    /\ \/ row = claim.at /\ row > 0
       \/ row = NotThere /\ (claim.at = 0 \/ now - claim.at > Week)

SentinelInv ==
    /\ SentinelTyped
    /\ \A s \in Sentinels : ClaimOfRow(lastFired[s], firings[s], moment)
    /\ ClaimsApart

LEMMA SentinelInvInit == SentinelInit => SentinelInv
<1>1. NeverFired.at = 0 /\ NeverFired.interval = 0 /\ NeverFired.gap = 0
  BY DEF NeverFired
<1> QED
  BY <1>1, SentinelAssumption
     DEF SentinelInit, SentinelInv, SentinelTyped, ClaimOfRow, ClaimsApart, NotThere

\* A row that the prune of a check takes was over a week old.
LEMMA PruneKeepsClaim ==
    ASSUME SentinelAssumption, NEW row, NEW claim, claim.at \in Nat, moment \in Nat,
           ClaimOfRow(row, claim, moment)
    PROVE  ClaimOfRow(IF row # NotThere /\ Stale(row) THEN NotThere ELSE row, claim, moment)
BY DEF ClaimOfRow, Stale, NotThere

LEMMA CheckKeeps ==
    ASSUME SentinelInv, NEW s \in Sentinels, NEW i \in Intervals, Check(s, i)
    PROVE  SentinelInv'
<1> DEFINE row == IF Eligible(s, i) THEN moment ELSE Ensured(s)
           next == [lastFired EXCEPT ![s] = row]
           old == firings[s]
<1> USE SentinelAssumption
<1>1. i \in Nat /\ moment \in Nat /\ moment > 0 /\ moment > Week /\ Week \in Nat
  BY DEF SentinelInv, SentinelTyped
<1>2. /\ lastFired' = Pruned(next) /\ moment' = moment
      /\ DOMAIN lastFired' = Sentinels
  BY DEF Check, Pruned
<1>3. \A t \in Sentinels : lastFired'[t] = IF next[t] # NotThere /\ Stale(next[t]) THEN NotThere ELSE next[t]
  BY <1>2 DEF Pruned
<1>4. ASSUME NEW t \in Sentinels, t # s \/ ~Eligible(s, i)
      PROVE  ClaimOfRow(lastFired'[t], firings[t], moment)
  <2>1. CASE t # s
    <3>1. next[t] = lastFired[t]
      BY <2>1 DEF SentinelInv, SentinelTyped
    <3> HIDE DEF next
    <3> QED
      BY <1>1, <1>3, <3>1, PruneKeepsClaim DEF SentinelInv, SentinelTyped
  <2>2. CASE t = s /\ ~Eligible(s, i)
    <3>1. next[t] = Ensured(s)
      BY <2>2 DEF SentinelInv, SentinelTyped
    <3> HIDE DEF next
    <3>2. CASE lastFired[s] = NotThere
      <4>1. next[t] = 0
        BY <3>1, <3>2 DEF Ensured
      <4>2. lastFired'[t] = NotThere
        BY <1>1, <1>3, <4>1 DEF Stale, NotThere
      <4> QED
        BY <2>2, <3>2, <4>2, <1>1 DEF SentinelInv, SentinelTyped, ClaimOfRow, NotThere
    <3>3. CASE lastFired[s] # NotThere
      <4>1. next[t] = lastFired[t]
        BY <2>2, <3>1, <3>3 DEF Ensured
      <4> QED
        BY <1>1, <1>3, <4>1, PruneKeepsClaim DEF SentinelInv, SentinelTyped
    <3> QED
      BY <3>2, <3>3
  <2> QED
    BY <1>4, <2>1, <2>2
<1>5. CASE ~Eligible(s, i)
  <2>1. firings' = firings
    BY <1>5 DEF Check
  <2> QED
    BY <1>2, <1>4, <1>5, <2>1 DEF SentinelInv, SentinelTyped, ClaimsApart
<1>6. CASE Eligible(s, i)
  <2> DEFINE gap == IF old.at = 0 THEN 0 ELSE moment - old.at
  <2>1. PICK claim : claim = [at |-> moment, interval |-> i, gap |-> gap]
    OBVIOUS
  <2>2. firings' = [firings EXCEPT ![s] = claim]
    BY <1>6, <2>1 DEF Check
  <2>3. claim.at = moment /\ claim.interval = i /\ claim.gap = gap
    BY <2>1
  <2>4. gap \in Nat
    BY <1>1 DEF SentinelInv, SentinelTyped, ClaimOfRow
  <2>5. /\ DOMAIN firings' = Sentinels /\ firings'[s] = claim
        /\ \A t \in Sentinels : t # s => firings'[t] = firings[t]
    BY <2>2 DEF SentinelInv, SentinelTyped
  <2>6. SentinelTyped'
    BY <1>1, <1>2, <2>3, <2>4, <2>5 DEF SentinelInv, SentinelTyped
  <2>7. ClaimOfRow(lastFired'[s], claim, moment)
    <3>1. next[s] = moment
      BY <1>6 DEF SentinelInv, SentinelTyped
    <3> HIDE DEF next
    <3>2. lastFired'[s] = moment
      BY <1>1, <1>3, <3>1 DEF Stale
    <3> QED
      BY <1>1, <2>3, <3>2 DEF ClaimOfRow
  <2>8. \A t \in Sentinels : ClaimOfRow(lastFired'[t], firings'[t], moment')
    BY <1>2, <1>4, <2>5, <2>7
  <2>9. gap # 0 => IF i = 0 THEN gap > Week ELSE gap >= Least(i, Week + 1)
    <3>1. ClaimOfRow(lastFired[s], old, moment) /\ old.at \in Nat
      BY DEF SentinelInv, SentinelTyped
    <3>2. CASE lastFired[s] = NotThere
      BY <1>1, <3>1, <3>2 DEF ClaimOfRow, Least, NotThere
    <3>3. CASE lastFired[s] # NotThere
      <4>1. Ensured(s) = old.at /\ old.at > 0
        BY <3>1, <3>3 DEF Ensured, ClaimOfRow
      <4> QED
        BY <1>1, <1>6, <3>1, <4>1 DEF Eligible, Least, ClaimOfRow
    <3> QED
      BY <3>2, <3>3
  <2>10. ClaimsApart'
    BY <2>3, <2>5, <2>9 DEF ClaimsApart, SentinelInv
  <2> QED
    BY <2>6, <2>8, <2>10 DEF SentinelInv
<1> QED
  BY <1>5, <1>6

LEMMA ForgetKeeps ==
    ASSUME SentinelInv, NEW gone, Forget(gone)
    PROVE  SentinelInv'
<1>1. NeverFired.at = 0 /\ NeverFired.interval = 0 /\ NeverFired.gap = 0
  BY DEF NeverFired
<1>2. /\ DOMAIN lastFired' = Sentinels /\ DOMAIN firings' = Sentinels /\ moment' = moment
      /\ \A s \in Sentinels : \/ lastFired'[s] = NotThere /\ firings'[s] = NeverFired
                              \/ lastFired'[s] = lastFired[s] /\ firings'[s] = firings[s]
  BY DEF Forget
<1>3. SentinelTyped'
  BY <1>1, <1>2 DEF SentinelInv, SentinelTyped
<1>4. \A s \in Sentinels : ClaimOfRow(lastFired'[s], firings'[s], moment')
  BY <1>1, <1>2 DEF SentinelInv, SentinelTyped, ClaimOfRow
<1>5. ClaimsApart'
  BY <1>1, <1>2 DEF SentinelInv, ClaimsApart
<1> QED
  BY <1>3, <1>4, <1>5 DEF SentinelInv

LEMMA SentinelInvStep == SentinelInv /\ [SentinelNext]_sentinelVars => SentinelInv'
<1> SUFFICES ASSUME SentinelInv, [SentinelNext]_sentinelVars PROVE SentinelInv'
  OBVIOUS
<1>1. ASSUME NEW s \in Sentinels, NEW i \in Intervals, Check(s, i)
      PROVE  SentinelInv'
  BY <1>1, CheckKeeps
<1>2. ASSUME NEW s \in Sentinels, ResetSentinel(s)
      PROVE  SentinelInv'
  BY <1>2, ForgetKeeps DEF ResetSentinel
<1>3. ASSUME NEW age \in Intervals, PruneSentinels(age)
      PROVE  SentinelInv'
  BY <1>3, ForgetKeeps DEF PruneSentinels
<1>4. CASE TimeGoesOn
  <2>1. moment' = moment + 1 /\ lastFired' = lastFired /\ firings' = firings
    BY <1>4 DEF TimeGoesOn
  <2> QED
    BY <2>1, SentinelAssumption DEF SentinelInv, SentinelTyped, ClaimOfRow, ClaimsApart
<1>5. CASE UNCHANGED sentinelVars
  BY <1>5 DEF sentinelVars, SentinelInv, SentinelTyped, ClaimOfRow, ClaimsApart
<1> QED
  BY <1>1, <1>2, <1>3, <1>4, <1>5 DEF SentinelNext

(* Marks are made once and last: a reader sees of a state entry what a     *)
(* prune leaves, a durable entry goes by a delete or a set only, a flagged  *)
(* budget crossing is recorded or on its way unless a recording of it       *)
(* failed or died, and a sentinel is claimed again only after the interval  *)
(* asked for.                                                               *)
THEOREM MarksAreKept == StateSpec /\ BudgetSpec /\ SentinelSpec => MarksKept
<1>1. StateSpec => []StateTyped
  BY StateTypeInit, StateTypeStep, PTL DEF StateSpec
<1>2. StateSpec => PruneUnseen
  BY <1>1, PrunedUnseen, PTL DEF StateSpec, PruneUnseen
<1>3. StateSpec => DurableStays
  BY <1>1, DurableKept, PTL DEF StateSpec, DurableStays
<1>4. BudgetSpec => []CrossingRecorded
  <2>1. BudgetInv => CrossingRecorded
    BY DEF BudgetInv
  <2> QED
    BY <2>1, BudgetInvInit, BudgetInvStep, PTL DEF BudgetSpec
<1>5. SentinelSpec => []ClaimsApart
  <2>1. SentinelInv => ClaimsApart
    BY DEF SentinelInv
  <2> QED
    BY <2>1, SentinelInvInit, SentinelInvStep, PTL DEF SentinelSpec
<1> QED
  BY <1>2, <1>3, <1>4, <1>5, PTL DEF MarksKept

----------------------------------------------------------------------------
(* Lanes *)

SyncLists == {<<>>} \cup {<<b>> : b \in Beads} \cup (Beads \X Beads)
OpenSync == [lane : LaneNames \cup {"none"}, list : SyncLists, read : SUBSET Beads, stale : BOOLEAN]

LaneTyped ==
    /\ DOMAIN lanes = LaneNames
    /\ members \in [LaneNames -> SUBSET Beads] /\ DOMAIN lastList = LaneNames
    /\ laneLog \in [LaneNames -> [LaneEvents -> Nat]]
    /\ sync \in [Syncers -> OpenSync]
    /\ \A n \in LaneNames : IsFiniteSet(members[n]) /\ Removals(n) = 0

\* An open sync that nobody has overtaken has read the members there are.
ReadCurrent(q) ==
    q # NoSync /\ ~q.stale => q.lane \in LaneNames /\ q.read = members[q.lane]

LanesInv ==
    LaneTyped /\ (\A p \in Syncers : ReadCurrent(sync[p])) /\ MembersAreLastList

LEMMA ListsListed ==
    ASSUME NEW list \in SyncLists
    PROVE  Listed(list) \subseteq Beads /\ IsFiniteSet(Listed(list))
<1>1. CASE list = <<>>
  BY <1>1, FS_EmptySet DEF Listed
<1>2. ASSUME NEW b \in Beads, list = <<b>>
      PROVE  Listed(list) \subseteq Beads /\ IsFiniteSet(Listed(list))
  <2>1. Listed(list) = {b}
    BY <1>2 DEF Listed
  <2> QED
    BY <1>2, <2>1, FS_Singleton
<1>3. ASSUME NEW b \in Beads, NEW c \in Beads, list = <<b, c>>
      PROVE  Listed(list) \subseteq Beads /\ IsFiniteSet(Listed(list))
  <2>1. Listed(list) = {b} \cup {c}
    BY <1>3 DEF Listed
  <2>2. IsFiniteSet({b}) /\ IsFiniteSet({c})
    BY FS_Singleton
  <2>3. IsFiniteSet({b} \cup {c})
    BY <2>2, FS_Union
  <2> QED
    BY <2>1, <2>3
<1> QED
  BY <1>1, <1>2, <1>3 DEF SyncLists

LEMMA NoSyncOpen == NoSync \in OpenSync
BY DEF NoSync, OpenSync, SyncLists

\* A commit leaves no open transaction that still holds its snapshot.
LEMMA OutdatedSyncs ==
    ASSUME sync \in [Syncers -> OpenSync], NEW done
    PROVE  /\ Outdated(done) \in [Syncers -> OpenSync]
           /\ \A p \in Syncers : Outdated(done)[p] = NoSync \/ Outdated(done)[p].stale
<1> SUFFICES ASSUME NEW p \in Syncers
             PROVE  /\ Outdated(done)[p] \in OpenSync
                    /\ Outdated(done)[p] = NoSync \/ Outdated(done)[p].stale
  BY DEF Outdated
<1>1. CASE p \in done \/ sync[p] = NoSync
  BY <1>1, NoSyncOpen DEF Outdated
<1>2. CASE ~(p \in done \/ sync[p] = NoSync)
  <2>1. Outdated(done)[p] = [sync[p] EXCEPT !.stale = TRUE]
    BY <1>2 DEF Outdated
  <2>2. sync[p] \in OpenSync
    OBVIOUS
  <2> QED
    BY <2>1, <2>2 DEF OpenSync
<1> QED
  BY <1>1, <1>2

LEMMA LaneLogged ==
    ASSUME LaneTyped, NEW n \in LaneNames, NEW e \in LaneEvents, e # "bead_removed",
           laneLog' = [laneLog EXCEPT ![n][e] = @ + 1]
    PROVE  /\ laneLog' \in [LaneNames -> [LaneEvents -> Nat]]
           /\ \A m \in LaneNames : Removals(m)' = 0
BY DEF LaneTyped, Removals, LaneEvents

LEMMA SyncMembers ==
    ASSUME LanesInv, NEW p \in Syncers, SyncCommit(p)
    PROVE  /\ sync[p].lane \in LaneNames /\ sync[p].list \in SyncLists
           /\ Synced(p) = Listed(sync[p].list)
<1>1. sync[p] \in OpenSync /\ ReadCurrent(sync[p]) /\ ~sync[p].stale /\ sync[p] # NoSync
  BY DEF LanesInv, LaneTyped, SyncCommit, SnapshotHolds
<1> QED
  BY <1>1 DEF Synced, ReadCurrent, OpenSync

LEMMA LanesInvInit == LanesInit => LanesInv
<1> SUFFICES ASSUME LanesInit PROVE LanesInv
  OBVIOUS
<1>1. LaneTyped
  BY NoSyncOpen, FS_EmptySet DEF LanesInit, LaneTyped, LaneEvents, Removals
<1> QED
  BY <1>1 DEF LanesInit, LanesInv, ReadCurrent, MembersAreLastList

\* A step that leaves members and lists alone, and whose open syncs read what is there.
LEMMA LanesKept ==
    ASSUME LanesInv, UNCHANGED <<members, lastList>>, DOMAIN lanes' = LaneNames,
           laneLog' \in [LaneNames -> [LaneEvents -> Nat]],
           \A m \in LaneNames : Removals(m)' = 0,
           sync' \in [Syncers -> OpenSync], \A p \in Syncers : ReadCurrent(sync'[p])
    PROVE  LanesInv'
BY DEF LanesInv, LaneTyped, ReadCurrent, MembersAreLastList

LEMMA LanesInvStep == LanesInv /\ [LanesNext]_laneVars => LanesInv'
<1> SUFFICES ASSUME LanesInv, [LanesNext]_laneVars PROVE LanesInv'
  OBVIOUS
<1>0. LaneTyped /\ sync \in [Syncers -> OpenSync] /\ \A m \in LaneNames : Removals(m) = 0
  BY DEF LanesInv, LaneTyped
<1>1. ASSUME NEW n \in LaneNames, CreateLane(n) \/ CloseLane(n) \/ UpdateLane(n)
      PROVE  LanesInv'
  <2>1. sync' = Outdated({}) /\ UNCHANGED <<members, lastList>> /\ DOMAIN lanes' = LaneNames
    BY <1>0, <1>1 DEF CreateLane, CloseLane, UpdateLane, LaneTyped
  <2>2. /\ laneLog' \in [LaneNames -> [LaneEvents -> Nat]]
        /\ \A m \in LaneNames : Removals(m)' = 0
    <3>1. ASSUME NEW e \in {"created", "closed"}, laneLog' = [laneLog EXCEPT ![n][e] = @ + 1]
          PROVE  /\ laneLog' \in [LaneNames -> [LaneEvents -> Nat]]
                 /\ \A m \in LaneNames : Removals(m)' = 0
      BY <1>0, <3>1, LaneLogged DEF LaneEvents
    <3>2. CASE laneLog' = laneLog
      BY <1>0, <3>2 DEF LaneTyped, Removals
    <3> QED
      BY <1>1, <3>1, <3>2 DEF CreateLane, CloseLane, UpdateLane
  <2>3. sync' \in [Syncers -> OpenSync] /\ \A p \in Syncers : ReadCurrent(sync'[p])
    BY <1>0, <2>1, OutdatedSyncs DEF ReadCurrent
  <2> QED
    BY <2>1, <2>2, <2>3, LanesKept
<1>2. ASSUME NEW p \in Syncers, NEW n \in LaneNames, SyncRead(p, n)
      PROVE  LanesInv'
  <2>1. PICK list \in {<<b>> : b \in Beads} \cup (Beads \X Beads) :
            sync' = [sync EXCEPT ![p] = [lane |-> n, list |-> list, read |-> members[n], stale |-> FALSE]]
    BY <1>2 DEF SyncRead
  <2>2. PICK q : q = [lane |-> n, list |-> list, read |-> members[n], stale |-> FALSE]
    OBVIOUS
  <2>3. members[n] \in SUBSET Beads /\ list \in SyncLists
    BY <1>0, <2>1 DEF LaneTyped, SyncLists
  <2>4. q \in OpenSync /\ ReadCurrent(q)
    BY <2>2, <2>3 DEF OpenSync, ReadCurrent
  <2>5. sync' \in [Syncers -> OpenSync] /\ \A r \in Syncers : ReadCurrent(sync'[r])
    BY <1>0, <2>1, <2>2, <2>4 DEF LanesInv
  <2>6. UNCHANGED <<members, lastList, lanes, laneLog>>
    BY <1>2 DEF SyncRead
  <2> QED
    BY <1>0, <2>5, <2>6, LanesKept DEF LaneTyped, Removals
<1>3. ASSUME NEW p \in Syncers, SyncCommit(p)
      PROVE  LanesInv'
  <2> DEFINE n == sync[p].lane
  <2>1. PICK new : new = Listed(sync[p].list)
    OBVIOUS
  <2>2. n \in LaneNames /\ new = Synced(p) /\ new \subseteq Beads /\ IsFiniteSet(new)
    BY <1>3, <2>1, SyncMembers, ListsListed
  <2>3. members' = [members EXCEPT ![n] = new] /\ lastList' = [lastList EXCEPT ![n] = new]
    BY <1>3, <2>1, <2>2 DEF SyncCommit
  <2>4. sync' = Outdated({p}) /\ lanes' = lanes /\ laneLog' = [laneLog EXCEPT ![n]["snapshot"] = @ + 1]
    BY <1>3 DEF SyncCommit
  <2>5. /\ laneLog' \in [LaneNames -> [LaneEvents -> Nat]]
        /\ \A m \in LaneNames : Removals(m)' = 0
    BY <1>0, <2>2, <2>4, LaneLogged DEF LaneEvents
  <2>6. sync' \in [Syncers -> OpenSync] /\ \A r \in Syncers : sync'[r] = NoSync \/ sync'[r].stale
    BY <1>0, <2>4, OutdatedSyncs
  <2>7. LaneTyped'
    BY <1>0, <2>2, <2>3, <2>4, <2>5, <2>6 DEF LaneTyped
  <2>8. MembersAreLastList'
    BY <1>0, <2>2, <2>3 DEF LaneTyped, LanesInv, MembersAreLastList
  <2> QED
    BY <2>6, <2>7, <2>8 DEF LanesInv, ReadCurrent
<1>4. ASSUME NEW p \in Syncers, SyncFails(p)
      PROVE  LanesInv'
  <2>1. sync' = [sync EXCEPT ![p] = NoSync] /\ UNCHANGED <<lanes, members, laneLog, lastList>>
    BY <1>4 DEF SyncFails
  <2>2. sync' \in [Syncers -> OpenSync] /\ \A r \in Syncers : ReadCurrent(sync'[r])
    BY <1>0, <2>1, NoSyncOpen DEF LanesInv, ReadCurrent
  <2> QED
    BY <1>0, <2>1, <2>2, LanesKept DEF LaneTyped, Removals
<1>5. CASE UNCHANGED laneVars
  BY <1>5 DEF laneVars, LanesInv, LaneTyped, Removals, ReadCurrent, MembersAreLastList
<1> QED
  BY <1>1, <1>2, <1>3, <1>4, <1>5 DEF LanesNext

LEMMA LanesRanked == LanesInv => RankedBySize
<1> SUFFICES ASSUME LanesInv, NEW m \in ActiveLanes, NEW n \in ActiveLanes, MoreStarved(m, n)
             PROVE  Cardinality(members[m]) > Cardinality(members[n])
  BY DEF RankedBySize
<1>1. /\ Removals(m) = 0 /\ Removals(n) = 0
      /\ Cardinality(members[m]) \in Nat /\ Cardinality(members[n]) \in Nat
  BY FS_CardinalityType DEF LanesInv, LaneTyped, ActiveLanes
<1>2. /\ Starvation(m) = [num |-> 10 * (3 * Cardinality(members[m])), den |-> 1]
      /\ Starvation(n) = [num |-> 10 * (3 * Cardinality(members[n])), den |-> 1]
  BY <1>1 DEF Starvation
<1> QED
  BY <1>1, <1>2 DEF MoreStarved

----------------------------------------------------------------------------
(* Sessions, attributions and landed commits *)

SessionRow == [there : BOOLEAN, ended : BOOLEAN, tokens : Nat]
LandedRow == [run : RunIds \cup {"none"}, reverted : BOOLEAN]
Attribution == [worked : Worked, run : RunIds, at : Nat]

WorkLogTyped ==
    /\ session \in [Worked -> SessionRow] /\ reports \in [Worked -> Nat]
    /\ landed \in [Shas -> LandedRow]
    /\ attributed \in Seq(Attribution) /\ hour \in Nat

\* Attributions are recorded in the order of their times.
InOrder ==
    /\ \A i \in DOMAIN attributed : attributed[i].at <= hour
    /\ \A i, j \in DOMAIN attributed : i <= j => attributed[i].at <= attributed[j].at

WorkLogInv == WorkLogTyped /\ InOrder /\ TokensKept

LEMMA AttributedAt ==
    ASSUME attributed \in Seq(Attribution)
    PROVE  \A i \in DOMAIN attributed : i \in Nat /\ attributed[i].at \in Nat
<1> SUFFICES ASSUME NEW i \in DOMAIN attributed PROVE i \in Nat /\ attributed[i].at \in Nat
  OBVIOUS
<1>1. attributed[i] \in Attribution /\ i \in Nat
  OBVIOUS
<1> QED
  BY <1>1 DEF Attribution

LEMMA WorkLogInvInit == WorkLogInit => WorkLogInv
<1>1. NoSession \in SessionRow /\ NoSession.tokens = 0 /\ NotLanded \in LandedRow
  BY DEF NoSession, SessionRow, NotLanded, LandedRow
<1> QED
  BY <1>1 DEF WorkLogInit, WorkLogInv, WorkLogTyped, InOrder, TokensKept

\* A step of the sessions: their rows and the reports.
LEMMA SessionsMoved ==
    ASSUME WorkLogInv, UNCHANGED <<attributed, landed, hour>>,
           session' \in [Worked -> SessionRow], reports' \in [Worked -> Nat],
           \A w \in Worked : session'[w].tokens - reports'[w] = session[w].tokens - reports[w]
    PROVE  WorkLogInv'
<1>1. ASSUME NEW w \in Worked
      PROVE  session'[w].tokens = reports'[w]
  <2>1. /\ session'[w].tokens \in Nat /\ reports'[w] \in Nat
        /\ session[w].tokens \in Nat /\ reports[w] \in Nat /\ session[w].tokens = reports[w]
    BY DEF WorkLogInv, WorkLogTyped, TokensKept, SessionRow
  <2> QED
    BY <2>1
<1> QED
  BY <1>1 DEF WorkLogInv, WorkLogTyped, InOrder, TokensKept

LEMMA WorkLogInvStep == WorkLogInv /\ [WorkLogNext]_workLogVars => WorkLogInv'
<1> SUFFICES ASSUME WorkLogInv, [WorkLogNext]_workLogVars PROVE WorkLogInv'
  OBVIOUS
<1>0. /\ session \in [Worked -> SessionRow] /\ reports \in [Worked -> Nat]
      /\ landed \in [Shas -> LandedRow] /\ hour \in Nat /\ attributed \in Seq(Attribution)
  BY DEF WorkLogInv, WorkLogTyped
<1>1. ASSUME NEW w \in Worked, SessionStart(w)
      PROVE  WorkLogInv'
  <2>1. PICK row : row = Reopened(session[w])
    OBVIOUS
  <2>2. row \in SessionRow /\ row.tokens = session[w].tokens
    BY <1>0, <2>1 DEF Reopened, SessionRow
  <2>3. session' = [session EXCEPT ![w] = row] /\ UNCHANGED <<reports, attributed, landed, hour>>
    BY <1>1, <2>1 DEF SessionStart
  <2>4. session' \in [Worked -> SessionRow] /\ \A v \in Worked : session'[v].tokens = session[v].tokens
    BY <1>0, <2>2, <2>3
  <2> QED
    BY <1>0, <2>3, <2>4, SessionsMoved
<1>2. ASSUME NEW s \in SessionIds, SessionEnd(s)
      PROVE  WorkLogInv'
  <2> DEFINE open == {w \in Worked : w[1] = s /\ session[w].there /\ ~session[w].ended}
  <2>1. /\ session' = [w \in Worked |-> IF w \in open THEN [session[w] EXCEPT !.ended = TRUE] ELSE session[w]]
        /\ UNCHANGED <<reports, attributed, landed, hour>>
    BY <1>2 DEF SessionEnd
  <2> HIDE DEF open
  <2>2. ASSUME NEW w \in Worked
        PROVE  session'[w] \in SessionRow /\ session'[w].tokens = session[w].tokens
    BY <1>0, <2>1 DEF SessionRow
  <2>3. session' \in [Worked -> SessionRow]
    BY <2>1, <2>2
  <2> QED
    BY <1>0, <2>1, <2>2, <2>3, SessionsMoved
<1>3. ASSUME NEW w \in Worked, SessionTokens(w)
      PROVE  WorkLogInv'
  <2>1. PICK row : row = [session[w] EXCEPT !.tokens = @ + 1]
    OBVIOUS
  <2>2. row \in SessionRow /\ row.tokens = session[w].tokens + 1
    BY <1>0, <2>1 DEF SessionRow
  <2>3. session' = [session EXCEPT ![w] = row] /\ reports' = [reports EXCEPT ![w] = @ + 1]
    BY <1>3, <2>1 DEF SessionTokens
  <2>4. /\ session' \in [Worked -> SessionRow] /\ reports' \in [Worked -> Nat]
        /\ session'[w].tokens = session[w].tokens + 1 /\ reports'[w] = reports[w] + 1
        /\ \A v \in Worked : v # w => session'[v] = session[v] /\ reports'[v] = reports[v]
    BY <1>0, <2>2, <2>3
  <2>5. \A v \in Worked : session[v].tokens \in Nat /\ reports[v] \in Nat
    BY <1>0 DEF SessionRow
  <2> QED
    BY <1>3, <2>4, <2>5, SessionsMoved DEF SessionTokens
<1>4. ASSUME NEW w \in Worked, NEW r \in RunIds, SessionAttribute(w, r)
      PROVE  WorkLogInv'
  <2>1. PICK new : new = [worked |-> w, run |-> r, at |-> hour]
    OBVIOUS
  <2>2. new \in Attribution /\ new.at = hour
    BY <1>0, <2>1 DEF Attribution
  <2>3. attributed' = Append(attributed, new) /\ UNCHANGED <<session, reports, landed, hour>>
    BY <1>4, <2>1 DEF SessionAttribute
  <2>4. /\ attributed' \in Seq(Attribution)
        /\ Len(attributed') = Len(attributed) + 1 /\ attributed'[Len(attributed) + 1] = new
        /\ \A i \in 1 .. Len(attributed) : attributed'[i] = attributed[i]
    BY <1>0, <2>2, <2>3
  <2>5. \A i \in 1 .. Len(attributed) : attributed[i].at \in Nat /\ attributed[i].at <= hour
    BY <1>0, AttributedAt DEF WorkLogInv, InOrder
  <2>6. InOrder'
    BY <1>0, <2>2, <2>3, <2>4, <2>5 DEF WorkLogInv, InOrder
  <2> QED
    BY <1>0, <2>3, <2>4, <2>6 DEF WorkLogInv, WorkLogTyped, TokensKept
<1>5. ASSUME NEW c \in Shas, LandedRevert(c)
      PROVE  WorkLogInv'
  <2>1. landed' \in [Shas -> LandedRow]
    BY <1>0, <1>5 DEF LandedRevert, LandedRow
  <2> QED
    BY <1>5, <2>1 DEF LandedRevert, WorkLogInv, WorkLogTyped, InOrder, TokensKept
<1>6. ASSUME NEW c \in Shas, NEW r \in RunIds, LandedRecord(c, r)
      PROVE  WorkLogInv'
  <2>1. PICK row : row = Landing(landed[c], r)
    OBVIOUS
  <2>2. row \in LandedRow /\ landed' = [landed EXCEPT ![c] = row]
    BY <1>0, <1>6, <2>1 DEF LandedRecord, Landing, LandedRow
  <2>3. landed' \in [Shas -> LandedRow]
    BY <1>0, <2>2
  <2> QED
    BY <1>6, <2>3 DEF LandedRecord, WorkLogInv, WorkLogTyped, InOrder, TokensKept
<1>7. CASE NextHour
  <2>1. hour' = hour + 1 /\ UNCHANGED <<session, reports, attributed, landed>>
    BY <1>7 DEF NextHour
  <2>2. \A i \in 1 .. Len(attributed) : attributed[i].at \in Nat
    BY <1>0, AttributedAt
  <2> QED
    BY <1>0, <2>1, <2>2 DEF WorkLogInv, WorkLogTyped, InOrder, TokensKept
<1>8. CASE UNCHANGED workLogVars
  BY <1>8 DEF workLogVars, WorkLogInv, WorkLogTyped, InOrder, TokensKept
<1> QED
  BY <1>1, <1>2, <1>3, <1>4, <1>5, <1>6, <1>7, <1>8 DEF WorkLogNext

LEMMA LastIsCurrent == WorkLogInv => CurrentIsLast
<1> SUFFICES ASSUME WorkLogInv, NEW i \in DOMAIN attributed,
                    \A j \in DOMAIN attributed : attributed[j].worked = attributed[i].worked => j <= i
             PROVE  Current(attributed[i].worked) = i
  BY DEF CurrentIsLast
<1> DEFINE rows == {j \in DOMAIN attributed : attributed[j].worked = attributed[i].worked}
           Wins(k) == \A j \in rows \ {k} : Superseded(j, k)
<1>1. \A j \in DOMAIN attributed : j \in Nat /\ attributed[j].at \in Nat
  BY AttributedAt DEF WorkLogInv, WorkLogTyped
<1>2. \A j, k \in DOMAIN attributed : j <= k => attributed[j].at <= attributed[k].at
  BY DEF WorkLogInv, InOrder
<1>3. i \in rows /\ Wins(i)
  BY <1>1, <1>2 DEF Superseded
<1>4. ASSUME NEW k \in rows, Wins(k) PROVE k = i
  <2> SUFFICES ASSUME k # i PROVE FALSE
    OBVIOUS
  <2>1. Superseded(i, k) /\ k < i
    BY <1>1, <1>3, <1>4
  <2> QED
    BY <1>1, <1>2, <2>1 DEF Superseded
<1>5. Current(attributed[i].worked) = CHOOSE k \in rows : Wins(k)
  BY DEF Current
<1> HIDE DEF rows, Wins
<1> QED
  BY <1>3, <1>4, <1>5

LEMMA LandedFrozenStep == WorkLogInv /\ [WorkLogNext]_workLogVars => LandedFrozen
<1> SUFFICES ASSUME WorkLogInv, [WorkLogNext]_workLogVars, NEW c \in Shas, NEW r \in RunIds, c \in ByRun(r)'
             PROVE  c \in ByRun(r) \/ landed[c] = NotLanded
  BY DEF LandedFrozen
<1>0. landed \in [Shas -> LandedRow] /\ landed'[c].run = r /\ ~landed'[c].reverted
  BY DEF WorkLogInv, WorkLogTyped, ByRun
<1>1. CASE landed'[c] = landed[c]
  BY <1>0, <1>1 DEF ByRun
<1>2. ASSUME NEW d \in Shas, LandedRevert(d), landed'[c] # landed[c]
      PROVE  FALSE
  <2>1. landed' = [landed EXCEPT ![d].reverted = TRUE] /\ c = d
    BY <1>0, <1>2 DEF LandedRevert
  <2> QED
    BY <1>0, <2>1 DEF LandedRow
<1>3. ASSUME NEW d \in Shas, NEW q \in RunIds, LandedRecord(d, q), landed'[c] # landed[c]
      PROVE  landed[c] = NotLanded
  BY <1>0, <1>3 DEF LandedRecord, Landing
<1> QED
  BY <1>1, <1>2, <1>3
     DEF WorkLogNext, workLogVars, SessionStart, SessionTokens, SessionAttribute, SessionEnd, NextHour

(* Ledgers add up: the tokens of a session are those reported for it over    *)
(* any ends and restarts, the attribution in force is the last one, lanes    *)
(* have the members of the last list however syncs overlap and are ranked    *)
(* by their number, and no late call moves a landed commit to another run.   *)
THEOREM LedgersAreKept == LanesSpec /\ WorkLogSpec => LedgersKept
<1>1. LanesInv => MembersAreLastList /\ RankedBySize
  BY LanesRanked DEF LanesInv
<1>2. WorkLogInv => TokensKept /\ CurrentIsLast
  BY LastIsCurrent DEF WorkLogInv
<1>3. LanesSpec => []LanesInv
  BY LanesInvInit, LanesInvStep, PTL DEF LanesSpec
<1>4. WorkLogSpec => []WorkLogInv
  BY WorkLogInvInit, WorkLogInvStep, PTL DEF WorkLogSpec
<1> QED
  BY <1>1, <1>2, <1>3, <1>4, LandedFrozenStep, PTL DEF WorkLogSpec, LedgersKept

----------------------------------------------------------------------------
(* Registered agents *)

Machine == 1 .. MaxMachines
MachineRow == [state : LifeStates, active : Nat]

LifeTyped ==
    /\ machines \in [Machine -> MachineRow] /\ reported \in [Machine -> Nat]
    /\ made \in 0 .. MaxMachines /\ minute \in Nat
    /\ registry \in [AgentIds -> 0 .. made]
    /\ lookup \in [Callers -> AgentIds \cup {"none"}]
    /\ DOMAIN holds = Callers /\ \A c \in Callers : holds[c].machine \in 0 .. made

\* A machine is not used before it is made, and no report is later than its activity.
LifeInv ==
    /\ LifeTyped
    /\ \A m \in Machine :
          /\ m > made => machines[m].state = "waiting"
          /\ reported[m] <= machines[m].active /\ machines[m].active <= minute

LEMMA LifeInvInit == LifeInit => LifeInv
<1> SUFFICES ASSUME LifeInit PROVE LifeInv
  OBVIOUS
<1>1. PICK row : row = [state |-> "waiting", active |-> 0]
  OBVIOUS
<1>2. row \in MachineRow /\ row.state = "waiting" /\ row.active = 0
  BY <1>1 DEF MachineRow, LifeStates
<1>3. machines = [m \in Machine |-> row]
  BY <1>1 DEF LifeInit, Machine
<1>4. NoHold.machine = 0
  BY DEF NoHold
<1> QED
  BY <1>2, <1>3, <1>4, LifecycleAssumption DEF LifeInit, LifeInv, LifeTyped, Machine

\* A caller works with the registered machine.
LEMMA HoldingMachine ==
    ASSUME LifeTyped, NEW c \in Callers, NEW a \in AgentIds, holds' = Holding(c, a)
    PROVE  DOMAIN holds' = Callers /\ \A d \in Callers : holds'[d].machine \in 0 .. made
<1>1. PICK hold : hold = [agent |-> a, machine |-> registry[a]]
  OBVIOUS
<1>2. holds' = [holds EXCEPT ![c] = hold] /\ hold.machine \in 0 .. made
  BY <1>1 DEF Holding, LifeTyped
<1> QED
  BY <1>2 DEF LifeTyped

\* One machine gets a row that is as late as its report.
MachineSet(m, row, seen) ==
    machines' = [machines EXCEPT ![m] = row] /\ reported' = [reported EXCEPT ![m] = seen]

LEMMA MachineMoved ==
    ASSUME LifeInv, NEW m \in Machine, m <= made, NEW row \in MachineRow, NEW seen \in Nat,
           MachineSet(m, row, seen),
           seen <= row.active, row.active <= minute, UNCHANGED <<made, registry, lookup, holds, minute>>
    PROVE  LifeInv'
BY LifecycleAssumption DEF LifeInv, LifeTyped, Machine, MachineSet

LEMMA LifeInvStep == LifeInv /\ [LifeNext]_lifeVars => LifeInv'
<1> SUFFICES ASSUME LifeInv, [LifeNext]_lifeVars PROVE LifeInv'
  OBVIOUS
<1>0. /\ machines \in [Machine -> MachineRow] /\ reported \in [Machine -> Nat]
      /\ made \in Nat /\ made <= MaxMachines /\ minute \in Nat /\ MaxMachines \in Nat
      /\ \A m \in Machine : machines[m].state \in LifeStates /\ machines[m].active \in Nat
  BY LifecycleAssumption DEF LifeInv, LifeTyped, MachineRow
<1>1. ASSUME NEW c \in Callers, NEW a \in AgentIds, GetRead(c, a)
      PROVE  LifeInv'
  <2>1. DOMAIN holds' = Callers /\ \A d \in Callers : holds'[d].machine \in 0 .. made
    BY <1>1, HoldingMachine DEF GetRead, LifeInv, LifeTyped
  <2> QED
    BY <1>1, <2>1 DEF GetRead, LifeInv, LifeTyped
<1>2. ASSUME NEW c \in Callers, GetWrite(c)
      PROVE  LifeInv'
  <2> DEFINE a == lookup[c]
  <2>1. CASE StillMissing(a)
    <3>1. PICK row : row = [state |-> "waiting", active |-> minute]
      OBVIOUS
    <3>2. PICK hold : hold = [agent |-> a, machine |-> made + 1]
      OBVIOUS
    <3>3. /\ row \in MachineRow /\ row.state = "waiting" /\ row.active = minute
          /\ hold.machine = made + 1
      BY <1>0, <3>1, <3>2 DEF MachineRow, LifeStates
    <3>4. /\ made < MaxMachines /\ made' = made + 1
          /\ machines' = [machines EXCEPT ![made + 1] = row]
          /\ registry' = [registry EXCEPT ![a] = made + 1]
          /\ holds' = [holds EXCEPT ![c] = hold]
          /\ UNCHANGED <<minute, reported>>
      BY <1>2, <2>1, <3>1, <3>2 DEF GetWrite
    <3>5. /\ machines' \in [Machine -> MachineRow] /\ made' \in 0 .. MaxMachines
          /\ registry' \in [AgentIds -> 0 .. made']
          /\ DOMAIN holds' = Callers /\ \A d \in Callers : holds'[d].machine \in 0 .. made'
      <4>1. machines' \in [Machine -> MachineRow]
        BY <1>0, <3>3, <3>4
      <4>2. made' \in 0 .. MaxMachines /\ 0 .. made \subseteq 0 .. made' /\ made + 1 \in 0 .. made'
        BY <1>0, <3>4
      <4>3. registry' \in [AgentIds -> 0 .. made']
        BY <3>4, <4>2 DEF LifeInv, LifeTyped
      <4>4. DOMAIN holds' = Callers /\ \A d \in Callers : holds'[d].machine \in 0 .. made'
        BY <3>3, <3>4, <4>2 DEF LifeInv, LifeTyped
      <4> QED
        BY <4>1, <4>2, <4>3, <4>4
    <3>6. ASSUME NEW m \in Machine
          PROVE  /\ m > made' => machines'[m].state = "waiting"
                 /\ reported'[m] <= machines'[m].active /\ machines'[m].active <= minute'
      <4>1. CASE m = made + 1
        <5>1. machines'[m] = row /\ reported'[m] <= minute
          BY <1>0, <3>4, <4>1 DEF LifeInv
        <5> QED
          BY <1>0, <3>3, <3>4, <4>1, <5>1
      <4>2. CASE m # made + 1
        <5>1. machines'[m] = machines[m] /\ m \in Nat
          BY <1>0, <3>4, <4>2 DEF Machine
        <5> QED
          BY <1>0, <3>4, <5>1, <4>2 DEF LifeInv
      <4> QED
        BY <4>1, <4>2
    <3>7. lookup' \in [Callers -> AgentIds \cup {"none"}]
      BY <1>2 DEF GetWrite, LifeInv, LifeTyped
    <3> QED
      BY <1>0, <3>4, <3>5, <3>6, <3>7 DEF LifeInv, LifeTyped
  <2>2. CASE ~StillMissing(a)
    <3>1. holds' = Holding(c, a) /\ UNCHANGED <<made, machines, registry, minute, reported>>
      BY <1>2, <2>2 DEF GetWrite
    <3>2. a \in AgentIds
      BY <1>2 DEF GetWrite, LifeInv, LifeTyped
    <3>3. DOMAIN holds' = Callers /\ \A d \in Callers : holds'[d].machine \in 0 .. made
      BY <3>1, <3>2, HoldingMachine DEF LifeInv
    <3>4. lookup' \in [Callers -> AgentIds \cup {"none"}]
      BY <1>2 DEF GetWrite, LifeInv, LifeTyped
    <3> QED
      BY <3>1, <3>3, <3>4 DEF LifeInv, LifeTyped
  <2> QED
    BY <2>1, <2>2
<1>3. ASSUME NEW c \in Callers, LetGo(c)
      PROVE  LifeInv'
  <2>1. NoHold.machine = 0
    BY DEF NoHold
  <2>2. DOMAIN holds' = Callers /\ \A d \in Callers : holds'[d].machine \in 0 .. made
    BY <1>0, <1>3, <2>1 DEF LetGo, LifeInv, LifeTyped
  <2> QED
    BY <1>3, <2>2 DEF LetGo, LifeInv, LifeTyped
<1>4. ASSUME NEW c \in Callers, RecordActivity(c)
      PROVE  LifeInv'
  <2>1. PICK m : m = holds[c].machine
    OBVIOUS
  <2>2. m \in Machine /\ m <= made
    BY <1>0, <1>4, <2>1 DEF RecordActivity, LifeInv, LifeTyped, Machine
  <2>3. PICK row : row = [machines[m] EXCEPT !.active = minute]
    OBVIOUS
  <2>4. row \in MachineRow /\ row.active = minute
    BY <1>0, <2>2, <2>3 DEF MachineRow
  <2>5. MachineSet(m, row, minute)
    BY <1>4, <2>1, <2>3 DEF RecordActivity, MachineSet
  <2> QED
    BY <1>0, <1>4, <2>2, <2>4, <2>5, MachineMoved DEF RecordActivity
<1>5. ASSUME NEW c \in Callers, NEW to \in LifeStates, Transition(c, to)
      PROVE  LifeInv'
  <2>1. PICK m : m = holds[c].machine
    OBVIOUS
  <2>2. m \in Machine /\ m <= made
    BY <1>0, <1>5, <2>1 DEF Transition, LifeInv, LifeTyped, Machine
  <2>3. PICK row : row = [[machines[m] EXCEPT !.state = to] EXCEPT !.active = minute]
    OBVIOUS
  <2>4. row \in MachineRow /\ row.active = minute
    <3>1. PICK half1 : half1 = [machines[m] EXCEPT !.state = to]
      OBVIOUS
    <3>2. half1 \in MachineRow
      BY <1>0, <2>2, <3>1 DEF MachineRow
    <3> QED
      BY <1>0, <2>3, <3>1, <3>2 DEF MachineRow
  <2>5. MachineSet(m, row, minute)
    BY <1>5, <2>1, <2>3 DEF Transition, Entered, MachineSet
  <2> QED
    BY <1>0, <1>5, <2>2, <2>4, <2>5, MachineMoved DEF Transition
<1>6. ASSUME NEW a \in AgentIds, RemoveMachine(a)
      PROVE  LifeInv'
  <2>1. registry' \in [AgentIds -> 0 .. made]
    BY <1>0, <1>6 DEF RemoveMachine, LifeInv, LifeTyped
  <2> QED
    BY <1>6, <2>1 DEF RemoveMachine, LifeInv, LifeTyped
<1>7. CASE CheckStalls
  <2> DEFINE stalled == {registry[a] : a \in {b \in AgentIds :
                  registry[b] # 0 /\ MayStall(machines[registry[b]].state) /\ Silent(registry[b])}}
  <2>0. machines' = [m \in 1..MaxMachines |->
            IF m \in stalled THEN [machines[m] EXCEPT !.state = "stalled"] ELSE machines[m]]
    BY <1>7 DEF CheckStalls
  <2>1. \A m \in stalled : \E a \in AgentIds : registry[a] = m /\ m # 0
    OBVIOUS
  <2> HIDE DEF stalled
  <2>2. ASSUME NEW m \in Machine
        PROVE  /\ machines'[m] \in MachineRow /\ machines'[m].active = machines[m].active
               /\ m \notin stalled => machines'[m] = machines[m]
    BY <1>0, <2>0 DEF Machine, MachineRow, LifeStates
  <2>3. machines' \in [Machine -> MachineRow]
    BY <2>0, <2>2 DEF Machine
  <2>4. \A m \in stalled : m \in 1 .. made
    BY <1>0, <2>1 DEF LifeInv, LifeTyped
  <2> QED
    BY <1>0, <1>7, <2>2, <2>3, <2>4 DEF CheckStalls, LifeInv, LifeTyped, Machine
<1>8. CASE Minute
  BY <1>0, <1>8 DEF Minute, LifeInv, LifeTyped
<1>9. CASE UNCHANGED lifeVars
  BY <1>9 DEF lifeVars, LifeInv, LifeTyped
<1> QED
  BY <1>1, <1>2, <1>3, <1>4, <1>5, <1>6, <1>7, <1>8, <1>9 DEF LifeNext

LEMMA OneMachineStep ==
    LifeInv /\ [LifeNext]_lifeVars =>
        [\A a \in AgentIds : registry[a] # 0 => registry'[a] \in {0, registry[a]}]_lifeVars
BY DEF LifeInv, LifeTyped, LifeNext, GetRead, GetWrite, StillMissing, LetGo, RecordActivity, Transition,
       RemoveMachine, CheckStalls, Minute

LEMMA CompletedStep ==
    LifeInv /\ [LifeNext]_lifeVars =>
        [\A m \in 1..MaxMachines : machines[m].state = "completed" => machines'[m].state = "completed"]_lifeVars
<1> SUFFICES ASSUME LifeInv, LifeNext, NEW m \in Machine, machines[m].state = "completed"
             PROVE  machines'[m].state = "completed"
  BY DEF Machine
<1>0. machines \in [Machine -> MachineRow] /\ made \in Nat /\ MaxMachines \in Nat /\ m \in Nat /\ m <= made
  BY LifecycleAssumption DEF LifeInv, LifeTyped, Machine
<1>1. ASSUME NEW c \in Callers, GetWrite(c)
      PROVE  machines'[m] = machines[m]
  BY <1>0, <1>1 DEF GetWrite
<1>2. ASSUME NEW c \in Callers, RecordActivity(c)
      PROVE  machines'[m].state = machines[m].state
  BY <1>0, <1>2 DEF RecordActivity, MachineRow
<1>3. ASSUME NEW c \in Callers, NEW to \in LifeStates, Transition(c, to)
      PROVE  machines'[m] = machines[m]
  <2>1. holds[c].machine # m
    BY <1>3 DEF Transition, CanTransition, Live
  <2> DEFINE k == holds[c].machine
             row == [machines[k] EXCEPT !.state = to, !.active = minute]
  <2>2. k # m /\ machines' = [machines EXCEPT ![k] = row]
    BY <1>3, <2>1 DEF Transition, Entered
  <2> HIDE DEF k, row
  <2> QED
    BY <1>0, <2>2
<1>4. CASE CheckStalls
  BY <1>0, <1>4 DEF CheckStalls, MayStall, Machine
<1> QED
  BY <1>1, <1>2, <1>3, <1>4 DEF LifeNext, GetRead, LetGo, RemoveMachine, Minute

LEMMA StallsStep ==
    LifeInv /\ [LifeNext]_lifeVars =>
        [CheckStalls => \A m \in 1..MaxMachines :
             machines[m].state # "stalled" /\ machines'[m].state = "stalled"
                => minute - reported[m] >= StallTimeout \/ minute - reported[m] > VelocityWindow]_lifeVars
<1> SUFFICES ASSUME LifeInv, CheckStalls, NEW m \in Machine,
                    machines[m].state # "stalled", machines'[m].state = "stalled"
             PROVE  minute - reported[m] >= StallTimeout \/ minute - reported[m] > VelocityWindow
  BY DEF Machine
<1>1. Silent(m)
  BY DEF CheckStalls, Machine
<1>2. /\ reported[m] \in Nat /\ machines[m].active \in Nat /\ minute \in Nat
      /\ reported[m] <= machines[m].active
  BY DEF LifeInv, LifeTyped, MachineRow
<1> QED
  BY <1>1, <1>2, LifecycleAssumption DEF Silent

(* Callers that race see one machine per agent until it is removed, an agent *)
(* that completed stays so, and a check calls none stalled that reported in  *)
(* time, also when the report and the check hold the machine at once.        *)
THEOREM AgentsAreTold == LifeSpec => AgentsTold
<1>1. LifeSpec => []LifeInv
  BY LifeInvInit, LifeInvStep, PTL DEF LifeSpec
<1>2. LifeSpec => OneMachine
  BY <1>1, OneMachineStep, PTL DEF LifeSpec, OneMachine
<1>3. LifeSpec => CompletedFinal
  BY <1>1, CompletedStep, PTL DEF LifeSpec, CompletedFinal
<1>4. LifeSpec => StallsAreReal
  BY <1>1, StallsStep, PTL DEF LifeSpec, StallsAreReal
<1> QED
  BY <1>2, <1>3, <1>4 DEF AgentsTold

----------------------------------------------------------------------------
(* Discoveries *)

Statuses == {"none", "new", "scored"} \cup Closed
Tiers == {"none", "high", "medium", "low", "discard"}

DiscoveryRow ==
    [status : Statuses, score : Int, tier : Tiers, topic : Topics \cup {"none"},
     deduped : BOOLEAN, forced : BOOLEAN, day : Nat]

\* The tier of a row is that of its score, and one promoted unforced is worth it.
RowSound(row) ==
    /\ row \in DiscoveryRow
    /\ row.status # "none" => row.tier = TierFromScore(row.score)
    /\ row.status = "promoted" /\ ~row.forced => row.tier \in {"medium", "high"}

\* Ids are given in turn; the events tell what the rows say; twins came by plain submits.
RowsInv ==
    /\ DOMAIN discovery = Discoveries /\ DOMAIN told = Discoveries /\ day \in Nat
    /\ \A d \in Discoveries : RowSound(discovery[d])
    /\ \A d \in Submitted, e \in Discoveries : e < d => e \in Submitted
    /\ EventsTellStatus /\ NoTwins

\* What a transaction asks is well formed, and what it read is still so.
Asked(q) ==
    /\ q.score \in Int /\ q.force \in BOOLEAN
    /\ q.op = "dedup" => q.topic \in Topics
    /\ DOMAIN q.read \subseteq Submitted
    /\ \A d \in DOMAIN q.read :
          q.read[d].status = discovery[d].status /\ q.read[d].score = discovery[d].score
    /\ q.op \in {"score", "promote", "dismiss"} => DOMAIN q.read = {q.id}
    /\ q.op = "decay" => \A d \in DOMAIN q.read : discovery[d].status \notin Closed
    /\ q.op = "dedup" => DOMAIN q.read = Alike(q.topic)

RequestsInv ==
    /\ DOMAIN request = Scouts
    /\ \A p \in Scouts : /\ "stale" \in DOMAIN request[p]
                         /\ request[p] = NoRequest \/ request[p].stale \/ Asked(request[p])

Signal == [discovery : Discoveries, key : FeedbackKeys]
SignalsInv ==
    signals \in Seq(Signal) /\ DOMAIN bound = FeedbackKeys /\ FeedbackOncePerKey

DiscoveryInv == RowsInv /\ RequestsInv /\ SignalsInv

LEMMA RowFields ==
    ASSUME NEW row \in DiscoveryRow
    PROVE  /\ row.status \in Statuses /\ row.score \in Int /\ row.tier \in Tiers
           /\ row.topic \in Topics \cup {"none"} /\ row.deduped \in BOOLEAN
           /\ row.forced \in BOOLEAN /\ row.day \in Nat
BY DEF DiscoveryRow

LEMMA TierKnown == \A score : TierFromScore(score) \in Tiers
BY DEF TierFromScore, Tiers

\* The rows that the commands write.
LEMMA NewRowSound ==
    ASSUME NEW score \in Int, NEW topic \in Topics, NEW deduped \in BOOLEAN, day \in Nat
    PROVE  /\ RowSound(NewRow(score, topic, deduped))
           /\ NewRow(score, topic, deduped).status = "new"
           /\ NewRow(score, topic, deduped).topic = topic
           /\ NewRow(score, topic, deduped).deduped = deduped
<1>1. PICK tier : tier = TierFromScore(score)
  OBVIOUS
<1>2. tier \in Tiers
  BY <1>1, TierKnown
<1>3. PICK row : row = [status |-> "new", score |-> score, tier |-> tier, topic |-> topic,
                        deduped |-> deduped, forced |-> FALSE, day |-> day]
  OBVIOUS
<1>4. NewRow(score, topic, deduped) = row
  BY <1>1, <1>3 DEF NewRow
<1>5. row \in DiscoveryRow
  BY <1>2, <1>3 DEF DiscoveryRow, Statuses
<1>6. /\ row.status = "new" /\ row.score = score /\ row.tier = tier /\ row.topic = topic
      /\ row.deduped = deduped
  BY <1>3
<1> QED
  BY <1>1, <1>4, <1>5, <1>6 DEF RowSound

WithStatus(row, status) == [row EXCEPT !.status = status]
WithScore(row, score) == [row EXCEPT !.score = score]
WithTier(row, tier) == [row EXCEPT !.tier = tier]
WithForced(row, forced) == [row EXCEPT !.forced = forced]

\* A row changed in one field, in terms of its fields.
LEMMA FieldSet ==
    ASSUME NEW row \in DiscoveryRow
    PROVE  /\ \A x \in Statuses : /\ WithStatus(row, x) \in DiscoveryRow
                                  /\ WithStatus(row, x).status = x
                                  /\ WithStatus(row, x).score = row.score
                                  /\ WithStatus(row, x).tier = row.tier
                                  /\ WithStatus(row, x).topic = row.topic
                                  /\ WithStatus(row, x).deduped = row.deduped
                                  /\ WithStatus(row, x).forced = row.forced
           /\ \A x \in Int : /\ WithScore(row, x) \in DiscoveryRow
                             /\ WithScore(row, x).status = row.status
                             /\ WithScore(row, x).score = x
                             /\ WithScore(row, x).topic = row.topic
                             /\ WithScore(row, x).deduped = row.deduped
                             /\ WithScore(row, x).forced = row.forced
           /\ \A x \in Tiers : /\ WithTier(row, x) \in DiscoveryRow
                               /\ WithTier(row, x).status = row.status
                               /\ WithTier(row, x).score = row.score
                               /\ WithTier(row, x).tier = x
                               /\ WithTier(row, x).topic = row.topic
                               /\ WithTier(row, x).deduped = row.deduped
                               /\ WithTier(row, x).forced = row.forced
           /\ \A x \in BOOLEAN : /\ WithForced(row, x) \in DiscoveryRow
                                 /\ WithForced(row, x).status = row.status
                                 /\ WithForced(row, x).score = row.score
                                 /\ WithForced(row, x).tier = row.tier
                                 /\ WithForced(row, x).topic = row.topic
                                 /\ WithForced(row, x).deduped = row.deduped
                                 /\ WithForced(row, x).forced = x
<1>1. \A x \in Statuses : /\ WithStatus(row, x) \in DiscoveryRow
                          /\ WithStatus(row, x).status = x
                          /\ WithStatus(row, x).score = row.score
                          /\ WithStatus(row, x).tier = row.tier
                          /\ WithStatus(row, x).topic = row.topic
                          /\ WithStatus(row, x).deduped = row.deduped
                          /\ WithStatus(row, x).forced = row.forced
  BY DEF WithStatus, DiscoveryRow
<1>2. \A x \in Int : /\ WithScore(row, x) \in DiscoveryRow
                     /\ WithScore(row, x).status = row.status
                     /\ WithScore(row, x).score = x
                     /\ WithScore(row, x).topic = row.topic
                     /\ WithScore(row, x).deduped = row.deduped
                     /\ WithScore(row, x).forced = row.forced
  BY DEF WithScore, DiscoveryRow
<1>3. \A x \in Tiers : /\ WithTier(row, x) \in DiscoveryRow
                       /\ WithTier(row, x).status = row.status
                       /\ WithTier(row, x).score = row.score
                       /\ WithTier(row, x).tier = x
                       /\ WithTier(row, x).topic = row.topic
                       /\ WithTier(row, x).deduped = row.deduped
                       /\ WithTier(row, x).forced = row.forced
  BY DEF WithTier, DiscoveryRow
<1>4. \A x \in BOOLEAN : /\ WithForced(row, x) \in DiscoveryRow
                         /\ WithForced(row, x).status = row.status
                         /\ WithForced(row, x).score = row.score
                         /\ WithForced(row, x).tier = row.tier
                         /\ WithForced(row, x).topic = row.topic
                         /\ WithForced(row, x).deduped = row.deduped
                         /\ WithForced(row, x).forced = x
  BY DEF WithForced, DiscoveryRow
<1> QED
  BY <1>1, <1>2, <1>3, <1>4

\* One row, new or rewritten, with the event that tells its status.
RowWritten(d, row) ==
    /\ discovery' = [discovery EXCEPT ![d] = row]
    /\ told' = [told EXCEPT ![d] = row.status]
    /\ day' = day

LEMMA RewrittenKeeps ==
    ASSUME RowsInv, NEW d \in Submitted, NEW row, RowWritten(d, row), RowSound(row),
           row.status # "none", row.topic = discovery[d].topic, row.deduped = discovery[d].deduped
    PROVE  RowsInv' /\ Submitted' = Submitted
<1>1. /\ d \in Discoveries /\ DOMAIN discovery' = Discoveries /\ DOMAIN told' = Discoveries
      /\ discovery'[d] = row /\ told'[d] = row.status /\ day' = day
      /\ \A e \in Discoveries : e # d => discovery'[e] = discovery[e] /\ told'[e] = told[e]
  BY DEF RowsInv, RowWritten, Submitted
<1>2. Submitted' = Submitted
  BY <1>1 DEF Submitted
<1>3. EventsTellStatus'
  BY <1>1, <1>2 DEF RowsInv, EventsTellStatus, Submitted
<1>4. NoTwins'
  <2>1. \A e \in Submitted : discovery'[e].topic = discovery[e].topic /\ discovery'[e].deduped = discovery[e].deduped
    BY <1>1 DEF Submitted
  <2> QED
    BY <1>2, <2>1 DEF RowsInv, NoTwins
<1> QED
  BY <1>1, <1>2, <1>3, <1>4 DEF RowsInv

LEMMA SubmittedKeeps ==
    ASSUME RowsInv, NEW d \in NextId, NEW row, RowWritten(d, row), RowSound(row),
           row.status = "new", row.deduped => Alike(row.topic) = {}
    PROVE  RowsInv'
<1>1. /\ d \in Discoveries /\ d \notin Submitted /\ \A e \in Discoveries \ Submitted : d <= e
      /\ Discoveries \subseteq Nat
  BY DiscoveryAssumption DEF NextId
<1>2. /\ DOMAIN discovery' = Discoveries /\ DOMAIN told' = Discoveries
      /\ discovery'[d] = row /\ told'[d] = row.status /\ day' = day
      /\ \A e \in Discoveries : e # d => discovery'[e] = discovery[e] /\ told'[e] = told[e]
  BY <1>1 DEF RowsInv, RowWritten
<1>3. Submitted' = Submitted \cup {d}
  BY <1>1, <1>2 DEF Submitted
<1>4. \A e \in Submitted : e \in Discoveries /\ e < d
  <2> SUFFICES ASSUME NEW e \in Submitted PROVE e \in Discoveries /\ e < d
    OBVIOUS
  <2>1. e \in Discoveries /\ e # d
    BY <1>1 DEF Submitted
  <2>2. ~(d < e)
    BY <1>1 DEF RowsInv
  <2> QED
    BY <1>1, <2>1, <2>2
<1>5. \A f \in Submitted', e \in Discoveries : e < f => e \in Submitted'
  <2> SUFFICES ASSUME NEW f \in Submitted', NEW e \in Discoveries, e < f PROVE e \in Submitted'
    OBVIOUS
  <2>1. CASE f = d
    BY <1>1, <1>3, <2>1
  <2>2. CASE f \in Submitted
    BY <1>3, <2>2 DEF RowsInv
  <2> QED
    BY <1>3, <2>1, <2>2
<1>6. EventsTellStatus'
  BY <1>1, <1>2, <1>3, <1>4 DEF RowsInv, EventsTellStatus
<1>7. NoTwins'
  <2> SUFFICES ASSUME NEW e \in Submitted', NEW f \in Submitted', e < f, discovery'[f].deduped
               PROVE  discovery'[e].topic # discovery'[f].topic
    BY DEF NoTwins
  <2>1. CASE f = d
    <3>1. e \in Submitted /\ discovery'[e] = discovery[e]
      BY <1>1, <1>2, <1>3, <1>4, <2>1
    <3> QED
      BY <1>2, <2>1, <3>1 DEF Alike
  <2>2. CASE f \in Submitted
    <3>1. f \in Nat /\ f < d /\ d \in Nat
      BY <1>1, <1>4, <2>2
    <3>2. e # d
      BY <3>1
    <3>3. e \in Submitted
      BY <1>3, <3>2
    <3> QED
      BY <1>1, <1>2, <1>4, <2>2, <3>3, ZenonT(60) DEF RowsInv, NoTwins
  <2> QED
    BY <1>3, <2>1, <2>2
<1> QED
  BY <1>2, <1>5, <1>6, <1>7 DEF RowsInv

\* Scores and tiers of several rows change together, and statuses none.
LEMMA RescoredKeeps ==
    ASSUME RowsInv, DOMAIN discovery' = Discoveries, UNCHANGED <<told, day>>,
           \A d \in Discoveries :
               /\ RowSound(discovery'[d]) /\ discovery'[d].status = discovery[d].status
               /\ discovery'[d].topic = discovery[d].topic
               /\ discovery'[d].deduped = discovery[d].deduped
    PROVE  RowsInv'
<1>1. Submitted' = Submitted
  BY DEF Submitted
<1>2. \A e \in Submitted : e \in Discoveries
  BY DEF Submitted
<1>3. EventsTellStatus'
  BY <1>1, <1>2 DEF RowsInv, EventsTellStatus
<1>4. NoTwins'
  BY <1>1, <1>2 DEF RowsInv, NoTwins
<1> QED
  BY <1>1, <1>3, <1>4 DEF RowsInv

\* A commit leaves no open transaction that is not stale.
LEMMA CommittedRequests ==
    ASSUME RequestsInv, NEW done, request' = Committed(done)
    PROVE  RequestsInv'
<1>1. "stale" \in DOMAIN NoRequest
  BY DEF NoRequest
<1>2. DOMAIN request' = Scouts
  BY DEF Committed
<1>3. ASSUME NEW p \in Scouts
      PROVE  "stale" \in DOMAIN request'[p] /\ (request'[p] = NoRequest \/ request'[p].stale)
  <2>1. CASE p \in done \/ request[p] = NoRequest
    BY <1>1, <2>1 DEF Committed
  <2>2. CASE ~(p \in done \/ request[p] = NoRequest)
    <3>1. PICK q : q = request[p]
      OBVIOUS
    <3>2. request'[p] = [q EXCEPT !.stale = TRUE] /\ "stale" \in DOMAIN q
      BY <2>2, <3>1 DEF Committed, RequestsInv
    <3> QED
      BY <3>2
  <2> QED
    BY <2>1, <2>2
<1> QED
  BY <1>2, <1>3 DEF RequestsInv

\* What was asked stays asked while no row changes.
LEMMA AskedStays ==
    ASSUME NEW q, Asked(q), \A d \in Discoveries : discovery'[d] = discovery[d]
    PROVE  Asked(q)'
<1>1. Submitted' = Submitted /\ \A t : Alike(t)' = Alike(t)
  BY DEF Submitted, Alike
<1> QED
  BY <1>1 DEF Asked, Submitted

\* Transactions begin, or end without a write.
LEMMA RequestsStay ==
    ASSUME RequestsInv, \A d \in Discoveries : discovery'[d] = discovery[d], DOMAIN request' = Scouts,
           \A p \in Scouts : \/ request'[p] \in {request[p], NoRequest}
                             \/ "stale" \in DOMAIN request'[p] /\ Asked(request'[p])
    PROVE  RequestsInv'
<1>1. "stale" \in DOMAIN NoRequest
  BY DEF NoRequest
<1>2. ASSUME NEW p \in Scouts, NEW q, q = request'[p]
      PROVE  "stale" \in DOMAIN q /\ (q = NoRequest \/ q.stale \/ Asked(q)')
  BY <1>1, <1>2, AskedStays DEF RequestsInv
<1>3. ASSUME NEW p \in Scouts
      PROVE  ("stale" \in DOMAIN request[p] /\ (request[p] = NoRequest \/ request[p].stale \/ Asked(request[p])))'
  <2>1. PICK q : q = request'[p]
    OBVIOUS
  <2>2. Asked(q)' => Asked(request[p])'
    BY <2>1 DEF Asked, Submitted, Alike
  <2> QED
    BY <1>2, <2>1, <2>2
<1> QED
  BY <1>3 DEF RequestsInv

AsksFor(q, op, id, score, force, topic, rows) ==
    /\ q.op = op /\ q.id = id /\ q.score = score /\ q.force = force /\ q.topic = topic
    /\ DOMAIN q.read = rows /\ "stale" \in DOMAIN q
    /\ \A d \in rows : q.read[d].status = discovery[d].status /\ q.read[d].score = discovery[d].score

LEMMA RequestAsks ==
    ASSUME NEW op, NEW id, NEW score, NEW force, NEW topic, NEW rows
    PROVE  AsksFor(Request(op, id, score, force, topic, rows), op, id, score, force, topic, rows)
<1>1. PICK read : read = [d \in rows |-> [status |-> discovery[d].status, score |-> discovery[d].score]]
  OBVIOUS
<1>2. PICK q : q = [op |-> op, id |-> id, score |-> score, force |-> force, topic |-> topic, stale |-> FALSE,
                    read |-> read]
  OBVIOUS
<1>3. q = Request(op, id, score, force, topic, rows)
  BY <1>1, <1>2 DEF Request
<1>4. /\ DOMAIN read = rows
      /\ \A d \in rows : read[d].status = discovery[d].status /\ read[d].score = discovery[d].score
  BY <1>1
<1>5. /\ q.op = op /\ q.id = id /\ q.score = score /\ q.force = force /\ q.topic = topic
      /\ q.read = read /\ "stale" \in DOMAIN q
  BY <1>2
<1> QED
  BY <1>3, <1>4, <1>5, Zenon DEF AsksFor

\* What a transaction that begins now asks.
LEMMA AskedNow ==
    ASSUME RowsInv, NEW q \in Askable
    PROVE  Asked(q) /\ q # NoRequest /\ "stale" \in DOMAIN q
<1>1. NoRequest.op = "none" /\ \A s \in Scores : s \in Int
  BY DiscoveryAssumption DEF NoRequest
<1>2. ASSUME NEW op \in {"score", "promote", "dismiss", "decay", "dedup"}, NEW id, NEW score \in Int,
             NEW force \in BOOLEAN, NEW topic, NEW rows, rows \subseteq Submitted,
             AsksFor(q, op, id, score, force, topic, rows),
             op \in {"score", "promote", "dismiss"} => rows = {id},
             op = "decay" => \A d \in rows : discovery[d].status \notin Closed,
             op = "dedup" => topic \in Topics /\ rows = Alike(topic)
      PROVE  Asked(q) /\ q # NoRequest /\ "stale" \in DOMAIN q
  <2>1. q # NoRequest /\ "stale" \in DOMAIN q
    BY <1>1, <1>2 DEF AsksFor
  <2>2. q.score \in Int /\ q.force \in BOOLEAN /\ DOMAIN q.read = rows
    BY <1>2, Zenon DEF AsksFor
  <2>3. /\ q.op = op /\ q.id = id /\ q.topic = topic
        /\ \A d \in rows : q.read[d].status = discovery[d].status /\ q.read[d].score = discovery[d].score
    BY <1>2 DEF AsksFor
  <2> QED
    BY <1>2, <2>1, <2>2, <2>3, Zenon DEF Asked
<1>3. 0 \in Int /\ FALSE \in BOOLEAN
  OBVIOUS
<1>4. ASSUME NEW d \in Submitted, q \in AskOne(d)
      PROVE  Asked(q) /\ q # NoRequest /\ "stale" \in DOMAIN q
  <2>1. ASSUME NEW op \in {"score", "promote", "dismiss"}, NEW score \in Int, NEW force \in BOOLEAN,
               q = Request(op, d, score, force, "none", {d})
        PROVE  Asked(q) /\ q # NoRequest /\ "stale" \in DOMAIN q
    <3>1. AsksFor(q, op, d, score, force, "none", {d})
      BY <2>1, RequestAsks, Zenon
    <3>2. {d} \subseteq Submitted /\ op # "decay" /\ op # "dedup"
      BY <1>4, <2>1
    <3>3. op \in {"score", "promote", "dismiss", "decay", "dedup"}
      BY <2>1
    <3> QED
      BY <1>2, <2>1, <3>1, <3>2, <3>3, ZenonT(40)
  <2>2. ASSUME NEW score \in Scores, q = Request("score", d, score, FALSE, "none", {d})
        PROVE  Asked(q) /\ q # NoRequest /\ "stale" \in DOMAIN q
    BY <1>1, <1>3, <2>1, <2>2, Zenon
  <2>3. ASSUME NEW force \in BOOLEAN, q = Request("promote", d, 0, force, "none", {d})
        PROVE  Asked(q) /\ q # NoRequest /\ "stale" \in DOMAIN q
    BY <1>3, <2>1, <2>3, Zenon
  <2>4. CASE q = Request("dismiss", d, 0, FALSE, "none", {d})
    BY <1>3, <2>1, <2>4, Zenon
  <2> QED
    BY <1>4, <2>2, <2>3, <2>4, Zenon DEF AskOne
<1>5. CASE q \in AskAll
  <2>1. CASE q = Request("decay", 0, 0, FALSE, "none", Decaying)
    <3>1. Decaying \subseteq Submitted /\ \A d \in Decaying : discovery[d].status \notin Closed
      BY DEF Decaying
    <3>2. AsksFor(q, "decay", 0, 0, FALSE, "none", Decaying)
      BY <2>1, RequestAsks, Zenon
    <3> QED
      BY <1>2, <1>3, <3>1, <3>2
  <2>2. ASSUME NEW score \in Scores, NEW topic \in Topics,
               q = Request("dedup", 0, score, FALSE, topic, Alike(topic))
        PROVE  Asked(q) /\ q # NoRequest /\ "stale" \in DOMAIN q
    <3>1. Alike(topic) \subseteq Submitted
      BY DEF Alike
    <3>2. AsksFor(q, "dedup", 0, score, FALSE, topic, Alike(topic))
      BY <2>2, RequestAsks, Zenon
    <3> QED
      BY <1>1, <1>2, <1>3, <2>2, <3>1, <3>2
  <2>3. \/ q = Request("decay", 0, 0, FALSE, "none", Decaying)
        \/ \E score \in Scores, topic \in Topics : q = Request("dedup", 0, score, FALSE, topic, Alike(topic))
    <3> DEFINE Dedup(score, topic) == Request("dedup", 0, score, FALSE, topic, Alike(topic))
               All == Request("decay", 0, 0, FALSE, "none", Decaying)
    <3>1. AskAll = {All} \cup {Dedup(score, topic) : score \in Scores, topic \in Topics}
      BY DEF AskAll
    <3> HIDE DEF Dedup, All
    <3>2. q = All \/ \E score \in Scores, topic \in Topics : q = Dedup(score, topic)
      BY <1>5, <3>1
    <3> QED
      BY <3>2 DEF Dedup, All
  <2> QED
    BY <2>1, <2>2, <2>3, Zenon
<1> QED
  BY <1>4, <1>5 DEF Askable

\* What a step of a command comes to.
Keeps == RowsInv' /\ RequestsInv' /\ UNCHANGED <<signals, bound>> /\ DismissedForGood

\* A decision on one row, read before, is written with its event.
LEMMA WritesKeep ==
    ASSUME DiscoveryInv, NEW d \in Submitted, NEW row, NEW done, WriteStatus(d, row, done),
           RowSound(row), row.status # "none",
           row.topic = discovery[d].topic, row.deduped = discovery[d].deduped,
           discovery[d].status = "dismissed" => row.status = "dismissed"
    PROVE  Keeps
<1>1. RowWritten(d, row) /\ request' = Committed(done) /\ UNCHANGED <<signals, bound>>
  BY DEF WriteStatus, EmitEvent, RowWritten
<1>2. RowsInv'
  BY <1>1, RewrittenKeeps DEF DiscoveryInv
<1>3. RequestsInv'
  BY <1>1, CommittedRequests DEF DiscoveryInv
<1>4. DismissedForGood
  BY <1>1 DEF DismissedForGood, RowWritten, DiscoveryInv, RowsInv, Submitted
<1> QED
  BY <1>1, <1>2, <1>3, <1>4 DEF Keeps

LEMMA RefusedKeeps ==
    ASSUME DiscoveryInv, NEW done, Refused(done)
    PROVE  Keeps
<1>1. RowsInv'
  BY DEF Refused, DiscoveryInv, RowsInv, Submitted, EventsTellStatus, NoTwins
<1>2. RequestsInv'
  BY RequestsStay DEF Refused, DiscoveryInv
<1>3. DismissedForGood
  BY DEF Refused, DismissedForGood
<1> QED
  BY <1>1, <1>2, <1>3 DEF Refused, Keeps

LEMMA ScoreKeeps ==
    ASSUME DiscoveryInv, NEW q, Asked(q), NEW done, Score(q, done)
    PROVE  Keeps
<1>1. CASE ~MayScore(q.read[q.id])
  BY <1>1, RefusedKeeps DEF Score
<1>2. CASE MayScore(q.read[q.id])
  <2> DEFINE old == discovery[q.id]
  <2>1. q.op = "score" /\ DOMAIN q.read = {q.id} /\ q.score \in Int
    BY DEF Score, Asked
  <2>2. q.id \in Submitted /\ q.read[q.id].status = old.status
    BY <2>1 DEF Asked
  <2>3. old.status \notin Closed
    BY <1>2, <2>2 DEF MayScore
  <2>4. old \in DiscoveryRow
    BY <2>2 DEF DiscoveryInv, RowsInv, RowSound, Submitted
  <2>5. PICK row : row = [old EXCEPT !.status = "scored", !.score = q.score, !.tier = TierFromScore(q.score)]
    OBVIOUS
  <2>6. WriteStatus(q.id, row, done)
    BY <1>2, <2>5 DEF Score
  <2>7. PICK r1 : r1 = WithStatus(old, "scored")
    OBVIOUS
  <2>8. /\ r1 \in DiscoveryRow /\ r1.status = "scored" /\ r1.topic = old.topic /\ r1.deduped = old.deduped
    BY <2>4, <2>7, FieldSet DEF Statuses
  <2>9. PICK r2 : r2 = WithScore(r1, q.score)
    OBVIOUS
  <2>10. /\ r2 \in DiscoveryRow /\ r2.status = "scored" /\ r2.score = q.score
         /\ r2.topic = old.topic /\ r2.deduped = old.deduped
    BY <2>1, <2>8, <2>9, FieldSet
  <2>11. row = WithTier(r2, TierFromScore(q.score))
    BY <2>5, <2>7, <2>9 DEF WithStatus, WithScore, WithTier
  <2>12. /\ row \in DiscoveryRow /\ row.status = "scored" /\ row.score = q.score
         /\ row.tier = TierFromScore(q.score)
         /\ row.topic = old.topic /\ row.deduped = old.deduped
    BY <2>10, <2>11, FieldSet, TierKnown
  <2>13. RowSound(row)
    BY <2>12 DEF RowSound
  <2>14. old.status # "dismissed"
    BY <2>3 DEF Closed
  <2> QED
    BY <2>2, <2>6, <2>12, <2>13, <2>14, WritesKeep
<1> QED
  BY <1>1, <1>2

LEMMA PromoteKeeps ==
    ASSUME DiscoveryInv, NEW q, Asked(q), NEW done, Promote(q, done)
    PROVE  Keeps
<1>1. CASE ~MayPromote(q.read[q.id], q.force)
  BY <1>1, RefusedKeeps DEF Promote
<1>2. CASE MayPromote(q.read[q.id], q.force)
  <2> DEFINE old == discovery[q.id]
  <2>1. q.op = "promote" /\ DOMAIN q.read = {q.id}
    BY DEF Promote, Asked
  <2>2. q.id \in Submitted /\ q.read[q.id].status = old.status /\ q.read[q.id].score = old.score
    BY <2>1 DEF Asked
  <2>3. old.status \notin Closed /\ (q.force \/ old.score >= 50)
    BY <1>2, <2>2 DEF MayPromote
  <2>4. RowSound(old) /\ old \in DiscoveryRow /\ old.status # "none"
    BY <2>2 DEF DiscoveryInv, RowsInv, RowSound, Submitted
  <2>5. PICK row : row = [old EXCEPT !.status = "promoted", !.forced = q.force]
    OBVIOUS
  <2>6. WriteStatus(q.id, row, done)
    BY <1>2, <2>5 DEF Promote
  <2>7. PICK r1 : r1 = WithStatus(old, "promoted")
    OBVIOUS
  <2>8. /\ r1 \in DiscoveryRow /\ r1.status = "promoted" /\ r1.score = old.score /\ r1.tier = old.tier
        /\ r1.topic = old.topic /\ r1.deduped = old.deduped
    BY <2>4, <2>7, FieldSet DEF Statuses, Closed
  <2>9. row = WithForced(r1, q.force)
    BY <2>5, <2>7 DEF WithStatus, WithForced
  <2>10. q.force \in BOOLEAN
    BY DEF Asked
  <2>11. /\ row \in DiscoveryRow /\ row.status = "promoted" /\ row.score = old.score /\ row.tier = old.tier
         /\ row.topic = old.topic /\ row.deduped = old.deduped
    BY <2>8, <2>9, <2>10, FieldSet
  <2>12. row.forced = q.force
    BY <2>8, <2>9, <2>10, FieldSet, Zenon
  <2>13. old.tier = TierFromScore(old.score) /\ old.score \in Int
    BY <2>4, RowFields DEF RowSound
  <2>14. ~row.forced => row.tier \in {"medium", "high"}
    BY <2>3, <2>11, <2>12, <2>13 DEF TierFromScore
  <2>15. RowSound(row)
    BY <2>11, <2>13, <2>14 DEF RowSound
  <2>16. old.status # "dismissed"
    BY <2>3 DEF Closed
  <2> QED
    BY <2>2, <2>6, <2>11, <2>15, <2>16, WritesKeep
<1> QED
  BY <1>1, <1>2

LEMMA DismissKeeps ==
    ASSUME DiscoveryInv, NEW q, Asked(q), NEW done, Dismiss(q, done)
    PROVE  Keeps
<1>1. CASE q.read[q.id].status = "dismissed"
  BY <1>1, RefusedKeeps DEF Dismiss
<1>2. CASE q.read[q.id].status # "dismissed"
  <2> DEFINE old == discovery[q.id]
  <2>1. q.op = "dismiss" /\ DOMAIN q.read = {q.id}
    BY DEF Dismiss, Asked
  <2>2. q.id \in Submitted
    BY <2>1 DEF Asked
  <2>3. RowSound(old) /\ old \in DiscoveryRow /\ old.status # "none"
    BY <2>2 DEF DiscoveryInv, RowsInv, RowSound, Submitted
  <2>4. PICK row : row = WithStatus(old, "dismissed")
    OBVIOUS
  <2>5. WriteStatus(q.id, row, done)
    BY <1>2, <2>4 DEF Dismiss, WithStatus
  <2>6. /\ row \in DiscoveryRow /\ row.status = "dismissed" /\ row.score = old.score /\ row.tier = old.tier
        /\ row.topic = old.topic /\ row.deduped = old.deduped
    BY <2>3, <2>4, FieldSet DEF Statuses, Closed
  <2>7. RowSound(row)
    BY <2>3, <2>6 DEF RowSound
  <2> QED
    BY <2>2, <2>5, <2>6, <2>7, WritesKeep
<1> QED
  BY <1>1, <1>2

LEMMA DecayKeeps ==
    ASSUME DiscoveryInv, NEW q, Asked(q), NEW done, Decay(q, done)
    PROVE  Keeps
<1>1. CASE q.read = <<>>
  BY <1>1, RefusedKeeps DEF Decay
<1>2. CASE q.read # <<>>
  <2> DEFINE Lower(d) == Decayed(q.read[d].score)
             Weakened(d) == [discovery[d] EXCEPT !.score = Lower(d), !.tier = TierFromScore(Lower(d))]
  <2>1. /\ discovery' = [d \in Discoveries |-> IF d \notin DOMAIN q.read THEN discovery[d] ELSE Weakened(d)]
        /\ request' = Committed(done) /\ UNCHANGED <<told, signals, bound, day>>
    BY <1>2 DEF Decay
  <2>2. q.op = "decay" /\ DOMAIN q.read \subseteq Submitted
    BY DEF Decay, Asked
  <2>3. ASSUME NEW d \in Discoveries
        PROVE  /\ RowSound(discovery'[d]) /\ discovery'[d].status = discovery[d].status
               /\ discovery'[d].topic = discovery[d].topic
               /\ discovery'[d].deduped = discovery[d].deduped
    <3>1. RowSound(discovery[d]) /\ discovery[d] \in DiscoveryRow
      BY DEF DiscoveryInv, RowsInv, RowSound
    <3>2. CASE d \notin DOMAIN q.read
      BY <2>1, <3>1, <3>2
    <3>3. CASE d \in DOMAIN q.read
      <4>1. PICK old : old = discovery[d]
        OBVIOUS
      <4>2. PICK score : score = Lower(d)
        OBVIOUS
      <4>3. q.read[d].score = old.score /\ old.score \in Int /\ old.status \notin Closed /\ old \in DiscoveryRow
        BY <2>2, <3>1, <3>3, <4>1, RowFields DEF Asked
      <4>4. score \in Int
        BY <4>2, <4>3, DiscoveryAssumption DEF Decayed
      <4>5. PICK r1 : r1 = WithScore(old, score)
        OBVIOUS
      <4>6. /\ r1 \in DiscoveryRow /\ r1.score = score /\ r1.status = old.status
            /\ r1.topic = old.topic /\ r1.deduped = old.deduped
        BY <4>3, <4>4, <4>5, FieldSet
      <4>7. PICK r2 : r2 = WithTier(r1, TierFromScore(score))
        OBVIOUS
      <4>8. /\ r2 \in DiscoveryRow /\ r2.score = score /\ r2.status = old.status
            /\ r2.tier = TierFromScore(score) /\ r2.topic = old.topic /\ r2.deduped = old.deduped
        BY <4>6, <4>7, FieldSet, TierKnown
      <4>9. discovery'[d] = Weakened(d)
        BY <2>1, <3>3
      <4>10. r2 = Weakened(d)
        BY <4>1, <4>2, <4>5, <4>7 DEF WithScore, WithTier
      <4>11. r2.status # "promoted"
        BY <4>3, <4>8 DEF Closed
      <4>12. RowSound(r2)
        BY <4>8, <4>11 DEF RowSound
      <4> QED
        BY <4>1, <4>8, <4>9, <4>10, <4>12
    <3> QED
      BY <3>2, <3>3
  <2>4. DOMAIN discovery' = Discoveries
    BY <2>1
  <2>5. RowsInv'
    BY <2>1, <2>3, <2>4, RescoredKeeps DEF DiscoveryInv
  <2>6. RequestsInv'
    BY <2>1, CommittedRequests DEF DiscoveryInv
  <2>7. DismissedForGood
    BY <2>3 DEF DismissedForGood
  <2> QED
    BY <2>1, <2>5, <2>6, <2>7 DEF Keeps
<1> QED
  BY <1>1, <1>2

LEMMA SubmitKeeps ==
    ASSUME DiscoveryInv, NEW d \in NextId, NEW score \in Int, NEW topic \in Topics,
           NEW deduped \in BOOLEAN, deduped => Alike(topic) = {},
           discovery' = [discovery EXCEPT ![d] = NewRow(score, topic, deduped)],
           EmitEvent(d, "new"), NEW done, request' = Committed(done), UNCHANGED <<signals, bound, day>>
    PROVE  Keeps
<1>1. PICK row : row = NewRow(score, topic, deduped)
  OBVIOUS
<1>2. day \in Nat
  BY DEF DiscoveryInv, RowsInv
<1>3. RowSound(row) /\ row.status = "new" /\ row.topic = topic
  BY <1>1, <1>2, NewRowSound
<1>4. row.deduped = deduped
  BY <1>1, <1>2, NewRowSound, Zenon
<1>5. RowWritten(d, row)
  BY <1>1, <1>3 DEF RowWritten, EmitEvent
<1>6. row.deduped => Alike(row.topic) = {}
  BY <1>3, <1>4
<1>7. RowsInv'
  BY <1>3, <1>5, <1>6, SubmittedKeeps DEF DiscoveryInv
<1>8. RequestsInv'
  BY CommittedRequests DEF DiscoveryInv
<1>9. DismissedForGood
  <2>1. discovery[d].status = "none" /\ DOMAIN discovery = Discoveries
    BY DEF NextId, Submitted, DiscoveryInv, RowsInv
  <2> QED
    BY <1>5, <2>1 DEF DismissedForGood, RowWritten
<1> QED
  BY <1>7, <1>8, <1>9 DEF Keeps

LEMMA DedupKeeps ==
    ASSUME DiscoveryInv, NEW q, Asked(q), NEW done, SubmitWithDedup(q, done)
    PROVE  Keeps
<1>1. q.op = "dedup" /\ request' = Committed(done) /\ UNCHANGED <<signals, bound, day>>
  BY DEF SubmitWithDedup
<1>2. q.topic \in Topics /\ q.score \in Int /\ DOMAIN q.read = Alike(q.topic)
  BY <1>1 DEF Asked
<1>3. CASE q.read # <<>>
  <2>1. discovery' = discovery /\ told' = told
    BY <1>3 DEF SubmitWithDedup
  <2>2. RowsInv'
    BY <1>1, <2>1 DEF DiscoveryInv, RowsInv, Submitted, EventsTellStatus, NoTwins
  <2>3. RequestsInv'
    BY <1>1, CommittedRequests DEF DiscoveryInv
  <2> QED
    BY <1>1, <2>1, <2>2, <2>3 DEF Keeps, DismissedForGood
<1>4. CASE q.read = <<>>
  <2>1. Alike(q.topic) = {}
    BY <1>2, <1>4
  <2>2. PICK d \in NextId : /\ discovery' = [discovery EXCEPT ![d] = NewRow(q.score, q.topic, TRUE)]
                            /\ EmitEvent(d, "new")
    BY <1>4 DEF SubmitWithDedup
  <2> QED
    BY <1>1, <1>2, <2>1, <2>2, SubmitKeeps
<1> QED
  BY <1>3, <1>4

LEMMA AnswerKeeps ==
    ASSUME DiscoveryInv, NEW q, Asked(q), NEW done, Answer(q, done)
    PROVE  Keeps
BY ScoreKeeps, PromoteKeeps, DismissKeeps, DecayKeeps, DedupKeeps DEF Answer

LEMMA RollbackKeeps ==
    ASSUME DiscoveryInv, NEW since, RollbackSource(since)
    PROVE  Keeps
<1> DEFINE rows == {d \in Submitted : discovery[d].status \notin Closed /\ discovery[d].day >= since}
<1>1. /\ discovery' = [d \in Discoveries |->
                          IF d \in rows THEN [discovery[d] EXCEPT !.status = "dismissed"] ELSE discovery[d]]
      /\ told' = [d \in Discoveries |-> IF d \in rows THEN "dismissed" ELSE told[d]]
      /\ request' = IF rows = {} THEN request ELSE Committed({})
      /\ UNCHANGED <<signals, bound, day>>
  BY DEF RollbackSource, RolledBackTold
<1>2. rows \subseteq Submitted /\ \A d \in rows : d \in Discoveries
  BY DEF Submitted
<1> HIDE DEF rows
<1>3. ASSUME NEW d \in Discoveries
      PROVE  /\ RowSound(discovery'[d]) /\ discovery'[d].topic = discovery[d].topic
             /\ discovery'[d].deduped = discovery[d].deduped
             /\ d \in rows => discovery'[d].status = "dismissed"
             /\ d \notin rows => discovery'[d] = discovery[d]
  <2>1. RowSound(discovery[d]) /\ discovery[d] \in DiscoveryRow
    BY DEF DiscoveryInv, RowsInv, RowSound
  <2>2. CASE d \notin rows
    BY <1>1, <2>1, <2>2
  <2>3. CASE d \in rows
    <3>1. PICK row : row = WithStatus(discovery[d], "dismissed")
      OBVIOUS
    <3>2. discovery'[d] = row
      BY <1>1, <2>3, <3>1 DEF WithStatus
    <3>3. /\ row \in DiscoveryRow /\ row.status = "dismissed" /\ row.tier = discovery[d].tier
          /\ row.score = discovery[d].score /\ row.topic = discovery[d].topic
          /\ row.deduped = discovery[d].deduped
      BY <2>1, <3>1, FieldSet DEF Statuses, Closed
    <3>4. discovery[d].status # "none"
      BY <1>2, <2>3 DEF Submitted
    <3>5. RowSound(row)
      BY <2>1, <3>3, <3>4 DEF RowSound
    <3> QED
      BY <2>3, <3>2, <3>3, <3>5
  <2> QED
    BY <2>2, <2>3
<1>4. Submitted' = Submitted
  <2>1. \A d \in Discoveries : discovery'[d].status # "none" <=> discovery[d].status # "none"
    BY <1>2, <1>3 DEF Submitted
  <2> QED
    BY <2>1 DEF Submitted
<1>5. EventsTellStatus'
  BY <1>1, <1>3, <1>4 DEF DiscoveryInv, RowsInv, EventsTellStatus, Submitted
<1>6. NoTwins'
  BY <1>3, <1>4 DEF DiscoveryInv, RowsInv, NoTwins, Submitted
<1>7. RowsInv'
  BY <1>1, <1>3, <1>4, <1>5, <1>6 DEF DiscoveryInv, RowsInv
<1>8. RequestsInv'
  <2>1. CASE rows = {}
    BY <1>1, <1>3, <2>1, RequestsStay DEF DiscoveryInv, RequestsInv
  <2>2. CASE rows # {}
    BY <1>1, <2>2, CommittedRequests DEF DiscoveryInv
  <2> QED
    BY <2>1, <2>2
<1>9. DismissedForGood
  BY <1>3 DEF DismissedForGood
<1> QED
  BY <1>1, <1>7, <1>8, <1>9 DEF Keeps

\* A feedback key that is free is bound to the signal made for it.
LEMMA FeedbackKeeps ==
    ASSUME DiscoveryInv, NEW d \in Submitted, NEW k \in FeedbackKeys, FeedbackOnce(d, k)
    PROVE  DiscoveryInv' /\ DismissedForGood
<1>1. PICK new : new = [discovery |-> d, key |-> k]
  OBVIOUS
<1>2. PICK row : row = [discovery |-> d, signal |-> Len(signals) + 1]
  OBVIOUS
<1>3. new \in Signal /\ new.discovery = d /\ new.key = k
  BY <1>1 DEF Signal, Submitted
<1>4. /\ signals' = Append(signals, new) /\ bound' = [bound EXCEPT ![k] = row]
      /\ request' = Committed({}) /\ UNCHANGED <<discovery, told, day>> /\ bound[k] = NotBound
  BY <1>1, <1>2 DEF FeedbackOnce, Reserved
<1>5. /\ signals' \in Seq(Signal) /\ Len(signals') = Len(signals) + 1
      /\ signals'[Len(signals) + 1] = new /\ Len(signals) \in Nat
      /\ \A i \in 1 .. Len(signals) : signals'[i] = signals[i]
  BY <1>3, <1>4 DEF DiscoveryInv, SignalsInv
<1>6. ASSUME NEW i \in 1 .. Len(signals)
      PROVE  signals[i].key # k
  <2>1. bound[signals[i].key] = [discovery |-> signals[i].discovery, signal |-> i]
    BY <1>6 DEF DiscoveryInv, SignalsInv, FeedbackOncePerKey
  <2>2. NotBound.signal = 0
    BY DEF NotBound
  <2>3. bound[signals[i].key].signal = i /\ i # 0
    BY <2>1, <1>6
  <2> QED
    BY <1>4, <2>2, <2>3
<1>7. FeedbackOncePerKey'
  <2> SUFFICES ASSUME NEW i \in DOMAIN signals'
               PROVE  bound'[signals'[i].key] = [discovery |-> signals'[i].discovery, signal |-> i]
    BY DEF FeedbackOncePerKey
  <2>1. CASE i = Len(signals) + 1
    BY <1>2, <1>3, <1>4, <1>5, <2>1 DEF DiscoveryInv, SignalsInv
  <2>2. CASE i \in 1 .. Len(signals)
    <3>1. signals'[i] = signals[i] /\ signals[i].key # k
      BY <1>5, <1>6, <2>2
    <3>2. bound'[signals[i].key] = bound[signals[i].key]
      BY <1>4, <3>1
    <3>3. bound[signals[i].key] = [discovery |-> signals[i].discovery, signal |-> i]
      BY <2>2 DEF DiscoveryInv, SignalsInv, FeedbackOncePerKey
    <3> QED
      BY <3>1, <3>2, <3>3, Zenon
  <2> QED
    BY <1>5, <2>1, <2>2
<1>8. SignalsInv'
  BY <1>4, <1>5, <1>7 DEF DiscoveryInv, SignalsInv
<1>9. RowsInv'
  BY <1>4 DEF DiscoveryInv, RowsInv, Submitted, EventsTellStatus, NoTwins
<1>10. RequestsInv'
  BY <1>4, CommittedRequests DEF DiscoveryInv
<1> QED
  BY <1>4, <1>8, <1>9, <1>10 DEF DiscoveryInv, DismissedForGood

LEMMA DiscoveryInvInit == DiscoveryInit => DiscoveryInv
<1> SUFFICES ASSUME DiscoveryInit PROVE DiscoveryInv
  OBVIOUS
<1>1. PICK row : row = NoDiscovery
  OBVIOUS
<1>2. row.status = "none" /\ row \in DiscoveryRow
  BY <1>1 DEF NoDiscovery, DiscoveryRow, Statuses, Tiers
<1>3. RowSound(row)
  BY <1>2 DEF RowSound
<1>4. discovery = [d \in Discoveries |-> row] /\ Submitted = {}
  BY <1>1, <1>2 DEF DiscoveryInit, Submitted
<1>5. RowsInv
  BY <1>3, <1>4 DEF DiscoveryInit, RowsInv, EventsTellStatus, NoTwins
<1>6. RequestsInv
  BY DEF DiscoveryInit, RequestsInv, NoRequest
<1>7. SignalsInv
  BY DEF DiscoveryInit, SignalsInv, FeedbackOncePerKey
<1> QED
  BY <1>5, <1>6, <1>7 DEF DiscoveryInv

LEMMA DiscoveryInvStep ==
    DiscoveryInv /\ [DiscoveryNext]_discoveryVars => DiscoveryInv' /\ DismissedForGood
<1> SUFFICES ASSUME DiscoveryInv, [DiscoveryNext]_discoveryVars PROVE DiscoveryInv' /\ DismissedForGood
  OBVIOUS
<1>1. Keeps => DiscoveryInv' /\ DismissedForGood
  BY DEF Keeps, DiscoveryInv, SignalsInv, FeedbackOncePerKey
<1>2. CASE Submit
  <2>1. PICK d \in NextId, score \in Scores, topic \in Topics :
            /\ discovery' = [discovery EXCEPT ![d] = NewRow(score, topic, FALSE)]
            /\ EmitEvent(d, "new")
    BY <1>2 DEF Submit
  <2>2. request' = Committed({}) /\ UNCHANGED <<signals, bound, day>>
    BY <1>2 DEF Submit
  <2>3. score \in Int
    BY DiscoveryAssumption
  <2> QED
    BY <1>1, <2>1, <2>2, <2>3, SubmitKeeps
<1>3. CASE AtOnce
  <2>1. PICK q \in Askable : Answer(q, {})
    BY <1>3 DEF AtOnce
  <2> QED
    BY <1>1, <2>1, AskedNow, AnswerKeeps DEF DiscoveryInv
<1>4. ASSUME NEW p \in Scouts, Commit(p)
      PROVE  DiscoveryInv' /\ DismissedForGood
  <2>1. Asked(request[p]) /\ Answer(request[p], {p})
    BY <1>4 DEF Commit, Fresh, DiscoveryInv, RequestsInv
  <2> QED
    BY <1>1, <2>1, AnswerKeeps
<1>5. ASSUME NEW p \in Scouts, Open(p)
      PROVE  DiscoveryInv' /\ DismissedForGood
  <2>1. PICK asked \in Askable : request' = [request EXCEPT ![p] = asked]
    BY <1>5 DEF Open
  <2>2. UNCHANGED <<discovery, told, signals, bound, day>>
    BY <1>5 DEF Open
  <2>3. Asked(asked) /\ "stale" \in DOMAIN asked
    BY <2>1, AskedNow DEF DiscoveryInv
  <2>4. DOMAIN request' = Scouts /\ \A r \in Scouts : request'[r] = IF r = p THEN asked ELSE request[r]
    BY <2>1 DEF DiscoveryInv, RequestsInv
  <2>5. RequestsInv'
    BY <2>2, <2>3, <2>4, RequestsStay DEF DiscoveryInv
  <2>6. RowsInv'
    BY <2>2 DEF DiscoveryInv, RowsInv, Submitted, EventsTellStatus, NoTwins
  <2> QED
    BY <2>2, <2>5, <2>6 DEF DiscoveryInv, SignalsInv, FeedbackOncePerKey, DismissedForGood
<1>6. ASSUME NEW p \in Scouts, RequestFails(p)
      PROVE  DiscoveryInv' /\ DismissedForGood
  <2>1. /\ request' = [request EXCEPT ![p] = NoRequest]
        /\ UNCHANGED <<discovery, told, signals, bound, day>>
    BY <1>6 DEF RequestFails
  <2>2. RequestsInv'
    BY <2>1, RequestsStay DEF DiscoveryInv, RequestsInv
  <2>3. RowsInv'
    BY <2>1 DEF DiscoveryInv, RowsInv, Submitted, EventsTellStatus, NoTwins
  <2> QED
    BY <2>1, <2>2, <2>3 DEF DiscoveryInv, SignalsInv, FeedbackOncePerKey, DismissedForGood
<1>7. ASSUME NEW since \in 1 .. LastDay, RollbackSource(since)
      PROVE  DiscoveryInv' /\ DismissedForGood
  BY <1>1, <1>7, RollbackKeeps
<1>8. ASSUME NEW d \in Submitted, NEW k \in FeedbackKeys, FeedbackOnce(d, k)
      PROVE  DiscoveryInv' /\ DismissedForGood
  BY <1>8, FeedbackKeeps
<1>9. CASE NextDay \/ UNCHANGED discoveryVars
  <2>1. UNCHANGED <<discovery, told, signals, bound, request>> /\ (day' = day + 1 \/ day' = day)
    BY <1>9 DEF NextDay, discoveryVars
  <2>2. RowsInv'
    BY <2>1 DEF DiscoveryInv, RowsInv, Submitted, EventsTellStatus, NoTwins
  <2>3. RequestsInv'
    BY <2>1, RequestsStay DEF DiscoveryInv, RequestsInv
  <2> QED
    BY <2>1, <2>2, <2>3 DEF DiscoveryInv, SignalsInv, FeedbackOncePerKey, DismissedForGood
<1> QED
  BY <1>2, <1>3, <1>4, <1>5, <1>6, <1>7, <1>8, <1>9 DEF DiscoveryNext

(* Decisions and evidence on discoveries agree: what is promoted unforced is *)
(* worth it, what was dismissed stays so, the last event tells the status,   *)
(* a deduplicated submit makes no twin and a key stands for one signal,      *)
(* because a transaction that may still write has read the rows as they are. *)
THEOREM DiscoveriesStaySound == DiscoverySpec => DiscoverySound
<1>1. DiscoveryInv => PromotedWorthIt /\ EventsTellStatus /\ NoTwins /\ FeedbackOncePerKey
  BY DEF DiscoveryInv, RowsInv, RowSound, SignalsInv, PromotedWorthIt
<1> QED
  BY <1>1, DiscoveryInvInit, DiscoveryInvStep, PTL DEF DiscoverySpec, DiscoverySound

=============================================================================
