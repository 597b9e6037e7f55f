------------------------------ MODULE WorkProofs ------------------------------
(***************************************************************************)
(* What the scheduler counts: the slots of an agent are those its workers  *)
(* hold, so that the caps hold through ramp-up, cooldown and recovery, and *)
(* a pause that nobody asked for belongs to a backoff that is going to     *)
(* end.  And where its jobs are: what the queue, the maps and the workers'  *)
(* hands hold of a job goes with its status, so that no job is in two      *)
(* places or ends twice.                                                   *)
(*                                                                         *)
(* What a chain of retries has paid for: every rung was bought with        *)
(* strikes that failures earned, each counted once, whatever calls of      *)
(* RetryWithEscalation overlap or are killed; and while none does, each    *)
(* attempt is retried once and no rung is taken again.                     *)
(*                                                                         *)
(* What a route answers: floors, contracts, the producer's separation and  *)
(* trust zones hold for every policy that can be configured.               *)
(***************************************************************************)
EXTENDS Scheduler, Escalation, Routing, FiniteSetTheorems, SequenceTheorems, WellFoundedInduction,
        TLAPS

(* The counts do not depend on what the queue holds: a worker's job and    *)
(* scan may be anything here.                                              *)
WorkerRecord(r) == r = [at |-> r.at, job |-> r.job, rest |-> r.rest, result |-> r.result]

TypedCaps(c) ==
    /\ c = [slots |-> c.slots, cap |-> c.cap, begun |-> c.begun, cooling |-> c.cooling,
            aged |-> c.aged, recoveries |-> c.recoveries]
    /\ c.slots \in [AgentTypes -> Nat] /\ c.cap \in [AgentTypes -> Nat]
    /\ \A a \in AgentTypes : c.cap[a] \in 1 .. CapOf[a].max

CapsTyped == TypedCaps(ac)

Life == [started : BOOLEAN, ctxDone : BOOLEAN, paused : BOOLEAN, held : BOOLEAN]

CountsTyped ==
    /\ CapsTyped
    /\ bo \in [failures : Nat, active : BOOLEAN, timers : Nat]
    /\ life \in Life
    /\ DOMAIN worker = Workers /\ worker = [w \in Workers |-> worker[w]]
    /\ \A w \in Workers : WorkerRecord(worker[w])

(* The workers run from Start until Stop returns, and Start replaces none. *)
RunningSinceStart == ~life.started => AllGone

Holders(a) == {w \in Workers : HasSlot(w) /\ Agent(worker[w].job) = a}

CountsInv == CountsTyped /\ RunningSinceStart /\ SlotsExact /\ CapsHold /\ PauseExplained

LEMMA HoldersFinite ==
    ASSUME NEW a
    PROVE  /\ IsFiniteSet(Holders(a)) /\ Cardinality(Holders(a)) \in Nat
           /\ Cardinality(Holders(a)) <= Cardinality(Workers)
<1>1. IsFiniteSet(Workers) /\ Holders(a) \in SUBSET Workers
  BY SchedulerAssumption DEF Holders
<1> QED
  BY <1>1, FS_Subset, FS_CardinalityType

-----------------------------------------------------------------------------
(* Counting slots.                                                         *)

Slots(slots) == UNION {{a} \X (1 .. slots[a]) : a \in AgentTypes}

LEMMA SlotsFinite ==
    ASSUME CountsTyped, SlotsExact
    PROVE  IsFiniteSet(Slots(ac.slots)) /\ Cardinality(Slots(ac.slots)) \in Nat
<1> DEFINE n == Cardinality(Workers)
<1>1. n \in Nat
  BY SchedulerAssumption, FS_CardinalityType
<1>2. \A a \in AgentTypes : ac.slots[a] \in Nat /\ ac.slots[a] <= n
  <2> SUFFICES ASSUME NEW a \in AgentTypes PROVE ac.slots[a] \in Nat /\ ac.slots[a] <= n
    OBVIOUS
  <2>1. ac.slots[a] = Cardinality(Holders(a))
    BY DEF SlotsExact, Holders
  <2> QED
    BY <2>1, HoldersFinite
<1>3. IsFiniteSet(1 .. n)
  BY <1>1, FS_Interval
<1>4. IsFiniteSet(AgentTypes \X (1 .. n))
  BY <1>3, SchedulerAssumption, FS_Product
<1> HIDE DEF n
<1>5. ASSUME NEW x \in Slots(ac.slots) PROVE x \in AgentTypes \X (1 .. n)
  <2>1. PICK a \in AgentTypes : x \in {a} \X (1 .. ac.slots[a])
    BY <1>5 DEF Slots
  <2>2. \A k \in 1 .. ac.slots[a] : k \in 1 .. n
    BY <1>1, <1>2
  <2> QED
    BY <2>1, <2>2
<1> QED
  BY <1>4, <1>5, FS_Subset, FS_CardinalityType

(* One slot more, of one agent, is one more in all.                        *)
LEMMA OneSlotMore ==
    ASSUME CountsTyped, SlotsExact, NEW a \in AgentTypes
    PROVE  Cardinality(Slots([ac.slots EXCEPT ![a] = @ + 1])) = Cardinality(Slots(ac.slots)) + 1
<1> DEFINE more == [ac.slots EXCEPT ![a] = @ + 1]
           new == <<a, ac.slots[a] + 1>>
<1>1. ac.slots \in [AgentTypes -> Nat] /\ more \in [AgentTypes -> Nat]
  BY DEF CountsTyped, CapsTyped, TypedCaps
<1>2. more[a] = ac.slots[a] + 1 /\ \A b \in AgentTypes \ {a} : more[b] = ac.slots[b]
  BY <1>1
<1> HIDE DEF more
<1>3. \A b \in AgentTypes : \A k : k \in 1 .. more[b] <=>
          k \in 1 .. ac.slots[b] \/ (b = a /\ k = ac.slots[a] + 1)
  BY <1>1, <1>2
<1>4. \A x : x \in Slots(more) <=>
          \E b \in AgentTypes : \E k \in 1 .. more[b] : x = <<b, k>>
  BY DEF Slots
<1>5. \A x : x \in Slots(ac.slots) <=>
          \E b \in AgentTypes : \E k \in 1 .. ac.slots[b] : x = <<b, k>>
  BY DEF Slots
<1>6. Slots(more) = Slots(ac.slots) \cup {new}
  BY <1>1, <1>2, <1>3, <1>4, <1>5
<1>7. new \notin Slots(ac.slots)
  BY <1>1, <1>5
<1> HIDE DEF new
<1> QED
  BY <1>6, <1>7, SlotsFinite, FS_AddElement DEF more

-----------------------------------------------------------------------------
(* The operations on the caps.                                             *)

LEMMA MaxPositive ==
    \A a \in AgentTypes : CapOf[a].max \in Nat \ {0} /\ CapOf[a].reduction \in Nat
BY SchedulerAssumption

LEMMA NamesDiffer == "" \notin AgentTypes
BY SchedulerAssumption

LEMMA RampWithin ==
    ASSUME CapsTyped, NEW a \in AgentTypes, NEW cap \in RampedCaps(a)
    PROVE  cap \in 1 .. CapOf[a].max
<1>1. ac.cap[a] \in 1 .. CapOf[a].max /\ CapOf[a].max \in Nat
  BY MaxPositive DEF CapsTyped, TypedCaps
<1>2. cap = ac.cap[a] \/ cap \in ac.cap[a] .. CapOf[a].max
  BY DEF RampedCaps
<1> HIDE DEF RampedCaps
<1> QED
  BY <1>1, <1>2

(* An update of one agent's entry; one of a name without a cap is none.    *)
LEMMA EntrySet ==
    ASSUME NEW f, f \in [AgentTypes -> Nat], NEW a, NEW v, a \in AgentTypes => v \in Nat
    PROVE  /\ [f EXCEPT ![a] = v] \in [AgentTypes -> Nat]
           /\ a \notin AgentTypes => [f EXCEPT ![a] = v] = f
           /\ \A b \in AgentTypes : [f EXCEPT ![a] = v][b] = IF b = a THEN v ELSE f[b]
OBVIOUS

LEMMA CapSet ==
    ASSUME NEW c, TypedCaps(c), NEW a, NEW v, a \in AgentTypes => v \in 1 .. CapOf[a].max
    PROVE  /\ [c.cap EXCEPT ![a] = v] \in [AgentTypes -> Nat]
           /\ \A b \in AgentTypes : [c.cap EXCEPT ![a] = v][b] \in 1 .. CapOf[b].max
<1>1. a \in AgentTypes => v \in Nat
  BY MaxPositive
<1>2. c.cap \in [AgentTypes -> Nat] /\ \A b \in AgentTypes : c.cap[b] \in 1 .. CapOf[b].max
  BY DEF TypedCaps
<1>3. /\ [c.cap EXCEPT ![a] = v] \in [AgentTypes -> Nat]
      /\ \A b \in AgentTypes : [c.cap EXCEPT ![a] = v][b] = IF b = a THEN v ELSE c.cap[b]
  BY <1>1, <1>2, EntrySet
<1> QED
  BY <1>2, <1>3

LEMMA AcquireAdds ==
    ASSUME CapsTyped, NEW a, CapAcquire(a)
    PROVE  /\ CapsTyped'
           /\ a \notin AgentTypes => ac'.slots = ac.slots
           /\ a \in AgentTypes =>
                /\ ac'.slots = [ac.slots EXCEPT ![a] = @ + 1]
                /\ ac.slots[a] < CapOf[a].max
                /\ GlobalMax > 0 => ~(SlotsTaken >= GlobalMax)
<1>1. CASE a = ""
  BY <1>1, SchedulerAssumption DEF CapAcquire, CapsTyped
<1>2. CASE a # ""
  <2>1. PICK cap \in RampedCaps(a) :
           /\ ~AtCapacity(a, cap)
           /\ ac' = [ac EXCEPT !.cap[a] = cap, !.slots[a] = @ + 1, !.begun = @ \cup {a}]
    BY <1>2 DEF CapAcquire
  <2> DEFINE caps == [ac.cap EXCEPT ![a] = cap]
             slots == [ac.slots EXCEPT ![a] = @ + 1]
             begun == ac.begun \cup {a}
  <2>2. ac' = [slots |-> slots, cap |-> caps, begun |-> begun, cooling |-> ac.cooling,
               aged |-> ac.aged, recoveries |-> ac.recoveries]
    BY <2>1 DEF CapsTyped, TypedCaps
  <2>3. caps \in [AgentTypes -> Nat] /\ \A b \in AgentTypes : caps[b] \in 1 .. CapOf[b].max
    BY RampWithin, CapSet DEF CapsTyped
  <2>4. slots \in [AgentTypes -> Nat] /\ (a \notin AgentTypes => slots = ac.slots)
    <3>1. ac.slots \in [AgentTypes -> Nat]
      BY DEF CapsTyped, TypedCaps
    <3>2. a \in AgentTypes => ac.slots[a] + 1 \in Nat
      BY <3>1
    <3> QED
      BY <3>1, <3>2, EntrySet
  <2>5. a \in AgentTypes => ac.slots[a] < CapOf[a].max
    <3> SUFFICES ASSUME a \in AgentTypes PROVE ac.slots[a] < CapOf[a].max
      OBVIOUS
    <3>1. ac.slots[a] \in Nat /\ CapOf[a].max \in Nat
      BY MaxPositive DEF CapsTyped, TypedCaps
    <3>2. cap \in 1 .. CapOf[a].max /\ ~(ac.slots[a] >= cap)
      BY <2>1, RampWithin DEF AtCapacity
    <3> QED
      BY <3>1, <3>2
  <2>6. GlobalMax > 0 => ~(SlotsTaken >= GlobalMax)
    BY <2>1 DEF AtCapacity
  <2> HIDE DEF slots, caps, begun
  <2>7. CapsTyped' /\ ac'.slots = slots
    BY <2>2, <2>3, <2>4 DEF CapsTyped, TypedCaps
  <2> QED
    BY <2>4, <2>5, <2>6, <2>7 DEF slots
<1> QED
  BY <1>1, <1>2

LEMMA MissKeeps ==
    ASSUME CapsTyped, NEW a, CapMiss(a)
    PROVE  CapsTyped' /\ ac'.slots = ac.slots
<1>1. PICK cap \in RampedCaps(a) : ac' = [ac EXCEPT !.cap[a] = cap]
  BY DEF CapMiss
<1> DEFINE caps == [ac.cap EXCEPT ![a] = cap]
<1>2. ac' = [slots |-> ac.slots, cap |-> caps, begun |-> ac.begun, cooling |-> ac.cooling,
             aged |-> ac.aged, recoveries |-> ac.recoveries]
  BY <1>1 DEF CapsTyped, TypedCaps
<1>3. caps \in [AgentTypes -> Nat] /\ \A b \in AgentTypes : caps[b] \in 1 .. CapOf[b].max
  BY RampWithin, CapSet DEF CapsTyped
<1> HIDE DEF caps
<1> QED
  BY <1>2, <1>3 DEF CapsTyped, TypedCaps

LEMMA RecordedKeeps ==
    ASSUME CapsTyped, NEW a
    PROVE  /\ TypedCaps(FailureRecorded(ac, a)) /\ FailureRecorded(ac, a).slots = ac.slots
           /\ TypedCaps(SuccessRecorded(ac, a)) /\ SuccessRecorded(ac, a).slots = ac.slots
<1>1. TypedCaps(SuccessRecorded(ac, a)) /\ SuccessRecorded(ac, a).slots = ac.slots
  <2>1. CASE a \in ac.cooling
    <3>1. SuccessRecorded(ac, a) =
            [slots |-> ac.slots, cap |-> ac.cap, begun |-> ac.begun, cooling |-> ac.cooling,
             aged |-> ac.aged \cup {a}, recoveries |-> ac.recoveries]
      BY <2>1 DEF SuccessRecorded, CapsTyped, TypedCaps
    <3> QED
      BY <3>1 DEF CapsTyped, TypedCaps
  <2>2. CASE a \notin ac.cooling
    BY <2>2 DEF SuccessRecorded, CapsTyped
  <2> QED
    BY <2>1, <2>2
<1>2. TypedCaps(FailureRecorded(ac, a)) /\ FailureRecorded(ac, a).slots = ac.slots
  <2>1. CASE a = "" \/ ~CapOf[a].cooldown
    BY <2>1 DEF FailureRecorded, CapsTyped
  <2>2. CASE ~(a = "" \/ ~CapOf[a].cooldown)
    <3> DEFINE caps == [ac.cap EXCEPT ![a] = IF @ > 1 THEN Larger(@ - CapOf[a].reduction, 1) ELSE @]
               recoveries == [ac.recoveries EXCEPT ![a] = @ + 1]
    <3>1. FailureRecorded(ac, a) =
            [slots |-> ac.slots, cap |-> caps, begun |-> ac.begun, cooling |-> ac.cooling \cup {a},
             aged |-> ac.aged \ {a}, recoveries |-> recoveries]
      BY <2>2 DEF FailureRecorded, CapsTyped, TypedCaps
    <3>2. caps \in [AgentTypes -> Nat] /\ \A b \in AgentTypes : caps[b] \in 1 .. CapOf[b].max
      <4> DEFINE shrunk == IF ac.cap[a] > 1 THEN Larger(ac.cap[a] - CapOf[a].reduction, 1)
                           ELSE ac.cap[a]
      <4>1. ASSUME a \in AgentTypes PROVE shrunk \in 1 .. CapOf[a].max
        <5>1. ac.cap[a] \in 1 .. CapOf[a].max /\ CapOf[a].max \in Nat /\ CapOf[a].reduction \in Nat
          BY <4>1, MaxPositive DEF CapsTyped, TypedCaps
        <5> QED
          BY <5>1 DEF Larger
      <4> HIDE DEF shrunk
      <4>2. caps = [ac.cap EXCEPT ![a] = shrunk]
        BY DEF shrunk
      <4> QED
        BY <4>1, <4>2, CapSet DEF CapsTyped
    <3> HIDE DEF caps, recoveries
    <3> QED
      BY <3>1, <3>2 DEF CapsTyped, TypedCaps
  <2> QED
    BY <2>1, <2>2
<1> QED
  BY <1>1, <1>2

(* A slot given back is one that was counted.                              *)
LEMMA ReleaseTakes ==
    ASSUME CapsTyped, NEW c, TypedCaps(c), c.slots = ac.slots, NEW a,
           a \in AgentTypes => ac.slots[a] > 0
    PROVE  /\ TypedCaps(SlotReleased(c, a))
           /\ a \notin AgentTypes => SlotReleased(c, a).slots = ac.slots
           /\ a \in AgentTypes => SlotReleased(c, a).slots = [ac.slots EXCEPT ![a] = @ - 1]
<1>1. CASE a = "" \/ c.slots[a] = 0
  <2>1. SlotReleased(c, a) = c
    BY <1>1 DEF SlotReleased
  <2>2. a \notin AgentTypes
    <3>1. a \in AgentTypes => a # ""
      BY NamesDiffer
    <3>2. a \in AgentTypes => ac.slots[a] # 0
      BY DEF CapsTyped, TypedCaps
    <3> QED
      BY <1>1, <3>1, <3>2
  <2> QED
    BY <2>1, <2>2
<1>2. CASE ~(a = "" \/ c.slots[a] = 0)
  <2> DEFINE slots == [ac.slots EXCEPT ![a] = @ - 1]
  <2>1. SlotReleased(c, a) =
          [slots |-> slots, cap |-> c.cap, begun |-> c.begun, cooling |-> c.cooling,
           aged |-> c.aged, recoveries |-> c.recoveries]
    BY <1>2 DEF SlotReleased, TypedCaps
  <2>2. slots \in [AgentTypes -> Nat] /\ (a \notin AgentTypes => slots = ac.slots)
    <3>1. ac.slots \in [AgentTypes -> Nat]
      BY DEF CapsTyped, TypedCaps
    <3>2. a \in AgentTypes => ac.slots[a] - 1 \in Nat
      BY <3>1
    <3> QED
      BY <3>1, <3>2, EntrySet
  <2> HIDE DEF slots
  <2>3. TypedCaps(SlotReleased(c, a)) /\ SlotReleased(c, a).slots = slots
    BY <2>1, <2>2 DEF TypedCaps
  <2> QED
    BY <2>2, <2>3 DEF slots
<1> QED
  BY <1>1, <1>2

-----------------------------------------------------------------------------
(* A worker moves on, taking a slot, keeping what it has or giving it back. *)

SlotPlaces == {"claim", "limit", "run", "ran"}

Moves(w, r) == w \in Workers /\ WorkerRecord(r) /\ worker' = [worker EXCEPT ![w] = r]

LEMMA WorkersStayTyped ==
    ASSUME CountsTyped, NEW w, NEW r, Moves(w, r)
    PROVE  /\ DOMAIN worker' = Workers /\ worker' = [v \in Workers |-> worker'[v]]
           /\ \A v \in Workers : WorkerRecord(worker'[v])
           /\ worker'[w] = r /\ \A v \in Workers \ {w} : worker'[v] = worker[v]
<1>1. DOMAIN worker = Workers /\ worker = [v \in Workers |-> worker[v]]
      /\ \A v \in Workers : WorkerRecord(worker[v])
  BY DEF CountsTyped
<1>2. w \in Workers /\ WorkerRecord(r) /\ worker' = [worker EXCEPT ![w] = r]
  BY DEF Moves
<1>3. worker'[w] = r /\ \A v \in Workers \ {w} : worker'[v] = worker[v]
  BY <1>1, <1>2
<1>4. DOMAIN worker' = Workers /\ worker' = [v \in Workers |-> worker'[v]]
  BY <1>1, <1>2
<1>5. \A v \in Workers : WorkerRecord(worker'[v])
  BY <1>1, <1>2, <1>3
<1> QED
  BY <1>3, <1>4, <1>5

LEMMA HoldersMove ==
    ASSUME CountsTyped, NEW w, NEW r, Moves(w, r), NEW a
    PROVE  Holders(a)' = (Holders(a) \ {w}) \cup
                           IF r.at \in SlotPlaces /\ Agent(r.job) = a THEN {w} ELSE {}
<1>1. w \in Workers /\ worker'[w] = r /\ \A v \in Workers \ {w} : worker'[v] = worker[v]
  BY WorkersStayTyped DEF Moves
<1>2. \A v : v \in Holders(a)' <=>
          v \in Workers /\ worker'[v].at \in SlotPlaces /\ Agent(worker'[v].job) = a
  BY DEF Holders, HasSlot, SlotPlaces, Agent
<1>3. \A v : v \in Holders(a) <=>
          v \in Workers /\ worker[v].at \in SlotPlaces /\ Agent(worker[v].job) = a
  BY DEF Holders, HasSlot, SlotPlaces
<1> QED
  BY <1>1, <1>2, <1>3

LEMMA SlotsCount ==
    /\ SlotsExact <=> \A a \in AgentTypes : ac.slots[a] = Cardinality(Holders(a))
    /\ SlotsExact' <=> \A a \in AgentTypes : ac'.slots[a] = Cardinality(Holders(a)')
BY DEF SlotsExact, Holders

LEMMA KeepsSlot ==
    ASSUME CountsTyped, SlotsExact, CapsHold, CapsTyped', NEW w, NEW r, Moves(w, r),
           HasSlot(w) <=> r.at \in SlotPlaces,
           HasSlot(w) => Agent(r.job) = Agent(worker[w].job),
           ac'.slots = ac.slots
    PROVE  SlotsExact' /\ CapsHold'
<1>1. \A a : Holders(a)' = Holders(a)
  <2> SUFFICES ASSUME NEW a PROVE Holders(a)' = Holders(a)
    OBVIOUS
  <2>1. Holders(a)' = (Holders(a) \ {w}) \cup
                        IF r.at \in SlotPlaces /\ Agent(r.job) = a THEN {w} ELSE {}
    BY HoldersMove
  <2>2. w \in Holders(a) <=> HasSlot(w) /\ Agent(worker[w].job) = a
    BY DEF Holders, Moves
  <2> QED
    BY <2>1, <2>2
<1>2. SlotsExact'
  BY <1>1, SlotsCount
<1>3. CapsHold'
  BY DEF CapsHold, SlotsTaken, CapsTyped, TypedCaps
<1> QED
  BY <1>2, <1>3

LEMMA GainsSlot ==
    ASSUME CountsTyped, SlotsExact, CapsHold, CapsTyped', NEW w, NEW r, Moves(w, r),
           ~HasSlot(w), r.at \in SlotPlaces, NEW a, a = Agent(r.job),
           a \notin AgentTypes => ac'.slots = ac.slots,
           a \in AgentTypes =>
             /\ ac'.slots = [ac.slots EXCEPT ![a] = @ + 1]
             /\ ac.slots[a] < CapOf[a].max
             /\ GlobalMax > 0 => ~(SlotsTaken >= GlobalMax)
    PROVE  SlotsExact' /\ CapsHold'
<1>1. \A b : b # a => Holders(b)' = Holders(b)
  <2> SUFFICES ASSUME NEW b, b # a PROVE Holders(b)' = Holders(b)
    OBVIOUS
  <2>1. Holders(b)' = (Holders(b) \ {w}) \cup
                        IF r.at \in SlotPlaces /\ Agent(r.job) = b THEN {w} ELSE {}
    BY HoldersMove
  <2>2. w \notin Holders(b)
    BY DEF Holders
  <2> QED
    BY <2>1, <2>2
<1>2. Holders(a)' = Holders(a) \cup {w} /\ w \notin Holders(a)
  <2>1. Holders(a)' = (Holders(a) \ {w}) \cup
                        IF r.at \in SlotPlaces /\ Agent(r.job) = a THEN {w} ELSE {}
    BY HoldersMove
  <2>2. w \notin Holders(a)
    BY DEF Holders
  <2> QED
    BY <2>1, <2>2
<1>3. CASE a \notin AgentTypes
  <2>1. ac'.slots = ac.slots /\ \A b \in AgentTypes : Holders(b)' = Holders(b)
    BY <1>1, <1>3
  <2>2. SlotsExact'
    BY <2>1, SlotsCount
  <2>3. CapsHold'
    BY <2>1 DEF CapsHold, SlotsTaken, CapsTyped, TypedCaps
  <2> QED
    BY <2>2, <2>3
<1>4. CASE a \in AgentTypes
  <2>1. ac.slots \in [AgentTypes -> Nat] /\ ac'.slots = [ac.slots EXCEPT ![a] = @ + 1]
    BY <1>4 DEF CountsTyped, CapsTyped, TypedCaps
  <2>2. ac'.slots[a] = ac.slots[a] + 1 /\ \A b \in AgentTypes \ {a} : ac'.slots[b] = ac.slots[b]
    BY <1>4, <2>1
  <2>3. Cardinality(Holders(a)') = Cardinality(Holders(a)) + 1
    BY <1>2, HoldersFinite, FS_AddElement
  <2>4. SlotsExact'
    BY <1>1, <2>2, <2>3, SlotsCount
  <2>5. \A b \in AgentTypes : ac'.slots[b] <= CapOf[b].max
    <3> SUFFICES ASSUME NEW b \in AgentTypes PROVE ac'.slots[b] <= CapOf[b].max
      OBVIOUS
    <3>1. CASE b # a
      BY <2>2, <3>1 DEF CapsHold
    <3>2. CASE b = a
      <4>1. ac.slots[a] \in Nat /\ CapOf[a].max \in Nat /\ ac.slots[a] < CapOf[a].max
        BY <1>4, <2>1, MaxPositive
      <4> QED
        BY <2>2, <3>2, <4>1
    <3> QED
      BY <3>1, <3>2
  <2>6. SlotsTaken' = SlotsTaken + 1
    BY <1>4, <2>1, OneSlotMore DEF SlotsTaken, Slots
  <2>7. SlotsTaken \in Nat /\ GlobalMax \in Nat
    BY SlotsFinite, SchedulerAssumption DEF SlotsTaken, Slots
  <2>8. GlobalMax > 0 => SlotsTaken' <= GlobalMax
    <3>1. GlobalMax > 0 => ~(SlotsTaken >= GlobalMax)
      BY <1>4
    <3> HIDE DEF SlotsTaken
    <3> QED
      BY <2>6, <2>7, <3>1
  <2>9. \A b \in AgentTypes : ac'.cap[b] \in 1 .. CapOf[b].max
    BY DEF CapsTyped, TypedCaps
  <2> QED
    BY <2>4, <2>5, <2>8, <2>9 DEF CapsHold
<1> QED
  BY <1>3, <1>4

LEMMA DropsSlot ==
    ASSUME CountsTyped, SlotsExact, CapsHold, CapsTyped', NEW w, NEW r, Moves(w, r),
           HasSlot(w), r.at \notin SlotPlaces, NEW a, a = Agent(worker[w].job),
           a \notin AgentTypes => ac'.slots = ac.slots,
           a \in AgentTypes => ac'.slots = [ac.slots EXCEPT ![a] = @ - 1]
    PROVE  SlotsExact' /\ CapsHold'
<1>1. \A b : b # a => Holders(b)' = Holders(b)
  <2> SUFFICES ASSUME NEW b, b # a PROVE Holders(b)' = Holders(b)
    OBVIOUS
  <2>1. Holders(b)' = (Holders(b) \ {w}) \cup
                        IF r.at \in SlotPlaces /\ Agent(r.job) = b THEN {w} ELSE {}
    BY HoldersMove
  <2>2. w \notin Holders(b)
    BY DEF Holders
  <2> QED
    BY <2>1, <2>2
<1>2. Holders(a)' = Holders(a) \ {w} /\ w \in Holders(a)
  <2>1. Holders(a)' = (Holders(a) \ {w}) \cup
                        IF r.at \in SlotPlaces /\ Agent(r.job) = a THEN {w} ELSE {}
    BY HoldersMove
  <2>2. w \in Holders(a)
    BY DEF Holders, Moves
  <2> QED
    BY <2>1, <2>2
<1>3. CASE a \notin AgentTypes
  <2>1. ac'.slots = ac.slots /\ \A b \in AgentTypes : Holders(b)' = Holders(b)
    BY <1>1, <1>3
  <2>2. SlotsExact'
    BY <2>1, SlotsCount
  <2>3. CapsHold'
    BY <2>1 DEF CapsHold, SlotsTaken, CapsTyped, TypedCaps
  <2> QED
    BY <2>2, <2>3
<1>4. CASE a \in AgentTypes
  <2>1. ac.slots \in [AgentTypes -> Nat] /\ ac'.slots = [ac.slots EXCEPT ![a] = @ - 1]
    BY <1>4 DEF CountsTyped, CapsTyped, TypedCaps
  <2>2. ac'.slots[a] = ac.slots[a] - 1 /\ \A b \in AgentTypes \ {a} : ac'.slots[b] = ac.slots[b]
    BY <1>4, <2>1
  <2>3. Cardinality(Holders(a)') = Cardinality(Holders(a)) - 1
    BY <1>2, HoldersFinite, FS_RemoveElement
  <2>4. SlotsExact'
    BY <1>1, <2>2, <2>3, SlotsCount
  <2>5. \A b \in AgentTypes : ac'.slots[b] <= ac.slots[b]
    BY <2>1, <2>2
  <2>6. \A b \in AgentTypes : ac'.slots[b] <= CapOf[b].max
    <3> SUFFICES ASSUME NEW b \in AgentTypes PROVE ac'.slots[b] <= CapOf[b].max
      OBVIOUS
    <3>1. /\ ac'.slots[b] \in Nat /\ ac.slots[b] \in Nat /\ CapOf[b].max \in Nat
          /\ ac.slots[b] <= CapOf[b].max /\ ac'.slots[b] <= ac.slots[b]
      BY <2>1, <2>5, MaxPositive DEF CapsHold, CapsTyped, TypedCaps
    <3> QED
      BY <3>1
  <2>7. Slots(ac'.slots) \subseteq Slots(ac.slots)
    <3>1. ac'.slots \in [AgentTypes -> Nat]
      BY DEF CapsTyped, TypedCaps
    <3> QED
      BY <2>1, <2>5, <3>1 DEF Slots
  <2>8. SlotsTaken' <= SlotsTaken /\ SlotsTaken' \in Nat /\ SlotsTaken \in Nat
    BY <2>7, SlotsFinite, FS_Subset, FS_CardinalityType DEF SlotsTaken, Slots
  <2>9. GlobalMax > 0 => SlotsTaken' <= GlobalMax
    <3>1. GlobalMax \in Nat /\ (GlobalMax > 0 => SlotsTaken <= GlobalMax)
      BY SchedulerAssumption DEF CapsHold
    <3> QED
      BY <2>8, <3>1
  <2>10. \A b \in AgentTypes : ac'.cap[b] \in 1 .. CapOf[b].max
    BY DEF CapsTyped, TypedCaps
  <2> QED
    BY <2>4, <2>6, <2>9, <2>10 DEF CapsHold
<1> QED
  BY <1>3, <1>4

-----------------------------------------------------------------------------
(* What pauses the queue and what resumes it.                              *)

LifeKept ==
    /\ bo' \in [failures : Nat, active : BOOLEAN, timers : Nat]
    /\ life' \in Life /\ life'.started = life.started /\ PauseExplained'

LEMMA LifeStands ==
    ASSUME CountsInv, UNCHANGED <<bo, life>>
    PROVE  LifeKept
BY DEF CountsInv, CountsTyped, LifeKept, PauseExplained

LEMMA ResetKeeps ==
    ASSUME CountsInv, NEW failures \in Nat, NEW timers \in Nat,
           bo' = [failures |-> failures, active |-> FALSE, timers |-> timers],
           life' = IF bo.active THEN QueueResumed(life) ELSE life
    PROVE  LifeKept
<1>1. bo \in [failures : Nat, active : BOOLEAN, timers : Nat] /\ life \in Life /\ PauseExplained
  BY DEF CountsInv, CountsTyped
<1>2. bo' \in [failures : Nat, active : BOOLEAN, timers : Nat]
  OBVIOUS
<1>3. CASE bo.active
  <2>1. life' = [life EXCEPT !.paused = FALSE]
    BY <1>3 DEF QueueResumed
  <2>2. life' \in Life /\ life'.started = life.started
    BY <1>1, <2>1 DEF Life
  <2>3. ~life'.paused
    BY <1>1, <2>1 DEF Life
  <2> QED
    BY <1>2, <2>2, <2>3 DEF LifeKept, PauseExplained
<1>4. CASE ~bo.active
  <2>1. life' = life
    BY <1>4
  <2> QED
    BY <1>1, <1>2, <1>4, <2>1 DEF LifeKept, PauseExplained
<1> QED
  BY <1>1, <1>3, <1>4

LEMMA BackoffResets ==
    ASSUME CountsInv, BackoffReset
    PROVE  LifeKept
<1>1. bo \in [failures : Nat, active : BOOLEAN, timers : Nat]
  BY DEF CountsInv, CountsTyped
<1>2. bo' = [failures |-> 0, active |-> FALSE, timers |-> bo.timers]
  BY <1>1 DEF BackoffReset
<1>3. life' = IF bo.active THEN QueueResumed(life) ELSE life
  BY DEF BackoffReset
<1> QED
  BY <1>1, <1>2, <1>3, ResetKeeps

LEMMA BackoffErrs ==
    ASSUME CountsInv, NEW j, BackoffError(j)
    PROVE  LifeKept
<1> DEFINE failures == IF bo.failures < FailureThreshold THEN bo.failures + 1 ELSE bo.failures
           begins == /\ job[j].retries < BackoffRetries
                     /\ failures >= FailureThreshold /\ ~bo.active
<1>1. bo \in [failures : Nat, active : BOOLEAN, timers : Nat] /\ life \in Life /\ PauseExplained
  BY DEF CountsInv, CountsTyped
<1>2. /\ bo' = [failures |-> failures, active |-> bo.active \/ begins,
                timers |-> IF begins THEN bo.timers + 1 ELSE bo.timers]
      /\ life' = IF begins THEN [life EXCEPT !.paused = TRUE] ELSE life
  BY DEF BackoffError
<1>3. failures \in Nat /\ begins \in BOOLEAN
  BY <1>1
<1> HIDE DEF failures, begins
<1>4. bo' \in [failures : Nat, active : BOOLEAN, timers : Nat]
  BY <1>1, <1>2, <1>3
<1>5. CASE begins
  <2>1. life' = [started |-> life.started, ctxDone |-> life.ctxDone, paused |-> TRUE,
                 held |-> life.held]
    BY <1>1, <1>2, <1>5 DEF Life
  <2>2. life' \in Life /\ life'.started = life.started
    BY <1>1, <2>1 DEF Life
  <2>3. bo'.active
    BY <1>2, <1>5, Zenon
  <2>4. bo'.timers = bo.timers + 1 /\ bo.timers \in Nat
    BY <1>1, <1>2, <1>5
  <2>5. bo'.timers > 0
    BY <2>4
  <2> QED
    BY <1>4, <2>2, <2>3, <2>5 DEF LifeKept, PauseExplained
<1>6. CASE ~begins
  <2>1. life' = life /\ bo'.active = bo.active /\ bo'.timers = bo.timers
    BY <1>1, <1>2, <1>6
  <2> QED
    BY <1>1, <1>4, <2>1 DEF LifeKept, PauseExplained
<1> QED
  BY <1>3, <1>5, <1>6

-----------------------------------------------------------------------------
(* The steps of a worker.                                                  *)

LEMMA WorkerMoved ==
    ASSUME CountsInv, NEW w, NEW r, Moves(w, r), ~WorkerAt(w, "gone"),
           CapsTyped', SlotsExact', CapsHold', LifeKept
    PROVE  CountsInv'
<1>1. life.started
  BY DEF CountsInv, RunningSinceStart, AllGone, Moves
<1>2. RunningSinceStart'
  BY <1>1 DEF LifeKept, RunningSinceStart
<1>3. CountsTyped'
  BY WorkersStayTyped DEF CountsInv, CountsTyped, LifeKept
<1> QED
  BY <1>2, <1>3 DEF CountsInv, LifeKept

LEMMA GotoMoves ==
    ASSUME CountsTyped, NEW w \in Workers, NEW place, WorkerGoto(w, place)
    PROVE  Moves(w, [at |-> place, job |-> worker[w].job, rest |-> worker[w].rest,
                     result |-> worker[w].result])
<1>1. WorkerRecord(worker[w]) /\ DOMAIN worker = Workers /\ worker = [v \in Workers |-> worker[v]]
  BY DEF CountsTyped
<1> DEFINE r == [at |-> place, job |-> worker[w].job, rest |-> worker[w].rest,
                 result |-> worker[w].result]
<1>2. [worker[w] EXCEPT !.at = place] = r
  BY <1>1 DEF WorkerRecord
<1>3. worker' = [worker EXCEPT ![w] = [worker[w] EXCEPT !.at = place]]
  BY <1>1 DEF WorkerGoto
<1> QED
  BY <1>2, <1>3 DEF WorkerRecord, Moves

LEMMA HoldsMoves ==
    ASSUME NEW w \in Workers, NEW j, NEW place, WorkerHolds(w, j, place)
    PROVE  Moves(w, [at |-> place, job |-> j, rest |-> <<>>, result |-> ""])
BY DEF WorkerRecord, WorkerHolds, Moves

LEMMA DoneMoves ==
    ASSUME NEW w \in Workers, WorkerDone(w)
    PROVE  Moves(w, Idling)
BY DEF WorkerRecord, WorkerDone, Moves, Idling

(* A step that leaves the worker's slot, the caps and the backoff alone.   *)
LEMMA QuietStep ==
    ASSUME CountsInv, NEW w, NEW r, Moves(w, r), ~WorkerAt(w, "gone"),
           HasSlot(w) <=> r.at \in SlotPlaces,
           HasSlot(w) => Agent(r.job) = Agent(worker[w].job),
           UNCHANGED <<ac, bo, life>>
    PROVE  CountsInv'
<1>1. CapsTyped' /\ ac'.slots = ac.slots
  BY DEF CountsInv, CountsTyped, CapsTyped
<1>2. SlotsExact' /\ CapsHold'
  BY <1>1, KeepsSlot DEF CountsInv
<1> QED
  BY <1>1, <1>2, LifeStands, WorkerMoved

LEMMA SlotTaken ==
    ASSUME CountsInv, NEW w, NEW r, Moves(w, r), ~WorkerAt(w, "gone"),
           ~HasSlot(w), r.at \in SlotPlaces, CapAcquire(Agent(r.job)), UNCHANGED <<bo, life>>
    PROVE  CountsInv'
<1>1. CapsTyped
  BY DEF CountsInv, CountsTyped
<1>2. /\ CapsTyped'
      /\ Agent(r.job) \notin AgentTypes => ac'.slots = ac.slots
      /\ Agent(r.job) \in AgentTypes =>
           /\ ac'.slots = [ac.slots EXCEPT ![Agent(r.job)] = @ + 1]
           /\ ac.slots[Agent(r.job)] < CapOf[Agent(r.job)].max
           /\ GlobalMax > 0 => ~(SlotsTaken >= GlobalMax)
  BY <1>1, AcquireAdds
<1>3. SlotsExact' /\ CapsHold'
  BY <1>2, GainsSlot DEF CountsInv
<1> QED
  BY <1>2, <1>3, LifeStands, WorkerMoved

LEMMA SlotMissed ==
    ASSUME CountsInv, NEW w, NEW r, Moves(w, r), ~WorkerAt(w, "gone"),
           ~HasSlot(w), r.at \notin SlotPlaces, NEW a, CapMiss(a), UNCHANGED <<bo, life>>
    PROVE  CountsInv'
<1>1. CapsTyped
  BY DEF CountsInv, CountsTyped
<1>2. CapsTyped' /\ ac'.slots = ac.slots
  BY <1>1, MissKeeps
<1>3. SlotsExact' /\ CapsHold'
  BY <1>2, KeepsSlot DEF CountsInv
<1> QED
  BY <1>2, <1>3, LifeStands, WorkerMoved

(* Whatever the end of the job records, its slot is given back once.       *)
LEMMA SlotReturned ==
    ASSUME CountsInv, NEW w, NEW r, Moves(w, r), ~WorkerAt(w, "gone"),
           HasSlot(w), r.at \notin SlotPlaces, NEW c, TypedCaps(c), c.slots = ac.slots,
           ac' = SlotReleased(c, Agent(worker[w].job)), LifeKept
    PROVE  CountsInv'
<1> DEFINE a == Agent(worker[w].job)
<1>1. CapsTyped
  BY DEF CountsInv, CountsTyped
<1>2. w \in Holders(a)
  BY DEF Holders, Moves
<1>3. a \in AgentTypes => ac.slots[a] > 0
  <2>1. a \in AgentTypes => ac.slots[a] = Cardinality(Holders(a))
    BY SlotsCount DEF CountsInv
  <2>2. Cardinality(Holders(a)) \in Nat /\ Cardinality(Holders(a)) # 0
    BY <1>2, HoldersFinite, FS_EmptySet
  <2> QED
    BY <2>1, <2>2
<1> HIDE DEF a
<1>4. /\ TypedCaps(SlotReleased(c, a))
      /\ a \notin AgentTypes => SlotReleased(c, a).slots = ac.slots
      /\ a \in AgentTypes => SlotReleased(c, a).slots = [ac.slots EXCEPT ![a] = @ - 1]
  BY <1>1, <1>3, ReleaseTakes
<1>5. ac' = SlotReleased(c, a)
  BY DEF a
<1>6. TypedCaps(ac') <=> CapsTyped'
  BY DEF CapsTyped, TypedCaps
<1>7. SlotsExact' /\ CapsHold'
  BY <1>4, <1>5, <1>6, DropsSlot DEF CountsInv, a
<1> QED
  BY <1>4, <1>5, <1>6, <1>7, WorkerMoved

-----------------------------------------------------------------------------

LEMMA Untouched ==
    ASSUME CountsInv, UNCHANGED <<ac, worker>>, LifeKept
    PROVE  CountsInv'
<1>1. SlotsExact' /\ CapsHold' /\ CountsTyped'
  BY DEF CountsInv, CountsTyped, CapsTyped, LifeKept, SlotsExact, HasSlot, CapsHold, SlotsTaken
<1>2. RunningSinceStart'
  BY DEF CountsInv, LifeKept, RunningSinceStart, AllGone, WorkerAt
<1> QED
  BY <1>1, <1>2 DEF CountsInv, LifeKept

LEMMA CapsWritten ==
    ASSUME CapsTyped, NEW a \in AgentTypes, NEW v \in 1 .. CapOf[a].max,
           NEW cooling, NEW aged, NEW recoveries,
           ac' = [slots |-> ac.slots, cap |-> [ac.cap EXCEPT ![a] = v], begun |-> ac.begun,
                  cooling |-> cooling, aged |-> aged, recoveries |-> recoveries]
    PROVE  CapsTyped' /\ ac'.slots = ac.slots
<1> DEFINE caps == [ac.cap EXCEPT ![a] = v]
<1>1. caps \in [AgentTypes -> Nat] /\ \A b \in AgentTypes : caps[b] \in 1 .. CapOf[b].max
  BY CapSet DEF CapsTyped
<1> HIDE DEF caps
<1>2. ac' = [slots |-> ac.slots, cap |-> caps, begun |-> ac.begun,
             cooling |-> cooling, aged |-> aged, recoveries |-> recoveries]
  BY DEF caps
<1> QED
  BY <1>1, <1>2 DEF CapsTyped, TypedCaps

LEMMA CooldownCaps ==
    ASSUME CapsTyped, NEW a \in AgentTypes, CooldownTimer(a)
    PROVE  CapsTyped' /\ ac'.slots = ac.slots
<1> DEFINE fewer == [ac.recoveries EXCEPT ![a] = @ - 1]
           fired == [ac EXCEPT !.recoveries[a] = @ - 1]
           cooling == fired.cooling \ {a}
           aged == fired.aged \ {a}
           Over(c) == [c EXCEPT !.cooling = @ \ {a}, !.aged = @ \ {a}]
<1>1. fired = [slots |-> ac.slots, cap |-> ac.cap, begun |-> ac.begun,
               cooling |-> ac.cooling, aged |-> ac.aged, recoveries |-> fewer]
  BY DEF CapsTyped, TypedCaps
<1>2. ac.cap[a] \in 1 .. CapOf[a].max /\ CapOf[a].max \in 1 .. CapOf[a].max
      /\ [ac.cap EXCEPT ![a] = ac.cap[a]] = ac.cap
  BY MaxPositive DEF CapsTyped, TypedCaps
<1>3. \/ ac' = fired
      \/ \E cap \in RampedCaps(a) : ac' = [Over(fired) EXCEPT !.cap[a] = cap]
      \/ ac' = [Over(fired) EXCEPT !.cap[a] = CapOf[a].max]
  BY DEF CooldownTimer
<1> HIDE DEF fewer, fired
<1>4. Over(fired) = [slots |-> ac.slots, cap |-> ac.cap, begun |-> ac.begun,
                     cooling |-> cooling, aged |-> aged, recoveries |-> fewer]
  <2>1. Over(fired) = [fired EXCEPT !.cooling = cooling, !.aged = aged]
    OBVIOUS
  <2> HIDE DEF cooling, aged, Over
  <2> QED
    BY <1>1, <2>1
<1> HIDE DEF cooling, aged, Over
<1>5. ASSUME NEW v \in 1 .. CapOf[a].max, ac' = [Over(fired) EXCEPT !.cap[a] = v]
      PROVE  CapsTyped' /\ ac'.slots = ac.slots
  <2>1. ac' = [slots |-> ac.slots, cap |-> [ac.cap EXCEPT ![a] = v], begun |-> ac.begun,
               cooling |-> cooling, aged |-> aged, recoveries |-> fewer]
    BY <1>4, <1>5
  <2> QED
    BY <2>1, CapsWritten
<1>6. CASE ac' = fired
  <2>1. ac' = [slots |-> ac.slots, cap |-> [ac.cap EXCEPT ![a] = ac.cap[a]], begun |-> ac.begun,
               cooling |-> ac.cooling, aged |-> ac.aged, recoveries |-> fewer]
    BY <1>1, <1>2, <1>6
  <2> QED
    BY <1>2, <2>1, CapsWritten
<1>7. \A cap \in RampedCaps(a) : cap \in 1 .. CapOf[a].max
  BY RampWithin
<1> QED
  BY <1>2, <1>3, <1>5, <1>6, <1>7

LEMMA CooldownKeeps ==
    ASSUME CountsInv, NEW a \in AgentTypes, CooldownTimer(a)
    PROVE  CountsInv'
<1>1. CapsTyped
  BY DEF CountsInv, CountsTyped
<1>2. CapsTyped' /\ ac'.slots = ac.slots
  BY <1>1, CooldownCaps
<1>3. UNCHANGED <<bo, worker, life>>
  BY DEF CooldownTimer
<1>4. \A b \in AgentTypes : ac'.cap[b] \in 1 .. CapOf[b].max
  BY <1>2 DEF CapsTyped, TypedCaps
<1>5. SlotsExact' /\ CapsHold'
  BY <1>2, <1>3, <1>4 DEF CountsInv, SlotsExact, HasSlot, CapsHold, SlotsTaken
<1>6. CountsTyped' /\ RunningSinceStart' /\ PauseExplained'
  BY <1>2, <1>3 DEF CountsInv, CountsTyped, RunningSinceStart, AllGone, WorkerAt, PauseExplained
<1> QED
  BY <1>5, <1>6 DEF CountsInv

-----------------------------------------------------------------------------
(* Fields of a record g set together.                                      *)
WithRest(g, rest) == [g EXCEPT !.rest = rest]
WithJob(g, place, j) == [g EXCEPT !.at = place, !.job = j]
WithNext(g, place, j, rest) == [g EXCEPT !.at = place, !.job = j, !.rest = rest]
WithResult(g, place, result) == [g EXCEPT !.at = place, !.result = result]
WithScan(g, place, rest) == [g EXCEPT !.at = place, !.rest = rest]

RestSet(w, rest) == worker' = [worker EXCEPT ![w].rest = rest]
JobSet(w, place, j) == worker' = [worker EXCEPT ![w].at = place, ![w].job = j]
ResultSet(w, place, result) == worker' = [worker EXCEPT ![w].at = place, ![w].result = result]
NextSet(w, place, j) ==
    worker' = [worker EXCEPT ![w].at = place, ![w].job = j, ![w].rest = Tail(@)]
ScanSet(w, place, rest) ==
    worker' = [worker EXCEPT ![w] = [Idling EXCEPT !.at = place, !.rest = rest]]

LEMMA FieldsSet ==
    ASSUME NEW g, WorkerRecord(g), NEW place, NEW j, NEW rest, NEW result
    PROVE  /\ WithRest(g, rest) =
                [at |-> g.at, job |-> g.job, rest |-> rest, result |-> g.result]
           /\ WithJob(g, place, j) =
                [at |-> place, job |-> j, rest |-> g.rest, result |-> g.result]
           /\ WithNext(g, place, j, rest) =
                [at |-> place, job |-> j, rest |-> rest, result |-> g.result]
           /\ WithResult(g, place, result) =
                [at |-> place, job |-> g.job, rest |-> g.rest, result |-> result]
           /\ WithScan(g, place, rest) =
                [at |-> place, job |-> g.job, rest |-> rest, result |-> g.result]
<1> DEFINE one == [g EXCEPT !.at = place]
           two == [one EXCEPT !.job = j]
<1>1. g = [at |-> g.at, job |-> g.job, rest |-> g.rest, result |-> g.result]
  BY DEF WorkerRecord
<1>2. WithRest(g, rest) =
        [at |-> g.at, job |-> g.job, rest |-> rest, result |-> g.result]
  BY <1>1 DEF WithRest
<1>3. one = [at |-> place, job |-> g.job, rest |-> g.rest, result |-> g.result]
  BY <1>1
<1>4. /\ WithJob(g, place, j) = two
      /\ WithNext(g, place, j, rest) = [two EXCEPT !.rest = rest]
      /\ WithResult(g, place, result) = [one EXCEPT !.result = result]
      /\ WithScan(g, place, rest) = [one EXCEPT !.rest = rest]
  BY DEF WithJob, WithNext, WithResult, WithScan
<1> HIDE DEF one
<1>5. two = [at |-> place, job |-> j, rest |-> g.rest, result |-> g.result]
  BY <1>3
<1> HIDE DEF two
<1>6. [two EXCEPT !.rest = rest] =
        [at |-> place, job |-> j, rest |-> rest, result |-> g.result]
  BY <1>5
<1>7. [one EXCEPT !.result = result] =
        [at |-> place, job |-> g.job, rest |-> g.rest, result |-> result]
  BY <1>3
<1>8. [one EXCEPT !.rest = rest] =
        [at |-> place, job |-> g.job, rest |-> rest, result |-> g.result]
  BY <1>3
<1> QED
  BY <1>2, <1>4, <1>5, <1>6, <1>7, <1>8

LEMMA FieldsMove ==
    ASSUME CountsTyped, NEW w \in Workers, NEW place, NEW j, NEW rest, NEW result
    PROVE  /\ RestSet(w, rest) =>
                Moves(w, [at |-> worker[w].at, job |-> worker[w].job, rest |-> rest,
                          result |-> worker[w].result])
           /\ JobSet(w, place, j) =>
                Moves(w, [at |-> place, job |-> j, rest |-> worker[w].rest,
                          result |-> worker[w].result])
           /\ NextSet(w, place, j) =>
                Moves(w, [at |-> place, job |-> j, rest |-> Tail(worker[w].rest),
                          result |-> worker[w].result])
           /\ ResultSet(w, place, result) =>
                Moves(w, [at |-> place, job |-> worker[w].job, rest |-> worker[w].rest,
                          result |-> result])
           /\ ScanSet(w, place, rest) =>
                Moves(w, [at |-> place, job |-> Idling.job, rest |-> rest,
                          result |-> Idling.result])
<1> DEFINE g == worker[w]
           h == Idling
           left == Tail(g.rest)
<1>1. WorkerRecord(g) /\ WorkerRecord(h)
      /\ DOMAIN worker = Workers /\ worker = [v \in Workers |-> worker[v]]
  BY DEF CountsTyped, WorkerRecord, Idling
<1>2. RestSet(w, rest) => worker' = [worker EXCEPT ![w] = WithRest(g, rest)]
  BY <1>1 DEF RestSet, WithRest
<1>3. JobSet(w, place, j) => worker' = [worker EXCEPT ![w] = WithJob(g, place, j)]
  BY <1>1 DEF JobSet, WithJob
<1>4. NextSet(w, place, j) => worker' = [worker EXCEPT ![w] = WithNext(g, place, j, left)]
  <2> DEFINE once == [worker EXCEPT ![w].at = place, ![w].job = j]
  <2>1. once = [worker EXCEPT ![w] = WithJob(g, place, j)]
    BY <1>1 DEF WithJob
  <2>2. once[w] = WithJob(g, place, j)
    BY <1>1, <2>1
  <2> HIDE DEF once
  <2>3. once[w].rest = g.rest
    <3>1. WithJob(g, place, j) =
            [at |-> place, job |-> j, rest |-> g.rest, result |-> g.result]
      BY <1>1, FieldsSet
    <3> QED
      BY <2>2, <3>1
  <2>4. NextSet(w, place, j) =>
          worker' = [worker EXCEPT ![w].at = place, ![w].job = j, ![w].rest = left]
    BY <2>3 DEF NextSet, once
  <2> HIDE DEF left
  <2> QED
    BY <1>1, <2>4 DEF WithNext
<1>5. ResultSet(w, place, result) => worker' = [worker EXCEPT ![w] = WithResult(g, place, result)]
  BY <1>1 DEF ResultSet, WithResult
<1>6. ScanSet(w, place, rest) => worker' = [worker EXCEPT ![w] = WithScan(h, place, rest)]
  BY DEF ScanSet, WithScan
<1> HIDE DEF g, h, left
<1>7. /\ WithRest(g, rest) = [at |-> g.at, job |-> g.job, rest |-> rest, result |-> g.result]
      /\ WithJob(g, place, j) = [at |-> place, job |-> j, rest |-> g.rest, result |-> g.result]
      /\ WithNext(g, place, j, left) =
           [at |-> place, job |-> j, rest |-> left, result |-> g.result]
      /\ WithResult(g, place, result) =
           [at |-> place, job |-> g.job, rest |-> g.rest, result |-> result]
      /\ WithScan(h, place, rest) =
           [at |-> place, job |-> h.job, rest |-> rest, result |-> h.result]
  BY <1>1, FieldsSet
<1>8. \A x, y, z, u : Moves(w, [at |-> x, job |-> y, rest |-> z, result |-> u]) <=>
                        worker' = [worker EXCEPT ![w] = [at |-> x, job |-> y, rest |-> z, result |-> u]]
  BY DEF Moves, WorkerRecord
<1> QED
  BY <1>2, <1>3, <1>4, <1>5, <1>6, <1>7, <1>8 DEF g, h, left

LEMMA WorkerKeeps ==
    ASSUME CountsInv, NEW w \in Workers, WorkerStep(w)
    PROVE  CountsInv'
<1> DEFINE to(place) == [at |-> place, job |-> worker[w].job, rest |-> worker[w].rest,
                         result |-> worker[w].result]
<1>1. CountsTyped /\ CapsTyped
  BY DEF CountsInv, CountsTyped
<1>2. WorkerRecord(worker[w]) /\ DOMAIN worker = Workers /\ worker = [v \in Workers |-> worker[v]]
  BY <1>1 DEF CountsTyped
<1>3. CASE Poll(w)
  <2>1. Moves(w, to("take")) /\ WorkerAt(w, "idle") /\ UNCHANGED <<ac, bo, life>>
    BY <1>1, <1>3, GotoMoves DEF Poll
  <2> QED
    BY <2>1, QuietStep DEF WorkerAt, HasSlot, SlotPlaces
<1>4. CASE WorkerExit(w)
  <2>1. Moves(w, to("gone")) /\ WorkerAt(w, "idle") /\ UNCHANGED <<ac, bo, life>>
    BY <1>1, <1>4, GotoMoves DEF WorkerExit
  <2> QED
    BY <2>1, QuietStep DEF WorkerAt, HasSlot, SlotPlaces
<1>5. CASE TakeNothing(w)
  <2>1. Moves(w, Idling) /\ WorkerAt(w, "take") /\ UNCHANGED <<ac, bo, life>>
    BY <1>5, DoneMoves DEF TakeNothing
  <2> QED
    BY <2>1, QuietStep DEF WorkerAt, HasSlot, SlotPlaces, Idling
<1>6. CASE TakeJob(w)
  <2>1. WorkerHolds(w, Head(Candidates), "admit") /\ WorkerAt(w, "take")
        /\ UNCHANGED <<ac, bo, life>>
    BY <1>6 DEF TakeJob
  <2> DEFINE r == [at |-> "admit", job |-> Head(Candidates), rest |-> <<>>, result |-> ""]
  <2>2. Moves(w, r) /\ r.at = "admit"
    BY <2>1, HoldsMoves
  <2> HIDE DEF r
  <2> QED
    BY <2>1, <2>2, QuietStep DEF WorkerAt, HasSlot, SlotPlaces
<1>7. CASE AdmitJob(w)
  <2>1. Moves(w, to("limit")) /\ WorkerAt(w, "admit") /\ UNCHANGED <<bo, life>>
        /\ CapAcquire(Agent(to("limit").job))
    BY <1>1, <1>7, GotoMoves DEF AdmitJob
  <2> QED
    BY <2>1, SlotTaken DEF WorkerAt, HasSlot, SlotPlaces
<1>8. CASE AdmitMiss(w)
  <2>1. Moves(w, to("requeue")) /\ WorkerAt(w, "admit") /\ UNCHANGED <<bo, life>>
        /\ CapMiss(Agent(worker[w].job))
    BY <1>1, <1>8, GotoMoves DEF AdmitMiss
  <2> QED
    BY <2>1, SlotMissed DEF WorkerAt, HasSlot, SlotPlaces
<1>9. CASE Requeue(w)
  <2> DEFINE r == [at |-> "scan", job |-> Idling.job, rest |-> queue'.heap,
                   result |-> Idling.result]
  <2>1. ScanSet(w, "scan", queue'.heap) /\ WorkerAt(w, "requeue") /\ UNCHANGED <<ac, bo, life>>
    BY <1>9 DEF Requeue, ScanSet
  <2>2. Moves(w, r) /\ r.at = "scan"
    BY <1>1, <2>1, FieldsMove
  <2> HIDE DEF r
  <2> QED
    BY <2>1, <2>2, QuietStep DEF WorkerAt, HasSlot, SlotPlaces
<1>10. CASE ScanEnd(w)
  <2>1. Moves(w, Idling) /\ WorkerAt(w, "scan") /\ UNCHANGED <<ac, bo, life>>
    BY <1>10, DoneMoves DEF ScanEnd
  <2> QED
    BY <2>1, QuietStep DEF WorkerAt, HasSlot, SlotPlaces, Idling
<1>11. CASE ScanMiss(w)
  <2> DEFINE r == [at |-> worker[w].at, job |-> worker[w].job, rest |-> Tail(worker[w].rest),
                   result |-> worker[w].result]
  <2>1. RestSet(w, Tail(worker[w].rest)) /\ WorkerAt(w, "scan")
        /\ UNCHANGED <<bo, life>> /\ CapMiss(Agent(Head(worker[w].rest)))
    BY <1>11 DEF ScanMiss, RestSet
  <2>2. Moves(w, r)
    BY <1>1, <2>1, FieldsMove
  <2>3. r.at = "scan"
    BY <2>1 DEF WorkerAt
  <2> HIDE DEF r
  <2> QED
    BY <2>1, <2>2, <2>3, SlotMissed DEF WorkerAt, HasSlot, SlotPlaces
<1>12. CASE ScanAcquire(w)
  <2> DEFINE j == Head(worker[w].rest)
             r == [at |-> "claim", job |-> j, rest |-> Tail(worker[w].rest),
                   result |-> worker[w].result]
  <2>1. NextSet(w, "claim", j) /\ WorkerAt(w, "scan") /\ UNCHANGED <<bo, life>>
        /\ CapAcquire(Agent(j))
    BY <1>12 DEF ScanAcquire, NextSet
  <2> HIDE DEF j
  <2>2. Moves(w, r) /\ r.at = "claim" /\ r.job = j
    BY <1>1, <2>1, FieldsMove
  <2> HIDE DEF r
  <2> QED
    BY <2>1, <2>2, SlotTaken DEF WorkerAt, HasSlot, SlotPlaces
<1>13. CASE ScanClaim(w)
  <2>1. CASE worker[w].job \in queue.byID
    <3> DEFINE r == [at |-> "limit", job |-> worker[w].job, rest |-> <<>>, result |-> ""]
    <3>1. WorkerHolds(w, worker[w].job, "limit") /\ WorkerAt(w, "claim") /\ UNCHANGED <<ac, bo, life>>
      BY <1>13, <2>1 DEF ScanClaim
    <3>2. Moves(w, r) /\ r.at = "limit" /\ r.job = worker[w].job
      BY <3>1, HoldsMoves
    <3> HIDE DEF r
    <3> QED
      BY <3>1, <3>2, QuietStep DEF WorkerAt, HasSlot, SlotPlaces
  <2>2. CASE worker[w].job \notin queue.byID
    <3> DEFINE r == [at |-> "scan", job |-> "", rest |-> worker[w].rest, result |-> worker[w].result]
    <3>1. JobSet(w, "scan", "") /\ WorkerAt(w, "claim") /\ UNCHANGED <<bo, life>>
          /\ ac' = SlotReleased(ac, Agent(worker[w].job))
      BY <1>13, <2>2 DEF ScanClaim, JobSet
    <3>2. Moves(w, r) /\ r.at = "scan"
      BY <1>1, <3>1, FieldsMove
    <3> HIDE DEF r
    <3>3. LifeKept /\ TypedCaps(ac)
      BY <1>1, <3>1, LifeStands DEF CapsTyped
    <3> QED
      BY <3>1, <3>2, <3>3, SlotReturned DEF WorkerAt, HasSlot, SlotPlaces
  <2> QED
    BY <2>1, <2>2
<1>14. CASE StartJob(w)
  <2>1. Moves(w, to("run")) /\ WorkerAt(w, "limit") /\ UNCHANGED <<ac, bo, life>>
    BY <1>1, <1>14, GotoMoves DEF StartJob
  <2> QED
    BY <2>1, QuietStep DEF WorkerAt, HasSlot, SlotPlaces
<1>15. CASE LimitRefuses(w)
  <2>1. Moves(w, Idling) /\ WorkerAt(w, "limit") /\ UNCHANGED <<bo, life>>
        /\ ac' = SlotReleased(ac, Agent(worker[w].job))
    BY <1>15, DoneMoves DEF LimitRefuses
  <2>2. LifeKept /\ TypedCaps(ac)
    BY <1>1, <2>1, LifeStands DEF CapsTyped
  <2> QED
    BY <2>1, <2>2, SlotReturned DEF WorkerAt, HasSlot, SlotPlaces, Idling
<1>16. CASE ExecutorReturns(w)
  <2>1. PICK result \in Outcomes : ResultSet(w, "ran", result)
    BY <1>16 DEF ExecutorReturns, ResultSet
  <2> DEFINE r == [at |-> "ran", job |-> worker[w].job, rest |-> worker[w].rest, result |-> result]
  <2>2. WorkerAt(w, "run") /\ UNCHANGED <<ac, bo, life>>
    BY <1>16 DEF ExecutorReturns
  <2>3. Moves(w, r) /\ r.at = "ran" /\ r.job = worker[w].job
    BY <1>1, <2>1, FieldsMove
  <2> HIDE DEF r
  <2> QED
    BY <2>2, <2>3, QuietStep DEF WorkerAt, HasSlot, SlotPlaces
<1>17. CASE JobSucceeds(w)
  <2> DEFINE c == SuccessRecorded(ac, Agent(worker[w].job))
  <2>1. Moves(w, to("report")) /\ WorkerAt(w, "ran") /\ BackoffReset
        /\ ac' = SlotReleased(c, Agent(worker[w].job))
    BY <1>1, <1>17, GotoMoves DEF JobSucceeds
  <2>2. TypedCaps(c) /\ c.slots = ac.slots /\ LifeKept
    BY <1>1, <2>1, RecordedKeeps, BackoffResets
  <2> HIDE DEF c
  <2> QED
    BY <2>1, <2>2, SlotReturned DEF WorkerAt, HasSlot, SlotPlaces
<1>18. CASE JobCancelled(w)
  <2>1. Moves(w, to("report")) /\ WorkerAt(w, "ran") /\ UNCHANGED <<bo, life>>
        /\ ac' = SlotReleased(ac, Agent(worker[w].job))
    BY <1>1, <1>18, GotoMoves DEF JobCancelled
  <2>2. LifeKept /\ TypedCaps(ac)
    BY <1>1, <2>1, LifeStands DEF CapsTyped
  <2> QED
    BY <2>1, <2>2, SlotReturned DEF WorkerAt, HasSlot, SlotPlaces
<1>19. CASE JobFails(w)
  <2> DEFINE resource == worker[w].result = "resource"
             c == IF resource THEN FailureRecorded(ac, Agent(worker[w].job)) ELSE ac
  <2>1. /\ WorkerAt(w, "ran") /\ (WorkerDone(w) \/ WorkerGoto(w, "report"))
        /\ BackoffError(worker[w].job) \/ BackoffReset
        /\ ac' = SlotReleased(c, Agent(worker[w].job))
    BY <1>19 DEF JobFails
  <2>2. TypedCaps(c) /\ c.slots = ac.slots
    BY <1>1, RecordedKeeps DEF CapsTyped
  <2>3. LifeKept
    BY <2>1, BackoffErrs, BackoffResets
  <2>4. PICK r : Moves(w, r) /\ r.at \notin SlotPlaces
    <3>1. CASE WorkerDone(w)
      <4>1. Moves(w, Idling) /\ Idling.at \notin SlotPlaces
        BY <3>1, DoneMoves DEF Idling, SlotPlaces
      <4> QED
        BY <4>1
    <3>2. CASE WorkerGoto(w, "report")
      <4>1. Moves(w, to("report")) /\ to("report").at \notin SlotPlaces
        BY <1>1, <3>2, GotoMoves DEF SlotPlaces
      <4> QED
        BY <4>1
    <3> QED
      BY <2>1, <3>1, <3>2
  <2> HIDE DEF c
  <2> QED
    BY <2>1, <2>2, <2>3, <2>4, SlotReturned DEF WorkerAt, HasSlot
<1>20. CASE ReportJob(w)
  <2>1. Moves(w, Idling) /\ WorkerAt(w, "report") /\ UNCHANGED <<ac, bo, life>>
    BY <1>20, DoneMoves DEF ReportJob
  <2> QED
    BY <2>1, QuietStep DEF WorkerAt, HasSlot, SlotPlaces, Idling
<1> QED
  BY <1>3, <1>4, <1>5, <1>6, <1>7, <1>8, <1>9, <1>10, <1>11, <1>12, <1>13, <1>14, <1>15,
     <1>16, <1>17, <1>18, <1>19, <1>20 DEF WorkerStep

LEMMA TimersKeep ==
    ASSUME CountsInv, Timers
    PROVE  CountsInv'
<1>1. CASE BackoffTimer
  <2> DEFINE timers == bo.timers - 1
  <2>1. bo \in [failures : Nat, active : BOOLEAN, timers : Nat]
    BY DEF CountsInv, CountsTyped
  <2>2. timers \in Nat
    BY <1>1, <2>1 DEF BackoffTimer
  <2>3. bo' = [bo EXCEPT !.timers = timers, !.active = FALSE]
    BY <1>1 DEF BackoffTimer
  <2> HIDE DEF timers
  <2>4. bo' = [failures |-> bo.failures, active |-> FALSE, timers |-> timers]
    BY <2>1, <2>3
  <2>5. life' = (IF bo.active THEN QueueResumed(life) ELSE life) /\ UNCHANGED <<ac, worker>>
    BY <1>1 DEF BackoffTimer
  <2>6. LifeKept
    BY <2>1, <2>2, <2>4, <2>5, ResetKeeps
  <2> QED
    BY <2>5, <2>6, Untouched
<1>2. CASE \E j \in Jobs : RetryTimer(j)
  <2>1. UNCHANGED <<ac, worker, bo, life>>
    BY <1>2 DEF RetryTimer
  <2> QED
    BY <2>1, LifeStands, Untouched
<1>3. CASE \E a \in AgentTypes : CooldownTimer(a)
  BY <1>3, CooldownKeeps
<1> QED
  BY <1>1, <1>2, <1>3 DEF Timers

LEMMA ClientsKeep ==
    ASSUME CountsInv, Clients
    PROVE  CountsInv'
<1>1. life \in Life /\ PauseExplained /\ RunningSinceStart /\ CountsTyped
  BY DEF CountsInv, CountsTyped
<1>2. bo \in [failures : Nat, active : BOOLEAN, timers : Nat]
  BY <1>1 DEF CountsTyped
<1>3. CASE \/ \E j \in Jobs : Submit(j) \/ Cancel(j)
           \/ \E s \in Sessions : CancelSession(s)
           \/ \E b \in {Batch(j) : j \in Jobs} : CancelBatch(b)
  <2>1. UNCHANGED <<ac, worker, bo, life>>
    BY <1>3 DEF Submit, Cancel, CancelSession, CancelBatch, CancelMany
  <2> QED
    BY <2>1, LifeStands, Untouched
<1>4. CASE Pause
  <2>1. life' = [life EXCEPT !.paused = TRUE, !.held = TRUE] /\ UNCHANGED <<ac, worker, bo>>
    BY <1>4 DEF Pause
  <2>2. life' \in Life /\ life'.started = life.started /\ life'.held
    BY <1>1, <2>1 DEF Life
  <2>3. LifeKept
    BY <1>2, <2>1, <2>2 DEF LifeKept, PauseExplained
  <2> QED
    BY <2>1, <2>3, Untouched
<1>5. CASE Resume
  <2>1. life' = [life EXCEPT !.paused = FALSE, !.held = FALSE] /\ UNCHANGED <<ac, worker, bo>>
    BY <1>5 DEF Resume
  <2>2. life' \in Life /\ life'.started = life.started /\ ~life'.paused
    BY <1>1, <2>1 DEF Life
  <2>3. LifeKept
    BY <1>2, <2>1, <2>2 DEF LifeKept, PauseExplained
  <2> QED
    BY <2>1, <2>3, Untouched
<1>6. CASE Stop
  <2>1. life' = [life EXCEPT !.ctxDone = TRUE] /\ UNCHANGED <<ac, worker, bo>>
    BY <1>6 DEF Stop
  <2>2. life' \in Life /\ life'.started = life.started /\ life'.paused = life.paused
        /\ life'.held = life.held
    BY <1>1, <2>1 DEF Life
  <2>3. LifeKept
    BY <1>1, <1>2, <2>1, <2>2 DEF LifeKept, PauseExplained
  <2> QED
    BY <2>1, <2>3, Untouched
<1>7. CASE Stopped
  <2>1. life' = [life EXCEPT !.started = FALSE] /\ UNCHANGED <<ac, worker, bo>> /\ AllGone
    BY <1>7 DEF Stopped
  <2>2. life' \in Life /\ life'.paused = life.paused /\ life'.held = life.held
    BY <1>1, <2>1 DEF Life
  <2>3. RunningSinceStart'
    BY <2>1 DEF RunningSinceStart, AllGone, WorkerAt
  <2>4. CountsTyped' /\ PauseExplained'
    BY <1>1, <1>2, <2>1, <2>2 DEF CountsTyped, CapsTyped, PauseExplained
  <2>5. SlotsExact' /\ CapsHold'
    BY <2>1 DEF CountsInv, SlotsExact, HasSlot, CapsHold, SlotsTaken
  <2> QED
    BY <2>3, <2>4, <2>5 DEF CountsInv
<1>8. CASE StartScheduler
  <2>1. life' = [life EXCEPT !.started = TRUE] /\ UNCHANGED <<ac, bo>> /\ ~life.started
        /\ worker' = [w \in Workers |-> Idling]
    BY <1>8 DEF StartScheduler
  <2>2. life' \in Life /\ life'.paused = life.paused /\ life'.held = life.held /\ life'.started
    BY <1>1, <2>1 DEF Life
  <2>3. \A w \in Workers : WorkerAt(w, "gone")
    BY <1>1, <2>1 DEF RunningSinceStart, AllGone
  <2>4. \A a : Holders(a) = {} /\ Holders(a)' = {}
    BY <2>1, <2>3 DEF Holders, HasSlot, WorkerAt, Idling
  <2>5. SlotsExact'
    BY <2>1, <2>4, SlotsCount DEF CountsInv
  <2>6. CapsHold'
    BY <2>1 DEF CountsInv, CapsHold, SlotsTaken
  <2>7. CountsTyped'
    BY <1>1, <1>2, <2>1, <2>2 DEF CountsTyped, CapsTyped, WorkerRecord, Idling
  <2>8. RunningSinceStart' /\ PauseExplained'
    BY <1>1, <2>1, <2>2 DEF RunningSinceStart, PauseExplained
  <2> QED
    BY <2>5, <2>6, <2>7, <2>8 DEF CountsInv
<1> QED
  BY <1>3, <1>4, <1>5, <1>6, <1>7, <1>8 DEF Clients

LEMMA StartsCounted == SchedInit => CountsInv
<1> SUFFICES ASSUME SchedInit PROVE CountsInv
  OBVIOUS
<1> DEFINE caps == [a \in AgentTypes |-> IF CapOf[a].ramp THEN CapOf[a].initial ELSE CapOf[a].max]
           slots == [a \in AgentTypes |-> 0]
           recoveries == [a \in AgentTypes |-> 0]
<1>1. /\ ac = [slots |-> slots, cap |-> caps, begun |-> {}, cooling |-> {}, aged |-> {},
               recoveries |-> recoveries]
      /\ bo = [failures |-> 0, active |-> FALSE, timers |-> 0]
      /\ worker = [w \in Workers |-> [Idling EXCEPT !.at = "gone"]]
      /\ life = [started |-> FALSE, ctxDone |-> FALSE, paused |-> FALSE, held |-> FALSE]
  BY DEF SchedInit
<1>2. \A a \in AgentTypes : CapOf[a].max \in Nat \ {0} /\ CapOf[a].initial \in 1 .. CapOf[a].max
  BY SchedulerAssumption
<1>3. slots \in [AgentTypes -> Nat] /\ caps \in [AgentTypes -> Nat]
      /\ \A a \in AgentTypes : caps[a] \in 1 .. CapOf[a].max
  BY <1>2
<1>4. \A a \in AgentTypes : slots[a] = 0
  OBVIOUS
<1> HIDE DEF caps, slots, recoveries
<1>5. CapsTyped /\ ac.slots = slots
  BY <1>1, <1>3 DEF CapsTyped, TypedCaps
<1> DEFINE g == Idling
<1>6. WorkerRecord(g)
  BY DEF Idling, WorkerRecord
<1> HIDE DEF g
<1>7. ASSUME NEW place
      PROVE  [g EXCEPT !.at = place] =
               [at |-> place, job |-> g.job, rest |-> g.rest, result |-> g.result]
  BY <1>6 DEF WorkerRecord
<1>8. worker = [w \in Workers |-> [at |-> "gone", job |-> g.job, rest |-> g.rest, result |-> g.result]]
  BY <1>1, <1>7 DEF g
<1>9. \A w \in Workers : WorkerAt(w, "gone") /\ WorkerRecord(worker[w])
  BY <1>8 DEF WorkerAt, WorkerRecord
<1>10. CountsTyped
  BY <1>1, <1>5, <1>8, <1>9 DEF CountsTyped, Life
<1>11. RunningSinceStart /\ PauseExplained
  BY <1>1, <1>9 DEF RunningSinceStart, AllGone, PauseExplained
<1>12. \A a : Holders(a) = {}
  BY <1>9 DEF Holders, HasSlot, WorkerAt
<1>13. SlotsExact
  BY <1>4, <1>5, <1>12, SlotsCount, FS_EmptySet
<1>14. SlotsTaken = 0
  <2>1. Slots(ac.slots) = {}
    BY <1>4, <1>5 DEF Slots
  <2> QED
    BY <2>1, FS_EmptySet DEF SlotsTaken, Slots
<1>15. CapsHold
  <2>1. \A a \in AgentTypes : ac.slots[a] <= CapOf[a].max
    BY <1>2, <1>4, <1>5
  <2>2. \A a \in AgentTypes : ac.cap[a] \in 1 .. CapOf[a].max
    BY <1>5 DEF CapsTyped, TypedCaps
  <2>3. GlobalMax \in Nat
    BY SchedulerAssumption
  <2> QED
    BY <1>14, <2>1, <2>2, <2>3 DEF CapsHold
<1> QED
  BY <1>10, <1>11, <1>13, <1>15 DEF CountsInv

(* Whatever the queue holds, the slots counted for an agent are those its  *)
(* workers hold, the configured caps and the global one are kept, and a    *)
(* pause nobody asked for belongs to a backoff with a timer still set: for *)
(* any number of workers, jobs, agents and failures.                       *)
THEOREM SlotsStayExact == SchedSpec => [](SlotsExact /\ CapsHold /\ PauseExplained)
<1>1. SchedInit => CountsInv
  BY StartsCounted
<1>2. CountsInv /\ [SchedNext]_schedVars => CountsInv'
  <2> SUFFICES ASSUME CountsInv, [SchedNext]_schedVars PROVE CountsInv'
    OBVIOUS
  <2>1. CASE SchedNext
    BY <2>1, WorkerKeeps, TimersKeep, ClientsKeep DEF SchedNext
  <2>2. CASE UNCHANGED schedVars
    BY <2>2, LifeStands, Untouched DEF schedVars
  <2> QED
    BY <2>1, <2>2
<1>3. CountsInv => SlotsExact /\ CapsHold /\ PauseExplained
  BY DEF CountsInv
<1> QED
  BY <1>1, <1>2, <1>3, PTL DEF SchedSpec

-----------------------------------------------------------------------------
(* The ladder.                                                             *)
ChainModels == FrontierModels \cup {BaseModel, NoModel}
ChainContract == [hash : 0..2, review : BOOLEAN]
ChainState ==
    [ dispatches : Seq(Nat \ {0}), models : Seq(ChainModels), failures : Seq(FailureModes),
      current : ChainModels, strikes : Nat, escalations : Nat, exhausted : BOOLEAN,
      decision : ChainContract, retries : SUBSET (Nat \ {0}) ]
AttemptRow == [model : ChainModels, count : Nat, of : Nat, decision : ChainContract]
CallState ==
    [ pc : {"idle", "loaded", "recorded", "admitted"}, id : Nat,
      mode : FailureModes \cup {"none"}, cs : ChainState ]

EscalationTyped ==
    /\ chain \in ChainState
    /\ attempts \in Seq(AttemptRow)
    /\ climbing \in [Retriers -> CallState]
    /\ routingPolicy \in {1, 2} /\ calls \in Nat /\ disturbed \in BOOLEAN
    /\ \A p \in Retriers : climbing[p].pc # "idle" =>
          climbing[p].id \in DOMAIN attempts /\ climbing[p].mode \in FailureModes

\* The strikes at hand and the rungs climbed were earned, by attempts counted once.
PaidFor(cs) ==
    /\ cs.escalations * StrikesPerRung + cs.strikes <= Earned(cs)
    /\ cs.escalations <= MaxEscalations
    /\ \A i, j \in DOMAIN cs.dispatches : cs.dispatches[i] = cs.dispatches[j] => i = j

AllPaidFor == PaidFor(chain) /\ \A p \in Retriers : PaidFor(climbing[p].cs)

AtCall(p, pc) == climbing[p].pc = pc

\* Undisturbed, one call at a time works on the chain as it is saved, and the retries the
\* chain or the call about to save it knows of are all there are.
OneAtATime ==
    ~disturbed =>
        /\ \A p, q \in Retriers : ~AtCall(p, "idle") /\ ~AtCall(q, "idle") => p = q
        /\ \A i, j \in DOMAIN attempts : attempts[i].of # 0 /\ attempts[i].of = attempts[j].of => i = j
        /\ \A i \in DOMAIN attempts : attempts[i].of # 0 =>
              \/ attempts[i].of \in chain.retries
              \/ \E p \in Retriers : AtCall(p, "admitted") /\ attempts[i].of \in climbing[p].cs.retries
        /\ \A p \in Retriers :
              LET cs == climbing[p].cs IN
              /\ AtCall(p, "loaded") \/ AtCall(p, "recorded") =>
                     climbing[p].id \notin chain.retries /\ cs.retries = chain.retries
              /\ AtCall(p, "loaded") =>
                     chain.current = NoModel \/ cs.current = chain.current
              /\ AtCall(p, "recorded") => cs.current = chain.current /\ cs.models = chain.models
              /\ AtCall(p, "admitted") =>
                     /\ chain.retries \subseteq cs.retries
                     /\ cs.current = chain.current \/ cs.current \notin Range(chain.models)

EscalationInv == EscalationTyped /\ AllPaidFor /\ OneAtATime

\* How often a sequence says something.
TimesSaid(f, x) == Cardinality({i \in DOMAIN f : f[i] = x})

\* One more place counts once, for what it says.
LEMMA CountAppended ==
    ASSUME NEW T, NEW f \in Seq(T), NEW m \in T, NEW x
    PROVE /\ TimesSaid(f, x) \in Nat
          /\ TimesSaid(Append(f, m), x) = TimesSaid(f, x) + IF m = x THEN 1 ELSE 0
<1> DEFINE n == Len(f)
           old == {i \in 1..n : f[i] = x}
           new == {i \in 1..n + 1 : Append(f, m)[i] = x}
<1>1. n \in Nat /\ DOMAIN f = 1..n /\ DOMAIN Append(f, m) = 1..n + 1
      /\ (\A i \in 1..n : Append(f, m)[i] = f[i]) /\ Append(f, m)[n + 1] = m
  OBVIOUS
<1>2. IsFiniteSet(old) /\ Cardinality(old) \in Nat
  <2>1. IsFiniteSet(1..n)
    BY <1>1, FS_Interval
  <2> QED BY <2>1, FS_Subset, FS_CardinalityType
<1>3. new = IF m = x THEN old \cup {n + 1} ELSE old
  BY <1>1
<1>4. n + 1 \notin old
  BY <1>1
<1> HIDE DEF n, old, new
<1>5. Cardinality(old \cup {n + 1}) = Cardinality(old) + 1
  BY <1>2, <1>4, FS_AddElement
<1>6. Cardinality(new) = Cardinality(old) + IF m = x THEN 1 ELSE 0
  BY <1>2, <1>3, <1>5
<1> QED
  BY <1>1, <1>2, <1>6 DEF n, old, new, TimesSaid

\* What failures are worth is a number.
LEMMA EarnedIsNat ==
    ASSUME NEW cs, cs.failures \in Seq(FailureModes)
    PROVE Earned(cs) \in Nat
<1>1. TimesSaid(cs.failures, "premise") \in Nat /\ TimesSaid(cs.failures, "capability") \in Nat
  <2>1. "premise" \in FailureModes
    BY DEF FailureModes
  <2> QED BY <2>1, CountAppended
<1> QED
  BY <1>1, EscalationAssumption DEF Earned, TimesSaid

\* A failure of the premise is worth a rung, one of the model a strike, another nothing.
LEMMA EarnedGrows ==
    ASSUME NEW cs, NEW ds, cs.failures \in Seq(FailureModes), NEW mode \in FailureModes,
           ds.failures = Append(cs.failures, mode)
    PROVE /\ Earned(cs) \in Nat
          /\ Earned(ds) = Earned(cs) + IF mode = "premise" THEN StrikesPerRung
                                       ELSE IF mode = "capability" THEN 1 ELSE 0
<1>1. PICK a, b \in Nat :
        /\ a = TimesSaid(cs.failures, "premise") /\ b = TimesSaid(cs.failures, "capability")
        /\ TimesSaid(ds.failures, "premise") = a + IF mode = "premise" THEN 1 ELSE 0
        /\ TimesSaid(ds.failures, "capability") = b + IF mode = "capability" THEN 1 ELSE 0
  BY CountAppended
<1>2. /\ Earned(cs) = StrikesPerRung * a + b
      /\ Earned(ds) = StrikesPerRung * TimesSaid(ds.failures, "premise") + TimesSaid(ds.failures, "capability")
  BY <1>1 DEF Earned, TimesSaid
<1>5. StrikesPerRung \in Nat
  BY EscalationAssumption
<1>6. StrikesPerRung * a \in Nat /\ StrikesPerRung * (a + 1) = StrikesPerRung * a + StrikesPerRung
  BY <1>5
<1>7. CASE mode = "premise"
  <2>1. Earned(ds) = StrikesPerRung * (a + 1) + b
    BY <1>1, <1>2, <1>7
  <2> QED BY <1>2, <1>5, <1>6, <1>7, <2>1
<1>8. CASE mode = "capability"
  <2>1. Earned(ds) = StrikesPerRung * a + (b + 1)
    BY <1>1, <1>2, <1>8
  <2> QED BY <1>2, <1>5, <1>6, <1>8, <2>1
<1>9. CASE mode \notin {"premise", "capability"}
  <2>1. Earned(ds) = StrikesPerRung * a + b
    BY <1>1, <1>2, <1>9
  <2> QED BY <1>2, <1>5, <1>6, <1>9, <2>1
<1> QED
  BY <1>7, <1>8, <1>9

\* Nothing earned, nothing spent.
LEMMA FreshIsPaidFor == freshChain \in ChainState /\ PaidFor(freshChain)
<1>1. freshChain \in ChainState
  BY DEF freshChain, ChainState, ChainModels, ChainContract, NoContract
<1>2. DOMAIN freshChain.failures = {} /\ DOMAIN freshChain.dispatches = {}
      /\ freshChain.escalations = 0 /\ freshChain.strikes = 0
  BY DEF freshChain
<1>3. {i \in DOMAIN freshChain.failures : freshChain.failures[i] = "premise"} = {}
      /\ {i \in DOMAIN freshChain.failures : freshChain.failures[i] = "capability"} = {}
  BY <1>2
<1>4. Earned(freshChain) = StrikesPerRung * 0 + 0
  BY <1>3, FS_EmptySet DEF Earned
<1> QED
  BY <1>1, <1>2, <1>4, EscalationAssumption DEF PaidFor

\* A failure recorded adds what it is worth to what was earned and no more to the strikes.
LEMMA RecordedIsPaidFor ==
    ASSUME NEW cs \in ChainState, PaidFor(cs), NEW i \in Nat \ {0}, NEW mode \in FailureModes
    PROVE /\ Recorded(cs, i, mode) \in ChainState /\ PaidFor(Recorded(cs, i, mode))
          /\ Recorded(cs, i, mode).current = cs.current /\ Recorded(cs, i, mode).retries = cs.retries
<1> DEFINE ds == Recorded(cs, i, mode)
<1>1. CASE i \in Range(cs.dispatches)
  BY <1>1 DEF Recorded
<1>2. CASE i \notin Range(cs.dispatches)
  <2>1. /\ ds.dispatches = Append(cs.dispatches, i) /\ ds.models = Append(cs.models, cs.current)
        /\ ds.failures = Append(cs.failures, mode)
        /\ ds.strikes = IF mode = "premise" THEN StrikesPerRung
                        ELSE IF mode = "capability" THEN cs.strikes + 1 ELSE cs.strikes
        /\ ds.escalations = cs.escalations /\ ds.current = cs.current /\ ds.retries = cs.retries
    BY <1>2 DEF Recorded, ChainState, capabilityStrike
  <2>2. ds \in ChainState
    <3>1. /\ Append(cs.dispatches, i) \in Seq(Nat \ {0}) /\ Append(cs.models, cs.current) \in Seq(ChainModels)
          /\ Append(cs.failures, mode) \in Seq(FailureModes)
          /\ (IF mode = "premise" THEN StrikesPerRung
              ELSE IF capabilityStrike(mode) THEN cs.strikes + 1 ELSE cs.strikes) \in Nat
      BY EscalationAssumption DEF ChainState
    <3> QED
      BY <1>2, <3>1 DEF Recorded, ChainState
  <2> HIDE DEF ds
  <2>3. /\ cs.failures \in Seq(FailureModes) /\ cs.strikes \in Nat /\ cs.escalations \in Nat
        /\ cs.dispatches \in Seq(Nat \ {0})
    BY DEF ChainState
  <2>4. /\ Earned(cs) \in Nat
        /\ Earned(ds) = Earned(cs) + IF mode = "premise" THEN StrikesPerRung
                                     ELSE IF mode = "capability" THEN 1 ELSE 0
    BY <2>1, <2>3, EarnedGrows
  <2>5. PICK e \in Nat : e = cs.escalations * StrikesPerRung
    BY <2>3, EscalationAssumption
  <2>6. e + ds.strikes <= Earned(ds)
    <3>1. e + cs.strikes <= Earned(cs)
      BY <2>5 DEF PaidFor
    <3> QED
      BY <2>1, <2>3, <2>4, <3>1, EscalationAssumption
  <2>7. \A k, j \in DOMAIN ds.dispatches : ds.dispatches[k] = ds.dispatches[j] => k = j
    <3>1. \A k \in DOMAIN cs.dispatches : cs.dispatches[k] # i
      BY <1>2 DEF Range
    <3>2. \A k, j \in DOMAIN cs.dispatches : cs.dispatches[k] = cs.dispatches[j] => k = j
      BY DEF PaidFor
    <3>3. PICK n \in Nat : n = Len(cs.dispatches) /\ DOMAIN cs.dispatches = 1..n
      BY <2>3
    <3>4. /\ DOMAIN ds.dispatches = 1..n + 1 /\ ds.dispatches[n + 1] = i
          /\ \A k \in 1..n : ds.dispatches[k] = cs.dispatches[k]
      BY <2>1, <2>3, <3>3
    <3> QED
      BY <3>1, <3>2, <3>3, <3>4
  <2>8. PaidFor(ds)
    BY <2>1, <2>5, <2>6, <2>7 DEF PaidFor
  <2> QED
    BY <2>1, <2>2, <2>8 DEF ds
<1> QED
  BY <1>1, <1>2

\* A rung is bought with the strikes of one.
LEMMA RungIsPaidFor ==
    ASSUME NEW cs \in ChainState, PaidFor(cs), cs.strikes >= StrikesPerRung,
           cs.escalations < MaxEscalations, NEW ds,
           ds.failures = cs.failures, ds.dispatches = cs.dispatches,
           ds.escalations = cs.escalations + 1, ds.strikes = 0
    PROVE PaidFor(ds)
<1>1. cs.strikes \in Nat /\ cs.escalations \in Nat /\ StrikesPerRung \in Nat /\ MaxEscalations \in Nat
  BY EscalationAssumption DEF ChainState
<1>2. Earned(ds) = Earned(cs)
  BY DEF Earned
<1>3. (cs.escalations + 1) * StrikesPerRung = cs.escalations * StrikesPerRung + StrikesPerRung
  BY <1>1
<1>4. PICK e \in Nat : e = cs.escalations * StrikesPerRung
  BY <1>1
<1>5. /\ \A i, j \in DOMAIN cs.dispatches : cs.dispatches[i] = cs.dispatches[j] => i = j
      /\ e + cs.strikes <= Earned(cs)
  BY <1>4 DEF PaidFor
<1>6. Earned(cs) \in Nat
  BY EarnedIsNat DEF ChainState
<1>7. ds.escalations * StrikesPerRung + ds.strikes <= Earned(ds)
  BY <1>1, <1>2, <1>3, <1>4, <1>5, <1>6
<1>8. ds.escalations <= MaxEscalations
  BY <1>1
<1> QED
  BY <1>5, <1>7, <1>8 DEF PaidFor

\* A sequence without repetitions has as many members as places.
LEMMA RecordedOnce ==
    ASSUME NEW T, NEW f \in Seq(T), \A i, j \in DOMAIN f : f[i] = f[j] => i = j
    PROVE Cardinality(Range(f)) = Len(f)
<1>1. Len(f) \in Nat /\ DOMAIN f = 1..Len(f)
  OBVIOUS
<1>2. IsFiniteSet(1..Len(f)) /\ Cardinality(1..Len(f)) = Len(f)
  <2>1. Cardinality(1..Len(f)) = IF 1 > Len(f) THEN 0 ELSE Len(f) - 1 + 1
    BY <1>1, FS_Interval
  <2> QED BY <1>1, <2>1, FS_Interval
<1>3. ExistsBijection(1..Len(f), Range(f))
  <2> DEFINE g == [i \in 1..Len(f) |-> f[i]]
  <2>1. g \in Bijection(1..Len(f), Range(f))
    BY <1>1 DEF Bijection, Injection, IsInjective, Surjection, Range
  <2> QED BY <2>1 DEF ExistsBijection
<1> QED
  BY <1>2, <1>3, FS_Bijection

\* An empty chain, nobody calling.
LEMMA EscalationInvInit == EscalationInit => EscalationInv
<1> SUFFICES ASSUME EscalationInit PROVE EscalationInv
  OBVIOUS
<1>1. noCall \in CallState /\ noCall.cs = freshChain /\ noCall.pc = "idle"
  BY FreshIsPaidFor DEF noCall, CallState
<1>2. EscalationTyped
  <2>1. attempts \in Seq(AttemptRow) /\ routingPolicy \in {1, 2} /\ calls \in Nat
    BY DEF EscalationInit
  <2>3. disturbed \in BOOLEAN
    BY DEF EscalationInit
  <2>2. chain \in ChainState /\ climbing \in [Retriers -> CallState]
        /\ \A p \in Retriers : climbing[p].pc = "idle"
    BY <1>1, FreshIsPaidFor DEF EscalationInit
  <2> QED BY <2>1, <2>2, <2>3 DEF EscalationTyped
<1>3. AllPaidFor
  BY <1>1, FreshIsPaidFor DEF EscalationInit, AllPaidFor
<1>4. OneAtATime
  BY <1>1 DEF EscalationInit, OneAtATime, AtCall
<1> QED
  BY <1>2, <1>3, <1>4 DEF EscalationInv

\* What a step of one call leaves of the types and the accounts.
LEMMA CallMoves ==
    ASSUME EscalationInv, NEW p \in Retriers, NEW call \in CallState,
           climbing' = [climbing EXCEPT ![p] = call],
           attempts' \in Seq(AttemptRow), DOMAIN attempts \subseteq DOMAIN attempts',
           call.pc # "idle" => call.id \in DOMAIN attempts /\ call.mode \in FailureModes,
           PaidFor(call.cs), chain' \in ChainState, PaidFor(chain'),
           routingPolicy' = routingPolicy, calls' \in Nat, disturbed' \in BOOLEAN
    PROVE /\ EscalationTyped' /\ AllPaidFor'
          /\ climbing'[p] = call /\ \A q \in Retriers \ {p} : climbing'[q] = climbing[q]
<1>1. /\ climbing' \in [Retriers -> CallState]
      /\ climbing'[p] = call /\ \A q \in Retriers \ {p} : climbing'[q] = climbing[q]
  BY DEF EscalationInv, EscalationTyped
<1>2. \A q \in Retriers : climbing'[q].pc # "idle" =>
          climbing'[q].id \in DOMAIN attempts' /\ climbing'[q].mode \in FailureModes
  BY <1>1 DEF EscalationInv, EscalationTyped
<1>3. \A q \in Retriers : PaidFor(climbing'[q].cs)
  BY <1>1 DEF EscalationInv, AllPaidFor
<1> QED
  BY <1>1, <1>2, <1>3 DEF EscalationTyped, AllPaidFor, EscalationInv

\* A call that ends without a retry, its chain saved or not.
LEMMA CallEnds ==
    ASSUME EscalationInv, NEW p \in Retriers, climbing' = [climbing EXCEPT ![p] = noCall],
           ~AtCall(p, "idle"), AtCall(p, "admitted") => disturbed',
           chain' \in ChainState, PaidFor(chain'),
           ~disturbed => chain'.retries = chain.retries,
           disturbed' \in BOOLEAN, disturbed => disturbed',
           UNCHANGED <<attempts, routingPolicy, calls>>
    PROVE EscalationInv'
<1>1. noCall \in CallState /\ noCall.cs = freshChain /\ noCall.pc = "idle"
  BY FreshIsPaidFor DEF noCall, CallState
<1>2. attempts' \in Seq(AttemptRow) /\ calls' \in Nat
  BY DEF EscalationInv, EscalationTyped
<1>3. /\ EscalationTyped' /\ AllPaidFor'
      /\ climbing'[p] = noCall /\ \A q \in Retriers \ {p} : climbing'[q] = climbing[q]
  BY <1>1, <1>2, FreshIsPaidFor, CallMoves
<1>4. ASSUME ~disturbed' PROVE OneAtATime'
  <2>1. ~disturbed /\ ~AtCall(p, "admitted")
    BY <1>4 DEF EscalationInv, EscalationTyped
  <2>2. \A q \in Retriers : AtCall(q, "idle")'
    <3>1. \A q \in Retriers \ {p} : AtCall(q, "idle")
      BY <2>1 DEF EscalationInv, OneAtATime
    <3> QED BY <1>1, <1>3, <3>1 DEF AtCall
  <2>3. \A q \in Retriers : ~AtCall(q, "loaded")' /\ ~AtCall(q, "recorded")' /\ ~AtCall(q, "admitted")'
    BY <2>2 DEF AtCall
  <2>4. \A i \in DOMAIN attempts : attempts[i].of # 0 => attempts[i].of \in chain.retries
    <3>1. \A q \in Retriers : ~AtCall(q, "admitted")
      BY <1>3, <2>1, <2>3 DEF AtCall
    <3> QED BY <2>1, <3>1 DEF EscalationInv, OneAtATime
  <2>5. chain'.retries = chain.retries
    BY <2>1
  <2>6. \A i, j \in DOMAIN attempts : attempts[i].of # 0 /\ attempts[i].of = attempts[j].of => i = j
    BY <2>1 DEF EscalationInv, OneAtATime
  <2> QED
    BY <2>2, <2>3, <2>4, <2>5, <2>6 DEF OneAtATime
<1>5. OneAtATime'
  BY <1>4 DEF OneAtATime
<1> QED
  BY <1>3, <1>5 DEF EscalationInv

\* A retry is admitted by the call that struck out, or that may try the rung again.
LEMMA RetryAdmitted ==
    ASSUME EscalationInv, NEW p \in Retriers, AtCall(p, "recorded"),
           NEW cs \in ChainState, PaidFor(cs), cs.retries = climbing[p].cs.retries,
           \/ cs.current = climbing[p].cs.current
           \/ cs.current \notin Range(climbing[p].cs.models),
           AdmitRetry(p, cs)
    PROVE EscalationInv'
<1> DEFINE id == climbing[p].id
           row == [model |-> cs.current, count |-> attempts[id].count + 1, of |-> id, decision |-> cs.decision]
           ds == [cs EXCEPT !.retries = @ \cup {id}]
           call == [climbing[p] EXCEPT !.pc = "admitted", !.cs = ds]
<1>1. /\ id \in DOMAIN attempts /\ climbing[p].mode \in FailureModes
      /\ attempts \in Seq(AttemptRow) /\ climbing[p] \in CallState
  BY DEF EscalationInv, EscalationTyped, AtCall
<1>2. id \in Nat \ {0} /\ DOMAIN attempts = 1..Len(attempts) /\ Len(attempts) \in Nat
  BY <1>1
<1>3. row \in AttemptRow /\ row.of = id
  <2>1. attempts[id].count + 1 \in Nat
    <3>1. attempts[id] \in AttemptRow
      BY <1>1
    <3> QED BY <3>1 DEF AttemptRow
  <2>2. cs.current \in ChainModels /\ cs.decision \in ChainContract
    BY DEF ChainState
  <2> QED BY <1>2, <2>1, <2>2 DEF AttemptRow
<1>4. /\ ds \in ChainState /\ ds.retries = cs.retries \cup {id} /\ ds.current = cs.current
      /\ ds.escalations = cs.escalations /\ ds.strikes = cs.strikes
      /\ ds.failures = cs.failures /\ ds.dispatches = cs.dispatches
  BY <1>2 DEF ChainState
<1>5. /\ call \in CallState /\ call.pc = "admitted" /\ call.cs = ds
      /\ call.id = id /\ call.mode = climbing[p].mode
  BY <1>1, <1>4 DEF CallState
<1>6. /\ attempts' = Append(attempts, row) /\ climbing' = [climbing EXCEPT ![p] = call]
      /\ UNCHANGED <<chain, routingPolicy, disturbed, calls>>
  BY DEF AdmitRetry
<1> HIDE DEF row, ds, call
<1>7. /\ attempts' \in Seq(AttemptRow) /\ DOMAIN attempts' = 1..Len(attempts) + 1
      /\ (\A i \in DOMAIN attempts : attempts'[i] = attempts[i]) /\ attempts'[Len(attempts) + 1] = row
  BY <1>1, <1>3, <1>6
<1>8. PaidFor(ds)
  BY <1>4 DEF PaidFor, Earned
<1>9. /\ EscalationTyped' /\ AllPaidFor'
      /\ climbing'[p] = call /\ \A q \in Retriers \ {p} : climbing'[q] = climbing[q]
  <2>1. chain' \in ChainState /\ PaidFor(chain') /\ calls' \in Nat /\ disturbed' \in BOOLEAN
    BY <1>6 DEF EscalationInv, EscalationTyped, AllPaidFor
  <2>2. DOMAIN attempts \subseteq DOMAIN attempts'
    BY <1>2, <1>7
  <2> QED BY <1>1, <1>5, <1>6, <1>7, <1>8, <2>1, <2>2, CallMoves
<1>10. ASSUME ~disturbed' PROVE OneAtATime'
  <2>1. ~disturbed
    BY <1>6, <1>10
  <2>2. \A q \in Retriers \ {p} : AtCall(q, "idle")
    BY <2>1 DEF EscalationInv, OneAtATime, AtCall
  <2>3. \A q \in Retriers : AtCall(q, "admitted") => q = p /\ FALSE
    BY <2>2 DEF AtCall
  <2>4. /\ id \notin chain.retries /\ climbing[p].cs.retries = chain.retries
        /\ climbing[p].cs.current = chain.current /\ climbing[p].cs.models = chain.models
    BY <2>1 DEF EscalationInv, OneAtATime
  <2>5. \A i \in DOMAIN attempts : attempts[i].of # 0 => attempts[i].of \in chain.retries
    BY <2>1, <2>3 DEF EscalationInv, OneAtATime
  <2>6. \A i, j \in DOMAIN attempts : attempts[i].of # 0 /\ attempts[i].of = attempts[j].of => i = j
    BY <2>1 DEF EscalationInv, OneAtATime
  <2>7. \A i, j \in DOMAIN attempts' : attempts'[i].of # 0 /\ attempts'[i].of = attempts'[j].of => i = j
    <3>1. \A i \in DOMAIN attempts : attempts'[i].of # id
      BY <1>2, <1>7, <2>4, <2>5
    <3>2. \A i \in DOMAIN attempts' : i \in DOMAIN attempts \/ i = Len(attempts) + 1
      BY <1>2, <1>7
    <3>3. attempts'[Len(attempts) + 1].of = id
      BY <1>3, <1>7
    <3> QED BY <1>7, <2>6, <3>1, <3>2, <3>3
  <2>8. \A i \in DOMAIN attempts' : attempts'[i].of # 0 =>
            AtCall(p, "admitted")' /\ attempts'[i].of \in climbing'[p].cs.retries
    <3>1. AtCall(p, "admitted")' /\ climbing'[p].cs.retries = chain.retries \cup {id}
      BY <1>4, <1>5, <1>9, <2>4 DEF AtCall
    <3> QED BY <1>2, <1>3, <1>7, <2>5, <3>1
  <2>9. /\ \A q \in Retriers : ~AtCall(q, "idle")' => q = p
        /\ \A q \in Retriers : ~AtCall(q, "loaded")' /\ ~AtCall(q, "recorded")'
        /\ \A q \in Retriers : AtCall(q, "admitted")' => q = p
    BY <1>5, <1>9, <2>2 DEF AtCall
  <2>10. /\ chain'.retries \subseteq climbing'[p].cs.retries
         /\ climbing'[p].cs.current = chain'.current \/ climbing'[p].cs.current \notin Range(chain'.models)
    BY <1>4, <1>5, <1>6, <1>9, <2>4
  <2> QED
    BY <2>7, <2>8, <2>9, <2>10 DEF OneAtATime
<1>11. OneAtATime'
  BY <1>10 DEF OneAtATime
<1> QED
  BY <1>9, <1>11 DEF EscalationInv

\* One case for each step a call takes, and for what comes between them.
LEMMA EscalationInvStep == EscalationInv /\ [EscalationNext]_escalationVars => EscalationInv'
<1> SUFFICES ASSUME EscalationInv, [EscalationNext]_escalationVars PROVE EscalationInv'
  OBVIOUS
<1>1. CASE UNCHANGED escalationVars
  BY <1>1 DEF escalationVars, EscalationInv, EscalationTyped, AllPaidFor, PaidFor, Earned, OneAtATime, AtCall
<1>2. ASSUME Trigger PROVE EscalationInv'
  <2>1. PICK contract \in {NoContract, [hash |-> routingPolicy, review |-> TRUE]} :
          attempts' = Append(attempts, [model |-> BaseModel, count |-> 0, of |-> 0, decision |-> contract])
    BY <1>2 DEF Trigger
  <2>2. UNCHANGED <<chain, climbing, routingPolicy, disturbed, calls>>
    BY <1>2 DEF Trigger
  <2> DEFINE row == [model |-> BaseModel, count |-> 0, of |-> 0, decision |-> contract]
  <2>3. row \in AttemptRow /\ row.of = 0
    <3>1. routingPolicy \in 0..2
      BY DEF EscalationInv, EscalationTyped
    <3>2. contract \in ChainContract
      <4>1. NoContract \in ChainContract
        BY DEF ChainContract, NoContract
      <4>2. [hash |-> routingPolicy, review |-> TRUE] \in ChainContract
        BY <3>1 DEF ChainContract
      <4> QED BY <4>1, <4>2
    <3> QED BY <3>2 DEF AttemptRow, ChainModels
  <2> HIDE DEF row
  <2>4. /\ attempts \in Seq(AttemptRow) /\ attempts' \in Seq(AttemptRow)
        /\ Len(attempts) \in Nat
        /\ DOMAIN attempts = 1..Len(attempts) /\ DOMAIN attempts' = 1..Len(attempts) + 1
        /\ (\A i \in DOMAIN attempts : attempts'[i] = attempts[i]) /\ attempts'[Len(attempts) + 1] = row
    <3>1. attempts \in Seq(AttemptRow)
      BY DEF EscalationInv, EscalationTyped
    <3> QED BY <2>1, <2>3, <3>1 DEF row
  <2>5. EscalationTyped'
    BY <2>2, <2>4 DEF EscalationInv, EscalationTyped
  <2>6. AllPaidFor'
    BY <2>2 DEF EscalationInv, AllPaidFor, PaidFor, Earned
  <2>7. \A i \in DOMAIN attempts' : attempts'[i].of # 0 => i \in DOMAIN attempts
    BY <2>3, <2>4
  <2>8. ASSUME ~disturbed' PROVE OneAtATime'
    <3>1. ~disturbed
      BY <2>2, <2>8
    <3>2. \A i, j \in DOMAIN attempts' : attempts'[i].of # 0 /\ attempts'[i].of = attempts'[j].of => i = j
      BY <2>4, <2>7, <3>1 DEF EscalationInv, OneAtATime
    <3>3. \A i \in DOMAIN attempts' : attempts'[i].of # 0 =>
              \/ attempts'[i].of \in chain.retries
              \/ \E p \in Retriers : AtCall(p, "admitted") /\ attempts'[i].of \in climbing[p].cs.retries
      BY <2>4, <2>7, <3>1 DEF EscalationInv, OneAtATime
    <3> QED BY <2>2, <3>1, <3>2, <3>3 DEF EscalationInv, OneAtATime, AtCall
  <2>9. OneAtATime'
    BY <2>8 DEF OneAtATime
  <2> QED BY <2>5, <2>6, <2>9 DEF EscalationInv
<1>3. ASSUME PolicyChanges PROVE EscalationInv'
  BY <1>3 DEF PolicyChanges, EscalationInv, EscalationTyped, AllPaidFor, PaidFor, Earned, OneAtATime, AtCall
<1>4. ASSUME NEW p \in Retriers, LoadChainState(p) PROVE EscalationInv'
  <2>1. PICK i \in DOMAIN attempts, mode \in FailureModes :
          /\ i \notin chain.retries
          /\ climbing' = [climbing EXCEPT ![p] =
               [pc |-> "loaded", id |-> i, mode |-> mode,
                cs |-> IF chain.current = NoModel
                       THEN [chain EXCEPT !.current = attempts[i].model] ELSE chain]]
    BY <1>4 DEF LoadChainState
  <2>2. /\ AtCall(p, "idle") /\ disturbed' = (disturbed \/ \E q \in Retriers : ~AtCall(q, "idle"))
        /\ calls' = calls + 1 /\ UNCHANGED <<chain, attempts, routingPolicy>>
    BY <1>4 DEF LoadChainState, AtCall
  <2> DEFINE cs == IF chain.current = NoModel THEN [chain EXCEPT !.current = attempts[i].model] ELSE chain
             call == [pc |-> "loaded", id |-> i, mode |-> mode, cs |-> cs]
  <2>3. /\ attempts \in Seq(AttemptRow) /\ chain \in ChainState /\ attempts[i] \in AttemptRow
        /\ i \in Nat /\ calls \in Nat /\ disturbed \in BOOLEAN
    BY DEF EscalationInv, EscalationTyped
  <2>4. /\ cs \in ChainState /\ cs.retries = chain.retries
        /\ chain.current = NoModel \/ cs.current = chain.current
        /\ cs.escalations = chain.escalations /\ cs.strikes = chain.strikes
        /\ cs.failures = chain.failures /\ cs.dispatches = chain.dispatches
    <3>1. attempts[i].model \in ChainModels
      BY <2>3 DEF AttemptRow
    <3> QED BY <2>3, <3>1 DEF ChainState
  <2>5. climbing' = [climbing EXCEPT ![p] = call]
    BY <2>1
  <2> HIDE DEF cs
  <2>6. PaidFor(cs) /\ PaidFor(chain')
    <3>1. PaidFor(chain)
      BY DEF EscalationInv, AllPaidFor
    <3> QED BY <2>2, <2>4, <3>1 DEF PaidFor, Earned
  <2>7. /\ call \in CallState /\ call.pc = "loaded" /\ call.id = i /\ call.mode = mode /\ call.cs = cs
    BY <2>3, <2>4 DEF CallState
  <2> HIDE DEF call
  <2>8. disturbed' \in BOOLEAN /\ calls' \in Nat /\ chain' \in ChainState /\ attempts' \in Seq(AttemptRow)
    <3>1. disturbed' \in BOOLEAN
      BY <2>2
    <3> QED BY <2>2, <2>3, <3>1
  <2>9. /\ EscalationTyped' /\ AllPaidFor'
        /\ climbing'[p] = call /\ \A q \in Retriers \ {p} : climbing'[q] = climbing[q]
    BY <2>2, <2>3, <2>5, <2>6, <2>7, <2>8, CallMoves
  <2>10. ASSUME ~disturbed' PROVE OneAtATime'
    <3>1. ~disturbed /\ \A q \in Retriers : AtCall(q, "idle")
      BY <2>2, <2>10
    <3>2. \A q \in Retriers : ~AtCall(q, "admitted")
      BY <3>1 DEF AtCall
    <3>3. /\ \A j \in DOMAIN attempts : attempts[j].of # 0 => attempts[j].of \in chain.retries
          /\ \A j, k \in DOMAIN attempts : attempts[j].of # 0 /\ attempts[j].of = attempts[k].of => j = k
      BY <3>1, <3>2 DEF EscalationInv, OneAtATime
    <3>4. /\ \A q \in Retriers : ~AtCall(q, "idle")' => q = p
          /\ \A q \in Retriers : ~AtCall(q, "recorded")' /\ ~AtCall(q, "admitted")'
          /\ \A q \in Retriers : AtCall(q, "loaded")' => q = p
      BY <2>7, <2>9, <3>1 DEF AtCall
    <3>5. /\ climbing'[p].id \notin chain'.retries /\ climbing'[p].cs.retries = chain'.retries
          /\ chain'.current = NoModel \/ climbing'[p].cs.current = chain'.current
      BY <2>1, <2>2, <2>4, <2>7, <2>9
    <3>6. /\ \A j \in DOMAIN attempts' : attempts'[j].of # 0 => attempts'[j].of \in chain'.retries
          /\ \A j, k \in DOMAIN attempts' : attempts'[j].of # 0 /\ attempts'[j].of = attempts'[k].of => j = k
      BY <2>2, <3>3
    <3> QED BY <3>4, <3>5, <3>6 DEF OneAtATime
  <2>11. OneAtATime'
    BY <2>10 DEF OneAtATime
  <2> QED BY <2>9, <2>11 DEF EscalationInv
<1>5. ASSUME NEW p \in Retriers, RecordFailure(p) PROVE EscalationInv'
  <2> DEFINE cs == Recorded(climbing[p].cs, climbing[p].id, climbing[p].mode)
             call == [climbing[p] EXCEPT !.pc = "recorded", !.cs = cs]
  <2>1. /\ AtCall(p, "loaded") /\ chain' = cs /\ climbing' = [climbing EXCEPT ![p] = call]
        /\ UNCHANGED <<attempts, routingPolicy, disturbed, calls>>
    BY <1>5 DEF RecordFailure, AtCall
  <2>2. /\ climbing[p] \in CallState /\ climbing[p].mode \in FailureModes /\ climbing[p].id \in DOMAIN attempts
        /\ attempts \in Seq(AttemptRow) /\ calls \in Nat /\ disturbed \in BOOLEAN
    BY <2>1 DEF EscalationInv, EscalationTyped, AtCall
  <2>3. climbing[p].id \in Nat \ {0} /\ climbing[p].cs \in ChainState /\ PaidFor(climbing[p].cs)
    BY <2>2 DEF EscalationInv, AllPaidFor, CallState
  <2>4. /\ cs \in ChainState /\ PaidFor(cs)
        /\ cs.current = climbing[p].cs.current /\ cs.retries = climbing[p].cs.retries
    BY <2>2, <2>3, RecordedIsPaidFor
  <2> HIDE DEF cs
  <2>5. /\ call \in CallState /\ call.pc = "recorded" /\ call.cs = cs
        /\ call.id = climbing[p].id /\ call.mode = climbing[p].mode
    BY <2>2, <2>4 DEF CallState
  <2> HIDE DEF call
  <2>6. /\ EscalationTyped' /\ AllPaidFor'
        /\ climbing'[p] = call /\ \A q \in Retriers \ {p} : climbing'[q] = climbing[q]
    BY <2>1, <2>2, <2>4, <2>5, CallMoves
  <2>7. ASSUME ~disturbed' PROVE OneAtATime'
    <3>1. ~disturbed
      BY <2>1, <2>7
    <3>2. \A q \in Retriers \ {p} : AtCall(q, "idle")
      BY <2>1, <3>1 DEF EscalationInv, OneAtATime, AtCall
    <3>3. /\ \A q \in Retriers : ~AtCall(q, "admitted")
          /\ \A q \in Retriers : ~AtCall(q, "idle")' => q = p
          /\ \A q \in Retriers : AtCall(q, "recorded")' => q = p
          /\ \A q \in Retriers : ~AtCall(q, "loaded")' /\ ~AtCall(q, "admitted")'
      BY <2>1, <2>5, <2>6, <3>2 DEF AtCall
    <3>4. /\ \A j \in DOMAIN attempts : attempts[j].of # 0 => attempts[j].of \in chain.retries
          /\ \A j, k \in DOMAIN attempts : attempts[j].of # 0 /\ attempts[j].of = attempts[k].of => j = k
      BY <3>1, <3>3 DEF EscalationInv, OneAtATime
    <3>5. climbing[p].id \notin chain.retries /\ climbing[p].cs.retries = chain.retries
      BY <2>1, <3>1 DEF EscalationInv, OneAtATime
    <3>6. /\ climbing'[p].id \notin chain'.retries /\ climbing'[p].cs = chain'
          /\ chain'.retries = chain.retries
      BY <2>1, <2>4, <2>5, <2>6, <3>5
    <3>7. /\ \A j \in DOMAIN attempts' : attempts'[j].of # 0 => attempts'[j].of \in chain'.retries
          /\ \A j, k \in DOMAIN attempts' : attempts'[j].of # 0 /\ attempts'[j].of = attempts'[k].of => j = k
      BY <2>1, <3>4, <3>6
    <3> QED BY <3>3, <3>6, <3>7 DEF OneAtATime
  <2>8. OneAtATime'
    BY <2>7 DEF OneAtATime
  <2> QED BY <2>6, <2>8 DEF EscalationInv
<1>6. ASSUME NEW p \in Retriers, RetrySameModel(p) PROVE EscalationInv'
  <2> DEFINE cs == [climbing[p].cs EXCEPT !.decision = Contract(climbing[p])]
  <2>1. AtCall(p, "recorded") /\ AdmitRetry(p, cs)
    BY <1>6 DEF RetrySameModel, AtCall
  <2>2. climbing[p].cs \in ChainState /\ PaidFor(climbing[p].cs)
    BY DEF EscalationInv, EscalationTyped, AllPaidFor, CallState
  <2>3. Contract(climbing[p]) \in ChainContract
    <3>1. climbing[p].id \in DOMAIN attempts /\ attempts \in Seq(AttemptRow)
      BY <2>1 DEF EscalationInv, EscalationTyped, AtCall
    <3>2. attempts[climbing[p].id] \in AttemptRow
      BY <3>1
    <3>3. attempts[climbing[p].id].decision \in ChainContract /\ climbing[p].cs.decision \in ChainContract
      BY <2>2, <3>2 DEF AttemptRow, ChainState
    <3> QED BY <3>3 DEF Contract
  <2>4. /\ cs \in ChainState /\ cs.retries = climbing[p].cs.retries /\ cs.current = climbing[p].cs.current
        /\ cs.escalations = climbing[p].cs.escalations /\ cs.strikes = climbing[p].cs.strikes
        /\ cs.failures = climbing[p].cs.failures /\ cs.dispatches = climbing[p].cs.dispatches
    BY <2>2, <2>3 DEF ChainState
  <2> HIDE DEF cs
  <2>5. PaidFor(cs)
    BY <2>2, <2>4 DEF PaidFor, Earned
  <2> QED BY <2>1, <2>4, <2>5, RetryAdmitted
<1>7. ASSUME NEW p \in Retriers, StepUp(p) PROVE EscalationInv'
  <2>1. AtCall(p, "recorded") /\ StruckOut(climbing[p])
    BY <1>7 DEF StepUp, AtCall
  <2>2. PICK available \in SUBSET FrontierModels :
          LET c == climbing[p]
              unseen == available \ Range(c.cs.models)
          IN  IF unseen = {} \/ c.cs.escalations >= MaxEscalations THEN Exhaust(p, c.cs)
              ELSE \E m \in unseen :
                     AdmitRetry(p, [c.cs EXCEPT !.escalations = @ + 1, !.current = m, !.strikes = 0,
                                      !.decision = [hash |-> routingPolicy, review |-> FALSE]])
    BY <1>7 DEF StepUp
  <2>3. climbing[p].cs \in ChainState /\ PaidFor(climbing[p].cs)
    BY DEF EscalationInv, EscalationTyped, AllPaidFor, CallState
  <2>4. CASE Exhaust(p, climbing[p].cs)
    <3> DEFINE cs == [climbing[p].cs EXCEPT !.exhausted = TRUE]
    <3>1. /\ cs \in ChainState /\ cs.retries = climbing[p].cs.retries
          /\ cs.escalations = climbing[p].cs.escalations /\ cs.strikes = climbing[p].cs.strikes
          /\ cs.failures = climbing[p].cs.failures /\ cs.dispatches = climbing[p].cs.dispatches
      BY <2>3 DEF ChainState
    <3>2. /\ chain' = cs /\ climbing' = [climbing EXCEPT ![p] = noCall]
          /\ UNCHANGED <<attempts, routingPolicy, disturbed, calls>>
      BY <2>4 DEF Exhaust
    <3> HIDE DEF cs
    <3>3. PaidFor(cs)
      BY <2>3, <3>1 DEF PaidFor, Earned
    <3>4. ~disturbed => climbing[p].cs.retries = chain.retries
      BY <2>1 DEF EscalationInv, OneAtATime
    <3>5. ~AtCall(p, "idle") /\ ~AtCall(p, "admitted") /\ disturbed \in BOOLEAN
      BY <2>1 DEF EscalationInv, EscalationTyped, AtCall
    <3> QED BY <3>1, <3>2, <3>3, <3>4, <3>5, CallEnds
  <2>5. ASSUME NEW m \in available \ Range(climbing[p].cs.models),
               ~(climbing[p].cs.escalations >= MaxEscalations),
               AdmitRetry(p, [climbing[p].cs EXCEPT !.escalations = @ + 1, !.current = m, !.strikes = 0,
                                !.decision = [hash |-> routingPolicy, review |-> FALSE]])
        PROVE EscalationInv'
    <3> DEFINE cs == [climbing[p].cs EXCEPT !.escalations = @ + 1, !.current = m, !.strikes = 0,
                        !.decision = [hash |-> routingPolicy, review |-> FALSE]]
    <3>1. m \in ChainModels /\ [hash |-> routingPolicy, review |-> FALSE] \in ChainContract
      <4>1. routingPolicy \in 0..2
        BY DEF EscalationInv, EscalationTyped
      <4> QED BY <2>2, <4>1 DEF ChainModels, ChainContract
    <3>2. climbing[p].cs.escalations \in Nat /\ climbing[p].cs.strikes \in Nat
      BY <2>3 DEF ChainState
    <3>3. /\ cs \in ChainState /\ cs.retries = climbing[p].cs.retries /\ cs.current = m
          /\ cs.escalations = climbing[p].cs.escalations + 1 /\ cs.strikes = 0
          /\ cs.failures = climbing[p].cs.failures /\ cs.dispatches = climbing[p].cs.dispatches
      <4>1. PICK r \in ChainState, d \in ChainContract :
              r = climbing[p].cs /\ d = [hash |-> routingPolicy, review |-> FALSE]
        BY <2>3, <3>1
      <4>2. PICK ds : ds = [r EXCEPT !.escalations = @ + 1, !.current = m, !.strikes = 0, !.decision = d]
        OBVIOUS
      <4>3. /\ ds \in ChainState /\ ds.retries = r.retries /\ ds.current = m
            /\ ds.escalations = r.escalations + 1 /\ ds.strikes = 0
            /\ ds.failures = r.failures /\ ds.dispatches = r.dispatches
        <5>1. r.escalations + 1 \in Nat
          BY DEF ChainState
        <5>2. PICK e \in Nat : e = r.escalations + 1
          BY <5>1
        <5>3. ds = [r EXCEPT !.escalations = e, !.current = m, !.strikes = 0, !.decision = d]
          BY <4>2, <5>2
        <5> HIDE DEF cs
        <5> QED BY <3>1, <5>2, <5>3 DEF ChainState
      <4>4. cs = ds
        BY <4>1, <4>2, Zenon
      <4> HIDE DEF cs
      <4> QED BY <4>1, <4>3, <4>4
    <3>4. AdmitRetry(p, cs)
      BY <2>5
    <3> HIDE DEF cs
    <3>5. /\ climbing[p].cs.escalations < MaxEscalations
          /\ climbing[p].cs.strikes >= StrikesPerRung
      BY <2>1, <2>5, <3>2, EscalationAssumption DEF StruckOut
    <3>6. PaidFor(cs)
      BY <2>3, <3>3, <3>5, RungIsPaidFor
    <3> QED BY <2>1, <2>5, <3>3, <3>4, <3>6, RetryAdmitted
  <2> QED BY <2>2, <2>4, <2>5
<1>8. ASSUME NEW p \in Retriers, EscalationRefused(p) PROVE EscalationInv'
  <2>1. /\ climbing' = [climbing EXCEPT ![p] = noCall]
        /\ ~AtCall(p, "idle") /\ ~AtCall(p, "admitted")
        /\ UNCHANGED <<chain, attempts, routingPolicy, disturbed, calls>>
    BY <1>8 DEF EscalationRefused, GiveUp, AtCall
  <2>2. chain \in ChainState /\ PaidFor(chain) /\ disturbed \in BOOLEAN
    BY DEF EscalationInv, EscalationTyped, AllPaidFor
  <2> QED BY <2>1, <2>2, CallEnds
<1>9. ASSUME NEW p \in Retriers, RetrierDies(p) PROVE EscalationInv'
  <2>1. /\ climbing' = [climbing EXCEPT ![p] = noCall]
        /\ ~AtCall(p, "idle") /\ disturbed' = (disturbed \/ AtCall(p, "admitted"))
        /\ UNCHANGED <<chain, attempts, routingPolicy, calls>>
    BY <1>9 DEF RetrierDies, AtCall
  <2>2. chain \in ChainState /\ PaidFor(chain)
    BY DEF EscalationInv, EscalationTyped, AllPaidFor
  <2>3. disturbed' \in BOOLEAN /\ (disturbed => disturbed') /\ (AtCall(p, "admitted") => disturbed')
    BY <2>1
  <2> QED BY <2>1, <2>2, <2>3, CallEnds
<1>10. ASSUME NEW p \in Retriers, SaveChainState(p) PROVE EscalationInv'
  <2>1. /\ AtCall(p, "admitted") /\ chain' = climbing[p].cs
        /\ climbing' = [climbing EXCEPT ![p] = noCall]
        /\ UNCHANGED <<attempts, routingPolicy, disturbed, calls>>
    BY <1>10 DEF SaveChainState, AtCall
  <2>2. noCall \in CallState /\ noCall.cs = freshChain /\ noCall.pc = "idle"
    BY FreshIsPaidFor DEF noCall, CallState
  <2>3. /\ chain' \in ChainState /\ PaidFor(chain') /\ attempts' \in Seq(AttemptRow)
        /\ calls' \in Nat /\ disturbed' \in BOOLEAN
    BY <2>1 DEF EscalationInv, EscalationTyped, AllPaidFor, CallState
  <2>4. /\ EscalationTyped' /\ AllPaidFor'
        /\ climbing'[p] = noCall /\ \A q \in Retriers \ {p} : climbing'[q] = climbing[q]
    BY <2>1, <2>2, <2>3, FreshIsPaidFor, CallMoves
  <2>5. ASSUME ~disturbed' PROVE OneAtATime'
    <3>1. ~disturbed
      BY <2>1, <2>5
    <3>2. \A q \in Retriers \ {p} : AtCall(q, "idle")
      BY <2>1, <3>1 DEF EscalationInv, OneAtATime, AtCall
    <3>3. /\ \A q \in Retriers : AtCall(q, "admitted") => q = p
          /\ \A q \in Retriers : AtCall(q, "idle")'
          /\ \A q \in Retriers : ~AtCall(q, "loaded")' /\ ~AtCall(q, "recorded")' /\ ~AtCall(q, "admitted")'
      BY <2>2, <2>4, <3>2 DEF AtCall
    <3>4. chain.retries \subseteq chain'.retries
      BY <2>1, <3>1 DEF EscalationInv, OneAtATime
    <3>5. \A j \in DOMAIN attempts : attempts[j].of # 0 =>
              attempts[j].of \in chain.retries \/ attempts[j].of \in climbing[p].cs.retries
      BY <3>1, <3>3 DEF EscalationInv, OneAtATime
    <3>6. /\ \A j \in DOMAIN attempts' : attempts'[j].of # 0 => attempts'[j].of \in chain'.retries
          /\ \A j, k \in DOMAIN attempts' : attempts'[j].of # 0 /\ attempts'[j].of = attempts'[k].of => j = k
      <4>1. \A j, k \in DOMAIN attempts : attempts[j].of # 0 /\ attempts[j].of = attempts[k].of => j = k
        BY <3>1 DEF EscalationInv, OneAtATime
      <4> QED BY <2>1, <3>4, <3>5, <4>1
    <3> QED BY <3>3, <3>6 DEF OneAtATime
  <2>6. OneAtATime'
    BY <2>5 DEF OneAtATime
  <2> QED BY <2>4, <2>6 DEF EscalationInv
<1> QED
  BY <1>1, <1>2, <1>3, <1>4, <1>5, <1>6, <1>7, <1>8, <1>9, <1>10 DEF EscalationNext

\* Every call, whatever others do meanwhile, climbs only rungs that failures of the model or of a
\* premise paid for, each attempt counted once; calls one after another, none killed between its
\* row and its save, retry an attempt once and step to a model the chain has not tried
\* (RetryWithEscalation, RecordFailure and SaveChainState of internal/dispatch/escalation.go).
THEOREM TheLadderIsClimbedOnce == EscalationSpec => Escalates
<1>1. EscalationInv /\ [EscalationNext]_escalationVars /\ EscalationInv' =>
        [RungsAreEarned' /\ RetriedOnce' /\ NoRungAgain]_escalationVars
  <2> SUFFICES ASSUME EscalationInv, [EscalationNext]_escalationVars, EscalationInv',
                      ~UNCHANGED escalationVars
               PROVE RungsAreEarned' /\ RetriedOnce' /\ NoRungAgain
    OBVIOUS
  <2>1. RungsAreEarned'
    <3>1. ASSUME NEW cs \in ChainState, PaidFor(cs)
          PROVE Cardinality(Range(cs.dispatches)) = Len(cs.dispatches)
      BY <3>1, RecordedOnce DEF PaidFor, ChainState
    <3>2. \A cs \in {chain'} \cup {climbing'[p].cs : p \in Retriers} : cs \in ChainState /\ PaidFor(cs)
      BY DEF EscalationInv, EscalationTyped, AllPaidFor, CallState
    <3> QED BY <3>1, <3>2 DEF RungsAreEarned, PaidFor
  <2>2. RetriedOnce'
    BY DEF EscalationInv, OneAtATime, RetriedOnce
  <2>3. NoRungAgain
    <3> SUFFICES ASSUME ~disturbed', chain.current # NoModel, chain'.current # chain.current
                 PROVE chain'.current \notin Range(chain.models)
      BY DEF NoRungAgain
    <3>1. ASSUME NEW p \in Retriers, RecordFailure(p) PROVE FALSE
      <4>1. AtCall(p, "loaded") /\ ~disturbed
        BY <3>1 DEF RecordFailure, AtCall
      <4>2. climbing[p].cs.current = chain.current
        BY <4>1 DEF EscalationInv, OneAtATime
      <4>3. /\ climbing[p].mode \in FailureModes /\ climbing[p].id \in Nat \ {0}
            /\ climbing[p].cs \in ChainState /\ PaidFor(climbing[p].cs)
        <5>1. climbing[p].id \in DOMAIN attempts /\ attempts \in Seq(AttemptRow)
          BY <4>1 DEF EscalationInv, EscalationTyped, AtCall
        <5> QED BY <4>1, <5>1 DEF EscalationInv, EscalationTyped, AllPaidFor, CallState, AtCall
      <4>4. chain'.current = climbing[p].cs.current
        BY <3>1, <4>3, RecordedIsPaidFor DEF RecordFailure
      <4> QED BY <4>2, <4>4
    <3>2. ASSUME NEW p \in Retriers, StepUp(p), chain' # chain PROVE FALSE
      <4>1. AtCall(p, "recorded") /\ ~disturbed /\ chain' = [climbing[p].cs EXCEPT !.exhausted = TRUE]
        BY <3>2 DEF StepUp, Exhaust, AdmitRetry, AtCall
      <4>2. climbing[p].cs.current = chain.current /\ climbing[p].cs \in ChainState
        BY <4>1 DEF EscalationInv, EscalationTyped, OneAtATime, CallState
      <4>3. chain'.current = climbing[p].cs.current
        BY <4>1, <4>2 DEF ChainState
      <4> QED BY <4>2, <4>3
    <3>3. ASSUME NEW p \in Retriers, SaveChainState(p) PROVE chain'.current \notin Range(chain.models)
      <4>1. AtCall(p, "admitted") /\ ~disturbed /\ chain' = climbing[p].cs
        BY <3>3 DEF SaveChainState, AtCall
      <4> QED BY <4>1 DEF EscalationInv, OneAtATime
    <3>4. chain' # chain
      OBVIOUS
    <3>5. PICK p \in Retriers : RecordFailure(p) \/ StepUp(p) \/ SaveChainState(p)
      BY <3>4 DEF EscalationNext, Trigger, PolicyChanges, LoadChainState, RetrySameModel, AdmitRetry,
            EscalationRefused, GiveUp, RetrierDies, escalationVars
    <3> QED BY <3>1, <3>2, <3>3, <3>4, <3>5
  <2> QED BY <2>1, <2>2, <2>3
<1>2. EscalationSpec => []EscalationInv
  BY EscalationInvInit, EscalationInvStep, PTL DEF EscalationSpec
<1> QED BY <1>1, <1>2, PTL DEF EscalationSpec, Escalates

-----------------------------------------------------------------------------
(* Routes: recursion, least numbers, and what a sequence has at some places.  *)

\* Counting from 0 to N misses no number of the interval.
LEMMA CountedUp ==
    ASSUME NEW N \in Nat, NEW T, 0 \in T, \A n \in 1..N : n - 1 \in T => n \in T
    PROVE 0..N \subseteq T
<1>1. SUFFICES ASSUME (0..N) \ T # {}
               PROVE FALSE
  OBVIOUS
<1>2. PICK n \in (0..N) \ T : \A k \in (0..N) \ T : ~(<<k, n>> \in OpToRel(<, Nat))
  <2>1. (0..N) \ T \subseteq Nat
    OBVIOUS
  <2> QED BY <1>1, <2>1, NatLessThanWellFounded, WFMin, Zenon
<1>3. n # 0 /\ n - 1 \in 0..N /\ n \in 1..N
  OBVIOUS
<1>4. n - 1 \notin T
  BY <1>3
<1>5. <<n - 1, n>> \in OpToRel(<, Nat)
  BY <1>3 DEF OpToRel
<1> QED BY <1>2, <1>3, <1>4, <1>5

\* A step for each number from 1 on and a first value make a function on 0..N, so what a
\* recursive definition there chooses has its equations.
LEMMA RecursionExists ==
    ASSUME NEW S, NEW c \in S, NEW N \in Nat, NEW g \in [1..N -> [S -> S]]
    PROVE \E f \in [0..N -> S] : f[0] = c /\ \A n \in 1..N : f[n] = g[n][f[n - 1]]
<1> DEFINE Till(m) == \E f \in [0..m -> S] : f[0] = c /\ \A n \in 1..m : f[n] = g[n][f[n - 1]]
           T == {m \in 0..N : Till(m)}
<1>1. 0 \in T
  <2> DEFINE f == [n \in 0..0 |-> c]
  <2>1. f \in [0..0 -> S] /\ f[0] = c /\ \A n \in 1..0 : f[n] = g[n][f[n - 1]]
    OBVIOUS
  <2> HIDE DEF f
  <2>2. Till(0)
    BY <2>1
  <2> QED BY <2>2
<1>2. ASSUME NEW m \in 1..N, m - 1 \in T
      PROVE m \in T
  <2>1. PICK f \in [0..(m - 1) -> S] : f[0] = c /\ \A n \in 1..(m - 1) : f[n] = g[n][f[n - 1]]
    BY <1>2
  <2> DEFINE h == [n \in 0..m |-> IF n = m THEN g[m][f[m - 1]] ELSE f[n]]
  <2>2. h \in [0..m -> S] /\ h[0] = c
    <3>1. g[m][f[m - 1]] \in S
      OBVIOUS
    <3> QED BY <2>1, <3>1
  <2>3. ASSUME NEW n \in 1..m
        PROVE h[n] = g[n][h[n - 1]]
    BY <2>1
  <2> HIDE DEF h
  <2>4. Till(m)
    BY <2>2, <2>3
  <2> QED BY <2>4
<1>3. 0..N \subseteq T
  <2> HIDE DEF T
  <2> QED BY <1>1, <1>2, CountedUp
<1>4. N \in 0..N
  OBVIOUS
<1> QED BY <1>3, <1>4

\* A set of numbers has a least one.
LEMMA LeastOne ==
    ASSUME NEW places \in SUBSET Nat, places # {}
    PROVE Min(places) \in places /\ \A j \in places : Min(places) <= j
<1>1. PICK n \in places : \A k \in places : ~(<<k, n>> \in OpToRel(<, Nat))
  BY NatLessThanWellFounded, WFMin, Zenon
<1>2. \A k \in places : n <= k
  <2> SUFFICES ASSUME NEW k \in places, ~(n <= k) PROVE FALSE
    OBVIOUS
  <2>1. n \in Nat /\ k \in Nat /\ k < n
    OBVIOUS
  <2>2. <<k, n>> \in OpToRel(<, Nat)
    BY <2>1 DEF OpToRel
  <2> QED BY <1>1, <2>2
<1> QED BY <1>2 DEF Min

\* The first n places are finitely many, n of them.
LEMMA UpTo == \A n \in Nat : IsFiniteSet(1..n) /\ Cardinality(1..n) = n
<1> SUFFICES ASSUME NEW n \in Nat PROVE IsFiniteSet(1..n) /\ Cardinality(1..n) = n
  OBVIOUS
<1>1. 1 \in Int /\ n \in Int
  OBVIOUS
<1>2. IsFiniteSet(1..n) /\ Cardinality(1..n) = IF 1 > n THEN 0 ELSE n - 1 + 1
  BY <1>1, FS_Interval
<1> QED BY <1>2

Below(places, i) == {j \in places : j <= i}

\* The places are met in their order: the k-th is the one with k places up to it.
LEMMA PlacesInOrder ==
    ASSUME NEW n \in Nat, NEW places \in SUBSET (1..n)
    PROVE /\ Cardinality(places) \in Nat
          /\ \E at \in [1..Cardinality(places) -> places] :
               /\ \A k \in 1..Cardinality(places) :
                     at[k] = CHOOSE i \in places : Cardinality(Below(places, i)) = k
               /\ \A k, l \in 1..Cardinality(places) : k < l => at[k] < at[l]
<1> DEFINE m == Cardinality(places)
           rank == [i \in places |-> Cardinality(Below(places, i))]
           at == [k \in 1..m |-> CHOOSE i \in places : Cardinality(Below(places, i)) = k]
<1>1. IsFiniteSet(places) /\ m \in Nat
  <2>1. IsFiniteSet(1..n)
    BY UpTo
  <2> QED BY <2>1, FS_Subset, FS_CardinalityType
<1>2. \A i \in places : Below(places, i) \in SUBSET places /\ i \in Below(places, i)
  BY DEF Below
<1>3. \A i \in places : IsFiniteSet(Below(places, i)) /\ Cardinality(Below(places, i)) \in 1..m
  <2> TAKE i \in places
  <2>1. IsFiniteSet(Below(places, i)) /\ Cardinality(Below(places, i)) <= m
    BY <1>1, <1>2, FS_Subset
  <2>2. Cardinality(Below(places, i)) \in Nat /\ Cardinality(Below(places, i)) # 0
    BY <1>2, <2>1, FS_CardinalityType, FS_EmptySet
  <2> QED BY <1>1, <2>1, <2>2
<1>4. \A i, j \in places : i < j => Cardinality(Below(places, i)) < Cardinality(Below(places, j))
  <2> SUFFICES ASSUME NEW i \in places, NEW j \in places, i < j
               PROVE Cardinality(Below(places, i)) < Cardinality(Below(places, j))
    OBVIOUS
  <2>1. Below(places, i) \in SUBSET Below(places, j) /\ j \in Below(places, j) /\ j \notin Below(places, i)
    <3>1. \A k \in places : k \in Int
      OBVIOUS
    <3>2. \A k \in places : k <= i => k <= j
      BY <3>1
    <3>3. j <= j /\ ~(j <= i)
      BY <3>1
    <3> QED BY <3>2, <3>3 DEF Below
  <2>2. /\ Cardinality(Below(places, i)) <= Cardinality(Below(places, j))
        /\ Cardinality(Below(places, j)) = Cardinality(Below(places, i)) => Below(places, j) = Below(places, i)
    BY <1>3, <2>1, FS_Subset
  <2>3. Cardinality(Below(places, i)) # Cardinality(Below(places, j))
    BY <2>1, <2>2
  <2>4. Cardinality(Below(places, i)) \in Nat /\ Cardinality(Below(places, j)) \in Nat
    BY <1>3
  <2> QED BY <2>2, <2>3, <2>4
<1>5. rank \in Injection(places, 1..m)
  <2>1. \A i, j \in places : rank[i] = rank[j] => i = j
    <3> SUFFICES ASSUME NEW i \in places, NEW j \in places, rank[i] = rank[j] PROVE i = j
      OBVIOUS
    <3>1. ~(i < j) /\ ~(j < i)
      BY <1>3, <1>4
    <3> QED BY <3>1
  <2> QED BY <1>3, <2>1 DEF Injection, IsInjective
<1>6. rank \in Surjection(places, 1..m)
  <2>1. IsFiniteSet(1..m) /\ Cardinality(1..m) = Cardinality(places)
    BY <1>1, UpTo
  <2> HIDE DEF rank
  <2> QED BY <1>5, <2>1, FS_Injection
<1>7. \A k \in 1..m : \E i \in places : Cardinality(Below(places, i)) = k
  BY <1>6 DEF Surjection
<1>8. \A k \in 1..m : at[k] \in places /\ Cardinality(Below(places, at[k])) = k
  BY <1>7
<1>9. \A k, l \in 1..m : k < l => at[k] < at[l]
  <2> SUFFICES ASSUME NEW k \in 1..m, NEW l \in 1..m, k < l PROVE at[k] < at[l]
    OBVIOUS
  <2>1. PICK i \in places, j \in places : i = at[k] /\ j = at[l]
    BY <1>8
  <2>2. Cardinality(Below(places, i)) = k /\ Cardinality(Below(places, j)) = l
    BY <1>8, <2>1
  <2>3. i # j /\ ~(j < i)
    BY <1>4, <2>2
  <2>4. i \in Int /\ j \in Int
    OBVIOUS
  <2>5. i < j
    BY <2>3, <2>4
  <2> QED BY <2>1, <2>5
<1>10. at \in [1..m -> places]
  BY <1>8
<1> QED BY <1>1, <1>9, <1>10

\* Where each of them was.
TakenFrom(s, places, t, at) ==
    /\ at \in [DOMAIN t -> places]
    /\ \A k \in DOMAIN t : t[k] = s[at[k]]
    /\ \A k, l \in DOMAIN t : k < l => at[k] < at[l]

\* What is taken at some places keeps its order and is all from there.
LEMMA TakenInOrder ==
    ASSUME NEW n \in Nat, NEW places \in SUBSET (1..n), NEW s
    PROVE /\ Cardinality(places) \in Nat
          /\ DOMAIN AtPlaces(s, places) = 1..Cardinality(places)
          /\ \E at : TakenFrom(s, places, AtPlaces(s, places), at)
<1>1. PICK at \in [1..Cardinality(places) -> places] :
           /\ \A k \in 1..Cardinality(places) :
                 at[k] = CHOOSE i \in places : Cardinality(Below(places, i)) = k
           /\ \A k, l \in 1..Cardinality(places) : k < l => at[k] < at[l]
  BY PlacesInOrder
<1>2. DOMAIN AtPlaces(s, places) = 1..Cardinality(places)
  BY DEF AtPlaces
<1>3. \A k \in 1..Cardinality(places) : AtPlaces(s, places)[k] = s[at[k]]
  BY <1>1 DEF AtPlaces, Below
<1>4. TakenFrom(s, places, AtPlaces(s, places), at)
  BY <1>1, <1>2, <1>3 DEF TakenFrom
<1> QED BY <1>2, <1>4, PlacesInOrder

\* What is taken from members of a set is a sequence of them.
LEMMA TakenMembers ==
    ASSUME NEW n \in Nat, NEW places \in SUBSET (1..n), NEW s, NEW T, \A i \in places : s[i] \in T
    PROVE AtPlaces(s, places) \in Seq(T)
<1>1. PICK at : TakenFrom(s, places, AtPlaces(s, places), at)
  BY TakenInOrder
<1>2. Cardinality(places) \in Nat /\ DOMAIN AtPlaces(s, places) = 1..Cardinality(places)
  BY TakenInOrder
<1>3. \A k \in 1..Cardinality(places) : AtPlaces(s, places)[k] \in T
  BY <1>1, <1>2 DEF TakenFrom
<1>4. AtPlaces(s, places) = [k \in 1..Cardinality(places) |-> AtPlaces(s, places)[k]]
  BY DEF AtPlaces
<1>5. AtPlaces(s, places) \in [1..Cardinality(places) -> T]
  BY <1>3, <1>4
<1> QED BY <1>2, <1>5

-----------------------------------------------------------------------------
(* Routes: a profile and all it falls back to.                                *)

\* What RoutingAssumption says of a configuration.
Configured(config) ==
    /\ IsFiniteSet(DOMAIN config.tiers)
    /\ \A tier \in DOMAIN config.tiers :
          config.tiers[tier].effort \in Nat /\ config.tiers[tier].fallbacks \in Seq(STRING)

OneEach(s) == \A i, j \in DOMAIN s : s[i] = s[j] => i = j

Chains(config) == {s \in Seq(DOMAIN config.tiers) : OneEach(s)}

WalkState(config, ref) == [chain : Chains(config), todo : Seq(STRING \cup {ref})]

\* A step of the walk adds a profile that is not there yet, or none.
LEMMA WalkGoesOn ==
    ASSUME NEW config, Configured(config), NEW ref, NEW walk \in WalkState(config, ref)
    PROVE appendFallback(config, walk) \in WalkState(config, ref)
<1> DEFINE R == STRING \cup {ref}
           T == DOMAIN config.tiers
           next == lookupDispatchProfile(config, Head(walk.todo))
<1>1. walk.chain \in Seq(T) /\ OneEach(walk.chain) /\ walk.todo \in Seq(R)
  BY DEF WalkState, Chains
<1>2. CASE walk.todo = <<>>
  BY <1>2 DEF appendFallback
<1>3. ASSUME walk.todo # <<>>, next = None \/ next \in ToSet(walk.chain)
      PROVE appendFallback(config, walk) \in WalkState(config, ref)
  <2>1. Tail(walk.todo) \in Seq(R)
    BY <1>1, <1>3
  <2>2. appendFallback(config, walk) = [walk EXCEPT !.todo = Tail(@)]
    BY <1>3 DEF appendFallback
  <2> QED BY <2>1, <2>2 DEF WalkState
<1>4. ASSUME walk.todo # <<>>, ~(next = None \/ next \in ToSet(walk.chain))
      PROVE appendFallback(config, walk) \in WalkState(config, ref)
  <2>1. next \in T
    BY <1>4 DEF lookupDispatchProfile
  <2>2. Append(walk.chain, next) \in Chains(config)
    <3>0. next \notin ToSet(walk.chain)
      BY <1>4
    <3> HIDE DEF next
    <3>1. \A i \in DOMAIN walk.chain : walk.chain[i] # next
      BY <3>0 DEF ToSet
    <3>2. Append(walk.chain, next) \in Seq(T)
      <4> HIDE DEF T
      <4> QED BY <1>1, <2>1
    <3>3. PICK n \in Nat : n = Len(walk.chain) /\ DOMAIN walk.chain = 1..n
      BY <1>1
    <3>4. /\ DOMAIN Append(walk.chain, next) = 1..n + 1
          /\ \A i \in 1..n : Append(walk.chain, next)[i] = walk.chain[i]
          /\ Append(walk.chain, next)[n + 1] = next
      BY <1>1, <2>1, <3>3
    <3>5. OneEach(Append(walk.chain, next))
      <4> HIDE DEF T
      <4> QED BY <1>1, <3>1, <3>3, <3>4 DEF OneEach
    <3> QED BY <3>2, <3>5 DEF Chains
  <2>3. config.tiers[next].fallbacks \o Tail(walk.todo) \in Seq(R)
    <3>1. config.tiers[next].fallbacks \in Seq(R)
      <4>1. config.tiers[next].fallbacks \in Seq(STRING)
        BY <2>1 DEF Configured
      <4> QED BY <4>1
    <3>2. Tail(walk.todo) \in Seq(R)
      BY <1>1, <1>4
    <3> QED BY <3>1, <3>2
  <2>4. appendFallback(config, walk) =
          [chain |-> Append(walk.chain, next), todo |-> config.tiers[next].fallbacks \o Tail(walk.todo)]
    BY <1>4 DEF appendFallback
  <2> QED BY <2>2, <2>3, <2>4 DEF WalkState
<1> QED BY <1>2, <1>3, <1>4

Declared(config) == UNION {{tier} \X DOMAIN config.tiers[tier].fallbacks : tier \in DOMAIN config.tiers}
WalkSteps(config) == 1 + Cardinality(Declared(config))
WalkStart(ref) == [chain |-> <<>>, todo |-> <<ref>>]

\* The walk of resolveDispatch.
Walk(config, ref) ==
    CHOOSE f : f = [n \in 0..WalkSteps(config) |->
                      IF n = 0 THEN WalkStart(ref) ELSE appendFallback(config, f[n - 1])]

\* The chain of a profile is what the last step of its walk holds.
LEMMA WalkEnd ==
    ASSUME NEW config, NEW ref
    PROVE resolveDispatch(config, ref) = Walk(config, ref)[WalkSteps(config)].chain
BY DEF resolveDispatch, Walk, WalkSteps, WalkStart, Declared

\* The profiles declare finitely many fallbacks, so the walk has a number of steps.
LEMMA WalkIsFinite == ASSUME NEW config, Configured(config) PROVE WalkSteps(config) \in Nat
<1> DEFINE F(tier) == {tier} \X DOMAIN config.tiers[tier].fallbacks
           Fs == {F(tier) : tier \in DOMAIN config.tiers}
<1>1. \A tier \in DOMAIN config.tiers : IsFiniteSet(F(tier))
  <2> TAKE tier \in DOMAIN config.tiers
  <2>1. PICK n \in Nat : DOMAIN config.tiers[tier].fallbacks = 1..n
    <3>1. config.tiers[tier].fallbacks \in Seq(STRING)
      BY DEF Configured
    <3> QED BY <3>1
  <2>2. IsFiniteSet({tier}) /\ IsFiniteSet(1..n)
    BY FS_Singleton, UpTo
  <2> QED BY <2>1, <2>2, FS_Product
<1>2. IsFiniteSet(Fs)
  <2> DEFINE f == [tier \in DOMAIN config.tiers |-> F(tier)]
  <2>1. f \in Surjection(DOMAIN config.tiers, Fs)
    BY DEF Surjection
  <2> HIDE DEF f, Fs
  <2> QED BY <2>1, FS_Surjection DEF Configured
<1>3. \A t \in Fs : IsFiniteSet(t)
  BY <1>1
<1> HIDE DEF Fs
<1>4. IsFiniteSet(UNION Fs)
  BY <1>2, <1>3, FS_UNION
<1>5. Cardinality(UNION Fs) \in Nat
  BY <1>4, FS_CardinalityType
<1> QED BY <1>5 DEF Fs, WalkSteps, Declared

\* The walk exists, and each of its steps is one of appendFallback.
LEMMA WalkGoes ==
    ASSUME NEW config, Configured(config), NEW ref
    PROVE Walk(config, ref) = [n \in 0..WalkSteps(config) |->
              IF n = 0 THEN WalkStart(ref) ELSE appendFallback(config, Walk(config, ref)[n - 1])]
<1> DEFINE N == WalkSteps(config)
           W == WalkState(config, ref)
           g == [n \in 1..N |-> [walk \in W |-> appendFallback(config, walk)]]
           start == WalkStart(ref)
<1>1. N \in Nat
  BY WalkIsFinite
<1>2. start \in W
  <2>1. <<>> \in Chains(config)
    BY DEF Chains, OneEach
  <2>2. <<ref>> \in Seq(STRING \cup {ref})
    OBVIOUS
  <2> QED BY <2>1, <2>2 DEF WalkStart, WalkState
<1>3. g \in [1..N -> [W -> W]]
  <2>1. \A walk \in W : appendFallback(config, walk) \in W
    BY WalkGoesOn
  <2> QED BY <2>1
<1>4. \E f \in [0..N -> W] : f[0] = start /\ \A n \in 1..N : f[n] = g[n][f[n - 1]]
  <2> HIDE DEF N, W, g, start
  <2> QED BY <1>1, <1>2, <1>3, RecursionExists
<1>5. PICK f \in [0..N -> W] : f[0] = start /\ \A n \in 1..N : f[n] = g[n][f[n - 1]]
  BY <1>4
<1>6. \A n \in 1..N : f[n] = appendFallback(config, f[n - 1])
  <2> TAKE n \in 1..N
  <2>1. n - 1 \in 0..N
    BY <1>1
  <2>2. f[n - 1] \in W
    BY <1>5, <2>1
  <2>3. g[n][f[n - 1]] = appendFallback(config, f[n - 1])
    BY <2>2
  <2> QED BY <1>5, <2>3
<1>7. f = [n \in 0..N |-> IF n = 0 THEN WalkStart(ref) ELSE appendFallback(config, f[n - 1])]
  <2> HIDE DEF W, g
  <2> QED BY <1>1, <1>5, <1>6
<1> QED BY <1>7 DEF Walk

\* A profile and all it falls back to, each of them once.
LEMMA ChainOnce ==
    ASSUME NEW config, Configured(config), NEW ref
    PROVE resolveDispatch(config, ref) \in Chains(config)
<1> DEFINE N == WalkSteps(config)
           W == WalkState(config, ref)
           T == {n \in 0..N : Walk(config, ref)[n] \in W}
<1>1. N \in Nat
  BY WalkIsFinite
<1>2. 0 \in T
  <2>1. Walk(config, ref)[0] = WalkStart(ref) /\ 0 \in 0..N
    BY <1>1, WalkGoes
  <2>2. <<>> \in Chains(config)
    BY DEF Chains, OneEach
  <2>3. <<ref>> \in Seq(STRING \cup {ref})
    OBVIOUS
  <2>4. WalkStart(ref) \in W
    BY <2>2, <2>3 DEF WalkStart, WalkState
  <2> QED BY <2>1, <2>4
<1>3. ASSUME NEW n \in 1..N, n - 1 \in T PROVE n \in T
  <2>1. Walk(config, ref)[n] = appendFallback(config, Walk(config, ref)[n - 1])
    BY <1>1, WalkGoes
  <2>2. Walk(config, ref)[n - 1] \in W
    BY <1>3
  <2>3. appendFallback(config, Walk(config, ref)[n - 1]) \in W
    BY <2>2, WalkGoesOn
  <2> QED BY <1>1, <2>1, <2>3
<1>4. N \in T
  <2> HIDE DEF T, N
  <2>1. 0..N \subseteq T
    BY <1>1, <1>2, <1>3, CountedUp
  <2> QED BY <1>1, <2>1
<1>5. Walk(config, ref)[N].chain \in Chains(config)
  BY <1>4 DEF WalkState
<1> QED BY <1>5, WalkEnd

-----------------------------------------------------------------------------
(* Routes: the model of a subagent.                                           *)

\* A model has one of five tiers, the lowest for a name nobody ranks.
LEMMA TierRange == ASSUME NEW model PROVE Tier(model) \in 0..4
BY DEF Tier

\* The level that decides names a model.
LEMMA StaticModelNamed ==
    ASSUME NEW levels \in Seq(STRING)
    PROVE resolveStaticModel(levels) # "inherit"
<1>1. CASE Said(levels) = {}
  BY <1>1 DEF resolveStaticModel
<1>2. CASE Said(levels) # {}
  <2>1. Said(levels) \in SUBSET Nat
    BY DEF Said
  <2>2. Min(Said(levels)) \in Said(levels)
    BY <1>2, <2>1, LeastOne
  <2>3. levels[Min(Said(levels))] # "inherit"
    BY <2>2 DEF Said
  <2> QED BY <1>2, <2>3 DEF resolveStaticModel
<1> QED BY <1>1, <1>2

\* A recommendation names a model it may recommend, or there is none.
LEMMA RecommendationNamed ==
    ASSUME NEW artifact \in CalibrationArtifact
    PROVE recommendation(artifact) \in {"haiku", "sonnet", "opus", None}
<1> DEFINE eligible == {i \in DOMAIN artifact.entries : entryEligible(artifact.entries[i], artifact.schema)}
<1>1. CASE ~artifact.valid \/ eligible = {}
  BY <1>1 DEF recommendation, None
<1>2. CASE ~(~artifact.valid \/ eligible = {})
  <2>1. eligible \in SUBSET Nat
    <3>1. artifact.entries \in Seq(CalibrationEntry)
      BY DEF CalibrationArtifact
    <3>2. DOMAIN artifact.entries \subseteq Nat
      BY <3>1
    <3> QED BY <3>2
  <2>2. Min(eligible) \in eligible
    <3> HIDE DEF eligible
    <3> QED BY <1>2, <2>1, LeastOne
  <2>3. artifact.entries[Min(eligible)].model \in {"haiku", "sonnet", "opus"}
    <3>1. entryEligible(artifact.entries[Min(eligible)], artifact.schema)
      BY <2>2
    <3> HIDE DEF eligible
    <3> QED BY <3>1 DEF entryEligible
  <2>4. recommendation(artifact) = artifact.entries[Min(eligible)].model
    BY <1>2 DEF recommendation
  <2> QED BY <2>3, <2>4
<1> QED BY <1>1, <1>2

\* What becomes of a model is still a model, at least the agent's floor, and fable out of
\* its window only by that floor.
LEMMA FloorKept ==
    ASSUME NEW model, model # "inherit", NEW floor, NEW windowOpen
    PROVE /\ finalizeModel(model, windowOpen, floor) # "inherit"
          /\ Tier(floor) > 0 => Tier(finalizeModel(model, windowOpen, floor)) >= Tier(floor)
          /\ (finalizeModel(model, windowOpen, floor) = "fable" /\ ~windowOpen) => floor = "fable"
          /\ model \in {"haiku", "sonnet", "opus"} =>
                finalizeModel(model, windowOpen, floor) \in {"haiku", "sonnet", "opus", floor}
<1> DEFINE open == IF model = "fable" /\ ~windowOpen THEN "opus" ELSE model
<1>1. /\ open # "inherit"
      /\ ~windowOpen => open # "fable"
      /\ model \in {"haiku", "sonnet", "opus"} => open \in {"haiku", "sonnet", "opus"}
  OBVIOUS
<1>2. finalizeModel(model, windowOpen, floor) =
        IF Tier(floor) = 0 \/ Tier(open) >= Tier(floor) THEN open ELSE floor
  BY DEF finalizeModel, applyFloor
<1> HIDE DEF open
<1>3. Tier(floor) \in 0..4 /\ Tier(open) \in 0..4
  BY TierRange
<1>4. Tier(floor) # 0 => floor # "inherit"
  BY DEF Tier
<1>5. CASE Tier(floor) = 0 \/ Tier(open) >= Tier(floor)
  <2>1. finalizeModel(model, windowOpen, floor) = open
    BY <1>2, <1>5
  <2> QED BY <1>1, <1>3, <1>5, <2>1
<1>6. CASE ~(Tier(floor) = 0 \/ Tier(open) >= Tier(floor))
  <2>1. finalizeModel(model, windowOpen, floor) = floor
    BY <1>2, <1>6
  <2> QED BY <1>3, <1>4, <1>6, <2>1
<1> QED BY <1>5, <1>6

\* The model of an agent: named, floored, and moved by calibration only where the mode
\* enforces it over no override.
LEMMA ModelAnswer ==
    ASSUME NEW question \in ModelAsks, NEW floor
    PROVE /\ ResolveModelDetailed(question, floor) # "inherit"
          /\ Tier(floor) > 0 => Tier(ResolveModelDetailed(question, floor)) >= Tier(floor)
          /\ ResolveModelDetailed(question, floor)
                 # finalizeModel(resolveStaticModel(question.levels), question.window, floor)
             => /\ question.levels[1] = "inherit" /\ question.mode = "enforce" /\ question.artifact[1].schema > 1
                /\ ResolveModelDetailed(question, floor) \in {"haiku", "sonnet", "opus", floor}
          /\ (ResolveModelDetailed(question, floor) = "fable" /\ ~question.window) => floor = "fable"
<1>1. question.levels \in Seq(STRING) /\ question.artifact \in Seq(CalibrationArtifact)
  BY RoutingAssumption
<1>2. resolveStaticModel(question.levels) # "inherit"
  BY <1>1, StaticModelNamed
<1>3. CASE Calibrated(question)
  <2>1. question.artifact # <<>>
    BY <1>3 DEF Calibrated
  <2>2. question.artifact[1] \in CalibrationArtifact
    BY <1>1, <2>1
  <2>3. recommendation(question.artifact[1]) \in {"haiku", "sonnet", "opus"}
    BY <1>3, <2>2, RecommendationNamed DEF Calibrated
  <2>4. ResolveModelDetailed(question, floor) =
          finalizeModel(recommendation(question.artifact[1]), question.window, floor)
    BY <1>3 DEF ResolveModelDetailed
  <2>5. question.artifact[1].schema \in 1..3 /\ question.artifact[1].schema # 1
    BY <1>3, <2>2 DEF Calibrated, CalibrationArtifact
  <2>6. question.artifact[1].schema > 1
    BY <2>5
  <2>7. question.levels[1] = "inherit" /\ question.mode = "enforce"
    BY <1>3 DEF Calibrated, overridden
  <2> QED BY <2>3, <2>4, <2>6, <2>7, FloorKept
<1>4. CASE ~Calibrated(question)
  <2>1. ResolveModelDetailed(question, floor) =
          finalizeModel(resolveStaticModel(question.levels), question.window, floor)
    BY <1>4 DEF ResolveModelDetailed
  <2> QED BY <1>2, <2>1, FloorKept
<1> QED BY <1>3, <1>4

-----------------------------------------------------------------------------
(* Routes: the seats of a role.                                               *)

SeatOf(config) == [ref : DOMAIN config.tiers, effort : Nat, identity : DOMAIN Lab \cup {None}]

RefOnce(seats) == \A i, j \in DOMAIN seats : seats[i].ref = seats[j].ref => i = j

\* The seats of the part are in the order of their profiles in the whole.
OrderKept(seats, part) ==
    \A k, l \in DOMAIN part, i, j \in DOMAIN seats :
        (k < l /\ seats[i].ref = part[k].ref /\ seats[j].ref = part[l].ref) => i < j

\* An identity is one whose lab is known, or nothing.
LEMMA IdentityKnown == ASSUME NEW model PROVE CanonicalModelIdentity(model) \in DOMAIN Lab \cup {None}
BY DEF CanonicalModelIdentity

PolicySeats(config, ref) ==
    [i \in DOMAIN resolveDispatch(config, ref) |-> Seat(config, resolveDispatch(config, ref)[i])]

\* The policy's seats are well formed and each profile has one.
LEMMA PolicyOnce ==
    ASSUME NEW config, Configured(config), NEW ref
    PROVE PolicySeats(config, ref) \in Seq(SeatOf(config)) /\ RefOnce(PolicySeats(config, ref))
<1> DEFINE named == resolveDispatch(config, ref)
<1>1. named \in Seq(DOMAIN config.tiers) /\ OneEach(named)
  BY ChainOnce DEF Chains
<1>2. PICK n \in Nat : DOMAIN named = 1..n
  BY <1>1
<1>3. ASSUME NEW i \in DOMAIN named
      PROVE Seat(config, named[i]) \in SeatOf(config) /\ Seat(config, named[i]).ref = named[i]
  <2>1. named[i] \in DOMAIN config.tiers
    BY <1>1
  <2>2. config.tiers[named[i]].effort \in Nat
    BY <2>1 DEF Configured
  <2>3. CanonicalModelIdentity(config.tiers[named[i]].model) \in DOMAIN Lab \cup {None}
    BY IdentityKnown
  <2> HIDE DEF named
  <2> QED BY <2>1, <2>2, <2>3 DEF Seat, SeatOf
<1> HIDE DEF named
<1>4. PolicySeats(config, ref) = [i \in DOMAIN named |-> Seat(config, named[i])]
  BY DEF PolicySeats, named
<1>5. PolicySeats(config, ref) \in [1..n -> SeatOf(config)]
  BY <1>2, <1>3, <1>4
<1>6. RefOnce(PolicySeats(config, ref))
  BY <1>1, <1>3, <1>4 DEF RefOnce, OneEach
<1> QED BY <1>5, <1>6

\* Taking some of the seats leaves each profile at most one.
LEMMA SomeSeats ==
    ASSUME NEW S, NEW seats \in Seq(S), RefOnce(seats), NEW places \in SUBSET DOMAIN seats
    PROVE /\ AtPlaces(seats, places) \in Seq(S)
          /\ RefOnce(AtPlaces(seats, places))
          /\ \A k \in DOMAIN AtPlaces(seats, places) :
                \E i \in places : AtPlaces(seats, places)[k] = seats[i]
          /\ OrderKept(seats, AtPlaces(seats, places))
<1>1. PICK n \in Nat : DOMAIN seats = 1..n
  OBVIOUS
<1> DEFINE t == AtPlaces(seats, places)
<1>2. PICK at : TakenFrom(seats, places, t, at)
  BY <1>1, TakenInOrder
<1>3. t \in Seq(S)
  <2>1. \A i \in places : seats[i] \in S
    OBVIOUS
  <2> QED BY <1>1, <2>1, TakenMembers
<1> HIDE DEF t
<1>4. \A k \in DOMAIN t : at[k] \in places /\ t[k] = seats[at[k]]
  BY <1>2 DEF TakenFrom
<1>5. RefOnce(t)
  <2> SUFFICES ASSUME NEW k \in DOMAIN t, NEW l \in DOMAIN t, t[k].ref = t[l].ref PROVE k = l
    BY DEF RefOnce
  <2>1. at[k] = at[l]
    BY <1>4 DEF RefOnce
  <2>2. ~(k < l) /\ ~(l < k)
    <3>1. at[k] \in Nat
      BY <1>1, <1>4
    <3>2. ~(at[k] < at[l]) /\ ~(at[l] < at[k])
      BY <2>1, <3>1
    <3> QED BY <1>2, <3>2 DEF TakenFrom
  <2>3. k \in Nat /\ l \in Nat
    BY <1>3
  <2> QED BY <2>2, <2>3
<1>6. OrderKept(seats, t)
  <2> SUFFICES ASSUME NEW k \in DOMAIN t, NEW l \in DOMAIN t, NEW i \in DOMAIN seats, NEW j \in DOMAIN seats,
                      k < l, seats[i].ref = t[k].ref, seats[j].ref = t[l].ref
               PROVE i < j
    BY DEF OrderKept
  <2>1. i = at[k] /\ j = at[l]
    BY <1>4 DEF RefOnce
  <2> QED BY <1>2, <2>1 DEF TakenFrom
<1> QED BY <1>3, <1>4, <1>5, <1>6 DEF t

\* What crossLabFirst puts first.
OfOtherLab(config, seat, producer) ==
    /\ modelLab(seat.identity) # modelLab(producer)
    /\ \E m \in config.frontier : modelLab(m) = modelLab(seat.identity)

OtherPlaces(config, seats, producer) == {i \in DOMAIN seats : OfOtherLab(config, seats[i], producer)}

\* The reorder keeps the seats, and those of another frontier lab precede the rest.
LEMMA CrossLabOrder ==
    ASSUME NEW S, NEW seats \in Seq(S), RefOnce(seats), NEW config, NEW producer
    PROVE /\ crossLabFirst(config, seats, producer) \in Seq(S)
          /\ RefOnce(crossLabFirst(config, seats, producer))
          /\ \A k \in DOMAIN crossLabFirst(config, seats, producer) :
                \E i \in DOMAIN seats : crossLabFirst(config, seats, producer)[k] = seats[i]
          /\ \A k, l \in DOMAIN crossLabFirst(config, seats, producer) :
                /\ OfOtherLab(config, crossLabFirst(config, seats, producer)[k], producer)
                /\ ~OfOtherLab(config, crossLabFirst(config, seats, producer)[l], producer)
                => k < l
<1> DEFINE first == OtherPlaces(config, seats, producer)
           others == DOMAIN seats \ first
           s == AtPlaces(seats, first)
           t == AtPlaces(seats, others)
<1>1. crossLabFirst(config, seats, producer) = s \o t
  BY DEF crossLabFirst, OtherPlaces, OfOtherLab
<1>2. first \in SUBSET DOMAIN seats /\ others \in SUBSET DOMAIN seats
  BY DEF OtherPlaces
<1>3. s \in Seq(S) /\ RefOnce(s) /\ \A k \in DOMAIN s : \E i \in first : s[k] = seats[i]
  <2> HIDE DEF first
  <2> QED BY <1>2, SomeSeats
<1>4. t \in Seq(S) /\ RefOnce(t) /\ \A k \in DOMAIN t : \E i \in others : t[k] = seats[i]
  <2> HIDE DEF others
  <2> QED BY <1>2, SomeSeats
<1>5. \A k \in DOMAIN s : OfOtherLab(config, s[k], producer)
  <2> HIDE DEF s
  <2> QED BY <1>3 DEF OtherPlaces
<1>6. \A k \in DOMAIN t : ~OfOtherLab(config, t[k], producer)
  <2> HIDE DEF t
  <2> QED BY <1>4 DEF OtherPlaces
<1>7. \A k \in DOMAIN s, l \in DOMAIN t : s[k].ref # t[l].ref
  <2> SUFFICES ASSUME NEW k \in DOMAIN s, NEW l \in DOMAIN t, s[k].ref = t[l].ref PROVE FALSE
    OBVIOUS
  <2>1. PICK i \in first : s[k] = seats[i]
    BY <1>3
  <2>2. PICK j \in others : t[l] = seats[j]
    BY <1>4
  <2> HIDE DEF s, t, first
  <2> QED BY <1>2, <2>1, <2>2 DEF RefOnce
<1> HIDE DEF s, t, first, others
<1>8. PICK a \in Nat, b \in Nat : a = Len(s) /\ b = Len(t) /\ DOMAIN s = 1..a /\ DOMAIN t = 1..b
  BY <1>3, <1>4
<1> DEFINE u == s \o t
<1>9. /\ u \in Seq(S) /\ DOMAIN u = 1..a + b
      /\ \A k \in 1..a : u[k] = s[k]
      /\ \A k \in a + 1..a + b : k - a \in 1..b /\ u[k] = t[k - a]
  <2>1. u \in Seq(S) /\ Len(u) = a + b /\ \A k \in 1..a + b : u[k] = IF k <= a THEN s[k] ELSE t[k - a]
    BY <1>3, <1>4, <1>8
  <2> HIDE DEF u
  <2>2. DOMAIN u = 1..a + b
    BY <2>1
  <2>3. \A k \in 1..a : u[k] = s[k]
    BY <2>1
  <2>4. \A k \in a + 1..a + b : k - a \in 1..b /\ u[k] = t[k - a]
    BY <2>1
  <2> QED BY <2>1, <2>2, <2>3, <2>4
<1> HIDE DEF u
<1>10. \A k \in DOMAIN u : k \in 1..a \/ k \in a + 1..a + b
  BY <1>9
<1>11. RefOnce(u)
  <2> SUFFICES ASSUME NEW k \in DOMAIN u, NEW l \in DOMAIN u, u[k].ref = u[l].ref PROVE k = l
    BY DEF RefOnce
  <2>1. CASE k \in 1..a /\ l \in 1..a
    BY <1>3, <1>8, <1>9, <2>1 DEF RefOnce
  <2>2. CASE k \in 1..a /\ l \in a + 1..a + b
    <3>1. k \in DOMAIN s /\ u[k] = s[k] /\ l - a \in DOMAIN t /\ u[l] = t[l - a]
      BY <1>8, <1>9, <2>2
    <3> QED BY <1>7, <3>1
  <2>3. CASE k \in a + 1..a + b /\ l \in 1..a
    <3>1. l \in DOMAIN s /\ u[l] = s[l] /\ k - a \in DOMAIN t /\ u[k] = t[k - a]
      BY <1>8, <1>9, <2>3
    <3> QED BY <1>7, <3>1
  <2>4. CASE k \in a + 1..a + b /\ l \in a + 1..a + b
    <3>1. k - a \in DOMAIN t /\ l - a \in DOMAIN t /\ t[k - a].ref = t[l - a].ref
      BY <1>8, <1>9, <2>4
    <3>2. k - a = l - a
      BY <1>4, <3>1 DEF RefOnce
    <3> QED BY <2>4, <3>2
  <2> QED BY <1>10, <2>1, <2>2, <2>3, <2>4
<1>12. \A k \in DOMAIN u : \E i \in DOMAIN seats : u[k] = seats[i]
  <2> TAKE k \in DOMAIN u
  <2>1. CASE k \in 1..a
    BY <1>2, <1>3, <1>8, <1>9, <2>1
  <2>2. CASE k \in a + 1..a + b
    <3>1. k - a \in DOMAIN t /\ u[k] = t[k - a]
      BY <1>8, <1>9, <2>2
    <3> QED BY <1>2, <1>4, <3>1
  <2> QED BY <1>10, <2>1, <2>2
<1>13. ASSUME NEW k \in DOMAIN u, NEW l \in DOMAIN u,
              OfOtherLab(config, u[k], producer), ~OfOtherLab(config, u[l], producer)
       PROVE k < l
  <2>1. k \in 1..a
    BY <1>6, <1>8, <1>9, <1>10, <1>13
  <2>2. l \in a + 1..a + b
    BY <1>5, <1>8, <1>9, <1>10, <1>13
  <2> QED BY <2>1, <2>2
<1>14. crossLabFirst(config, seats, producer) = u
  BY <1>1 DEF u
<1> QED BY <1>9, <1>11, <1>12, <1>13, <1>14

-----------------------------------------------------------------------------
(* Routes: what the resolution of a role tells.                               *)

ProducerOf(name) == IF name = None THEN None ELSE CanonicalModelIdentity(name)

\* The seats without the producer's are the policy's, in its order.
LEMMA DistinctOnes ==
    ASSUME NEW S, NEW seats \in Seq(S), RefOnce(seats), NEW producer
    PROVE /\ distinctSeats(seats, producer) \in Seq(S)
          /\ RefOnce(distinctSeats(seats, producer))
          /\ producer # None =>
               \A k \in DOMAIN distinctSeats(seats, producer) :
                  distinctSeats(seats, producer)[k].identity # producer
          /\ OrderKept(seats, distinctSeats(seats, producer))
<1> DEFINE kept == {i \in DOMAIN seats : producer = None \/ seats[i].identity # producer}
<1>1. distinctSeats(seats, producer) = AtPlaces(seats, kept)
  BY DEF distinctSeats
<1>2. kept \in SUBSET DOMAIN seats
  OBVIOUS
<1>3. \A i \in kept : producer = None \/ seats[i].identity # producer
  OBVIOUS
<1> HIDE DEF kept
<1>4. /\ AtPlaces(seats, kept) \in Seq(S) /\ RefOnce(AtPlaces(seats, kept))
      /\ \A k \in DOMAIN AtPlaces(seats, kept) : \E i \in kept : AtPlaces(seats, kept)[k] = seats[i]
      /\ OrderKept(seats, AtPlaces(seats, kept))
  BY <1>2, SomeSeats
<1> QED BY <1>1, <1>3, <1>4

\* What the resolution of a role tells, whatever the producer.
RoleResolved(config, role, ref, name, resolved) ==
    /\ resolved.seats \in Seq(SeatOf(config)) /\ RefOnce(resolved.seats)
    /\ resolved.ok => resolved.distinct # <<>>
    /\ resolved.ok => (name # None => ProducerOf(name) # None)
    /\ (resolved.ok /\ name # None) =>
          \A i \in DOMAIN resolved.seats : resolved.seats[i].identity # ProducerOf(name)
    /\ (resolved.ok /\ name # None /\ role \in config.crossLab) =>
          \A k, l \in DOMAIN resolved.seats :
             /\ OfOtherLab(config, resolved.seats[k], ProducerOf(name))
             /\ ~OfOtherLab(config, resolved.seats[l], ProducerOf(name))
             => k < l
    /\ (resolved.ok /\ resolved.reason # "producer_model_conflict") =>
          resolved.distinct[1] = resolved.policy[1]
    /\ (name = None \/ role \notin config.crossLab) => OrderKept(resolved.policy, resolved.seats)

\* Every resolution tells what RoleResolved says, for every policy and producer.
LEMMA Resolves ==
    ASSUME NEW config, Configured(config), NEW role, NEW ref, NEW name
    PROVE RoleResolved(config, role, ref, name, ResolveDispatchRoleForProducer(config, role, ref, name))
<1> DEFINE producer == ProducerOf(name)
           seats == PolicySeats(config, ref)
           distinct == distinctSeats(seats, producer)
           ordered == Reordered(config, role, distinct, producer)
           resolved == ResolveDispatchRoleForProducer(config, role, ref, name)
           S == SeatOf(config)
<1>1. seats \in Seq(S) /\ RefOnce(seats)
  BY PolicyOnce
<1>2. resolved.policy = seats /\ resolved.distinct = distinct /\ resolved.seats = ordered
  BY DEF ResolveDispatchRoleForProducer, ProducerOf, PolicySeats
<1>3. resolved.ok => ordered # <<>> /\ (name # None => producer # None)
  BY DEF ResolveDispatchRoleForProducer, ProducerOf, PolicySeats
<1>4. resolved.reason = IF distinct # <<>> /\ distinct[1] # seats[1] THEN "producer_model_conflict"
                        ELSE IF ordered # <<>> /\ ordered[1] # distinct[1] THEN "cross_lab_reorder"
                        ELSE None
  BY DEF ResolveDispatchRoleForProducer, ProducerOf, PolicySeats
<1> HIDE DEF resolved, seats, S, producer
<1>5. /\ distinct \in Seq(S) /\ RefOnce(distinct)
      /\ producer # None => \A k \in DOMAIN distinct : distinct[k].identity # producer
      /\ OrderKept(seats, distinct)
  BY <1>1, DistinctOnes
<1> HIDE DEF distinct
<1>6. /\ ordered \in Seq(S) /\ RefOnce(ordered)
      /\ \A k \in DOMAIN ordered : \E i \in DOMAIN distinct : ordered[k] = distinct[i]
  <2>1. CASE producer # None /\ role \in config.crossLab
    <3>1. ordered = crossLabFirst(config, distinct, producer)
      BY <2>1 DEF Reordered
    <3> QED BY <1>5, <3>1, CrossLabOrder
  <2>2. CASE ~(producer # None /\ role \in config.crossLab)
    <3>1. ordered = distinct
      BY <2>2 DEF Reordered
    <3> QED BY <1>5, <3>1
  <2> QED BY <2>1, <2>2
<1>7. (producer # None /\ role \in config.crossLab) =>
        \A k, l \in DOMAIN ordered :
           OfOtherLab(config, ordered[k], producer) /\ ~OfOtherLab(config, ordered[l], producer) => k < l
  <2> SUFFICES ASSUME producer # None, role \in config.crossLab
               PROVE \A k, l \in DOMAIN ordered :
                       OfOtherLab(config, ordered[k], producer) /\ ~OfOtherLab(config, ordered[l], producer)
                       => k < l
    OBVIOUS
  <2>1. ordered = crossLabFirst(config, distinct, producer)
    BY DEF Reordered
  <2> QED BY <1>5, <2>1, CrossLabOrder
<1>12. (name = None \/ role \notin config.crossLab) => OrderKept(seats, ordered)
  <2>1. (name = None \/ role \notin config.crossLab) => ordered = distinct
    BY DEF Reordered, ProducerOf, producer
  <2> HIDE DEF ordered
  <2> QED BY <1>5, <2>1
<1> HIDE DEF ordered
<1>8. ordered # <<>> => distinct # <<>>
  <2> SUFFICES ASSUME ordered # <<>> PROVE distinct # <<>>
    OBVIOUS
  <2>1. 1 \in DOMAIN ordered
    BY <1>6
  <2>2. PICK i \in DOMAIN distinct : ordered[1] = distinct[i]
    BY <1>6, <2>1
  <2> QED BY <1>5, <2>2
<1>9. (resolved.ok /\ resolved.reason # "producer_model_conflict") => distinct[1] = seats[1]
  BY <1>3, <1>4, <1>8
<1>10. producer # None => \A k \in DOMAIN ordered : ordered[k].identity # producer
  BY <1>5, <1>6
<1>11. RoleResolved(config, role, ref, name, resolved)
  <2>1. resolved.seats \in Seq(SeatOf(config)) /\ RefOnce(resolved.seats)
    BY <1>2, <1>6 DEF S
  <2> QED BY <1>2, <1>3, <1>7, <1>8, <1>9, <1>10, <1>12, <2>1 DEF RoleResolved, producer
<1> QED BY <1>11 DEF resolved

-----------------------------------------------------------------------------
(* Routes: the seats that pass.                                               *)

\* A seat with another effort is the same seat of the same model.
LEMMA EffortOnly ==
    ASSUME NEW config, NEW seat \in SeatOf(config), NEW effort \in Nat
    PROVE /\ [seat EXCEPT !.effort = effort] \in SeatOf(config)
          /\ [seat EXCEPT !.effort = effort].ref = seat.ref
          /\ [seat EXCEPT !.effort = effort].identity = seat.identity
          /\ [seat EXCEPT !.effort = effort].effort = effort
BY DEF SeatOf

\* An override changes no seat's profile and no seat's model.
LEMMA OverriddenSeats ==
    ASSUME NEW question, NEW config, question.effort \in Nat, NEW seats \in Seq(SeatOf(config))
    PROVE /\ DOMAIN Overridden(question, seats) = DOMAIN seats
          /\ \A i \in DOMAIN seats :
                /\ Overridden(question, seats)[i] \in SeatOf(config)
                /\ Overridden(question, seats)[i].ref = seats[i].ref
                /\ Overridden(question, seats)[i].identity = seats[i].identity
<1>1. DOMAIN Overridden(question, seats) = DOMAIN seats
  BY DEF Overridden
<1>2. ASSUME NEW i \in DOMAIN seats
      PROVE /\ Overridden(question, seats)[i] \in SeatOf(config)
            /\ Overridden(question, seats)[i].ref = seats[i].ref
            /\ Overridden(question, seats)[i].identity = seats[i].identity
  <2> DEFINE first == i = 1 /\ question.effort # 0 /\ question.effort \in Offers(seats[1])
  <2>1. Overridden(question, seats)[i] =
          IF first THEN [seats[1] EXCEPT !.effort = question.effort] ELSE seats[i]
    BY DEF Overridden
  <2>2. seats[i] \in SeatOf(config)
    OBVIOUS
  <2>3. CASE first
    <3>1. PICK seat \in SeatOf(config) : seat = seats[i]
      BY <2>2
    <3>2. Overridden(question, seats)[i] = [seat EXCEPT !.effort = question.effort]
      BY <2>1, <2>3, <3>1
    <3> QED BY <3>1, <3>2, EffortOnly
  <2>4. CASE ~first
    BY <2>1, <2>2, <2>4
  <2> QED BY <2>3, <2>4
<1> QED BY <1>1, <1>2

\* The floors are met by the least effort that is enough.
LEMMA FlooredSeat ==
    ASSUME NEW config, NEW seat \in SeatOf(config), NEW reasons, Raisable(config, seat, reasons)
    PROVE /\ applyEffortFloor(config, seat, reasons).ref = seat.ref
          /\ applyEffortFloor(config, seat, reasons).identity = seat.identity
          /\ \A f \in Floors(config, reasons) : applyEffortFloor(config, seat, reasons).effort >= f
<1>1. CASE Floors(config, reasons) = {}
  BY <1>1 DEF applyEffortFloor
<1>2. CASE Floors(config, reasons) # {}
  <2>1. Offers(seat) \subseteq Nat
    BY RoutingAssumption DEF Offers
  <2>2. Enough(config, seat, reasons) \in SUBSET Nat /\ Enough(config, seat, reasons) # {}
    BY <1>2, <2>1 DEF Enough, Raisable
  <2>3. PICK least \in Enough(config, seat, reasons) : least = Min(Enough(config, seat, reasons))
    BY <2>2, LeastOne
  <2>4. least \in Nat /\ \A f \in Floors(config, reasons) : least >= f
    BY <2>2 DEF Enough
  <2>5. applyEffortFloor(config, seat, reasons) = [seat EXCEPT !.effort = least]
    BY <1>2, <2>3 DEF applyEffortFloor
  <2> QED BY <2>4, <2>5, EffortOnly
<1> QED BY <1>1, <1>2

\* The seats that pass are some of the resolved ones, in their order, fit and at every floor.
Passing(question, resolved, at) ==
    /\ \A k \in DOMAIN eligibleSeats(question, resolved) :
          /\ at[k] \in DOMAIN resolved.seats
          /\ eligibleSeats(question, resolved)[k].ref = resolved.seats[at[k]].ref
          /\ eligibleSeats(question, resolved)[k].identity = resolved.seats[at[k]].identity
          /\ ~Unfit(question, eligibleSeats(question, resolved)[k])
          /\ \A f \in Floors(question.config, floorReasons(question)) :
                eligibleSeats(question, resolved)[k].effort >= f
    /\ \A k, l \in DOMAIN eligibleSeats(question, resolved) : k < l => at[k] < at[l]
    /\ \E n \in Nat : DOMAIN eligibleSeats(question, resolved) = 1..n

\* There is a place among the resolved seats for each seat that passes.
LEMMA SeatsPass ==
    ASSUME NEW question, question.effort \in Nat, NEW resolved,
           resolved.seats \in Seq(SeatOf(question.config))
    PROVE \E at : Passing(question, resolved, at)
<1> DEFINE config == question.config
           reasons == floorReasons(question)
           seats == Overridden(question, resolved.seats)
           overrideFails == question.effort # 0 /\ question.effort \notin Offers(seats[1])
           kept == {i \in DOMAIN seats : /\ ~Unfit(question, seats[i])
                                         /\ ~(i = 1 /\ overrideFails)
                                         /\ Raisable(config, seats[i], reasons)}
           floored == [i \in kept |-> applyEffortFloor(config, seats[i], reasons)]
<1>1. eligibleSeats(question, resolved) = AtPlaces(floored, kept)
  BY DEF eligibleSeats
<1>2. /\ DOMAIN seats = DOMAIN resolved.seats
      /\ \A i \in DOMAIN resolved.seats : /\ seats[i] \in SeatOf(config)
                                          /\ seats[i].ref = resolved.seats[i].ref
                                          /\ seats[i].identity = resolved.seats[i].identity
  BY OverriddenSeats
<1> HIDE DEF seats
<1>3. \A i \in kept : ~Unfit(question, seats[i]) /\ Raisable(config, seats[i], reasons) /\ i \in DOMAIN seats
  OBVIOUS
<1>4. kept \in SUBSET DOMAIN resolved.seats
  BY <1>2
<1>5. \A i \in kept : floored[i] = applyEffortFloor(config, seats[i], reasons)
  OBVIOUS
<1> HIDE DEF kept, floored
<1>6. PICK n \in Nat : DOMAIN resolved.seats = 1..n
  OBVIOUS
<1> DEFINE t == AtPlaces(floored, kept)
<1>7. PICK at : TakenFrom(floored, kept, t, at)
  BY <1>4, <1>6, TakenInOrder
<1>8. Cardinality(kept) \in Nat /\ DOMAIN t = 1..Cardinality(kept)
  BY <1>4, <1>6, TakenInOrder
<1> HIDE DEF t, config, reasons
<1>9. ASSUME NEW k \in DOMAIN t
      PROVE /\ at[k] \in DOMAIN resolved.seats
            /\ t[k].ref = resolved.seats[at[k]].ref
            /\ t[k].identity = resolved.seats[at[k]].identity
            /\ ~Unfit(question, t[k])
            /\ \A f \in Floors(config, reasons) : t[k].effort >= f
  <2>1. PICK i \in kept : i = at[k] /\ t[k] = floored[i]
    BY <1>7 DEF TakenFrom
  <2>2. PICK seat \in SeatOf(config) : seat = seats[i]
    BY <1>2, <1>3
  <2>3. Raisable(config, seat, reasons) /\ ~Unfit(question, seat)
    BY <1>3, <2>2
  <2>4. t[k] = applyEffortFloor(config, seat, reasons)
    BY <1>5, <2>1, <2>2
  <2>5. /\ t[k].ref = seat.ref /\ t[k].identity = seat.identity
        /\ \A f \in Floors(config, reasons) : t[k].effort >= f
    BY <2>3, <2>4, FlooredSeat
  <2>6. ~Unfit(question, t[k])
    BY <2>3, <2>5 DEF Unfit
  <2> QED BY <1>2, <1>4, <2>1, <2>2, <2>5, <2>6
<1>10. \A k, l \in DOMAIN t : k < l => at[k] < at[l]
  BY <1>7 DEF TakenFrom
<1>11. eligibleSeats(question, resolved) = t
  BY <1>1 DEF t
<1> QED BY <1>8, <1>9, <1>10, <1>11 DEF Passing, config, reasons

RoleOf(question) ==
    ResolveDispatchRoleForProducer(question.config, selectedRole(question),
        rolesOf(question)[selectedRole(question)], question.producer)

\* The configuration of a question resolves its role, and its seats pass as they stand.
LEMMA RoleAsked ==
    ASSUME NEW question \in RoleAsks
    PROVE /\ question.effort \in Nat /\ Configured(question.config)
          /\ RoleResolved(question.config, selectedRole(question), rolesOf(question)[selectedRole(question)],
                          question.producer, RoleOf(question))
          /\ \E at : Passing(question, RoleOf(question), at)
<1>1. question.effort \in Nat
  BY RoutingAssumption
<1>2. Configured(question.config)
  BY RoutingAssumption DEF Configured
<1>3. RoleResolved(question.config, selectedRole(question), rolesOf(question)[selectedRole(question)],
                   question.producer, RoleOf(question))
  BY <1>2, Resolves DEF RoleOf
<1>4. RoleOf(question).seats \in Seq(SeatOf(question.config))
  BY <1>3 DEF RoleResolved
<1> QED BY <1>1, <1>2, <1>3, <1>4, SeatsPass

\* An answer with seats is made of those that pass, and of some.
LEMMA DecisionMade ==
    ASSUME NEW question, ResolveDecision(question).ok
    PROVE /\ RoleOf(question).ok
          /\ eligibleSeats(question, RoleOf(question)) # <<>>
          /\ ResolveDecision(question).seats = eligibleSeats(question, RoleOf(question))
          /\ ResolveDecision(question).policy = RoleOf(question).policy
          /\ ResolveDecision(question).reason
               = fallbackReason(RoleOf(question), eligibleSeats(question, RoleOf(question)))
<1>1. ResolveDecision(question) = SeatsDecided(question, RoleOf(question))
  BY DEF ResolveDecision, RoleOf
<1> DEFINE resolved == RoleOf(question)
           passed == eligibleSeats(question, resolved)
<1> HIDE DEF resolved, passed
<1>2. SeatsDecided(question, RoleOf(question)) = Decision(question, resolved, passed)
  BY DEF SeatsDecided, resolved, passed
<1>3. Decision(question, resolved, passed) = NoRoute(exitNoEligible)
      \/ /\ resolved.ok /\ passed # <<>>
         /\ Decision(question, resolved, passed) =
              [ given |-> TRUE, ok |-> TRUE, seats |-> passed, policy |-> resolved.policy,
                reason |-> fallbackReason(resolved, passed) ]
  BY DEF Decision
<1>4. ~NoRoute(exitNoEligible).ok
  BY DEF NoRoute
<1> QED BY <1>1, <1>2, <1>3, <1>4 DEF resolved, passed

\* A choice that nothing explains is the first that stands apart from the producer.
LEMMA ReasonTold ==
    ASSUME NEW resolved, NEW eligible, fallbackReason(resolved, eligible) = None
    PROVE /\ resolved.reason # "producer_model_conflict"
          /\ eligible[1].ref = resolved.distinct[1].ref
<1> DEFINE remain == AtPlaces(resolved.distinct,
                         {i \in DOMAIN resolved.distinct : resolved.distinct[i].ref \in ToSet(Refs(eligible))})
           told == IF resolved.reason # "cross_lab_reorder" THEN resolved.reason
                   ELSE IF remain[1].ref # eligible[1].ref THEN "cross_lab_reorder" ELSE None
<1>1. fallbackReason(resolved, eligible) =
        IF told = None /\ (\/ eligible[1].ref # resolved.distinct[1].ref
                           \/ eligible[1].ref # resolved.seats[1].ref)
        THEN "reasoning_contract" ELSE told
  BY DEF fallbackReason
<1> HIDE DEF remain
<1> QED BY <1>1 DEF None

\* An answered role: every seat satisfies the contract, a first seat that is not the
\* policy's has a reason, and the labs come in the order of the review.
LEMMA RoleAnswer ==
    ASSUME NEW question \in RoleAsks, NEW told, told = ResolveDecision(question), told.ok
    PROVE /\ \A i \in DOMAIN told.seats :
               /\ question.producer # None => told.seats[i].identity # CanonicalModelIdentity(question.producer)
               /\ ~Unfit(question, told.seats[i])
               /\ \A f \in Floors(question.config, floorReasons(question)) : told.seats[i].effort >= f
               /\ \A j \in DOMAIN told.seats : told.seats[j].ref = told.seats[i].ref => i = j
          /\ told.seats[1].ref # told.policy[1].ref => told.reason # None
          /\ question.producer # None =>
               \A i, j \in DOMAIN told.seats :
                  (/\ selectedRole(question) \in question.config.crossLab
                   /\ modelLab(told.seats[i].identity) = modelLab(CanonicalModelIdentity(question.producer))
                   /\ modelLab(told.seats[j].identity) # modelLab(CanonicalModelIdentity(question.producer))
                   /\ \E m \in question.config.frontier : modelLab(m) = modelLab(told.seats[j].identity))
                  => j < i
          /\ (question.producer = None \/ selectedRole(question) \notin question.config.crossLab) =>
                OrderKept(told.policy, told.seats)
<1> DEFINE resolved == RoleOf(question)
           passed == eligibleSeats(question, resolved)
           config == question.config
           role == selectedRole(question)
           producer == CanonicalModelIdentity(question.producer)
<1>1. /\ resolved.ok /\ passed # <<>>
      /\ told.seats = passed /\ told.policy = resolved.policy
      /\ told.reason = fallbackReason(resolved, passed)
  BY DecisionMade
<1>2. RoleResolved(config, role, rolesOf(question)[role], question.producer, resolved)
  BY RoleAsked
<1>3. PICK at : Passing(question, resolved, at)
  BY RoleAsked
<1> HIDE DEF resolved, producer
<1>4. question.producer # None => ProducerOf(question.producer) = producer
  BY DEF ProducerOf, producer
<1>5. PICK n \in Nat : DOMAIN passed = 1..n
  BY <1>3 DEF Passing
<1>6. PICK a \in Nat : DOMAIN resolved.seats = 1..a
  BY <1>2 DEF RoleResolved
<1>7. \A k \in DOMAIN passed :
        /\ at[k] \in DOMAIN resolved.seats
        /\ passed[k].ref = resolved.seats[at[k]].ref
        /\ passed[k].identity = resolved.seats[at[k]].identity
  BY <1>3 DEF Passing
<1>8. \A k, l \in DOMAIN passed : k < l => at[k] < at[l]
  BY <1>3 DEF Passing
<1>9. \A k \in DOMAIN passed :
        /\ ~Unfit(question, passed[k])
        /\ \A f \in Floors(config, floorReasons(question)) : passed[k].effort >= f
  BY <1>3 DEF Passing
<1> HIDE DEF passed, config, role
<1>10. \A k \in DOMAIN passed : question.producer # None => passed[k].identity # producer
  BY <1>1, <1>2, <1>4, <1>7 DEF RoleResolved
<1>11. \A k, l \in DOMAIN passed : passed[k].ref = passed[l].ref => k = l
  <2> SUFFICES ASSUME NEW k \in DOMAIN passed, NEW l \in DOMAIN passed, passed[k].ref = passed[l].ref
               PROVE k = l
    OBVIOUS
  <2>1. at[k] = at[l]
    BY <1>2, <1>7 DEF RoleResolved, RefOnce
  <2>2. at[k] \in Nat /\ k \in Nat /\ l \in Nat
    BY <1>5, <1>6, <1>7
  <2>3. ~(k < l) /\ ~(l < k)
    BY <1>8, <2>1, <2>2
  <2> QED BY <2>2, <2>3
<1>12. passed[1].ref # told.policy[1].ref => told.reason # None
  <2> SUFFICES ASSUME told.reason = None PROVE passed[1].ref = told.policy[1].ref
    OBVIOUS
  <2>1. resolved.reason # "producer_model_conflict" /\ passed[1].ref = resolved.distinct[1].ref
    BY <1>1, ReasonTold
  <2>2. resolved.distinct[1] = resolved.policy[1]
    BY <1>1, <1>2, <2>1 DEF RoleResolved
  <2> QED BY <1>1, <2>1, <2>2
<1>13. ASSUME question.producer # None, NEW i \in DOMAIN passed, NEW j \in DOMAIN passed,
              role \in config.crossLab,
              modelLab(passed[i].identity) = modelLab(producer),
              modelLab(passed[j].identity) # modelLab(producer),
              \E m \in config.frontier : modelLab(m) = modelLab(passed[j].identity)
       PROVE j < i
  <2>1. OfOtherLab(config, resolved.seats[at[j]], producer) /\ ~OfOtherLab(config, resolved.seats[at[i]], producer)
    BY <1>7, <1>13 DEF OfOtherLab
  <2>2. at[j] < at[i]
    BY <1>1, <1>2, <1>4, <1>7, <1>13, <2>1 DEF RoleResolved
  <2>3. at[i] \in Nat /\ at[j] \in Nat /\ i \in Nat /\ j \in Nat
    BY <1>5, <1>6, <1>7
  <2>4. ~(i < j) /\ i # j
    BY <1>8, <2>2, <2>3
  <2> QED BY <2>3, <2>4
<1>14. told.seats = passed
  BY <1>1
<1>15. ASSUME question.producer = None \/ role \notin config.crossLab
       PROVE OrderKept(told.policy, passed)
  <2>1. OrderKept(resolved.policy, resolved.seats)
    BY <1>2, <1>15 DEF RoleResolved
  <2> SUFFICES ASSUME NEW k \in DOMAIN passed, NEW l \in DOMAIN passed,
                      NEW i \in DOMAIN resolved.policy, NEW j \in DOMAIN resolved.policy,
                      k < l, resolved.policy[i].ref = passed[k].ref, resolved.policy[j].ref = passed[l].ref
               PROVE i < j
    BY <1>1 DEF OrderKept
  <2>2. at[k] < at[l]
    BY <1>8
  <2> QED BY <1>7, <2>1, <2>2 DEF OrderKept
<1> HIDE DEF resolved
<1> QED BY <1>9, <1>10, <1>11, <1>12, <1>13, <1>14, <1>15 DEF producer, config, role

\* Of the eligible deployments of client data the first is in a permitted zone.
LEMMA TaskAnswer ==
    ASSUME NEW question \in TaskAsks, EligibleDeployments(question) # {},
           question.label \in KnownDataLabels, question.label \notin {"public", "internal", None}
    PROVE question.zones[Min(EligibleDeployments(question))] # "vendor-cloud"
<1>1. question.label = "client-confidential"
  BY DEF KnownDataLabels, None
<1>2. EligibleDeployments(question) \in SUBSET Nat
  <2>1. question.zones \in Seq(STRING)
    BY RoutingAssumption
  <2>2. DOMAIN question.zones \subseteq Nat
    BY <2>1
  <2> QED BY <2>2 DEF EligibleDeployments
<1>3. Min(EligibleDeployments(question)) \in EligibleDeployments(question)
  BY <1>2, LeastOne
<1>4. Permits(question.label, question.zones[Min(EligibleDeployments(question))])
  BY <1>3 DEF EligibleDeployments
<1> QED BY <1>1, <1>4 DEF Permits

-----------------------------------------------------------------------------
(* Routes: every answer.                                                      *)

\* What the route commands answer, for every policy, question and calibration: the model
\* of a subagent is at least its floor and out of its window fable only by that floor; every
\* seat of a role, the fallbacks too, is another model than the producer's, fit for the
\* judgment and at the effort of every floor; a choice that is not the policy's says why, and
\* the order is the policy's or other labs first; client data stays in a permitted zone.
THEOREM EveryRouteIsHonoured == RoutingSpec => []RoutesHonoured
<1>1. RoutingInit => RoutesHonoured
  BY DEF RoutingInit, RoutesHonoured, NoAnswer, ModelHonoured, SeatsQualified, ChoiceExplained,
         OtherLabFirst, PolicyOrderKept, ConfidentialStaysHome
<1>2. ASSUME RoutesHonoured, [RoutingNext]_routeVars
      PROVE RoutesHonoured'
  <2>1. CASE UNCHANGED routeVars
    BY <1>2, <2>1 DEF routeVars, RoutesHonoured, ModelHonoured, SeatsQualified, ChoiceExplained,
                      OtherLabFirst, PolicyOrderKept, ConfidentialStaysHome
  <2>2. CASE RouteModel
    <3>1. ask \in ModelAsks /\ ask' = ask /\ ask \notin RoleAsks /\ ask \notin TaskAsks
      BY <2>2, RoutingAssumption DEF RouteModel
    <3>2. PICK floor \in ask.floors :
               answer' = [given |-> TRUE, floor |-> floor, model |-> ResolveModelDetailed(ask, floor)]
      BY <2>2 DEF RouteModel
    <3>3. ModelHonoured'
      BY <3>1, <3>2, ModelAnswer DEF ModelHonoured
    <3> QED BY <3>1, <3>3 DEF RoutesHonoured, SeatsQualified, ChoiceExplained, OtherLabFirst, PolicyOrderKept,
                              ConfidentialStaysHome
  <2>3. CASE RouteRole
    <3>1. ask \in RoleAsks /\ ask' = ask /\ ask \notin ModelAsks /\ ask \notin TaskAsks
      BY <2>3, RoutingAssumption DEF RouteRole
    <3>2. answer' = ResolveDecision(ask) \/ answer' = NoRoute(exitNoEligible)
      BY <2>3 DEF RouteRole
    <3>3. CASE ~answer'.ok
      BY <3>1, <3>3 DEF RoutesHonoured, ModelHonoured, SeatsQualified, ChoiceExplained, OtherLabFirst, PolicyOrderKept,
                        ConfidentialStaysHome
    <3>4. CASE answer'.ok
      <4>1. answer' = ResolveDecision(ask)
        BY <3>2, <3>4 DEF NoRoute
      <4>2. SeatsQualified' /\ ChoiceExplained' /\ OtherLabFirst'
        BY <3>1, <3>4, <4>1, RoleAnswer DEF SeatsQualified, ChoiceExplained, OtherLabFirst
      <4>3. PolicyOrderKept'
        BY <3>1, <3>4, <4>1, RoleAnswer DEF PolicyOrderKept, OrderKept
      <4> QED BY <3>1, <4>2, <4>3 DEF RoutesHonoured, ModelHonoured, ConfidentialStaysHome
    <3> QED BY <3>3, <3>4
  <2>4. CASE RouteTask
    <3>1. ask \in TaskAsks /\ ask' = ask /\ ask \notin ModelAsks /\ ask \notin RoleAsks
      BY <2>4, RoutingAssumption DEF RouteTask
    <3>2. ConfidentialStaysHome'
      <4> SUFFICES ASSUME ask.label \notin {"public", "internal", None}
                   PROVE IF answer'.ok THEN ask.zones[answer'.key] # "vendor-cloud"
                         ELSE answer'.exit # exitNoEligible
        BY <3>1 DEF ConfidentialStaysHome
      <4>1. CASE ask.label \notin KnownDataLabels
        BY <2>4, <4>1 DEF RouteTask, NoRoute, exitMalformed, exitNoEligible
      <4>2. CASE ask.label \in KnownDataLabels /\ EligibleDeployments(ask) # {}
        <5>1. answer' = [given |-> TRUE, ok |-> TRUE, key |-> Min(EligibleDeployments(ask))]
          BY <2>4, <4>2 DEF RouteTask
        <5> QED BY <3>1, <4>2, <5>1, TaskAnswer
      <4>3. CASE ask.label \in KnownDataLabels /\ EligibleDeployments(ask) = {}
        <5>1. ask.label = "client-confidential"
          BY <4>3 DEF KnownDataLabels, None
        <5>2. answer' = NoRoute(exitConstraintViolation)
          BY <2>4, <4>3, <5>1 DEF RouteTask
        <5> QED BY <5>2 DEF NoRoute, exitConstraintViolation, exitNoEligible
      <4> QED BY <4>1, <4>2, <4>3
    <3> QED BY <3>1, <3>2 DEF RoutesHonoured, ModelHonoured, SeatsQualified, ChoiceExplained,
                              OtherLabFirst, PolicyOrderKept
  <2> QED BY <1>2, <2>1, <2>2, <2>3, <2>4 DEF RoutingNext
<1> QED BY <1>1, <1>2, PTL DEF RoutingSpec

-----------------------------------------------------------------------------
(* The queue *)

\* The orders the elements of a slice can have.
Shuffled(h) == {g \in Seq(Jobs) : DOMAIN g = DOMAIN h /\ OneEach(g) /\ ToSet(g) = ToSet(h)}

Sifting(h) == [heap : Shuffled(h), at : DOMAIN h]

\* A swap loses no element and doubles none.
LEMMA SwapShuffles ==
    ASSUME NEW h \in Seq(Jobs), NEW s \in Sifting(h), NEW i \in DOMAIN h
    PROVE Swapped(s, i) \in Sifting(h)
<1> DEFINE g == s.heap
           a == s.at
           t == [g EXCEPT ![a] = g[i], ![i] = g[a]]
<1>1. g \in Seq(Jobs) /\ DOMAIN g = DOMAIN h /\ OneEach(g) /\ ToSet(g) = ToSet(h) /\ a \in DOMAIN h
  BY DEF Sifting, Shuffled
<1>2. Swapped(s, i) = [heap |-> t, at |-> i]
  BY DEF Swapped
<1> HIDE DEF g, a
<1>3. PICK n \in Nat : DOMAIN g = 1..n
  BY <1>1
<1>4. DOMAIN t = DOMAIN g /\ \A k \in DOMAIN g : t[k] = IF k = i THEN g[a] ELSE IF k = a THEN g[i] ELSE g[k]
  BY <1>1
<1>5. t \in [1..n -> Jobs]
  <2>1. \A k \in 1..n : g[k] \in Jobs
    BY <1>1, <1>3
  <2>2. \A k \in 1..n : t[k] \in Jobs
    BY <1>1, <1>3, <1>4, <2>1
  <2>3. t = [k \in 1..n |-> t[k]]
    BY <1>1, <1>3
  <2> HIDE DEF t
  <2> QED BY <2>2, <2>3
<1> HIDE DEF t
<1>6. OneEach(t)
  BY <1>1, <1>4 DEF OneEach
<1>7. ToSet(t) = ToSet(g)
  <2>1. \A k \in DOMAIN g : \E l \in DOMAIN g : t[k] = g[l]
    BY <1>1, <1>4
  <2>2. \A l \in DOMAIN g : \E k \in DOMAIN g : t[k] = g[l]
    BY <1>1, <1>4
  <2> QED BY <1>4, <2>1, <2>2 DEF ToSet
<1>8. t \in Shuffled(h)
  BY <1>1, <1>3, <1>4, <1>5, <1>6, <1>7 DEF Shuffled
<1> QED BY <1>2, <1>8 DEF Sifting

\* Nor does one round of sifting.
LEMMA RoundShuffles ==
    ASSUME NEW h \in Seq(Jobs), NEW s \in Sifting(h)
    PROVE Rise(s) \in Sifting(h) /\ Sink(s) \in Sifting(h)
<1>1. s.at \in DOMAIN h /\ DOMAIN s.heap = DOMAIN h
  BY DEF Sifting, Shuffled
<1>2. PICK n \in Nat : DOMAIN h = 1..n
  OBVIOUS
<1>3. Rise(s) \in Sifting(h)
  <2>1. CASE s.at > 1 /\ Before(s.heap[s.at], s.heap[s.at \div 2])
    <3>1. s.at \div 2 \in DOMAIN h
      BY <1>1, <1>2, <2>1
    <3> QED BY <2>1, <3>1, SwapShuffles DEF Rise
  <2>2. CASE ~(s.at > 1 /\ Before(s.heap[s.at], s.heap[s.at \div 2]))
    BY <2>2 DEF Rise
  <2> QED BY <2>1, <2>2
<1>4. Sink(s) \in Sifting(h)
  <2> DEFINE child == FirstChild(s.heap, s.at)
  <2>1. Sink(s) = IF child \in DOMAIN s.heap /\ Before(s.heap[child], s.heap[s.at])
                  THEN Swapped(s, child) ELSE s
    BY DEF Sink
  <2> HIDE DEF child
  <2> QED BY <1>1, <2>1, SwapShuffles
<1> QED BY <1>3, <1>4

HasRounds(W, start, N, g) ==
    \E f \in [0..N -> W] : f[0] = start /\ \A n \in 1..N : f[n] = g[f[n - 1]]

\* Applied again and again from where it starts, a step that stays in a set has its rounds there.
LEMMA RoundsExist ==
    ASSUME NEW W, NEW start \in W, NEW N \in Nat, NEW g \in [W -> W]
    PROVE HasRounds(W, start, N, g)
<1> DEFINE r == [n \in 1..N |-> g]
<1>1. r \in [1..N -> [W -> W]]
  OBVIOUS
<1>2. \A n \in 1..N : r[n] = g
  OBVIOUS
<1> HIDE DEF r
<1>3. PICK f \in [0..N -> W] : f[0] = start /\ \A n \in 1..N : f[n] = r[n][f[n - 1]]
  BY <1>1, RecursionExists
<1>4. \A n \in 1..N : f[n] = g[f[n - 1]]
  BY <1>2, <1>3
<1> QED BY <1>3, <1>4 DEF HasRounds

Ups(h, i) ==
    CHOOSE f : f = [n \in 0 .. Len(h) |-> IF n = 0 THEN [heap |-> h, at |-> i] ELSE Rise(f[n - 1])]

RiseRounds(N, start) == \E f : f = [n \in 0..N |-> IF n = 0 THEN start ELSE Rise(f[n - 1])]

\* The rounds of a rising element are a function,
LEMMA UpsExist ==
    ASSUME NEW W, NEW start \in W, NEW N \in Nat, NEW g \in [W -> W], \A s \in W : g[s] = Rise(s)
    PROVE RiseRounds(N, start)
<1>1. HasRounds(W, start, N, g)
  BY RoundsExist
<1>2. PICK f \in [0..N -> W] : f[0] = start /\ \A n \in 1..N : f[n] = g[f[n - 1]]
  BY <1>1 DEF HasRounds
<1>3. \A n \in 1..N : f[n] = Rise(f[n - 1])
  <2> TAKE n \in 1..N
  <2>1. f[n - 1] \in W
    OBVIOUS
  <2> QED BY <1>2, <2>1
<1>4. f = [n \in 0..N |-> IF n = 0 THEN start ELSE Rise(f[n - 1])]
  BY <1>2, <1>3
<1> QED BY <1>4 DEF RiseRounds

\* An element that rises keeps company with the same others.
LEMMA SiftUpShuffles ==
    ASSUME NEW h \in Seq(Jobs), OneEach(h), NEW i \in DOMAIN h
    PROVE SiftUp(h, i) \in Shuffled(h)
<1> DEFINE N == Len(h)
           W == Sifting(h)
           start == [heap |-> h, at |-> i]
           f == Ups(h, i)
           T == {n \in 0..N : f[n] \in W}
<1>1. N \in Nat /\ start \in W
  BY DEF Sifting, Shuffled
<1>2. \A s \in W : Rise(s) \in W
  BY RoundShuffles
<1>3. f = [n \in 0..N |-> IF n = 0 THEN start ELSE Rise(f[n - 1])]
  <2> DEFINE g == [s \in W |-> Rise(s)]
  <2>1. g \in [W -> W] /\ \A s \in W : g[s] = Rise(s)
    BY <1>2
  <2>2. RiseRounds(N, start)
    <3> HIDE DEF N, W, start, g
    <3> QED BY <1>1, <2>1, UpsExist
  <2>3. \E e : e = [n \in 0..N |-> IF n = 0 THEN start ELSE Rise(e[n - 1])]
    BY <2>2 DEF RiseRounds
  <2> QED BY <2>3 DEF Ups
<1>4. SiftUp(h, i) = f[N].heap
  BY DEF SiftUp, Ups
<1> HIDE DEF f
<1>5. 0 \in T
  BY <1>1, <1>3
<1>6. ASSUME NEW n \in 1..N, n - 1 \in T PROVE n \in T
  <2>1. f[n] = Rise(f[n - 1]) /\ f[n - 1] \in W
    BY <1>1, <1>3, <1>6
  <2> QED BY <1>1, <1>2, <2>1
<1>7. N \in T
  <2> HIDE DEF T, N
  <2>1. 0..N \subseteq T
    BY <1>1, <1>5, <1>6, CountedUp
  <2> QED BY <1>1, <2>1
<1> QED BY <1>4, <1>7 DEF Sifting

Downs(h, i) ==
    CHOOSE f : f = [n \in 0 .. Len(h) |-> IF n = 0 THEN [heap |-> h, at |-> i] ELSE Sink(f[n - 1])]

SinkRounds(N, start) == \E f : f = [n \in 0..N |-> IF n = 0 THEN start ELSE Sink(f[n - 1])]

\* and those of a sinking one.
LEMMA DownsExist ==
    ASSUME NEW W, NEW start \in W, NEW N \in Nat, NEW g \in [W -> W], \A s \in W : g[s] = Sink(s)
    PROVE SinkRounds(N, start)
<1>1. HasRounds(W, start, N, g)
  BY RoundsExist
<1>2. PICK f \in [0..N -> W] : f[0] = start /\ \A n \in 1..N : f[n] = g[f[n - 1]]
  BY <1>1 DEF HasRounds
<1>3. \A n \in 1..N : f[n] = Sink(f[n - 1])
  <2> TAKE n \in 1..N
  <2>1. f[n - 1] \in W
    OBVIOUS
  <2> QED BY <1>2, <2>1
<1>4. f = [n \in 0..N |-> IF n = 0 THEN start ELSE Sink(f[n - 1])]
  BY <1>2, <1>3
<1> QED BY <1>4 DEF SinkRounds

\* And so does one that sinks.
LEMMA SiftDownShuffles ==
    ASSUME NEW h \in Seq(Jobs), OneEach(h), NEW i \in DOMAIN h
    PROVE SiftDown(h, i) \in Shuffled(h)
<1> DEFINE N == Len(h)
           W == Sifting(h)
           start == [heap |-> h, at |-> i]
           f == Downs(h, i)
           T == {n \in 0..N : f[n] \in W}
<1>1. N \in Nat /\ start \in W
  BY DEF Sifting, Shuffled
<1>2. \A s \in W : Sink(s) \in W
  BY RoundShuffles
<1>3. f = [n \in 0..N |-> IF n = 0 THEN start ELSE Sink(f[n - 1])]
  <2> DEFINE g == [s \in W |-> Sink(s)]
  <2>1. g \in [W -> W] /\ \A s \in W : g[s] = Sink(s)
    BY <1>2
  <2>2. SinkRounds(N, start)
    <3> HIDE DEF N, W, start, g
    <3> QED BY <1>1, <2>1, DownsExist
  <2>3. \E e : e = [n \in 0..N |-> IF n = 0 THEN start ELSE Sink(e[n - 1])]
    BY <2>2 DEF SinkRounds
  <2> QED BY <2>3 DEF Downs
<1>4. SiftDown(h, i) = f[N].heap
  BY DEF SiftDown, Downs
<1> HIDE DEF f
<1>5. 0 \in T
  BY <1>1, <1>3
<1>6. ASSUME NEW n \in 1..N, n - 1 \in T PROVE n \in T
  <2>1. f[n] = Sink(f[n - 1]) /\ f[n - 1] \in W
    BY <1>1, <1>3, <1>6
  <2> QED BY <1>1, <1>2, <2>1
<1>7. N \in T
  <2> HIDE DEF T, N
  <2>1. 0..N \subseteq T
    BY <1>1, <1>5, <1>6, CountedUp
  <2> QED BY <1>1, <2>1
<1> QED BY <1>4, <1>7 DEF Sifting

\* A slice without the element at i.
Without(h, i, g) == g \in Seq(Jobs) /\ OneEach(g) /\ ToSet(g) = ToSet(h) \ {h[i]} /\ Len(g) = Len(h) - 1

\* All elements but the last.
LEMMA FrontShortens ==
    ASSUME NEW h \in Seq(Jobs), NEW i \in DOMAIN h
    PROVE /\ Front(h) \in Seq(Jobs) /\ Len(Front(h)) = Len(h) - 1
          /\ DOMAIN Front(h) = 1..Len(h) - 1 /\ \A k \in 1..Len(h) - 1 : Front(h)[k] = h[k]
<1>1. Len(h) \in Nat /\ DOMAIN h = 1..Len(h) /\ Len(h) >= 1
  OBVIOUS
<1>2. Front(h) = SubSeq(h, 1, Len(h) - 1)
  BY DEF Front
<1>3. /\ SubSeq(h, 1, Len(h) - 1) \in Seq(Jobs)
      /\ Len(SubSeq(h, 1, Len(h) - 1)) = Len(h) - 1
      /\ \A k \in 1..Len(h) - 1 : SubSeq(h, 1, Len(h) - 1)[k] = h[k]
  <2>1. \A k \in 1..Len(h) - 1 : h[k] \in Jobs
    BY <1>1
  <2> QED BY <1>1, <2>1
<1> DEFINE f == SubSeq(h, 1, Len(h) - 1)
<1>4. DOMAIN f = 1..Len(h) - 1
  <2>1. f \in Seq(Jobs) /\ Len(f) = Len(h) - 1
    BY <1>3
  <2> HIDE DEF f
  <2> QED BY <2>1
<1> QED BY <1>2, <1>3, <1>4

\* Removing an element removes that one.
LEMMA RemovesOne ==
    ASSUME NEW h \in Seq(Jobs), OneEach(h), NEW i \in DOMAIN h
    PROVE Without(h, i, HeapRemove(h, i))
<1> DEFINE f == Front(h)
<1>1. PICK n \in Nat : n = Len(h) /\ DOMAIN h = 1..n /\ n >= 1 /\ i \in 1..n
  OBVIOUS
<1>2. /\ f \in Seq(Jobs) /\ Len(f) = n - 1 /\ DOMAIN f = 1..n - 1
      /\ \A k \in 1..n - 1 : f[k] = h[k]
  BY <1>1, FrontShortens
<1> HIDE DEF f
<1>3. CASE i = n
  <2>1. HeapRemove(h, i) = f
    BY <1>1, <1>3 DEF HeapRemove, f
  <2>2. OneEach(f)
    BY <1>1, <1>2 DEF OneEach
  <2>3. ToSet(f) = ToSet(h) \ {h[i]}
    <3>1. \A k \in 1..n - 1 : k \in DOMAIN h /\ h[k] # h[i]
      BY <1>1, <1>3 DEF OneEach
    <3>2. \A k \in 1..n : k = i \/ k \in 1..n - 1
      BY <1>1, <1>3
    <3> QED BY <1>1, <1>2, <3>1, <3>2 DEF ToSet
  <2> QED BY <1>1, <1>2, <2>1, <2>2, <2>3 DEF Without
<1>4. CASE i # n
  <2> DEFINE moved == [f EXCEPT ![i] = h[n]]
  <2>1. i \in 1..n - 1
    BY <1>1, <1>4
  <2>2. DOMAIN moved = 1..n - 1 /\ \A k \in 1..n - 1 : moved[k] = IF k = i THEN h[n] ELSE h[k]
    BY <1>2
  <2>3. moved \in [1..n - 1 -> Jobs]
    <3>1. \A k \in 1..n : h[k] \in Jobs
      BY <1>1
    <3>2. n \in 1..n /\ \A k \in 1..n - 1 : k \in 1..n
      BY <1>1
    <3>3. moved = [k \in 1..n - 1 |-> moved[k]]
      BY <1>2
    <3>4. \A k \in 1..n - 1 : moved[k] \in Jobs
      BY <2>2, <3>1, <3>2
    <3> HIDE DEF moved
    <3> QED BY <3>3, <3>4
  <2>4. Last(h) = h[n]
    BY <1>1 DEF Last
  <2>5. HeapRemove(h, i) = SiftDown(moved, i) \/ HeapRemove(h, i) = SiftUp(moved, i)
    BY <1>1, <1>4, <2>4 DEF HeapRemove, f
  <2> HIDE DEF moved
  <2>6. moved \in Seq(Jobs) /\ Len(moved) = n - 1
    <3>1. n - 1 \in Nat
      BY <1>1
    <3> QED BY <2>3, <3>1
  <2>7. OneEach(moved)
    <3>1. \A k \in 1..n - 1 : k \in DOMAIN h /\ n \in DOMAIN h /\ k # n
      BY <1>1
    <3>2. \A k \in 1..n - 1 : h[k] # h[n]
      BY <3>1 DEF OneEach
    <3> QED BY <2>2, <3>1, <3>2 DEF OneEach
  <2>8. ToSet(moved) = ToSet(h) \ {h[i]}
    <3>1. \A k \in 1..n - 1 : moved[k] \in ToSet(h) \ {h[i]}
      <4> TAKE k \in 1..n - 1
      <4>1. k \in DOMAIN h /\ n \in DOMAIN h /\ i \in DOMAIN h
        BY <1>1
      <4>2. h[n] # h[i] /\ (k # i => h[k] # h[i])
        BY <1>4, <4>1 DEF OneEach
      <4> QED BY <2>2, <4>1, <4>2 DEF ToSet
    <3>2. \A k \in 1..n : k # i => \E l \in 1..n - 1 : moved[l] = h[k]
      <4> SUFFICES ASSUME NEW k \in 1..n, k # i PROVE \E l \in 1..n - 1 : moved[l] = h[k]
        OBVIOUS
      <4>1. CASE k = n
        <5>1. moved[i] = h[n]
          BY <2>1, <2>2
        <5> QED BY <2>1, <4>1, <5>1
      <4>2. CASE k # n
        <5>1. k \in 1..n - 1
          BY <1>1, <4>2
        <5> QED BY <2>2, <5>1
      <4> QED BY <4>1, <4>2
    <3>3. ToSet(moved) \subseteq ToSet(h) \ {h[i]}
      BY <2>2, <3>1 DEF ToSet
    <3>4. \A e \in ToSet(h) \ {h[i]} : e \in ToSet(moved)
      <4> TAKE e \in ToSet(h) \ {h[i]}
      <4>1. PICK k \in 1..n : e = h[k] /\ k # i
        BY <1>1 DEF ToSet
      <4>2. PICK l \in 1..n - 1 : moved[l] = h[k]
        BY <3>2, <4>1
      <4>3. l \in DOMAIN moved
        BY <2>2
      <4> QED BY <4>1, <4>2, <4>3 DEF ToSet
    <3> QED BY <3>3, <3>4
  <2>9. \A g \in Shuffled(moved) : Without(h, i, g)
    <3> TAKE g \in Shuffled(moved)
    <3>1. g \in Seq(Jobs) /\ OneEach(g) /\ ToSet(g) = ToSet(moved) /\ DOMAIN g = 1..n - 1
      BY <2>2 DEF Shuffled
    <3>2. Len(g) = n - 1
      <4>1. n - 1 \in Nat
        BY <1>1
      <4> QED BY <3>1, <4>1
    <3> QED BY <1>1, <2>8, <3>1, <3>2 DEF Without
  <2>10. i \in DOMAIN moved
    BY <2>1, <2>2
  <2>11. SiftDown(moved, i) \in Shuffled(moved) /\ SiftUp(moved, i) \in Shuffled(moved)
    BY <2>6, <2>7, <2>10, SiftDownShuffles, SiftUpShuffles
  <2> QED BY <2>5, <2>9, <2>11
<1> QED BY <1>3, <1>4

QueueTyped(q) == q.heap \in Seq(Jobs) /\ OneEach(q.heap) /\ q.byID \subseteq Jobs

\* A job that is not in the queue comes into it and into its index.
LEMMA Enqueued ==
    ASSUME NEW q, QueueTyped(q), NEW j \in Jobs, j \notin q.byID, j \notin ToSet(q.heap)
    PROVE /\ QueueTyped(Enqueue(q, j))
          /\ Enqueue(q, j).byID = q.byID \cup {j}
          /\ ToSet(Enqueue(q, j).heap) = ToSet(q.heap) \cup {j}
<1> DEFINE h == q.heap
           g == Append(h, j)
<1>1. PICK n \in Nat : n = Len(h) /\ DOMAIN h = 1..n
  BY DEF QueueTyped
<1>2. h \in Seq(Jobs) /\ OneEach(h) /\ q.byID \subseteq Jobs
  BY DEF QueueTyped
<1>3. Enqueue(q, j) = [heap |-> SiftUp(g, n + 1), byID |-> q.byID \cup {j}]
  BY <1>1 DEF Enqueue
<1> HIDE DEF h
<1>4. g \in Seq(Jobs) /\ DOMAIN g = 1..n + 1 /\ (\A k \in 1..n : g[k] = h[k]) /\ g[n + 1] = j
  BY <1>1, <1>2
<1> HIDE DEF g
<1>5. \A k \in 1..n : h[k] # j
  BY <1>1 DEF ToSet, h
<1>6. \A k \in 1..n + 1 : k = n + 1 \/ k \in 1..n
  OBVIOUS
<1>7. OneEach(g)
  BY <1>1, <1>2, <1>4, <1>5, <1>6 DEF OneEach
<1>8. ToSet(g) = ToSet(h) \cup {j}
  <2>1. \A k \in 1..n : k \in 1..n + 1
    OBVIOUS
  <2>2. n + 1 \in 1..n + 1
    OBVIOUS
  <2>3. \A e : e \in ToSet(g) <=> e \in ToSet(h) \/ e = j
    BY <1>1, <1>4, <1>6, <2>1, <2>2 DEF ToSet
  <2> QED BY <2>3
<1>9. n + 1 \in DOMAIN g
  BY <1>4
<1>10. SiftUp(g, n + 1) \in Shuffled(g)
  BY <1>4, <1>7, <1>9, SiftUpShuffles
<1> QED BY <1>2, <1>3, <1>8, <1>10 DEF QueueTyped, Shuffled, h

\* A job removed by its id leaves the index, and the slice if it was there.
LEMMA Removed ==
    ASSUME NEW q, QueueTyped(q), NEW j
    PROVE /\ QueueTyped(RemoveJob(q, j))
          /\ RemoveJob(q, j).byID = q.byID \ {j}
          /\ ToSet(RemoveJob(q, j).heap) = IF j \in q.byID THEN ToSet(q.heap) \ {j} ELSE ToSet(q.heap)
<1>1. q.heap \in Seq(Jobs) /\ OneEach(q.heap) /\ q.byID \subseteq Jobs
  BY DEF QueueTyped
<1>2. CASE j \notin q.byID
  BY <1>1, <1>2 DEF RemoveJob, QueueTyped
<1>3. CASE j \in q.byID /\ Positions(q, j) = {}
  <2>1. RemoveJob(q, j) = [heap |-> q.heap, byID |-> q.byID \ {j}]
    BY <1>3 DEF RemoveJob
  <2>2. j \notin ToSet(q.heap)
    BY <1>3 DEF Positions, ToSet
  <2> QED BY <1>1, <1>3, <2>1, <2>2 DEF QueueTyped
<1>4. CASE j \in q.byID /\ Positions(q, j) # {}
  <2>1. Positions(q, j) \in SUBSET Nat
    BY <1>1 DEF Positions
  <2>2. PICK i \in Positions(q, j) : i = Min(Positions(q, j))
    BY <1>4, <2>1, LeastOne
  <2>3. RemoveJob(q, j) = [heap |-> HeapRemove(q.heap, i), byID |-> q.byID \ {j}]
    BY <1>4, <2>2 DEF RemoveJob
  <2>4. i \in DOMAIN q.heap /\ q.heap[i] = j
    BY <2>2 DEF Positions
  <2>5. Without(q.heap, i, HeapRemove(q.heap, i))
    BY <1>1, <2>4, RemovesOne
  <2> QED BY <1>1, <1>4, <2>3, <2>4, <2>5 DEF QueueTyped, Without
<1> QED BY <1>2, <1>3, <1>4

\* What is left of the slice when the n-th position from the end has had its turn.
OneLeft(q, S, n, g) ==
    IF q.heap[Len(q.heap) + 1 - n] \in S THEN HeapRemove(g, Len(q.heap) + 1 - n) ELSE g

Lefts(q, S) ==
    CHOOSE left : left = [n \in 0 .. Len(q.heap) |-> IF n = 0 THEN q.heap ELSE OneLeft(q, S, n, left[n - 1])]

\* Slices of jobs that were there, and those of them in which n turns may have been used.
PartsOf(q) == {g \in Seq(Jobs) : OneEach(g) /\ ToSet(g) \subseteq ToSet(q.heap)}
LeftAfter(q, n) == {g \in PartsOf(q) : Len(g) >= Len(q.heap) - n}

\* A turn finds its position in the slice: each one before has taken one element at most.
LEMMA TurnLeaves ==
    ASSUME NEW q, QueueTyped(q), NEW S, NEW n \in 1 .. Len(q.heap), NEW g \in LeftAfter(q, n - 1)
    PROVE OneLeft(q, S, n, g) \in LeftAfter(q, n) /\ Len(q.heap) + 1 - n \in DOMAIN g
<1> DEFINE N == Len(q.heap)
           i == N + 1 - n
<1>1. N \in Nat
  BY DEF QueueTyped
<1>2. /\ g \in Seq(Jobs) /\ OneEach(g) /\ ToSet(g) \subseteq ToSet(q.heap)
      /\ Len(g) \in Nat /\ DOMAIN g = 1..Len(g) /\ Len(g) >= N - (n - 1)
  BY DEF LeftAfter, PartsOf
<1>3. i \in DOMAIN g
  BY <1>1, <1>2
<1>4. CASE q.heap[i] \in S
  <2>1. OneLeft(q, S, n, g) = HeapRemove(g, i)
    BY <1>4 DEF OneLeft
  <2>2. Without(g, i, HeapRemove(g, i))
    BY <1>2, <1>3, RemovesOne
  <2> DEFINE t == HeapRemove(g, i)
  <2>3. t \in Seq(Jobs) /\ OneEach(t) /\ ToSet(t) \subseteq ToSet(g) /\ Len(t) = Len(g) - 1
    BY <2>2 DEF Without
  <2> HIDE DEF t
  <2>4. Len(t) >= N - n
    BY <1>1, <1>2, <2>3
  <2> QED BY <1>2, <1>3, <2>1, <2>3, <2>4 DEF LeftAfter, PartsOf, t
<1>5. CASE q.heap[i] \notin S
  <2>1. OneLeft(q, S, n, g) = g
    BY <1>5 DEF OneLeft
  <2>2. Len(g) >= N - n
    BY <1>1, <1>2
  <2> QED BY <1>2, <1>3, <2>1, <2>2 DEF LeftAfter, PartsOf
<1> QED BY <1>4, <1>5

HasSteps(W, c, N, r) ==
    \E f \in [0..N -> W] : f[0] = c /\ \A n \in 1..N : f[n] = r[n][f[n - 1]]

\* What is left of the slice, turn by turn, is a function.
LEMMA StepsExist ==
    ASSUME NEW W, NEW c \in W, NEW N \in Nat, NEW r \in [1..N -> [W -> W]]
    PROVE HasSteps(W, c, N, r)
BY RecursionExists DEF HasSteps

\* The turns follow one on the other.
LEMMA LeftsGo ==
    ASSUME NEW q, QueueTyped(q), NEW S
    PROVE Lefts(q, S) = [n \in 0 .. Len(q.heap) |->
              IF n = 0 THEN q.heap ELSE OneLeft(q, S, n, Lefts(q, S)[n - 1])]
<1> DEFINE N == Len(q.heap)
           W == PartsOf(q)
           step(n, g) == IF g \in LeftAfter(q, n - 1) THEN OneLeft(q, S, n, g) ELSE g
           r == [n \in 1..N |-> [g \in W |-> step(n, g)]]
<1>1. N \in Nat /\ q.heap \in LeftAfter(q, 0) /\ \A n : LeftAfter(q, n) \subseteq W
  BY DEF QueueTyped, LeftAfter, PartsOf
<1>2. r \in [1..N -> [W -> W]]
  <2>1. \A n \in 1..N : \A g \in W : step(n, g) \in W
    BY <1>1, TurnLeaves
  <2> HIDE DEF step, W, N
  <2> QED BY <2>1
<1>3. \A n \in 1..N : \A g \in W : r[n][g] = step(n, g)
  OBVIOUS
<1>4. HasSteps(W, q.heap, N, r)
  <2>1. q.heap \in W
    BY <1>1
  <2> HIDE DEF W, N, r
  <2> QED BY <1>1, <1>2, <2>1, StepsExist
<1> HIDE DEF r, N, W
<1>5. PICK f \in [0..N -> W] : f[0] = q.heap /\ \A n \in 1..N : f[n] = r[n][f[n - 1]]
  BY <1>4 DEF HasSteps
<1> DEFINE T == {n \in 0..N : f[n] \in LeftAfter(q, n)}
<1>6. ASSUME NEW n \in 1..N
      PROVE f[n] = step(n, f[n - 1])
  <2>1. f[n - 1] \in W
    BY <1>1
  <2> HIDE DEF step
  <2> QED BY <1>3, <1>5, <2>1
<1>7. ASSUME NEW n \in 1..N, n - 1 \in T
      PROVE n \in T /\ f[n] = OneLeft(q, S, n, f[n - 1])
  <2>1. f[n - 1] \in LeftAfter(q, n - 1)
    BY <1>7
  <2>2. f[n] = OneLeft(q, S, n, f[n - 1])
    BY <1>6, <2>1
  <2>3. OneLeft(q, S, n, f[n - 1]) \in LeftAfter(q, n)
    BY <2>1, TurnLeaves DEF N
  <2> QED BY <1>1, <2>2, <2>3
<1>8. 0..N \subseteq T
  <2>1. 0 \in T
    BY <1>1, <1>5
  <2> HIDE DEF T
  <2> QED BY <1>1, <1>7, <2>1, CountedUp
<1>9. \A n \in 1..N : f[n] = OneLeft(q, S, n, f[n - 1])
  <2> TAKE n \in 1..N
  <2>1. n - 1 \in 0..N
    BY <1>1
  <2> HIDE DEF T
  <2> QED BY <1>7, <1>8, <2>1
<1>10. f = [n \in 0..N |-> IF n = 0 THEN q.heap ELSE OneLeft(q, S, n, f[n - 1])]
  BY <1>1, <1>5, <1>9
<1> QED BY <1>10 DEF Lefts, N

\* Cancelling many takes jobs of theirs out of the index, and only takes out of the slice.
LEMMA AllRemoved ==
    ASSUME NEW q, QueueTyped(q), NEW S
    PROVE /\ QueueTyped(RemoveAll(q, S))
          /\ RemoveAll(q, S).byID = q.byID \ (ToSet(q.heap) \cap S)
          /\ ToSet(RemoveAll(q, S).heap) \subseteq ToSet(q.heap)
<1> DEFINE N == Len(q.heap)
           f == Lefts(q, S)
           T == {n \in 0..N : f[n] \in LeftAfter(q, n)}
<1>1. N \in Nat /\ q.heap \in LeftAfter(q, 0) /\ q.byID \subseteq Jobs
  BY DEF QueueTyped, LeftAfter, PartsOf
<1>2. f = [n \in 0..N |-> IF n = 0 THEN q.heap ELSE OneLeft(q, S, n, f[n - 1])]
  BY LeftsGo
<1>3. RemoveAll(q, S) = [heap |-> f[N], byID |-> q.byID \ (ToSet(q.heap) \cap S)]
  BY DEF RemoveAll, Lefts, OneLeft
<1> HIDE DEF f
<1>4. 0 \in T
  BY <1>1, <1>2
<1>5. ASSUME NEW n \in 1..N, n - 1 \in T
      PROVE n \in T
  <2>1. f[n] = OneLeft(q, S, n, f[n - 1]) /\ f[n - 1] \in LeftAfter(q, n - 1)
    BY <1>1, <1>2, <1>5
  <2>2. OneLeft(q, S, n, f[n - 1]) \in LeftAfter(q, n)
    BY <2>1, TurnLeaves
  <2> QED BY <1>1, <2>1, <2>2
<1>6. N \in T
  <2> HIDE DEF T, N
  <2>1. 0..N \subseteq T
    BY <1>1, <1>4, <1>5, CountedUp
  <2> QED BY <1>1, <2>1
<1>7. f[N] \in PartsOf(q)
  BY <1>6 DEF LeftAfter
<1> QED BY <1>1, <1>3, <1>7 DEF QueueTyped, PartsOf

-----------------------------------------------------------------------------
(* Where a job is *)

JobStates == EndedStatus \cup {"new", "pending", "running", "retrying"}
JobRecords == [status : JobStates, retries : Nat, cancelled : BOOLEAN, reports : Nat]

Owning == {"admit", "requeue", "limit", "run", "ran", "report"}
Waiting == {"admit", "requeue", "limit"}

\* What the index, the slice and the maps hold of a job goes with its status; what is in the slice
\* and not in the index was cancelled there.
JobFits(j) ==
    /\ j \in queue.byID => job[j].status = "pending"
    /\ j \in ToSet(queue.heap) /\ j \notin queue.byID => job[j].status = "cancelled"
    /\ j \in retrying => job[j].status = "retrying"
    /\ j \in running => job[j].status = "running"
    /\ job[j].reports \in {0, 1} /\ (job[j].reports = 1 => job[j].status \in EndedStatus)

\* And so does what a worker that is at a place has in its hands.
HandFits(place, j) ==
    /\ place \in Owning \cup {"claim"} => j \in Jobs
    /\ place \in Waiting => job[j].status = "pending" /\ j \notin queue.byID
    /\ place \in {"run", "ran"} => job[j].status = "running"
    /\ place = "ran" => j \notin running
    /\ place = "report" => job[j].status \in EndedStatus /\ job[j].reports = 0

Owns(w) == worker[w].at \in Owning

PlaceTyped ==
    /\ QueueTyped(queue) /\ job \in [Jobs -> JobRecords]
    /\ running \subseteq Jobs /\ retrying \subseteq Jobs
    /\ \A w \in Workers : worker[w].at \in Places /\ worker[w].rest \in Seq(Jobs)

HandsFit == \A w \in Workers : HandFits(worker[w].at, worker[w].job)

\* No job is in the hands of two.
OneOwner == \A v, w \in Workers : Owns(v) /\ Owns(w) /\ worker[v].job = worker[w].job => v = w

PlaceInv == PlaceTyped /\ (\A j \in Jobs : JobFits(j)) /\ HandsFit /\ OneOwner

\* What ended stays as it ended.
EndsStay == \A j \in Jobs : job[j].status \in EndedStatus => job'[j].status = job[j].status

\* Nothing but j is touched.
Elsewhere(j) ==
    /\ queue'.byID \ {j} = queue.byID \ {j}
    /\ ToSet(queue'.heap) \ {j} = ToSet(queue.heap) \ {j}
    /\ \A k \in Jobs \ {j} : job'[k] = job[k]
    /\ running' \ {j} = running \ {j} /\ retrying' \ {j} = retrying \ {j}

StillTyped ==
    /\ QueueTyped(queue') /\ job' \in [Jobs -> JobRecords]
    /\ running' \subseteq Jobs /\ retrying' \subseteq Jobs

\* A step of one worker and one job that is in no other hands, or of no worker.
LEMMA OthersFit ==
    ASSUME PlaceInv, NEW j \in Jobs, Elsewhere(j), JobFits(j)'
    PROVE /\ \A k \in Jobs : JobFits(k)'
          /\ \A place, k : k # j /\ HandFits(place, k) => HandFits(place, k)'
<1>1. ASSUME NEW k \in Jobs, k # j
      PROVE JobFits(k)'
  <2>1. JobFits(k)
    BY DEF PlaceInv
  <2>2. /\ k \in queue'.byID <=> k \in queue.byID
        /\ k \in ToSet(queue'.heap) <=> k \in ToSet(queue.heap)
        /\ k \in running' <=> k \in running
        /\ k \in retrying' <=> k \in retrying
        /\ job'[k] = job[k]
    BY <1>1 DEF Elsewhere
  <2> QED BY <2>1, <2>2 DEF JobFits
<1>2. ASSUME NEW place, NEW k, k # j, HandFits(place, k)
      PROVE HandFits(place, k)'
  <2>1. /\ k \in queue'.byID <=> k \in queue.byID
        /\ k \in running' <=> k \in running
        /\ k \in Jobs => job'[k] = job[k]
    BY <1>2 DEF Elsewhere
  <2>2. CASE k \in Jobs
    BY <1>2, <2>1, <2>2 DEF HandFits
  <2>3. CASE k \notin Jobs
    <3>1. place \notin Owning \cup {"claim"}
      BY <1>2, <2>3 DEF HandFits
    <3> QED BY <3>1 DEF HandFits, Owning, Waiting
  <2> QED BY <2>2, <2>3
<1> QED BY <1>1, <1>2

\* A worker takes, holds or lets go of one job, which no other worker has.
LEMMA WorkerPlaces ==
    ASSUME PlaceInv, CountsTyped, NEW w, NEW r, Moves(w, r), StillTyped,
           r.at \in Places, r.rest \in Seq(Jobs), NEW j \in Jobs, Elsewhere(j), JobFits(j)',
           \A v \in Workers \ {w} : Owns(v) => worker[v].job # j,
           HandFits(r.at, r.job)', r.at \in Owning => r.job = j,
           job[j].status \in EndedStatus => job'[j].status = job[j].status
    PROVE PlaceInv' /\ EndsStay
<1>1. w \in Workers /\ worker'[w] = r /\ \A v \in Workers \ {w} : worker'[v] = worker[v]
  BY WorkersStayTyped DEF Moves
<1>2. \A k \in Jobs : JobFits(k)'
  BY OthersFit
<1>3. PlaceTyped'
  BY <1>1 DEF PlaceInv, PlaceTyped, StillTyped
<1>4. HandsFit'
  <2>1. ASSUME NEW v \in Workers, v # w
        PROVE HandFits(worker[v].at, worker[v].job)'
    <3>1. worker'[v] = worker[v] /\ HandFits(worker[v].at, worker[v].job)
      BY <1>1, <2>1 DEF PlaceInv, HandsFit
    <3>2. CASE worker[v].job # j
      <4>1. PICK place, k : place = worker[v].at /\ k = worker[v].job
        OBVIOUS
      <4>2. HandFits(place, k)'
        BY <3>1, <3>2, <4>1, OthersFit
      <4> QED BY <3>1, <4>1, <4>2 DEF HandFits
    <3>3. CASE ~Owns(v)
      BY <3>1, <3>3 DEF HandFits, Owns, Owning, Waiting
    <3> QED BY <2>1, <3>2, <3>3
  <2>2. HandFits(worker[w].at, worker[w].job)'
    BY <1>1 DEF HandFits
  <2> QED BY <2>1, <2>2 DEF HandsFit
<1>5. OneOwner'
  <2> SUFFICES ASSUME NEW u \in Workers, NEW v \in Workers, Owns(u)', Owns(v)',
                      worker'[u].job = worker'[v].job
               PROVE u = v
    BY DEF OneOwner
  <2>1. CASE u # w /\ v # w
    BY <1>1, <2>1 DEF PlaceInv, OneOwner, Owns
  <2>2. CASE u = w /\ v # w
    BY <1>1, <2>2 DEF Owns
  <2>3. CASE u # w /\ v = w
    BY <1>1, <2>3 DEF Owns
  <2> QED BY <2>1, <2>2, <2>3
<1>6. EndsStay
  BY DEF EndsStay, Elsewhere
<1> QED BY <1>2, <1>3, <1>4, <1>5, <1>6 DEF PlaceInv

\* A step of one job in no hands, by no worker.
LEMMA JobPlaces ==
    ASSUME PlaceInv, UNCHANGED worker, StillTyped, NEW j \in Jobs, Elsewhere(j), JobFits(j)',
           \A v \in Workers : Owns(v) => worker[v].job # j,
           job[j].status \in EndedStatus => job'[j].status = job[j].status
    PROVE PlaceInv' /\ EndsStay
<1>1. \A k \in Jobs : JobFits(k)'
  BY OthersFit
<1>2. PlaceTyped' /\ OneOwner'
  BY DEF PlaceInv, PlaceTyped, StillTyped, OneOwner, Owns
<1>3. HandsFit'
  <2>1. ASSUME NEW v \in Workers
        PROVE HandFits(worker[v].at, worker[v].job)'
    <3>1. worker'[v] = worker[v] /\ HandFits(worker[v].at, worker[v].job)
      BY DEF PlaceInv, HandsFit
    <3>2. CASE worker[v].job # j
      BY <3>1, <3>2, OthersFit DEF HandFits
    <3>3. CASE ~Owns(v)
      BY <3>1, <3>3 DEF HandFits, Owns, Owning, Waiting
    <3> QED BY <3>2, <3>3
  <2> QED BY <2>1 DEF HandsFit
<1>4. EndsStay
  BY DEF EndsStay, Elsewhere
<1> QED BY <1>1, <1>2, <1>3, <1>4 DEF PlaceInv

\* A worker that touches no job and has none in its hands afterwards.
LEMMA IdlePlaces ==
    ASSUME PlaceInv, CountsTyped, NEW w, NEW r, Moves(w, r), UNCHANGED <<queue, job, running, retrying>>,
           r.at \in Places \ Owning, r.rest \in Seq(Jobs), r.at = "claim" => r.job \in Jobs
    PROVE PlaceInv' /\ EndsStay
<1>1. w \in Workers /\ worker'[w] = r /\ \A v \in Workers \ {w} : worker'[v] = worker[v]
  BY WorkersStayTyped DEF Moves
<1>2. PlaceTyped' /\ (\A j \in Jobs : JobFits(j)') /\ EndsStay
  BY <1>1 DEF PlaceInv, PlaceTyped, JobFits, EndsStay
<1>3. HandsFit'
  <2>1. ASSUME NEW v \in Workers
        PROVE HandFits(worker[v].at, worker[v].job)'
    <3>1. CASE v # w
      BY <1>1, <3>1 DEF PlaceInv, HandsFit, HandFits
    <3>2. CASE v = w
      BY <1>1, <3>2 DEF HandFits, Owning, Waiting
    <3> QED BY <3>1, <3>2
  <2> QED BY <2>1 DEF HandsFit
<1>4. OneOwner'
  BY <1>1 DEF PlaceInv, OneOwner, Owns
<1> QED BY <1>2, <1>3, <1>4 DEF PlaceInv

\* What a worker holds is a job that fits its place, and in no other hands.
LEMMA InHands ==
    ASSUME PlaceInv, NEW w \in Workers, worker[w].at \in Owning \cup {"claim"}
    PROVE /\ worker[w].job \in Jobs /\ HandFits(worker[w].at, worker[w].job)
          /\ JobFits(worker[w].job) /\ job[worker[w].job] \in JobRecords
          /\ Owns(w) => \A v \in Workers \ {w} : Owns(v) => worker[v].job # worker[w].job
<1>1. HandFits(worker[w].at, worker[w].job)
  BY DEF PlaceInv, HandsFit
<1>2. worker[w].job \in Jobs
  BY <1>1 DEF HandFits
<1> QED BY <1>1, <1>2 DEF PlaceInv, OneOwner, PlaceTyped

\* Of a job, one record is written.
LEMMA RecordWritten ==
    ASSUME PlaceInv, NEW j \in Jobs, NEW d \in JobRecords, job' = [job EXCEPT ![j] = d]
    PROVE /\ job' \in [Jobs -> JobRecords] /\ job'[j] = d
          /\ \A k \in Jobs \ {j} : job'[k] = job[k]
BY DEF PlaceInv, PlaceTyped

\* The status of one job is written.
LEMMA StatusWritten ==
    ASSUME PlaceInv, NEW j \in Jobs, NEW status \in JobStates, job' = JobMarked(status, j)
    PROVE /\ job' \in [Jobs -> JobRecords]
          /\ job'[j].status = status /\ job'[j].reports = job[j].reports
          /\ \A k \in Jobs \ {j} : job'[k] = job[k]
<1> DEFINE d == [job[j] EXCEPT !.status = status]
<1>1. job[j] \in JobRecords /\ DOMAIN job = Jobs
  BY DEF PlaceInv, PlaceTyped
<1>2. d \in JobRecords /\ d.status = status /\ d.reports = job[j].reports
  BY <1>1 DEF JobRecords
<1>3. job' = [job EXCEPT ![j] = d]
  BY <1>1 DEF JobMarked
<1> HIDE DEF d
<1> QED BY <1>2, <1>3, RecordWritten

\* A worker takes a job that waits in the index.
LEMMA TakesFromQueue ==
    ASSUME PlaceInv, CountsTyped, NEW w, NEW r, Moves(w, r), NEW j, j \in queue.byID,
           r.at \in Waiting, r.job = j, r.rest = <<>>,
           queue' = RemoveJob(queue, j), UNCHANGED <<job, running, retrying>>
    PROVE PlaceInv' /\ EndsStay
<1>1. QueueTyped(queue) /\ j \in Jobs /\ job \in [Jobs -> JobRecords]
      /\ running \subseteq Jobs /\ retrying \subseteq Jobs
  BY DEF PlaceInv, PlaceTyped, QueueTyped
<1>2. QueueTyped(queue') /\ queue'.byID = queue.byID \ {j} /\ ToSet(queue'.heap) = ToSet(queue.heap) \ {j}
  BY <1>1, Removed
<1>3. job[j].status = "pending" /\ JobFits(j)
  BY <1>1 DEF PlaceInv, JobFits
<1>4. StillTyped /\ Elsewhere(j)
  BY <1>1, <1>2 DEF StillTyped, Elsewhere
<1>5. JobFits(j)'
  BY <1>2, <1>3 DEF JobFits
<1>6. \A v \in Workers \ {w} : Owns(v) => worker[v].job # j
  <2> TAKE v \in Workers \ {w}
  <2>1. HandFits(worker[v].at, worker[v].job)
    BY DEF PlaceInv, HandsFit
  <2> QED BY <1>3, <2>1 DEF HandFits, Owns, Owning, Waiting, EndedStatus
<1>7. HandFits(r.at, r.job)'
  BY <1>1, <1>2, <1>3 DEF HandFits, Waiting
<1>8. r.at \in Places /\ r.rest \in Seq(Jobs)
  BY DEF Places, Waiting
<1> QED BY <1>1, <1>4, <1>5, <1>6, <1>7, <1>8, WorkerPlaces

\* A worker puts the job it holds back.
LEMMA PutsBack ==
    ASSUME PlaceInv, CountsTyped, NEW w, NEW r, Moves(w, r), worker[w].at \in Waiting,
           r.at \in Places \ (Owning \cup {"claim"}), r.rest \in Seq(Jobs),
           queue' = Enqueue(queue, worker[w].job), UNCHANGED <<job, running, retrying>>
    PROVE PlaceInv' /\ EndsStay
<1>0. PICK j : j = worker[w].job
  OBVIOUS
<1>1. QueueTyped(queue) /\ job \in [Jobs -> JobRecords] /\ running \subseteq Jobs /\ retrying \subseteq Jobs
  BY DEF PlaceInv, PlaceTyped
<1>2. w \in Workers /\ Owns(w)
  BY DEF Moves, Owns, Owning, Waiting
<1>3. /\ j \in Jobs /\ HandFits(worker[w].at, j) /\ JobFits(j)
      /\ \A v \in Workers \ {w} : Owns(v) => worker[v].job # j
  BY <1>0, <1>2, InHands DEF Owns
<1>4. job[j].status = "pending" /\ j \notin queue.byID /\ j \notin ToSet(queue.heap)
  BY <1>0, <1>3 DEF HandFits, JobFits
<1>5. queue' = Enqueue(queue, j)
  BY <1>0
<1>6. /\ QueueTyped(queue') /\ queue'.byID = queue.byID \cup {j}
      /\ ToSet(queue'.heap) = ToSet(queue.heap) \cup {j}
  BY <1>1, <1>3, <1>4, <1>5, Enqueued
<1>7. StillTyped /\ Elsewhere(j)
  BY <1>1, <1>6 DEF StillTyped, Elsewhere
<1>8. JobFits(j)'
  BY <1>3, <1>4, <1>6 DEF JobFits
<1>9. HandFits(r.at, r.job)'
  BY DEF HandFits, Owning, Waiting
<1> QED BY <1>3, <1>7, <1>8, <1>9, WorkerPlaces

\* A worker that holds a job and stays away from the queue.
LEMMA HandsOn ==
    ASSUME PlaceInv, CountsTyped, NEW w, NEW r, Moves(w, r), worker[w].at \in Owning,
           NEW j, j = worker[w].job,
           r.at \in Places \ {"claim"}, r.rest \in Seq(Jobs), r.at \in Owning => r.job = j,
           UNCHANGED queue, job' \in [Jobs -> JobRecords], \A k \in Jobs \ {j} : job'[k] = job[k],
           running' \ {j} = running \ {j}, running' \subseteq Jobs,
           retrying' \ {j} = retrying \ {j}, retrying' \subseteq Jobs,
           JobFits(j)', r.at \in Owning => HandFits(r.at, j)',
           job[j].status \in EndedStatus => job'[j].status = job[j].status
    PROVE PlaceInv' /\ EndsStay
<1>1. w \in Workers /\ Owns(w) /\ QueueTyped(queue')
  BY DEF Moves, Owns, PlaceInv, PlaceTyped
<1>2. j \in Jobs /\ \A v \in Workers \ {w} : Owns(v) => worker[v].job # j
  BY <1>1, InHands DEF Owns
<1>3. StillTyped /\ Elsewhere(j)
  BY <1>1 DEF StillTyped, Elsewhere
<1>4. HandFits(r.at, r.job)'
  BY DEF HandFits, Owning, Waiting
<1> QED BY <1>2, <1>3, <1>4, WorkerPlaces

\* An idle worker has nothing in its hands.
LEMMA IdleHands == Idling.at = "idle" /\ Idling.at \in Places \ (Owning \cup {"claim"}) /\ Idling.rest \in Seq(Jobs)
<1>1. Idling.at = "idle" /\ Idling.rest = <<>>
  BY DEF Idling
<1>2. <<>> \in Seq(Jobs)
  OBVIOUS
<1> QED BY <1>1, <1>2 DEF Places, Owning

\* A job that is in no index may be in the slice only as one that was cancelled there.
LEMMA OutOfQueue ==
    ASSUME PlaceInv, NEW j \in Jobs, job[j].status # "pending"
    PROVE j \notin queue.byID /\ (j \in ToSet(queue.heap) => job[j].status = "cancelled")
BY DEF PlaceInv, JobFits

\* A worker keeps what it holds and only moves on.
LEMMA MovesOn ==
    ASSUME PlaceInv, CountsTyped, NEW w, NEW r, Moves(w, r), worker[w].at \in Waiting,
           r.at \in Waiting, r.rest \in Seq(Jobs), r.job = worker[w].job,
           UNCHANGED <<queue, job, running, retrying>>
    PROVE PlaceInv' /\ EndsStay
<1>1. PICK j : j = worker[w].job
  OBVIOUS
<1>2. w \in Workers /\ worker[w].at \in Owning /\ r.at \in Places \ {"claim"}
  BY DEF Moves, Owning, Waiting, Places
<1>3. j \in Jobs /\ HandFits(worker[w].at, j) /\ JobFits(j)
  BY <1>1, <1>2, InHands
<1>4. JobFits(j)' /\ HandFits(r.at, j)'
  BY <1>3 DEF JobFits, HandFits, Waiting
<1>5. job' \in [Jobs -> JobRecords] /\ running' \subseteq Jobs /\ retrying' \subseteq Jobs
  BY DEF PlaceInv, PlaceTyped
<1> QED BY <1>1, <1>2, <1>4, <1>5, HandsOn

\* A job that starts leaves the waiting worker's hands for its running ones.
LEMMA StartPlaces ==
    ASSUME PlaceInv, CountsTyped, NEW w \in Workers, StartJob(w)
    PROVE PlaceInv' /\ EndsStay
<1> DEFINE r == [at |-> "run", job |-> worker[w].job, rest |-> worker[w].rest,
                 result |-> worker[w].result]
<1>1. Moves(w, r) /\ worker[w].at = "limit"
  BY GotoMoves DEF StartJob, WorkerAt
<1>2. PICK j : j = worker[w].job
  OBVIOUS
<1>3. /\ j \in Jobs /\ HandFits("limit", j) /\ JobFits(j)
  BY <1>1, <1>2, InHands DEF Owning
<1>4. job' = JobMarked("running", j) /\ running' = running \cup {j} /\ UNCHANGED <<queue, retrying>>
  BY <1>2 DEF StartJob
<1>5. /\ job' \in [Jobs -> JobRecords] /\ job'[j].status = "running" /\ job'[j].reports = job[j].reports
      /\ \A k \in Jobs \ {j} : job'[k] = job[k]
  BY <1>3, <1>4, StatusWritten DEF JobStates
<1>6. job[j].status = "pending" /\ j \notin queue.byID
  BY <1>3 DEF HandFits, Waiting
<1>7. JobFits(j)' /\ HandFits("run", j)'
  BY <1>3, <1>4, <1>5, <1>6 DEF JobFits, HandFits, Waiting, EndedStatus
<1>8. running' \subseteq Jobs /\ retrying' \subseteq Jobs /\ worker[w].rest \in Seq(Jobs)
  BY <1>3, <1>4 DEF PlaceInv, PlaceTyped
<1>9. r.at = "run" /\ r.at \in Places \ {"claim"} /\ r.rest \in Seq(Jobs) /\ r.job = j
      /\ worker[w].at \in Owning
  BY <1>1, <1>2, <1>8 DEF Places, Owning
<1>10. job[j].status \notin EndedStatus
  BY <1>6 DEF EndedStatus
<1> HIDE DEF r
<1> QED BY <1>1, <1>2, <1>4, <1>5, <1>7, <1>8, <1>9, <1>10, HandsOn

\* A job whose executor returned leaves the running map and stays in its worker's hands.
LEMMA ReturnPlaces ==
    ASSUME PlaceInv, CountsTyped, NEW w \in Workers, ExecutorReturns(w)
    PROVE PlaceInv' /\ EndsStay
<1>1. PICK result \in Outcomes : ResultSet(w, "ran", result)
  BY DEF ExecutorReturns, ResultSet
<1> DEFINE r == [at |-> "ran", job |-> worker[w].job, rest |-> worker[w].rest, result |-> result]
<1>2. Moves(w, r) /\ worker[w].at = "run"
  BY <1>1, FieldsMove DEF ExecutorReturns, WorkerAt
<1>3. PICK j : j = worker[w].job
  OBVIOUS
<1>4. j \in Jobs /\ HandFits("run", j) /\ JobFits(j)
  BY <1>2, <1>3, InHands DEF Owning
<1>5. running' = running \ {j} /\ UNCHANGED <<queue, job, retrying>>
  BY <1>3 DEF ExecutorReturns
<1>6. JobFits(j)' /\ HandFits("ran", j)'
  BY <1>4, <1>5 DEF JobFits, HandFits, Waiting
<1>7. running' \subseteq Jobs /\ retrying' \subseteq Jobs /\ worker[w].rest \in Seq(Jobs)
      /\ job' \in [Jobs -> JobRecords]
  BY <1>5 DEF PlaceInv, PlaceTyped
<1>8. r.at = "ran" /\ r.at \in Places \ {"claim"} /\ r.rest \in Seq(Jobs) /\ r.job = j
      /\ worker[w].at \in Owning
  BY <1>2, <1>3, <1>7 DEF Places, Owning
<1> HIDE DEF r
<1> QED BY <1>2, <1>3, <1>5, <1>6, <1>7, <1>8, HandsOn

\* A job that ran is over, in whichever way.
LEMMA EndPlaces ==
    ASSUME PlaceInv, CountsTyped, NEW w \in Workers, WorkerAt(w, "ran"), WorkerGoto(w, "report"),
           NEW status \in EndedStatus, job' = JobMarked(status, worker[w].job),
           UNCHANGED <<queue, running, retrying>>
    PROVE PlaceInv' /\ EndsStay
<1> DEFINE r == [at |-> "report", job |-> worker[w].job, rest |-> worker[w].rest,
                 result |-> worker[w].result]
<1>1. Moves(w, r) /\ worker[w].at = "ran"
  BY GotoMoves DEF WorkerAt
<1>2. PICK j : j = worker[w].job
  OBVIOUS
<1>3. j \in Jobs /\ HandFits("ran", j) /\ JobFits(j)
  BY <1>1, <1>2, InHands DEF Owning
<1>4. /\ job' \in [Jobs -> JobRecords] /\ job'[j].status = status /\ job'[j].reports = job[j].reports
      /\ \A k \in Jobs \ {j} : job'[k] = job[k]
  BY <1>2, <1>3, StatusWritten DEF JobStates
<1>5. job[j].status = "running" /\ j \notin running /\ j \notin queue.byID /\ j \notin ToSet(queue.heap)
      /\ j \notin retrying /\ job[j].reports = 0
  BY <1>3, OutOfQueue DEF HandFits, JobFits, EndedStatus
<1>6. JobFits(j)' /\ HandFits("report", j)'
  BY <1>3, <1>4, <1>5 DEF JobFits, HandFits, Waiting, EndedStatus
<1>7. running' \subseteq Jobs /\ retrying' \subseteq Jobs /\ worker[w].rest \in Seq(Jobs)
  BY DEF PlaceInv, PlaceTyped
<1>8. r.at = "report" /\ r.at \in Places \ {"claim"} /\ r.rest \in Seq(Jobs) /\ r.job = j
      /\ worker[w].at \in Owning
  BY <1>1, <1>2, <1>7 DEF Places, Owning
<1>9. job[j].status \notin EndedStatus
  BY <1>5 DEF EndedStatus
<1> HIDE DEF r
<1> QED BY <1>1, <1>2, <1>4, <1>6, <1>7, <1>8, <1>9, HandsOn

\* A job that failed is handed over to its retry timer.
LEMMA RetryPlaces ==
    ASSUME PlaceInv, CountsTyped, NEW w \in Workers, WorkerAt(w, "ran"), WorkerDone(w),
           NEW j, j = worker[w].job,
           job' = [job EXCEPT ![j].retries = @ + 1, ![j].status = "retrying"],
           retrying' = retrying \cup {j}, UNCHANGED <<queue, running>>
    PROVE PlaceInv' /\ EndsStay
<1>1. Moves(w, Idling) /\ worker[w].at = "ran"
  BY DoneMoves DEF WorkerAt
<1>2. j \in Jobs /\ HandFits("ran", j) /\ JobFits(j) /\ job[j] \in JobRecords
  BY <1>1, InHands DEF Owning
<1> DEFINE tries == job[j].retries + 1
           d == [job[j] EXCEPT !.retries = tries, !.status = "retrying"]
<1>3. d \in JobRecords /\ d.status = "retrying" /\ d.reports = job[j].reports
  <2>1. tries \in Nat
    BY <1>2 DEF JobRecords
  <2> HIDE DEF tries
  <2> QED BY <1>2, <2>1 DEF JobRecords, JobStates
<1>4. job' = [job EXCEPT ![j] = d]
  BY <1>2 DEF PlaceInv, PlaceTyped
<1> HIDE DEF d
<1>5. /\ job' \in [Jobs -> JobRecords] /\ job'[j].status = "retrying" /\ job'[j].reports = job[j].reports
      /\ \A k \in Jobs \ {j} : job'[k] = job[k]
  BY <1>2, <1>3, <1>4, RecordWritten
<1>6. job[j].status = "running" /\ j \notin running /\ j \notin queue.byID /\ j \notin ToSet(queue.heap)
      /\ j \notin retrying /\ job[j].reports = 0 /\ job[j].status \notin EndedStatus
  BY <1>2, OutOfQueue DEF HandFits, JobFits, EndedStatus
<1>7. JobFits(j)'
  BY <1>2, <1>5, <1>6 DEF JobFits
<1>8. /\ running' \subseteq Jobs /\ running' \ {j} = running \ {j}
      /\ retrying' \subseteq Jobs /\ retrying' \ {j} = retrying \ {j}
  BY <1>2 DEF PlaceInv, PlaceTyped
<1>9. Idling.at \notin Owning /\ Idling.at \in Places \ {"claim"} /\ Idling.rest \in Seq(Jobs)
  BY IdleHands
<1>10. worker[w].at \in Owning
  BY <1>1 DEF Owning
<1>11. job[j].status \in EndedStatus => job'[j].status = job[j].status
  BY <1>6
<1> QED BY <1>1, <1>5, <1>7, <1>8, <1>9, <1>10, <1>11, HandsOn

\* An end is reported by the worker that has it, and by no other after it.
LEMMA ReportPlaces ==
    ASSUME PlaceInv, CountsTyped, NEW w \in Workers, ReportJob(w)
    PROVE PlaceInv' /\ EndsStay
<1>1. Moves(w, Idling) /\ worker[w].at = "report"
  BY DoneMoves DEF WorkerAt, ReportJob
<1>2. PICK j : j = worker[w].job
  OBVIOUS
<1>3. j \in Jobs /\ HandFits("report", j) /\ JobFits(j) /\ job[j] \in JobRecords
  BY <1>1, <1>2, InHands DEF Owning
<1> DEFINE d == [job[j] EXCEPT !.reports = @ + 1]
<1>4. job[j].reports = 0 /\ job[j].status \in EndedStatus
  BY <1>3 DEF HandFits
<1>5. d \in JobRecords /\ d.status = job[j].status /\ d.reports = 1
  BY <1>3, <1>4 DEF JobRecords, JobStates
<1>6. job' = [job EXCEPT ![j] = d] /\ UNCHANGED <<queue, running, retrying>>
  BY <1>2, <1>3 DEF PlaceInv, PlaceTyped, ReportJob
<1> HIDE DEF d
<1>7. /\ job' \in [Jobs -> JobRecords] /\ job'[j].status = job[j].status /\ job'[j].reports = 1
      /\ \A k \in Jobs \ {j} : job'[k] = job[k]
  BY <1>3, <1>5, <1>6, RecordWritten
<1>8. JobFits(j)'
  BY <1>3, <1>4, <1>6, <1>7 DEF JobFits
<1>9. running' \subseteq Jobs /\ retrying' \subseteq Jobs
  BY <1>6 DEF PlaceInv, PlaceTyped
<1>10. Idling.at \in Places \ (Owning \cup {"claim"}) /\ Idling.rest \in Seq(Jobs) /\ worker[w].at \in Owning
  BY <1>1, IdleHands DEF Owning
<1> QED BY <1>1, <1>2, <1>6, <1>7, <1>8, <1>9, <1>10, HandsOn

\* Whatever a worker does, each job stays in one place and what ended stays ended.
LEMMA WorkerStepPlaces ==
    ASSUME PlaceInv, CountsTyped, NEW w \in Workers, WorkerStep(w)
    PROVE PlaceInv' /\ EndsStay
<1> DEFINE to(place) == [at |-> place, job |-> worker[w].job, rest |-> worker[w].rest,
                         result |-> worker[w].result]
<1>1. worker[w].rest \in Seq(Jobs) /\ QueueTyped(queue) /\ queue.byID \subseteq Jobs
  BY DEF PlaceInv, PlaceTyped, QueueTyped
<1>2. ASSUME NEW place \in {"take", "gone"}, Moves(w, to(place)), UNCHANGED <<queue, job, running, retrying>>
      PROVE PlaceInv' /\ EndsStay
  <2>1. to(place).at = place /\ to(place).rest = worker[w].rest
    OBVIOUS
  <2>2. place \in Places \ Owning /\ place # "claim"
    BY <1>2 DEF Places, Owning
  <2> HIDE DEF to
  <2> QED BY <1>1, <1>2, <2>1, <2>2, IdlePlaces
<1>3. ASSUME WorkerDone(w), UNCHANGED <<queue, job, running, retrying>>
      PROVE PlaceInv' /\ EndsStay
  <2>1. Moves(w, Idling)
    BY <1>3, DoneMoves
  <2>2. Idling.at \in Places \ Owning /\ Idling.rest \in Seq(Jobs) /\ Idling.at # "claim"
    BY IdleHands
  <2> QED BY <1>3, <2>1, <2>2, IdlePlaces
<1>4. CASE Poll(w)
  <2>1. Moves(w, to("take"))
    BY <1>4, GotoMoves DEF Poll
  <2> QED BY <1>2, <1>4, <2>1 DEF Poll
<1>5. CASE WorkerExit(w)
  <2>1. Moves(w, to("gone"))
    BY <1>5, GotoMoves DEF WorkerExit
  <2> QED BY <1>2, <1>5, <2>1 DEF WorkerExit
<1>6. CASE TakeNothing(w)
  BY <1>3, <1>6 DEF TakeNothing
<1>7. CASE TakeJob(w)
  <2>1. PICK j : j = Head(Candidates)
    OBVIOUS
  <2>2. j \in queue.byID
    BY <1>7, <2>1 DEF TakeJob, Ghost
  <2> DEFINE r == [at |-> "admit", job |-> j, rest |-> <<>>, result |-> ""]
  <2>3. Moves(w, r) /\ queue' = RemoveJob(queue, j) /\ UNCHANGED <<job, running, retrying>>
    BY <1>7, <2>1, HoldsMoves DEF TakeJob
  <2>4. r.at \in Waiting /\ r.job = j /\ r.rest = <<>>
    BY DEF Waiting
  <2> HIDE DEF r
  <2> QED BY <2>2, <2>3, <2>4, TakesFromQueue
<1>8. CASE AdmitJob(w)
  <2> DEFINE r == to("limit")
  <2>1. Moves(w, r) /\ worker[w].at = "admit" /\ UNCHANGED <<queue, job, running, retrying>>
    BY <1>8, GotoMoves DEF AdmitJob, WorkerAt
  <2>2. r.at = "limit" /\ r.job = worker[w].job /\ r.rest = worker[w].rest
    OBVIOUS
  <2> HIDE DEF r
  <2>3. worker[w].at \in Waiting /\ r.at \in Waiting
    BY <2>1, <2>2 DEF Waiting
  <2> QED BY <1>1, <2>1, <2>2, <2>3, MovesOn
<1>9. CASE AdmitMiss(w)
  <2> DEFINE r == to("requeue")
  <2>1. Moves(w, r) /\ worker[w].at = "admit" /\ UNCHANGED <<queue, job, running, retrying>>
    BY <1>9, GotoMoves DEF AdmitMiss, WorkerAt
  <2>2. r.at = "requeue" /\ r.job = worker[w].job /\ r.rest = worker[w].rest
    OBVIOUS
  <2> HIDE DEF r
  <2>3. worker[w].at \in Waiting /\ r.at \in Waiting
    BY <2>1, <2>2 DEF Waiting
  <2> QED BY <1>1, <2>1, <2>2, <2>3, MovesOn
<1>10. CASE Requeue(w)
  <2>1. PICK h : h = queue'.heap
    OBVIOUS
  <2> DEFINE r == [at |-> "scan", job |-> Idling.job, rest |-> h, result |-> Idling.result]
  <2>2. worker[w].at = "requeue" /\ queue' = Enqueue(queue, worker[w].job)
        /\ UNCHANGED <<job, running, retrying>>
    BY <1>10 DEF Requeue, WorkerAt
  <2>3. ScanSet(w, "scan", h)
    BY <1>10, <2>1 DEF Requeue, ScanSet
  <2>4. Moves(w, r)
    BY <2>3, FieldsMove
  <2>5. h \in Seq(Jobs)
    <3>1. PICK j : j = worker[w].job
      OBVIOUS
    <3>2. j \in Jobs /\ HandFits("requeue", j) /\ JobFits(j)
      BY <2>2, <3>1, InHands DEF Owning
    <3>3. j \notin queue.byID /\ j \notin ToSet(queue.heap)
      BY <3>2 DEF HandFits, JobFits, Waiting
    <3>4. QueueTyped(Enqueue(queue, j))
      BY <1>1, <3>2, <3>3, Enqueued
    <3> QED BY <2>1, <2>2, <3>1, <3>4 DEF QueueTyped
  <2>6. r.at = "scan" /\ r.rest = h
    OBVIOUS
  <2> HIDE DEF r
  <2>7. r.at \in Places \ (Owning \cup {"claim"}) /\ worker[w].at \in Waiting
    BY <2>2, <2>6 DEF Places, Owning, Waiting
  <2> QED BY <2>2, <2>4, <2>5, <2>6, <2>7, PutsBack
<1>11. CASE ScanEnd(w)
  BY <1>3, <1>11 DEF ScanEnd
<1>12. CASE ScanMiss(w)
  <2> DEFINE rest == Tail(worker[w].rest)
             r == [at |-> worker[w].at, job |-> worker[w].job, rest |-> rest,
                   result |-> worker[w].result]
  <2>1. RestSet(w, rest) /\ worker[w].at = "scan" /\ worker[w].rest # <<>>
        /\ UNCHANGED <<queue, job, running, retrying>>
    BY <1>12 DEF ScanMiss, RestSet, WorkerAt
  <2>2. rest \in Seq(Jobs)
    BY <1>1, <2>1
  <2> HIDE DEF rest
  <2>3. Moves(w, r)
    BY <2>1, FieldsMove
  <2>4. r.at = "scan" /\ r.rest = rest
    BY <2>1
  <2> HIDE DEF r
  <2>5. r.at \in Places \ Owning /\ r.at # "claim"
    BY <2>4 DEF Places, Owning
  <2> QED BY <2>1, <2>2, <2>3, <2>4, <2>5, IdlePlaces
<1>13. CASE ScanAcquire(w)
  <2> DEFINE j == Head(worker[w].rest)
             rest == Tail(worker[w].rest)
             r == [at |-> "claim", job |-> j, rest |-> rest, result |-> worker[w].result]
  <2>1. NextSet(w, "claim", j) /\ worker[w].rest # <<>> /\ UNCHANGED <<queue, job, running, retrying>>
    BY <1>13 DEF ScanAcquire, NextSet
  <2>2. rest \in Seq(Jobs) /\ j \in Jobs
    BY <1>1, <2>1
  <2>3. Moves(w, r)
    BY <2>1, FieldsMove
  <2> HIDE DEF j, rest
  <2>4. r.at = "claim" /\ r.rest = rest /\ r.job = j
    OBVIOUS
  <2> HIDE DEF r
  <2>5. r.at \in Places \ Owning
    BY <2>4 DEF Places, Owning
  <2> QED BY <2>1, <2>2, <2>3, <2>4, <2>5, IdlePlaces
<1>14. CASE ScanClaim(w)
  <2>1. CASE worker[w].job \in queue.byID
    <3>1. PICK j : j = worker[w].job
      OBVIOUS
    <3> DEFINE r == [at |-> "limit", job |-> j, rest |-> <<>>, result |-> ""]
    <3>2. WorkerHolds(w, j, "limit") /\ queue' = RemoveJob(queue, j) /\ UNCHANGED <<job, running, retrying>>
      BY <1>14, <2>1, <3>1 DEF ScanClaim
    <3>3. Moves(w, r)
      BY <3>2, HoldsMoves
    <3>4. r.at \in Waiting /\ r.job = j /\ r.rest = <<>>
      BY DEF Waiting
    <3> HIDE DEF r
    <3> QED BY <2>1, <3>1, <3>2, <3>3, <3>4, TakesFromQueue
  <2>2. CASE worker[w].job \notin queue.byID
    <3> DEFINE r == [at |-> "scan", job |-> "", rest |-> worker[w].rest, result |-> worker[w].result]
    <3>1. JobSet(w, "scan", "") /\ UNCHANGED <<queue, job, running, retrying>>
      BY <1>14, <2>2 DEF ScanClaim, JobSet
    <3>2. Moves(w, r)
      BY <3>1, FieldsMove
    <3>3. r.at = "scan" /\ r.rest = worker[w].rest
      OBVIOUS
    <3> HIDE DEF r
    <3>4. r.at \in Places \ Owning /\ r.at # "claim"
      BY <3>3 DEF Places, Owning
    <3> QED BY <1>1, <3>1, <3>2, <3>3, <3>4, IdlePlaces
  <2> QED BY <2>1, <2>2
<1>15. CASE StartJob(w)
  BY <1>15, StartPlaces
<1>16. CASE LimitRefuses(w)
  <2>1. Moves(w, Idling) /\ worker[w].at = "limit" /\ queue' = Enqueue(queue, worker[w].job)
        /\ UNCHANGED <<job, running, retrying>>
    BY <1>16, DoneMoves DEF LimitRefuses, WorkerAt
  <2>2. worker[w].at \in Waiting
    BY <2>1 DEF Waiting
  <2> QED BY <2>1, <2>2, IdleHands, PutsBack
<1>17. CASE ExecutorReturns(w)
  BY <1>17, ReturnPlaces
<1>18. CASE JobSucceeds(w)
  BY <1>18, EndPlaces DEF JobSucceeds, EndedStatus
<1>19. CASE JobCancelled(w)
  BY <1>19, EndPlaces DEF JobCancelled, EndedStatus
<1>20. CASE JobFails(w)
  <2>1. PICK j : j = worker[w].job
    OBVIOUS
  <2>2. WorkerAt(w, "ran") /\ UNCHANGED <<queue, running>>
    BY <1>20 DEF JobFails
  <2>3. \/ /\ job' = [job EXCEPT ![j].retries = @ + 1, ![j].status = "retrying"]
           /\ retrying' = retrying \cup {j} /\ WorkerDone(w)
        \/ job' = JobMarked("failed", j) /\ WorkerGoto(w, "report") /\ UNCHANGED retrying
    BY <1>20, <2>1 DEF JobFails
  <2>4. "failed" \in EndedStatus
    BY DEF EndedStatus
  <2> QED BY <2>1, <2>2, <2>3, <2>4, RetryPlaces, EndPlaces
<1>21. CASE ReportJob(w)
  BY <1>21, ReportPlaces
<1> QED
  BY <1>4, <1>5, <1>6, <1>7, <1>8, <1>9, <1>10, <1>11, <1>12, <1>13, <1>14, <1>15,
     <1>16, <1>17, <1>18, <1>19, <1>20, <1>21 DEF WorkerStep

\* A job that is new or waits for its retry is in no hands and comes into the queue.
LEMMA QueuedPlaces ==
    ASSUME PlaceInv, NEW j \in Jobs, job[j].status \in {"new", "retrying"},
           job' = JobMarked("pending", j), queue' = Enqueue(queue, j),
           retrying' \ {j} = retrying \ {j}, j \notin retrying', UNCHANGED <<running, worker>>
    PROVE PlaceInv' /\ EndsStay
<1>1. /\ job' \in [Jobs -> JobRecords] /\ job'[j].status = "pending" /\ job'[j].reports = job[j].reports
      /\ \A k \in Jobs \ {j} : job'[k] = job[k]
  BY StatusWritten DEF JobStates
<1>2. JobFits(j) /\ j \notin queue.byID /\ j \notin ToSet(queue.heap)
  BY OutOfQueue DEF PlaceInv
<1>3. QueueTyped(queue') /\ queue'.byID = queue.byID \cup {j}
      /\ ToSet(queue'.heap) = ToSet(queue.heap) \cup {j}
  BY <1>2, Enqueued DEF PlaceInv, PlaceTyped
<1>4. StillTyped /\ Elsewhere(j)
  <2>1. running \subseteq Jobs /\ retrying \subseteq Jobs
    BY DEF PlaceInv, PlaceTyped
  <2> QED BY <1>1, <1>3, <2>1 DEF StillTyped, Elsewhere
<1>5. j \notin running /\ job[j].reports = 0 /\ job[j].status \notin EndedStatus
  BY <1>2 DEF JobFits, EndedStatus
<1>6. JobFits(j)'
  BY <1>1, <1>3, <1>5 DEF JobFits
<1>7. \A v \in Workers : Owns(v) => worker[v].job # j
  <2> TAKE v \in Workers
  <2>1. HandFits(worker[v].at, worker[v].job)
    BY DEF PlaceInv, HandsFit
  <2> QED BY <2>1 DEF HandFits, Owns, Owning, Waiting, EndedStatus
<1> QED BY <1>4, <1>5, <1>6, <1>7, JobPlaces

\* A cancel takes from the queue whatever it finds pending, and flags the rest.
LEMMA CancelPlaces ==
    ASSUME PlaceInv, NEW C \in SUBSET Jobs, job' = CancelledJobs(C), QueueTyped(queue'),
           queue'.byID \subseteq queue.byID, queue.byID \ queue'.byID \subseteq C,
           ToSet(queue'.heap) \subseteq ToSet(queue.heap),
           \A j \in C : job[j].status = "pending" => j \in queue.byID \ queue'.byID,
           UNCHANGED <<running, retrying, worker>>
    PROVE PlaceInv' /\ EndsStay
<1>1. \A j \in Jobs : job[j] \in JobRecords
  BY DEF PlaceInv, PlaceTyped
<1>2. ASSUME NEW j \in Jobs
      PROVE /\ job'[j] \in JobRecords /\ job'[j].reports = job[j].reports
            /\ job'[j].status = IF j \in C /\ job[j].status = "pending" THEN "cancelled" ELSE job[j].status
  <2> DEFINE status == IF job[j].status = "pending" THEN "cancelled" ELSE job[j].status
             d == [job[j] EXCEPT !.cancelled = TRUE, !.status = status]
  <2>1. status \in JobStates
    BY <1>1 DEF JobRecords, JobStates, EndedStatus
  <2>2. job'[j] = IF j \notin C THEN job[j] ELSE d
    BY DEF CancelledJobs
  <2> HIDE DEF status
  <2>3. d \in JobRecords /\ d.reports = job[j].reports /\ d.status = status
    BY <1>1, <2>1 DEF JobRecords
  <2> HIDE DEF d
  <2> QED BY <1>1, <2>2, <2>3 DEF status
<1>3. job' \in [Jobs -> JobRecords]
  <2>1. job' = [j \in Jobs |-> job'[j]]
    BY DEF CancelledJobs
  <2> QED BY <1>2, <2>1
<1>4. PlaceTyped' /\ OneOwner'
  BY <1>3 DEF PlaceInv, PlaceTyped, OneOwner, Owns
<1>5. ASSUME NEW j \in Jobs PROVE JobFits(j)'
  <2>1. JobFits(j)
    BY DEF PlaceInv
  <2>2. CASE j \in C /\ job[j].status = "pending"
    BY <1>2, <2>1, <2>2 DEF JobFits, EndedStatus
  <2>3. CASE ~(j \in C /\ job[j].status = "pending")
    <3>1. job'[j].status = job[j].status /\ job'[j].reports = job[j].reports
      BY <1>2, <2>3
    <3>2. j \in queue'.byID <=> j \in queue.byID
      BY <2>1, <2>3 DEF JobFits
    <3> QED BY <2>1, <3>1, <3>2 DEF JobFits
  <2> QED BY <2>2, <2>3
<1>6. ASSUME NEW v \in Workers PROVE HandFits(worker[v].at, worker[v].job)'
  <2>1. PICK place, j : place = worker[v].at /\ j = worker[v].job
    OBVIOUS
  <2>2. HandFits(place, j) /\ UNCHANGED worker
    BY <2>1 DEF PlaceInv, HandsFit
  <2>3. HandFits(place, j)'
    <3>1. CASE place \notin Owning \cup {"claim"}
      BY <3>1 DEF HandFits, Owning, Waiting
    <3>2. CASE place \in Owning
      <4>1. j \in Jobs
        BY <2>2, <3>2 DEF HandFits
      <4>2. ~(j \in C /\ job[j].status = "pending")
        BY <2>2, <3>2 DEF HandFits, Owning, Waiting, EndedStatus
      <4>3. job'[j].status = job[j].status /\ job'[j].reports = job[j].reports
        BY <1>2, <4>1, <4>2
      <4> QED BY <2>2, <4>1, <4>3 DEF HandFits
    <3>3. CASE place = "claim"
      BY <2>2, <3>3 DEF HandFits, Waiting
    <3> QED BY <3>1, <3>2, <3>3
  <2> QED BY <2>1, <2>2, <2>3 DEF HandFits
<1>7. EndsStay
  BY <1>2 DEF EndsStay, EndedStatus
<1> QED BY <1>4, <1>5, <1>6, <1>7 DEF PlaceInv, HandsFit

\* A timer that fires moves the job it was set for from its delay into the queue.
LEMMA TimersPlaces ==
    ASSUME PlaceInv, Timers
    PROVE PlaceInv' /\ EndsStay
<1>1. CASE UNCHANGED <<queue, job, running, retrying, worker>>
  BY <1>1 DEF PlaceInv, PlaceTyped, JobFits, HandsFit, HandFits, OneOwner, Owns, EndsStay
<1>2. CASE \E j \in Jobs : RetryTimer(j)
  <2>1. PICK j \in Jobs : RetryTimer(j)
    BY <1>2
  <2>2. job[j].status = "retrying"
    BY <2>1 DEF RetryTimer, PlaceInv, JobFits
  <2>3. /\ job' = JobMarked("pending", j) /\ queue' = Enqueue(queue, j)
        /\ retrying' = retrying \ {j} /\ UNCHANGED <<running, worker>>
    BY <2>1 DEF RetryTimer
  <2> QED BY <2>2, <2>3, QueuedPlaces
<1> QED BY <1>1, <1>2 DEF Timers, BackoffTimer, CooldownTimer

\* CancelSession and CancelBatch: what they mark cancelled has left the index.
LEMMA ManyPlaces ==
    ASSUME PlaceInv, NEW S, CancelMany(S)
    PROVE PlaceInv' /\ EndsStay
<1>1. PICK C : C = (ToSet(queue.heap) \cup running) \cap S
  OBVIOUS
<1>2. /\ queue' = RemoveAll(queue, S) /\ job' = CancelledJobs(C)
      /\ UNCHANGED <<running, retrying, worker>>
  BY <1>1 DEF CancelMany
<1>3. QueueTyped(queue) /\ running \subseteq Jobs
  BY DEF PlaceInv, PlaceTyped
<1>4. ToSet(queue.heap) \subseteq Jobs
  BY <1>3 DEF QueueTyped, ToSet
<1>5. C \in SUBSET Jobs
  BY <1>1, <1>3, <1>4
<1>6. /\ QueueTyped(queue') /\ queue'.byID = queue.byID \ (ToSet(queue.heap) \cap S)
      /\ ToSet(queue'.heap) \subseteq ToSet(queue.heap)
  BY <1>2, <1>3, AllRemoved
<1>7. ASSUME NEW j \in C, job[j].status = "pending"
      PROVE j \in queue.byID \ queue'.byID
  <2>1. JobFits(j)
    BY <1>5 DEF PlaceInv
  <2>2. j \notin running
    BY <1>7, <2>1 DEF JobFits
  <2>3. j \in ToSet(queue.heap) \cap S
    BY <1>1, <2>2
  <2>4. j \in queue.byID
    BY <1>7, <2>1, <2>3 DEF JobFits
  <2> QED BY <1>6, <2>3, <2>4
<1>8. queue.byID \ queue'.byID \subseteq C
  BY <1>1, <1>6
<1>9. queue'.byID \subseteq queue.byID
  BY <1>6
<1> QED BY <1>2, <1>5, <1>6, <1>7, <1>8, <1>9, CancelPlaces

\* Cancel marks a job it took from the index, or flags a running one.
LEMMA OnePlaces ==
    ASSUME PlaceInv, NEW j \in Jobs, Cancel(j)
    PROVE PlaceInv' /\ EndsStay
<1>1. PICK C : C = {j}
  OBVIOUS
<1>2. /\ queue' = RemoveJob(queue, j) /\ job' = CancelledJobs(C) /\ j \in queue.byID \cup running
      /\ UNCHANGED <<running, retrying, worker>>
  BY <1>1 DEF Cancel
<1>3. QueueTyped(queue) /\ JobFits(j)
  BY DEF PlaceInv, PlaceTyped
<1>4. /\ QueueTyped(queue') /\ queue'.byID = queue.byID \ {j}
      /\ ToSet(queue'.heap) = IF j \in queue.byID THEN ToSet(queue.heap) \ {j} ELSE ToSet(queue.heap)
  BY <1>2, <1>3, Removed
<1>5. job[j].status = "pending" => j \in queue.byID
  BY <1>2, <1>3 DEF JobFits
<1>6. \A k \in C : job[k].status = "pending" => k \in queue.byID \ queue'.byID
  BY <1>1, <1>4, <1>5
<1>7. /\ queue'.byID \subseteq queue.byID /\ queue.byID \ queue'.byID \subseteq C
      /\ ToSet(queue'.heap) \subseteq ToSet(queue.heap) /\ C \in SUBSET Jobs
  BY <1>1, <1>4
<1> QED BY <1>2, <1>4, <1>6, <1>7, CancelPlaces

\* No call of a client brings a job into two places.
LEMMA ClientsPlaces ==
    ASSUME PlaceInv, Clients
    PROVE PlaceInv' /\ EndsStay
<1>1. CASE UNCHANGED <<queue, job, running, retrying, worker>>
  BY <1>1 DEF PlaceInv, PlaceTyped, JobFits, HandsFit, HandFits, OneOwner, Owns, EndsStay
<1>2. CASE \E j \in Jobs : Submit(j)
  <2>1. PICK j \in Jobs : Submit(j)
    BY <1>2
  <2>2. /\ job[j].status = "new" /\ job' = JobMarked("pending", j) /\ queue' = Enqueue(queue, j)
        /\ UNCHANGED <<running, retrying, worker>>
    BY <2>1 DEF Submit
  <2>3. j \notin retrying
    BY <2>2 DEF PlaceInv, JobFits
  <2> QED BY <2>2, <2>3, QueuedPlaces
<1>3. CASE \E j \in Jobs : Cancel(j)
  BY <1>3, OnePlaces
<1>4. CASE \/ \E s \in Sessions : CancelSession(s)
           \/ \E b \in {Batch(j) : j \in Jobs} : CancelBatch(b)
  <2>1. PICK S : CancelMany(S)
    BY <1>4 DEF CancelSession, CancelBatch
  <2> QED BY <2>1, ManyPlaces
<1>5. CASE StartScheduler
  <2>1. worker' = [w \in Workers |-> Idling] /\ UNCHANGED <<queue, job, running, retrying>>
    BY <1>5 DEF StartScheduler
  <2>2. \A w \in Workers : worker'[w] = Idling
    BY <2>1
  <2>3. Idling.at = "idle" /\ Idling.at \in Places /\ Idling.rest \in Seq(Jobs)
    BY IdleHands
  <2>4. PlaceTyped' /\ (\A j \in Jobs : JobFits(j)') /\ EndsStay
    BY <2>1, <2>2, <2>3 DEF PlaceInv, PlaceTyped, JobFits, EndsStay
  <2>5. HandsFit' /\ OneOwner'
    BY <2>2, <2>3 DEF HandsFit, HandFits, OneOwner, Owns, Owning, Waiting
  <2> QED BY <2>4, <2>5 DEF PlaceInv
<1> QED BY <1>1, <1>2, <1>3, <1>4, <1>5 DEF Clients, Pause, Resume, Stop, Stopped

\* At first no job is anywhere.
LEMMA StartsPlaced == SchedInit => PlaceInv
<1> SUFFICES ASSUME SchedInit PROVE PlaceInv
  OBVIOUS
<1>1. /\ queue = EmptyQueue /\ running = {} /\ retrying = {}
      /\ job = [j \in Jobs |-> [status |-> "new", retries |-> 0, cancelled |-> FALSE, reports |-> 0]]
      /\ worker = [w \in Workers |-> [Idling EXCEPT !.at = "gone"]]
  BY DEF SchedInit
<1>2. queue.heap = <<>> /\ queue.byID = {} /\ ToSet(queue.heap) = {}
  BY <1>1 DEF EmptyQueue, ToSet
<1>3. QueueTyped(queue)
  BY <1>2 DEF QueueTyped, OneEach
<1>4. job \in [Jobs -> JobRecords] /\ \A j \in Jobs : job[j].status = "new" /\ job[j].reports = 0
  BY <1>1 DEF JobRecords, JobStates
<1>5. \A w \in Workers : worker[w].at = "gone" /\ worker[w].rest = <<>>
  BY <1>1 DEF Idling
<1>6. PlaceTyped
  <2>1. <<>> \in Seq(Jobs) /\ "gone" \in Places
    BY DEF Places
  <2> QED BY <1>1, <1>3, <1>4, <1>5, <2>1 DEF PlaceTyped
<1>7. \A j \in Jobs : JobFits(j)
  BY <1>1, <1>2, <1>4 DEF JobFits
<1>8. HandsFit /\ OneOwner
  BY <1>5 DEF HandsFit, HandFits, OneOwner, Owns, Owning, Waiting
<1> QED BY <1>6, <1>7, <1>8 DEF PlaceInv

-----------------------------------------------------------------------------
(* The rest of the types *)

\* A cooldown that was dated back is one that lasts.
CoolFits(c) == c.aged \subseteq c.cooling /\ c.cooling \subseteq AgentTypes

SideInv ==
    /\ fair \in [Sessions -> Nat] /\ CoolFits(ac) /\ bo.failures \in 0 .. FailureThreshold
    /\ completed \in Seq(Jobs) /\ Len(completed) <= MaxCompleted

FairStays == fair \in [Sessions -> Nat] => fair' \in [Sessions -> Nat]
CoolStays == CoolFits(ac) => CoolFits(ac')
FailuresStay == bo.failures \in 0 .. FailureThreshold => bo'.failures \in 0 .. FailureThreshold

\* The jobs counted for a session stay a number, which never falls below 0.
LEMMA CountsOfFair ==
    ASSUME NEW j \in Jobs, fair' \in {fair, CountedIn(j), CountedOut(j)}
    PROVE FairStays
<1> SUFFICES ASSUME fair \in [Sessions -> Nat] PROVE fair' \in [Sessions -> Nat]
  BY DEF FairStays
<1>1. Session(j) \in Sessions
  BY DEF Sessions
<1>2. fair[Session(j)] + 1 \in Nat
  BY <1>1
<1>3. (IF fair[Session(j)] > 0 THEN fair[Session(j)] - 1 ELSE 0) \in Nat
  BY <1>1
<1>4. CountedIn(j) \in [Sessions -> Nat]
  BY <1>1, <1>2 DEF CountedIn
<1>5. CountedOut(j) \in [Sessions -> Nat]
  BY <1>1, <1>3 DEF CountedOut
<1> QED BY <1>4, <1>5

\* Taking a slot, or missing it, leaves the cooldowns alone.
LEMMA AcquireCools ==
    ASSUME CapsTyped, NEW a, CapAcquire(a) \/ CapMiss(a)
    PROVE ac'.cooling = ac.cooling /\ ac'.aged = ac.aged
<1>1. \/ ac' = ac
      \/ \E caps, slots, begun : ac' = [ac EXCEPT !.cap = caps, !.slots = slots, !.begun = begun]
      \/ \E caps : ac' = [ac EXCEPT !.cap = caps]
  BY DEF CapAcquire, CapMiss
<1> QED BY <1>1 DEF CapsTyped, TypedCaps

\* So does giving one back.
LEMMA ReleaseCools ==
    ASSUME NEW c, TypedCaps(c), NEW a
    PROVE SlotReleased(c, a).cooling = c.cooling /\ SlotReleased(c, a).aged = c.aged
<1>1. PICK slots : slots = [c.slots EXCEPT ![a] = @ - 1]
  OBVIOUS
<1>2. SlotReleased(c, a) = c \/ SlotReleased(c, a) = [c EXCEPT !.slots = slots]
  BY <1>1 DEF SlotReleased
<1> QED BY <1>2 DEF TypedCaps

\* Only a cooldown that lasts is dated back.
LEMMA SuccessCools ==
    ASSUME CapsTyped, CoolFits(ac), NEW a
    PROVE CoolFits(SuccessRecorded(ac, a))
<1>1. CASE a \in ac.cooling
  <2>1. PICK aged : aged = ac.aged \cup {a}
    OBVIOUS
  <2>2. SuccessRecorded(ac, a) = [ac EXCEPT !.aged = aged]
    BY <1>1, <2>1 DEF SuccessRecorded
  <2>3. SuccessRecorded(ac, a).cooling = ac.cooling /\ SuccessRecorded(ac, a).aged = aged
    BY <2>2 DEF CapsTyped, TypedCaps
  <2> QED BY <1>1, <2>1, <2>3 DEF CoolFits
<1>2. CASE a \notin ac.cooling
  BY <1>2 DEF SuccessRecorded
<1> QED BY <1>1, <1>2

\* A failure begins a cooldown anew.
LEMMA FailureCools ==
    ASSUME CapsTyped, CoolFits(ac), NEW a \in AgentTypes \cup {""}
    PROVE CoolFits(FailureRecorded(ac, a))
<1>1. CASE a = "" \/ ~CapOf[a].cooldown
  BY <1>1 DEF FailureRecorded
<1>2. CASE ~(a = "" \/ ~CapOf[a].cooldown)
  <2>1. PICK caps, cooling, aged, recoveries :
          /\ cooling = ac.cooling \cup {a} /\ aged = ac.aged \ {a}
          /\ caps = [ac.cap EXCEPT ![a] = IF @ > 1 THEN Larger(@ - CapOf[a].reduction, 1) ELSE @]
          /\ recoveries = [ac.recoveries EXCEPT ![a] = @ + 1]
    OBVIOUS
  <2>2. FailureRecorded(ac, a) = [ac EXCEPT !.cap = caps, !.cooling = cooling, !.aged = aged,
                                            !.recoveries = recoveries]
    BY <1>2, <2>1 DEF FailureRecorded
  <2>3. FailureRecorded(ac, a).cooling = cooling /\ FailureRecorded(ac, a).aged = aged
    BY <2>2 DEF CapsTyped, TypedCaps
  <2> QED BY <1>2, <2>1, <2>3 DEF CoolFits
<1> QED BY <1>1, <1>2

\* A cooldown that ends takes its date with it.
LEMMA CooldownCools ==
    ASSUME CapsTyped, NEW a \in AgentTypes, CooldownTimer(a)
    PROVE CoolStays
<1> SUFFICES ASSUME CoolFits(ac) PROVE CoolFits(ac')
  BY DEF CoolStays
<1> DEFINE fired == [ac EXCEPT !.recoveries[a] = @ - 1]
           over == [fired EXCEPT !.cooling = @ \ {a}, !.aged = @ \ {a}]
<1>1. fired.cooling = ac.cooling /\ fired.aged = ac.aged
      /\ fired = [slots |-> fired.slots, cap |-> fired.cap, begun |-> fired.begun,
                  cooling |-> fired.cooling, aged |-> fired.aged, recoveries |-> fired.recoveries]
  <2>1. PICK recoveries : recoveries = [ac.recoveries EXCEPT ![a] = @ - 1]
    OBVIOUS
  <2>2. fired = [ac EXCEPT !.recoveries = recoveries]
    BY <2>1
  <2> HIDE DEF fired
  <2> QED BY <2>2 DEF CapsTyped, TypedCaps
<1>2. ac' = fired \/ \E caps : ac' = [over EXCEPT !.cap = caps]
  BY DEF CooldownTimer
<1> HIDE DEF fired
<1>3. /\ over.cooling = ac.cooling \ {a} /\ over.aged = ac.aged \ {a}
      /\ over = [slots |-> over.slots, cap |-> over.cap, begun |-> over.begun,
                 cooling |-> over.cooling, aged |-> over.aged, recoveries |-> over.recoveries]
  <2>1. PICK cooling, aged : cooling = ac.cooling \ {a} /\ aged = ac.aged \ {a}
    OBVIOUS
  <2>2. over = [fired EXCEPT !.cooling = cooling, !.aged = aged]
    BY <1>1, <2>1
  <2> HIDE DEF over
  <2> QED BY <1>1, <2>1, <2>2
<1> HIDE DEF over
<1>4. CASE ac' = fired
  BY <1>1, <1>4 DEF CoolFits
<1>5. CASE \E caps : ac' = [over EXCEPT !.cap = caps]
  <2>1. ac'.cooling = over.cooling /\ ac'.aged = over.aged
    BY <1>3, <1>5
  <2> QED BY <1>3, <2>1 DEF CoolFits
<1> QED BY <1>2, <1>4, <1>5

\* Failures in a row are counted up to the threshold.
LEMMA FailuresCounted ==
    ASSUME bo \in [failures : Nat, active : BOOLEAN, timers : Nat],
           \/ BackoffReset
           \/ \E j : BackoffError(j)
           \/ BackoffTimer
           \/ UNCHANGED bo
    PROVE FailuresStay
<1>1. FailureThreshold \in Nat
  BY SchedulerAssumption
<1>2. CASE BackoffReset
  BY <1>1, <1>2 DEF BackoffReset, FailuresStay
<1>3. CASE \E j : BackoffError(j)
  <2>1. bo'.failures = IF bo.failures < FailureThreshold THEN bo.failures + 1 ELSE bo.failures
    BY <1>3 DEF BackoffError
  <2> QED BY <1>1, <2>1 DEF FailuresStay
<1>4. CASE BackoffTimer
  BY <1>4 DEF BackoffTimer, FailuresStay
<1>5. CASE UNCHANGED bo
  BY <1>5 DEF FailuresStay
<1> QED BY <1>2, <1>3, <1>4, <1>5

\* The list of completed jobs keeps the newest, as many as configured.
LEMMA TrimmedFits ==
    ASSUME NEW s \in Seq(Jobs)
    PROVE Trimmed(s) \in Seq(Jobs) /\ Len(Trimmed(s)) <= MaxCompleted
<1>1. Len(s) \in Nat /\ MaxCompleted \in Nat
  <2>1. MaxCompleted \in Nat
    BY SchedulerAssumption
  <2> QED BY <2>1
<1>2. CASE Len(s) > MaxCompleted
  <2>1. PICK m, n : m = Len(s) - MaxCompleted + 1 /\ n = Len(s)
    OBVIOUS
  <2>2. m \in 1..n + 1 /\ n \in Nat /\ n - m + 1 = MaxCompleted
    BY <1>1, <1>2, <2>1
  <2>3. SubSeq(s, m, n) \in Seq(Jobs) /\ Len(SubSeq(s, m, n)) = n - m + 1
    BY <2>1, <2>2, SubSeqProperties
  <2>4. Trimmed(s) = SubSeq(s, m, n)
    BY <1>2, <2>1 DEF Trimmed
  <2> QED BY <2>2, <2>3, <2>4, <1>1
<1>3. CASE ~(Len(s) > MaxCompleted)
  BY <1>1, <1>3 DEF Trimmed
<1> QED BY <1>2, <1>3

\* What a worker has in hand is a job of the scheduler, and its agent one with a cap or none.
LEMMA HandsKnown ==
    ASSUME PlaceInv, NEW w \in Workers, worker[w].at \in Owning \cup {"claim"}
    PROVE worker[w].job \in Jobs /\ Agent(worker[w].job) \in AgentTypes \cup {""}
BY InHands, SchedulerAssumption

\* What a worker counts in or out is a session of its job.
LEMMA WorkerFair ==
    ASSUME PlaceInv, NEW w \in Workers, WorkerStep(w)
    PROVE FairStays
<1>1. \/ fair' = fair
      \/ TakeJob(w)
      \/ ExecutorReturns(w)
  BY DEF WorkerStep, Poll, WorkerExit, TakeNothing, AdmitJob, AdmitMiss, Requeue, ScanEnd, ScanMiss,
         ScanAcquire, ScanClaim, StartJob, LimitRefuses, JobSucceeds, JobCancelled, JobFails, ReportJob
<1>2. CASE fair' = fair
  BY <1>2 DEF FairStays
<1>3. CASE TakeJob(w)
  <2>1. PICK j : j = Head(Candidates)
    OBVIOUS
  <2>2. j \in queue.byID /\ fair' = CountedIn(j)
    BY <1>3, <2>1 DEF TakeJob, Ghost
  <2>3. j \in Jobs
    BY <2>2 DEF PlaceInv, PlaceTyped, QueueTyped
  <2> QED BY <2>2, <2>3, CountsOfFair
<1>4. CASE ExecutorReturns(w)
  <2>1. PICK j : j = worker[w].job
    OBVIOUS
  <2>2. fair' = CountedOut(j) /\ worker[w].at = "run"
    BY <1>4, <2>1 DEF ExecutorReturns, WorkerAt
  <2>3. j \in Jobs
    BY <2>1, <2>2, HandsKnown DEF Owning
  <2> QED BY <2>2, <2>3, CountsOfFair
<1> QED BY <1>1, <1>2, <1>3, <1>4

\* What a worker does to the cooldowns of its job's agent.
LEMMA WorkerCools ==
    ASSUME PlaceInv, CountsTyped, NEW w \in Workers, WorkerStep(w)
    PROVE CoolStays
<1> SUFFICES ASSUME CoolFits(ac) PROVE CoolFits(ac')
  BY DEF CoolStays
<1>1. CapsTyped
  BY DEF CountsTyped
<1>2. ASSUME NEW c, TypedCaps(c), CoolFits(c), NEW a, ac' = SlotReleased(c, a)
      PROVE CoolFits(ac')
  BY <1>2, ReleaseCools DEF CoolFits
<1>3. ASSUME NEW a, CapAcquire(a) \/ CapMiss(a)
      PROVE CoolFits(ac')
  BY <1>1, <1>3, AcquireCools DEF CoolFits
<1>4. \/ ac' = ac
      \/ \E a : CapAcquire(a) \/ CapMiss(a)
      \/ \E a : ac' = SlotReleased(ac, a)
      \/ JobSucceeds(w)
      \/ JobFails(w)
  BY DEF WorkerStep, Poll, WorkerExit, TakeNothing, TakeJob, AdmitJob, AdmitMiss, Requeue, ScanEnd,
         ScanMiss, ScanAcquire, ScanClaim, StartJob, LimitRefuses, ExecutorReturns, JobCancelled, ReportJob
<1>5. CASE ac' = ac
  BY <1>5
<1>6. CASE \E a : CapAcquire(a) \/ CapMiss(a)
  BY <1>3, <1>6
<1>7. CASE \E a : ac' = SlotReleased(ac, a)
  BY <1>1, <1>2, <1>7 DEF CapsTyped
<1>8. CASE JobSucceeds(w)
  <2>1. PICK a : a = Agent(worker[w].job)
    OBVIOUS
  <2>2. ac' = SlotReleased(SuccessRecorded(ac, a), a)
    BY <1>8, <2>1 DEF JobSucceeds
  <2>3. TypedCaps(SuccessRecorded(ac, a)) /\ CoolFits(SuccessRecorded(ac, a))
    BY <1>1, RecordedKeeps, SuccessCools
  <2> QED BY <1>2, <2>2, <2>3
<1>9. CASE JobFails(w)
  <2>1. PICK a : a = Agent(worker[w].job)
    OBVIOUS
  <2>2. worker[w].at = "ran" /\ \E c \in {ac, FailureRecorded(ac, a)} : ac' = SlotReleased(c, a)
    BY <1>9, <2>1 DEF JobFails, WorkerAt
  <2>3. a \in AgentTypes \cup {""}
    BY <2>1, <2>2, HandsKnown DEF Owning
  <2>4. TypedCaps(FailureRecorded(ac, a)) /\ CoolFits(FailureRecorded(ac, a)) /\ TypedCaps(ac)
    BY <1>1, <2>3, RecordedKeeps, FailureCools DEF CapsTyped
  <2> QED BY <1>2, <2>2, <2>4
<1> QED BY <1>4, <1>5, <1>6, <1>7, <1>8, <1>9

\* A worker counts a failure or starts the count again.
LEMMA WorkerFails ==
    ASSUME CountsTyped, NEW w \in Workers, WorkerStep(w)
    PROVE FailuresStay
<1>1. BackoffReset \/ (\E j : BackoffError(j)) \/ UNCHANGED bo
  BY DEF WorkerStep, Poll, WorkerExit, TakeNothing, TakeJob, AdmitJob, AdmitMiss, Requeue, ScanEnd,
         ScanMiss, ScanAcquire, ScanClaim, StartJob, LimitRefuses, ExecutorReturns, JobSucceeds,
         JobCancelled, JobFails, ReportJob
<1> QED BY <1>1, FailuresCounted DEF CountsTyped

\* A worker keeps the counts, the cooldowns and the list of completed jobs in their types.
LEMMA WorkerSide ==
    ASSUME PlaceInv, CountsTyped, SideInv, NEW w \in Workers, WorkerStep(w)
    PROVE SideInv'
<1>1. FairStays /\ CoolStays /\ FailuresStay
  BY WorkerFair, WorkerCools, WorkerFails
<1>2. completed' = completed \/ ReportJob(w)
  BY DEF WorkerStep, Poll, WorkerExit, TakeNothing, TakeJob, AdmitJob, AdmitMiss, Requeue, ScanEnd,
         ScanMiss, ScanAcquire, ScanClaim, StartJob, LimitRefuses, ExecutorReturns, JobSucceeds,
         JobCancelled, JobFails
<1>3. completed' \in Seq(Jobs) /\ Len(completed') <= MaxCompleted
  <2>1. CASE completed' = completed
    BY <2>1 DEF SideInv
  <2>2. CASE ReportJob(w)
    <3>1. PICK j : j = worker[w].job
      OBVIOUS
    <3>2. completed' = Trimmed(Append(completed, j)) /\ worker[w].at = "report"
      BY <2>2, <3>1 DEF ReportJob, WorkerAt
    <3>3. j \in Jobs
      BY <3>1, <3>2, HandsKnown DEF Owning
    <3>4. Append(completed, j) \in Seq(Jobs)
      BY <3>3 DEF SideInv
    <3> QED BY <3>2, <3>4, TrimmedFits
  <2> QED BY <1>2, <2>1, <2>2
<1> QED BY <1>1, <1>3 DEF SideInv, FairStays, CoolStays, FailuresStay

\* So do timers and clients.
LEMMA OthersSide ==
    ASSUME CountsTyped, SideInv, Timers \/ Clients \/ UNCHANGED schedVars
    PROVE SideInv'
<1>1. UNCHANGED <<fair, completed>>
  BY DEF schedVars, Timers, Clients, BackoffTimer, RetryTimer, CooldownTimer, Submit, Cancel,
         CancelSession, CancelBatch, CancelMany, Pause, Resume, StartScheduler, Stop, Stopped
<1>2. UNCHANGED ac \/ \E a \in AgentTypes : CooldownTimer(a)
  BY DEF schedVars, Timers, Clients, BackoffTimer, RetryTimer, Submit, Cancel,
         CancelSession, CancelBatch, CancelMany, Pause, Resume, StartScheduler, Stop, Stopped
<1>3. UNCHANGED bo \/ BackoffTimer
  BY DEF schedVars, Timers, Clients, RetryTimer, CooldownTimer, Submit, Cancel,
         CancelSession, CancelBatch, CancelMany, Pause, Resume, StartScheduler, Stop, Stopped
<1>4. CoolStays
  BY <1>2, CooldownCools DEF CoolStays, CountsTyped
<1>5. FailuresStay
  BY <1>3, FailuresCounted DEF CountsTyped
<1> QED BY <1>1, <1>4, <1>5 DEF SideInv, CoolStays, FailuresStay

\* At first nothing is counted.
LEMMA StartsSided == SchedInit => SideInv
<1> SUFFICES ASSUME SchedInit PROVE SideInv
  OBVIOUS
<1>1. /\ fair = [s \in Sessions |-> 0] /\ ac.cooling = {} /\ ac.aged = {} /\ bo.failures = 0
      /\ completed = <<>>
  BY DEF SchedInit
<1>2. FailureThreshold \in Nat
  BY SchedulerAssumption
<1>3. MaxCompleted \in Nat
  BY SchedulerAssumption
<1>4. <<>> \in Seq(Jobs) /\ Len(<<>>) = 0
  OBVIOUS
<1> QED BY <1>1, <1>2, <1>3, <1>4 DEF SideInv, CoolFits

-----------------------------------------------------------------------------

JobsInv == CountsInv /\ PlaceInv /\ SideInv

\* The invariant is kept by every step, and no step changes how a job ended.
LEMMA JobsStep == JobsInv /\ [SchedNext]_schedVars => JobsInv' /\ EndsStay
<1> SUFFICES ASSUME JobsInv, [SchedNext]_schedVars
             PROVE JobsInv' /\ EndsStay
  OBVIOUS
<1>1. CountsInv /\ CountsTyped /\ PlaceInv /\ SideInv
  BY DEF JobsInv, CountsInv
<1>2. CASE \E w \in Workers : WorkerStep(w)
  BY <1>1, <1>2, WorkerKeeps, WorkerStepPlaces, WorkerSide DEF JobsInv
<1>3. CASE Timers
  BY <1>1, <1>3, TimersKeep, TimersPlaces, OthersSide DEF JobsInv
<1>4. CASE Clients
  BY <1>1, <1>4, ClientsKeep, ClientsPlaces, OthersSide DEF JobsInv
<1>5. CASE UNCHANGED schedVars
  <2>1. CountsInv'
    BY <1>1, <1>5, LifeStands, Untouched DEF schedVars
  <2>2. PlaceInv' /\ EndsStay
    BY <1>1, <1>5 DEF schedVars, PlaceInv, PlaceTyped, JobFits, HandsFit, HandFits, OneOwner, Owns, EndsStay
  <2> QED BY <1>1, <1>5, <2>1, <2>2, OthersSide DEF JobsInv
<1> QED BY <1>2, <1>3, <1>4, <1>5 DEF SchedNext

\* It gives every variable its type,
LEMMA TypesHold == JobsInv => SchedTypeOK
<1> SUFFICES ASSUME JobsInv PROVE SchedTypeOK
  OBVIOUS
<1>1. PlaceTyped /\ CountsTyped /\ SideInv
  BY DEF JobsInv, PlaceInv, CountsInv
<1>2. ac.slots \in [AgentTypes -> Nat] /\ ac.cap \in [AgentTypes -> Nat \ {0}]
  <2>1. ac.cap \in [AgentTypes -> Nat] /\ \A a \in AgentTypes : ac.cap[a] \in 1 .. CapOf[a].max
    BY <1>1 DEF CountsTyped, CapsTyped, TypedCaps
  <2>2. \A a \in AgentTypes : ac.cap[a] \in Nat \ {0}
    BY <2>1
  <2> QED BY <1>1, <2>1, <2>2 DEF CountsTyped, CapsTyped, TypedCaps
<1>3. bo.timers \in Nat
  BY <1>1 DEF CountsTyped
<1>4. queue.heap \in Seq(Jobs) /\ queue.byID \subseteq Jobs
  BY <1>1 DEF PlaceTyped, QueueTyped
<1>5. job \in [Jobs -> [status : EndedStatus \cup {"new", "pending", "running", "retrying"},
                        retries : Nat, cancelled : BOOLEAN, reports : Nat]]
  BY <1>1 DEF PlaceTyped, JobRecords, JobStates
<1> QED BY <1>1, <1>2, <1>3, <1>4, <1>5 DEF SchedTypeOK, PlaceTyped, SideInv, CoolFits

\* and every job its place.
LEMMA PlacesHold == PlaceInv => OnePlace
<1> SUFFICES ASSUME PlaceInv PROVE OnePlace
  OBVIOUS
<1>1. \A v, w \in Workers : InHand(v) /\ InHand(w) /\ v # w => worker[v].job # worker[w].job
  BY DEF PlaceInv, OneOwner, Owns, Owning, InHand
<1>2. ASSUME NEW w \in Workers, InHand(w)
      PROVE worker[w].job \notin queue.byID \cup retrying
  <2>1. PICK place, j : place = worker[w].at /\ j = worker[w].job
    OBVIOUS
  <2>2. place \in Owning /\ place # "report"
    BY <1>2, <2>1 DEF InHand, Owning
  <2>3. HandFits(place, j) /\ j \in Jobs /\ JobFits(j)
    BY <2>1, <2>2, InHands
  <2> QED BY <2>1, <2>2, <2>3 DEF HandFits, JobFits, Owning, Waiting
<1>3. queue.byID \subseteq Jobs /\ retrying \subseteq Jobs
  BY DEF PlaceInv, PlaceTyped, QueueTyped
<1>4. \A j \in Jobs : (j \in queue.byID => job[j].status = "pending")
                      /\ (j \in retrying => job[j].status = "retrying")
  BY DEF PlaceInv, JobFits
<1> QED BY <1>1, <1>2, <1>3, <1>4 DEF OnePlace, EndedStatus

\* No job is doubled or counted twice, for any number of jobs, workers, agents, sessions and
\* batches, whatever cancels, retries, scans and stops race for it: it is in no two of the index,
\* one worker's hands and a retry delay, its slot is held by that worker, the caps hold meanwhile,
\* and its end is final and reported at most once.
THEOREM JobsStayAccounted == SchedSpec => JobsAccounted
<1>1. SchedInit => JobsInv
  BY StartsCounted, StartsPlaced, StartsSided DEF JobsInv
<1>2. JobsInv /\ [SchedNext]_schedVars => JobsInv'
  BY JobsStep
<1>3. JobsInv => SchedTypeOK /\ OnePlace /\ SlotsExact /\ CapsHold /\ PauseExplained
  BY TypesHold, PlacesHold DEF JobsInv, CountsInv
<1> DEFINE ends == \A j \in Jobs : /\ job[j].status \in EndedStatus => job'[j].status = job[j].status
                                   /\ job'[j].reports <= 1
<1>4. JobsInv /\ [SchedNext]_schedVars => [ends]_schedVars
  <2> SUFFICES ASSUME JobsInv, [SchedNext]_schedVars PROVE ends
    OBVIOUS
  <2>1. JobsInv' /\ EndsStay
    BY JobsStep
  <2>2. \A j \in Jobs : JobFits(j)'
    BY <2>1 DEF JobsInv, PlaceInv
  <2> QED BY <2>1, <2>2 DEF EndsStay, JobFits
<1> QED BY <1>1, <1>2, <1>3, <1>4, PTL DEF SchedSpec, JobsAccounted, EndsOnce

=============================================================================
