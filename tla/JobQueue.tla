------------------------------ MODULE JobQueue ------------------------------
(***************************************************************************)
(* The queue of the spawn scheduler (internal/scheduler/queue.go): a       *)
(* binary heap in a slice, beside an index of the queued jobs by id.  The  *)
(* two can come apart, so both are kept: q.heap is the slice (position 1   *)
(* is the root), q.byID the index.  Counts kept for reports are left out.  *)
(***************************************************************************)
EXTENDS Naturals, Sequences, FiniteSets, SequencesExt

CONSTANTS
    Jobs,      \* the jobs a client may submit
    JobSpec    \* their priority, age, session, batch, agent and retry limit

ASSUME JobAssumption ==
    \A j \in Jobs :
      /\ JobSpec[j].priority \in Nat /\ JobSpec[j].born \in Nat
      /\ JobSpec[j].maxRetries \in Nat

Session(j) == JobSpec[j].session
Batch(j)   == JobSpec[j].batch
Agent(j)   == JobSpec[j].agent

(* A lower number is a higher priority; among equals the older comes first. *)
Before(j, k) ==
    \/ JobSpec[j].priority < JobSpec[k].priority
    \/ /\ JobSpec[j].priority = JobSpec[k].priority
       /\ JobSpec[j].born < JobSpec[k].born

EmptyQueue == [heap |-> <<>>, byID |-> {}]

-----------------------------------------------------------------------------
(* container/heap over the slice.  s.at is where the moving element is.    *)

Swapped(s, i) ==
    [heap |-> [s.heap EXCEPT ![s.at] = s.heap[i], ![i] = s.heap[s.at]], at |-> i]

Rise(s) ==
    IF s.at > 1 /\ Before(s.heap[s.at], s.heap[s.at \div 2]) THEN Swapped(s, s.at \div 2) ELSE s

FirstChild(h, i) ==
    IF 2 * i + 1 \in DOMAIN h /\ Before(h[2 * i + 1], h[2 * i]) THEN 2 * i + 1 ELSE 2 * i

Sink(s) ==
    LET child == FirstChild(s.heap, s.at)
    IN  IF child \in DOMAIN s.heap /\ Before(s.heap[child], s.heap[s.at])
        THEN Swapped(s, child) ELSE s

(* Swaps go on until one is not needed; there are no more than elements.   *)
SiftUp(h, i) ==
    LET up[n \in 0 .. Len(h)] == IF n = 0 THEN [heap |-> h, at |-> i] ELSE Rise(up[n - 1])
    IN  up[Len(h)].heap

SiftDown(h, i) ==
    LET down[n \in 0 .. Len(h)] == IF n = 0 THEN [heap |-> h, at |-> i] ELSE Sink(down[n - 1])
    IN  down[Len(h)].heap

(* heap.Remove: the last element takes the place of the one removed.       *)
HeapRemove(h, i) ==
    IF i = Len(h) THEN Front(h)
    ELSE LET moved == [Front(h) EXCEPT ![i] = Last(h)]
             sunk == SiftDown(moved, i)
         IN  IF sunk # moved THEN sunk ELSE SiftUp(moved, i)

-----------------------------------------------------------------------------
(* Operations.                                                             *)

Enqueue(q, j) ==
    IF j \in q.byID THEN q
    ELSE [heap |-> SiftUp(Append(q.heap, j), Len(q.heap) + 1), byID |-> q.byID \cup {j}]

Positions(q, j) == {i \in DOMAIN q.heap : q.heap[i] = j}

RemoveJob(q, j) ==
    IF j \notin q.byID THEN q
    ELSE [heap |-> IF Positions(q, j) = {} THEN q.heap ELSE HeapRemove(q.heap, Min(Positions(q, j))),
          byID |-> q.byID \ {j}]

(* Cancelling many removes the positions noted before the first removal,   *)
(* from the last to the first: an element that rises meanwhile may stand   *)
(* at a noted position when its turn comes.                                *)
RemoveAll(q, S) ==
    LET size == Len(q.heap)
        left[n \in 0 .. size] ==
            IF n = 0 THEN q.heap
            ELSE LET i == size + 1 - n
                 IN  IF q.heap[i] \in S THEN HeapRemove(left[n - 1], i) ELSE left[n - 1]
    IN  [heap |-> left[size], byID |-> q.byID \ (ToSet(q.heap) \cap S)]

=============================================================================
