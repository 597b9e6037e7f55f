----------------------------- MODULE Discovery -----------------------------
(****************************************************************************)
(* Discoveries (internal/discovery/store.go, ic discovery in                *)
(* cmd/ic/discovery.go). Most commands read a row, decide, and write, in    *)
(* one transaction: SQLite takes the write only if nobody committed since   *)
(* the read. Scores are percentages; embeddings are alike when they are     *)
(* the same topic.                                                          *)
(****************************************************************************)
EXTENDS Integers, FiniteSets, Sequences

CONSTANTS
    Scouts,         \* processes that run ic discovery
    Discoveries,    \* discoveries that may be submitted, in the order of their ids
    Topics,         \* embeddings
    Scores,         \* scores given
    DecayRate,      \* percent taken off by a decay
    FeedbackKeys,   \* idempotency keys of feedback
    MaxSignals,     \* bound on the keyed feedback recorded
    LastDay         \* bound on the clock

ASSUME DiscoveryAssumption ==
    /\ Discoveries \subseteq Nat /\ Scores \subseteq 0..100 /\ DecayRate \in 0..100
    /\ MaxSignals \in Nat /\ LastDay \in Nat

Closed == {"dismissed", "promoted"}

VARIABLES
    discovery,  \* id -> its row
    told,       \* id -> the status its last event with one left it in
    signals,    \* the feedback_signals: discovery and idempotency key
    bound,      \* key -> its feedback_idempotency row
    request,    \* scout -> the transaction it has open
    day         \* the wall clock

discoveryVars == <<discovery, told, signals, bound, request, day>>

NoDiscovery ==
    [status |-> "none", score |-> 0, tier |-> "none", topic |-> "none", deduped |-> FALSE,
     forced |-> FALSE, day |-> 0]

NoRequest ==
    [op |-> "none", id |-> 0, score |-> 0, force |-> FALSE, topic |-> "none", read |-> <<>>,
     stale |-> FALSE]

NotBound == [discovery |-> 0, signal |-> 0]

DiscoveryInit ==
    /\ discovery = [d \in Discoveries |-> NoDiscovery]
    /\ told = [d \in Discoveries |-> "none"]
    /\ signals = <<>>
    /\ bound = [k \in FeedbackKeys |-> NotBound]
    /\ request = [p \in Scouts |-> NoRequest]
    /\ day = 1

TierFromScore(score) ==
    IF score >= 80 THEN "high" ELSE IF score >= 50 THEN "medium"
    ELSE IF score >= 30 THEN "low" ELSE "discard"

Submitted == {d \in Discoveries : discovery[d].status # "none"}
NextId == {d \in Discoveries \ Submitted : \A e \in Discoveries \ Submitted : d <= e}

\* The request of p is over; the others read before its commit.
Committed(done) ==
    [p \in Scouts |-> IF p \in done \/ request[p] = NoRequest THEN NoRequest
                      ELSE [request[p] EXCEPT !.stale = TRUE]]

EmitEvent(d, status) == told' = [told EXCEPT ![d] = status]

NewRow(score, topic, deduped) ==
    [status |-> "new", score |-> score, tier |-> TierFromScore(score), topic |-> topic,
     deduped |-> deduped, forced |-> FALSE, day |-> day]

\* Submit checks the source id by the table's unique constraint alone.
Submit ==
    /\ \E d \in NextId, score \in Scores, topic \in Topics :
          /\ discovery' = [discovery EXCEPT ![d] = NewRow(score, topic, FALSE)]
          /\ EmitEvent(d, "new")
    /\ request' = Committed({})
    /\ UNCHANGED <<signals, bound, day>>

Decaying == {d \in Submitted : discovery[d].status \notin Closed /\ discovery[d].day < day}

\* Discoveries the scan takes for the same, dismissed ones included.
Alike(topic) == {d \in Submitted : discovery[d].topic = topic}

\* What a transaction asks for and what its first read found.
Request(op, id, score, force, topic, rows) ==
    [ op |-> op, id |-> id, score |-> score, force |-> force, topic |-> topic, stale |-> FALSE,
      read |-> [d \in rows |-> [status |-> discovery[d].status, score |-> discovery[d].score]] ]

AskOne(d) ==
    {Request("score", d, score, FALSE, "none", {d}) : score \in Scores}
    \cup {Request("promote", d, 0, force, "none", {d}) : force \in BOOLEAN}
    \cup {Request("dismiss", d, 0, FALSE, "none", {d})}

AskAll ==
    {Request("decay", 0, 0, FALSE, "none", Decaying)}
    \cup {Request("dedup", 0, score, FALSE, topic, Alike(topic)) : score \in Scores, topic \in Topics}

Askable == AskAll \cup UNION {AskOne(d) : d \in Submitted}

Open(p) ==
    /\ request[p] = NoRequest
    /\ \E asked \in Askable : request' = [request EXCEPT ![p] = asked]
    /\ UNCHANGED <<discovery, told, signals, bound, day>>

\* A write on an old snapshot goes through on what was read then.
Fresh_Blind(p) == TRUE

Fresh(p) == ~request[p].stale

\* A transaction that lost its snapshot fails and is rolled back.
RequestFails(p) ==
    /\ request[p] # NoRequest /\ ~Fresh(p)
    /\ request' = [request EXCEPT ![p] = NoRequest]
    /\ UNCHANGED <<discovery, told, signals, bound, day>>

\* Refused by the lifecycle or by the gate, or nothing left to do.
Refused(done) ==
    /\ request' = [p \in Scouts |-> IF p \in done THEN NoRequest ELSE request[p]]
    /\ UNCHANGED <<discovery, told, signals, bound, day>>

WriteStatus(d, row, done) ==
    /\ discovery' = [discovery EXCEPT ![d] = row]
    /\ EmitEvent(d, row.status)
    /\ request' = Committed(done)
    /\ UNCHANGED <<signals, bound, day>>

MayScore(row) == row.status \notin Closed

Score(q, done) ==
    /\ q.op = "score"
    /\ IF MayScore(q.read[q.id])
       THEN WriteStatus(q.id, [discovery[q.id] EXCEPT !.status = "scored", !.score = q.score,
                                                       !.tier = TierFromScore(q.score)], done)
       ELSE Refused(done)

\* A dismissed one never, a promoted one already; the rest by score unless forced.
MayPromote(row, force) == row.status \notin Closed /\ (force \/ row.score >= 50)

Promote(q, done) ==
    /\ q.op = "promote"
    /\ IF MayPromote(q.read[q.id], q.force)
       THEN WriteStatus(q.id, [discovery[q.id] EXCEPT !.status = "promoted", !.forced = q.force], done)
       ELSE Refused(done)

\* A promoted discovery may be dismissed too.
Dismiss(q, done) ==
    /\ q.op = "dismiss"
    /\ IF q.read[q.id].status # "dismissed"
       THEN WriteStatus(q.id, [discovery[q.id] EXCEPT !.status = "dismissed"], done)
       ELSE Refused(done)

Decayed(score) == (score * (100 - DecayRate)) \div 100

\* One event stands for the whole decay; it names no discovery and no status.
Decay(q, done) ==
    /\ q.op = "decay"
    /\ IF q.read = <<>> THEN Refused(done)
       ELSE /\ discovery' = [d \in Discoveries |->
                  IF d \notin DOMAIN q.read THEN discovery[d]
                  ELSE LET score == Decayed(q.read[d].score)
                       IN  [discovery[d] EXCEPT !.score = score, !.tier = TierFromScore(score)]]
            /\ request' = Committed(done)
            /\ UNCHANGED <<told, signals, bound, day>>

\* A hit leaves an event without statuses and answers the id found.
SubmitWithDedup(q, done) ==
    /\ q.op = "dedup"
    /\ IF q.read # <<>> THEN UNCHANGED <<discovery, told>>
       ELSE \E d \in NextId :
              /\ discovery' = [discovery EXCEPT ![d] = NewRow(q.score, q.topic, TRUE)]
              /\ EmitEvent(d, "new")
    /\ request' = Committed(done)
    /\ UNCHANGED <<signals, bound, day>>

Answer(q, done) ==
    \/ Score(q, done) \/ Promote(q, done) \/ Dismiss(q, done)
    \/ Decay(q, done) \/ SubmitWithDedup(q, done)

\* The transaction of p ends; one that has nothing to write needs no lock.
Commit(p) == request[p] # NoRequest /\ Fresh(p) /\ Answer(request[p], {p})

\* A command nobody came in between of.
AtOnce == \E asked \in Askable : Answer(asked, {})

RolledBackTold(rows) == [d \in Discoveries |-> IF d \in rows THEN "dismissed" ELSE told[d]]

\* One UPDATE picks and dismisses what the source brought since a day.
RollbackSource(since) ==
    LET rows == {d \in Submitted : discovery[d].status \notin Closed /\ discovery[d].day >= since} IN
    /\ discovery' = [d \in Discoveries |->
          IF d \in rows THEN [discovery[d] EXCEPT !.status = "dismissed"] ELSE discovery[d]]
    /\ told' = RolledBackTold(rows)
    /\ request' = IF rows = {} THEN request ELSE Committed({})
    /\ UNCHANGED <<signals, bound, day>>

Reserved(k) == bound[k] # NotBound

\* A key that is bound is answered from its row, or refused for other content.
FeedbackOnce(d, k) ==
    /\ ~Reserved(k)
    /\ Len(signals) < MaxSignals
    /\ signals' = Append(signals, [discovery |-> d, key |-> k])
    /\ request' = Committed({})
    /\ UNCHANGED <<discovery, told, day>>
    /\ bound' = [bound EXCEPT ![k] = [discovery |-> d, signal |-> Len(signals) + 1]]

NextDay == day < LastDay /\ day' = day + 1 /\ UNCHANGED <<discovery, told, signals, bound, request>>

DiscoveryNext ==
    \/ Submit \/ NextDay
    \/ AtOnce
    \/ \E p \in Scouts : Open(p) \/ Commit(p) \/ RequestFails(p)
    \/ \E since \in 1..LastDay : RollbackSource(since)
    \/ \E d \in Submitted, k \in FeedbackKeys : FeedbackOnce(d, k)

DiscoverySpec == DiscoveryInit /\ [][DiscoveryNext]_discoveryVars

---------------------------------------------------------------------------

\* What is promoted was worth it when nobody forced it, and still is: neither a score nor a
\* decay that raced the promotion lowers it below the gate (Decay: "in a single transaction
\* to prevent TOCTOU races with Promote/Dismiss").
PromotedWorthIt ==
    \A d \in Discoveries :
        discovery[d].status = "promoted" /\ ~discovery[d].forced => discovery[d].tier \in {"medium", "high"}

\* A dismissed discovery stays dismissed, whoever was scoring or promoting it meanwhile.
DismissedForGood ==
    \A d \in Discoveries : discovery[d].status = "dismissed" => discovery'[d].status = "dismissed"

\* The last event with a status tells the status of the row.
EventsTellStatus ==
    \A d \in Submitted : told[d] = discovery[d].status

\* Of two alike discoveries the later one did not come by a deduplicated submit
\* (SubmitWithDedup: "Scan + insert happen in a single transaction to prevent TOCTOU").
NoTwins ==
    \A d, e \in Submitted : d < e /\ discovery[e].deduped => discovery[d].topic # discovery[e].topic

\* A feedback key stands for one signal, and its row names that signal.
FeedbackOncePerKey ==
    \A i \in DOMAIN signals :
        bound[signals[i].key] = [discovery |-> signals[i].discovery, signal |-> i]

\* Decisions and evidence agree however scoring, decay, promotion, dismissal and
\* feedback interleave: what was promoted is worth it, what was dismissed is gone, the
\* events tell what the rows say, and nothing is submitted or counted twice.
DiscoverySound ==
    [][ /\ (PromotedWorthIt /\ EventsTellStatus /\ NoTwins /\ FeedbackOncePerKey)'
        /\ DismissedForGood ]_discoveryVars
=============================================================================
