--------------------------- MODULE PortfolioRelay ---------------------------
(****************************************************************************)
(* The portfolio relay (internal/portfolio/relay.go, ic portfolio relay):   *)
(* polls the event log of every child's project and copies new events into  *)
(* the portfolio's own log, with a cursor per project in the state table.   *)
(* An event is its number in its project's log.                             *)
(****************************************************************************)
EXTENDS Integers, Sequences, SequencesExt

CONSTANTS
    Relays,          \* relay processes of the portfolio
    RelayProjects,   \* projects of the portfolio's children
    BatchSize,       \* LIMIT of a poll's query
    MaxProjectLog,   \* bound on the events of a project
    MaxCopies        \* bound on the portfolio's own log

ASSUME RelayAssumption ==
    BatchSize \in Nat \ {0} /\ MaxProjectLog \in Nat /\ MaxCopies \in Nat

VARIABLES
    projectLog,   \* number of phase events in each project's database
    childEnded,   \* the projects whose child run has ended
    copies,       \* the relay events in the portfolio's database
    stored,       \* relay-cursor rows of the state table, 0 for none
    relay         \* each process: where it is and its cursors in memory

relayVars == <<projectLog, childEnded, copies, stored, relay>>

RelayOff == [at |-> "off", cursors |-> [p \in RelayProjects |-> 0], todo |-> {}]

RelayInit ==
    /\ projectLog = [p \in RelayProjects |-> 0]
    /\ childEnded = {}
    /\ copies = <<>>
    /\ stored = [p \in RelayProjects |-> 0]
    /\ relay = [r \in Relays |-> RelayOff]

\* A run of the project records an event; the relay's query takes any run's.
ProjectEvent(p) ==
    /\ projectLog[p] < MaxProjectLog
    /\ projectLog' = [projectLog EXCEPT ![p] = @ + 1]
    /\ UNCHANGED <<childEnded, copies, stored, relay>>

ChildEnds(p) ==
    /\ childEnded' = childEnded \cup {p}
    /\ UNCHANGED <<projectLog, copies, stored, relay>>

\* state.Get takes a row that has no expiry or whose expiry is to come; the
\* relay writes its cursors with expires_at 0, which is neither.
NoExpiry == -1
CursorExpiry == 0
Found(expires) == expires = NoExpiry \/ expires > 1
ReadCursor(p) == IF Found(CursorExpiry) THEN stored[p] ELSE 0

\* loadCursors: a project without a readable cursor starts from the beginning.
StartRelay(r) ==
    /\ relay[r].at = "off"
    /\ relay' = [relay EXCEPT ![r] =
          [at |-> "idle", cursors |-> [p \in RelayProjects |-> ReadCursor(p)], todo |-> {}]]
    /\ UNCHANGED <<projectLog, childEnded, copies, stored>>

\* The children and the edges are read once per poll; ended children are passed.
BeginPoll(r) ==
    /\ relay[r].at = "idle"
    /\ relay' = [relay EXCEPT ![r].at = "poll", ![r].todo = RelayProjects \ childEnded]
    /\ UNCHANGED <<projectLog, childEnded, copies, stored>>

\* The events after the cursor, oldest first.
Batch(r, p) ==
    LET from == relay[r].cursors[p]
        upto == IF from + BatchSize < projectLog[p] THEN from + BatchSize ELSE projectLog[p]
    IN  [i \in 1..(upto - from) |-> [project |-> p, id |-> from + i]]

CursorAfter(r, p) == relay[r].cursors[p] + Len(Batch(r, p))

Polled(r, p, cursor) ==
    relay' = [relay EXCEPT ![r].todo = @ \ {p}, ![r].cursors[p] = cursor]

\* One transaction: the events and the cursor.
RelayChild(r) ==
    /\ relay[r].at = "poll"
    /\ \E p \in relay[r].todo :
          /\ Len(copies) + Len(Batch(r, p)) <= MaxCopies
          /\ copies' = copies \o Batch(r, p)
          /\ stored' = IF Batch(r, p) = <<>> THEN stored
                       ELSE [stored EXCEPT ![p] = CursorAfter(r, p)]
          /\ Polled(r, p, CursorAfter(r, p))
    /\ UNCHANGED <<projectLog, childEnded>>

\* The cursor moves although the transaction failed.
CursorOnFailure_Advanced(r, p) == CursorAfter(r, p)

\* A project whose database cannot be opened or read, and a transaction that
\* fails: the relay goes on with the next child.
CursorOnFailure(r, p) == relay[r].cursors[p]

RelayChildFails(r) ==
    /\ relay[r].at = "poll"
    /\ \E p \in relay[r].todo : Polled(r, p, CursorOnFailure(r, p))
    /\ UNCHANGED <<projectLog, childEnded, copies, stored>>

EndPoll(r) ==
    /\ relay[r].at = "poll" /\ relay[r].todo = {}
    /\ relay' = [relay EXCEPT ![r].at = "idle"]
    /\ UNCHANGED <<projectLog, childEnded, copies, stored>>

\* A signal or a crash, anywhere.
StopRelay(r) ==
    /\ relay[r].at # "off"
    /\ relay' = [relay EXCEPT ![r] = RelayOff]
    /\ UNCHANGED <<projectLog, childEnded, copies, stored>>

RelayNext ==
    \/ \E p \in RelayProjects : ProjectEvent(p) \/ ChildEnds(p)
    \/ \E r \in Relays :
          \/ StartRelay(r) \/ BeginPoll(r) \/ RelayChild(r) \/ RelayChildFails(r)
          \/ EndPoll(r) \/ StopRelay(r)

RelaySpec == RelayInit /\ [][RelayNext]_relayVars

---------------------------------------------------------------------------
(* Properties *)

Copied(p) == {copies[i].id : i \in {j \in DOMAIN copies : copies[j].project = p}}

\* Nothing is passed over: every event up to a cursor, in a relay's memory or
\* stored, is in the portfolio's log, whatever failed or died in between
\* (relayChildEvents).
NothingSkipped ==
    \A p \in RelayProjects :
        /\ 1..stored[p] \subseteq Copied(p)
        /\ \A r \in Relays : 1..relay[r].cursors[p] \subseteq Copied(p)

\* Each event of a project is relayed once, across restarts of one relay: the
\* events and the cursor are saved "atomically" (comment of relayChildEvents).
RelayedOnce ==
    \A i, j \in DOMAIN copies : copies[i] = copies[j] => i = j
=============================================================================
