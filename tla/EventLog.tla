------------------------------ MODULE EventLog ------------------------------
(****************************************************************************)
(* The event log and its consumers (internal/event/store.go, ic events in   *)
(* cmd/ic/events.go): one table per source, a listing that merges them by   *)
(* time under a limit per source, and consumers that keep a cursor per      *)
(* source in the state table. A tail is started without --since flags.      *)
(****************************************************************************)
EXTENDS Integers, Sequences, FiniteSets, Functions, FiniteSetsExt

CONSTANTS
    Sources,        \* tables in the order of their names; discovery is System
    SystemSource,   \* the source that has no runs
    EventRuns,      \* runs events belong to
    AllRuns,        \* scope of a tail over every run
    Tails,          \* ic events tail processes
    Consumers,      \* names given with --consumer
    ListLimit,      \* --limit
    MaxRecorded,    \* bound on the events of all sources
    LastStamp       \* bound on the clock, which is never set back

ASSUME EventAssumption ==
    /\ ListLimit \in Nat \ {0} /\ MaxRecorded \in Nat /\ LastStamp \in Nat
    /\ AllRuns \notin EventRuns
    /\ Sources \in Seq(Range(Sources)) /\ IsInjective(Sources)

VARIABLES
    tables,      \* each source's rows, by id
    stamp,       \* unixepoch()
    cursorRow,   \* the cursor rows of the state table, by consumer and scope
    tail,        \* each tail process
    printed      \* what was printed for each consumer and scope

eventVars == <<tables, stamp, cursorRow, tail, printed>>

EventScopes == EventRuns \cup {AllRuns}
CursorKeys == Consumers \X EventScopes
SourceNames == Range(Sources)
Zero == [s \in SourceNames |-> 0]
NoCursor == [there |-> FALSE, since |-> Zero, durable |-> FALSE]
NoTail == [at |-> "off", key |-> <<>>, since |-> Zero, durable |-> FALSE]

EventInit ==
    /\ tables = [s \in SourceNames |-> <<>>]
    /\ stamp = 1
    /\ cursorRow = [k \in CursorKeys |-> NoCursor]
    /\ tail = [t \in Tails |-> NoTail]
    /\ printed = [k \in CursorKeys |-> {}]

NumRecorded == FoldSet(LAMBDA s, n : n + Len(tables[s]), 0, SourceNames)

---------------------------------------------------------------------------
(* Recording *)

\* ic events emit and record, and every store that logs: one insert.
RecordEvent(s, run) ==
    /\ NumRecorded < MaxRecorded
    /\ tables' = [tables EXCEPT ![s] = Append(@, [run |-> run, time |-> stamp])]
    /\ UNCHANGED <<stamp, cursorRow, tail, printed>>

StampTick ==
    /\ stamp < LastStamp /\ stamp' = stamp + 1
    /\ UNCHANGED <<tables, cursorRow, tail, printed>>

---------------------------------------------------------------------------
(* ListEvents and ListAllEvents *)

PerSource(sources) == (ListLimit + sources - 1) \div sources

\* The sources of a listing: a run's leaves the system source out.
ListedSources(scope) == SourceNames \ (IF scope = AllRuns THEN {} ELSE {SystemSource})

InScope(s, i, scope) == scope = AllRuns \/ tables[s][i].run = scope

\* The events of the n-th source a listing is after.
Waiting(scope, since, n) ==
    {<<n, i>> : i \in {j \in DOMAIN tables[Sources[n]] :
                          j > since[Sources[n]] /\ InScope(Sources[n], j, scope)}}

\* created_at, then source, then id.
Precedes(a, b) ==
    LET ta == tables[Sources[a[1]]][a[2]].time
        tb == tables[Sources[b[1]]][b[2]].time
    IN  ta < tb \/ (ta = tb /\ (a[1] < b[1] \/ (a[1] = b[1] /\ a[2] < b[2])))

\* ORDER BY and LIMIT.
FirstOf(events, limit) ==
    {e \in events : Cardinality({d \in events : Precedes(d, e)}) < limit}

Listing(scope, since) ==
    LET listed == {n \in DOMAIN Sources : Sources[n] \in ListedSources(scope)}
        picked == {FirstOf(Waiting(scope, since, n), PerSource(Cardinality(listed))) : n \in listed}
    IN  FirstOf(UNION picked, ListLimit)

---------------------------------------------------------------------------
(* ic events tail *)

\* loadCursor: an absent or ended row is zero for every source.
StartTail(t) ==
    /\ tail[t].at = "off"
    /\ \E k \in CursorKeys :
          tail' = [tail EXCEPT ![t] =
              [at |-> "list", key |-> k, since |-> cursorRow[k].since, durable |-> FALSE]]
    /\ UNCHANGED <<tables, stamp, cursorRow, printed>>

\* The highest id written per source.
Marked(since, written) ==
    [s \in SourceNames |->
        Max({since[s]} \cup {e[2] : e \in {d \in written : Sources[d[1]] = s}})]

\* A broken output ends the tail before the cursor is saved.
AfterBatch(whole) == IF whole THEN "durable" ELSE "off"

\* One listing, printed in its order until the output fails or the batch ends.
PrintBatch(t) ==
    /\ tail[t].at = "list"
    /\ LET k == tail[t].key
           batch == Listing(k[2], tail[t].since)
       IN  /\ batch # {}
           /\ \E limit \in 0..Cardinality(batch) :
                 LET written == FirstOf(batch, limit)
                 IN  /\ printed' = [printed EXCEPT ![k] = @ \cup written]
                     /\ tail' = [tail EXCEPT ![t].since = Marked(@, written),
                                             ![t].at = AfterBatch(written = batch)]
    /\ UNCHANGED <<tables, stamp, cursorRow>>

\* cursorTTL looks the row up before the cursor is set.
ReadDurable(t) ==
    /\ tail[t].at = "durable"
    /\ tail' = [tail EXCEPT ![t].at = "save", ![t].durable = cursorRow[tail[t].key].durable]
    /\ UNCHANGED <<tables, stamp, cursorRow, printed>>

\* saveCursor; an error is passed over. Then a following tail lists again.
SaveCursor(t) ==
    /\ tail[t].at = "save"
    /\ \E saved \in BOOLEAN :
          cursorRow' = IF ~saved THEN cursorRow
                       ELSE [cursorRow EXCEPT ![tail[t].key] =
                                [there |-> TRUE, since |-> tail[t].since, durable |-> tail[t].durable]]
    /\ tail' = [tail EXCEPT ![t].at = "list"]
    /\ UNCHANGED <<tables, stamp, printed>>

\* The end of a tail that does not follow, a signal or a crash.
EndTail(t) ==
    /\ tail[t].at # "off"
    /\ tail' = [tail EXCEPT ![t] = NoTail]
    /\ UNCHANGED <<tables, stamp, cursorRow, printed>>

---------------------------------------------------------------------------
(* ic events cursor: the name alone, which is the key of the tail over all runs *)

RegisterCursor(c) ==
    /\ \E durable \in BOOLEAN :
          cursorRow' = [cursorRow EXCEPT ![<<c, AllRuns>>] =
              [there |-> TRUE, since |-> Zero, durable |-> durable]]
    /\ UNCHANGED <<tables, stamp, tail, printed>>

ResetCursor(c) ==
    /\ cursorRow' = [cursorRow EXCEPT ![<<c, AllRuns>>] = NoCursor]
    /\ UNCHANGED <<tables, stamp, tail, printed>>

\* A day passes since the cursor was saved.
ExpireCursor(k) ==
    /\ cursorRow[k].there /\ ~cursorRow[k].durable
    /\ cursorRow' = [cursorRow EXCEPT ![k] = NoCursor]
    /\ UNCHANGED <<tables, stamp, tail, printed>>

EventNext ==
    \/ \E s \in SourceNames, run \in EventRuns : RecordEvent(s, run)
    \/ StampTick
    \/ \E t \in Tails :
          StartTail(t) \/ PrintBatch(t) \/ ReadDurable(t) \/ SaveCursor(t) \/ EndTail(t)
    \/ \E c \in Consumers : RegisterCursor(c) \/ ResetCursor(c)
    \/ \E k \in CursorKeys : ExpireCursor(k)

EventSpec == EventInit /\ [][EventNext]_eventVars

---------------------------------------------------------------------------
(* Properties *)

\* Every event up to the marks of a cursor was printed for its consumer and scope.
Given(k, since) ==
    \A n \in DOMAIN Sources : \A i \in 1..since[Sources[n]] :
        InScope(Sources[n], i, k[2]) => <<n, i>> \in printed[k]

\* A cursor never stands past an event its consumer was not given, whichever
\* tails share it and wherever they end: at-least-once delivery (cmdEventsTail).
AtLeastOnce == \A k \in CursorKeys : Given(k, cursorRow[k].since)

\* A listing shorter than its limit leaves nothing behind: "Polling callers must
\* loop until fewer than limit rows are returned to guarantee all events are
\* drained" (comment of ListEvents).
ShortMeansDrained ==
    \A scope \in EventScopes :
        LET batch == Listing(scope, Zero)
        IN  Cardinality(batch) < ListLimit =>
                \A n \in {m \in DOMAIN Sources : Sources[m] \in ListedSources(scope)} :
                    Waiting(scope, Marked(Zero, batch), n) = {}
=============================================================================
