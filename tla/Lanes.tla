------------------------------- MODULE Lanes -------------------------------
(****************************************************************************)
(* Work lanes (internal/lane/store.go, velocity.go, ic lane in              *)
(* cmd/ic/lane.go). A sync replaces the members of a lane by a list in one  *)
(* transaction that reads them first and writes the difference; SQLite      *)
(* refuses the write when another connection committed since the read. Of   *)
(* an event only its lane and type are kept, as counts.                     *)
(****************************************************************************)
EXTENDS Integers, FiniteSets, Sequences

CONSTANTS
    Syncers,        \* processes that run ic lane sync
    LaneNames,      \* names given to lanes
    Beads,          \* beads that belong to lanes
    MaxSyncs        \* bound on the syncs of a lane

ASSUME LaneAssumption == MaxSyncs \in Nat

NoSync == [lane |-> "none", list |-> <<>>, read |-> {}, stale |-> FALSE]

LaneEvents == {"created", "closed", "snapshot", "bead_removed"}

VARIABLES
    lanes,      \* name -> status of its row; the name is unique and stands for the id
    members,    \* name -> beads of lane_members
    laneLog,    \* name -> type -> how many lane_events
    lastList,   \* name -> the list of the last sync that succeeded
    sync        \* syncer -> its open transaction

laneVars == <<lanes, members, laneLog, lastList, sync>>

LanesInit ==
    /\ lanes = [n \in LaneNames |-> "none"]
    /\ members = [n \in LaneNames |-> {}]
    /\ laneLog = [n \in LaneNames |-> [e \in LaneEvents |-> 0]]
    /\ lastList = [n \in LaneNames |-> {}]
    /\ sync = [p \in Syncers |-> NoSync]

Listed(list) == {list[i] : i \in DOMAIN list}

\* The other open transactions read before this commit.
Outdated(done) ==
    [p \in Syncers |-> IF p \in done \/ sync[p] = NoSync THEN NoSync
                       ELSE [sync[p] EXCEPT !.stale = TRUE]]

CreateLane(n) ==
    /\ lanes[n] = "none"
    /\ lanes' = [lanes EXCEPT ![n] = "active"]
    /\ laneLog' = [laneLog EXCEPT ![n]["created"] = @ + 1]
    /\ sync' = Outdated({})
    /\ UNCHANGED <<members, lastList>>

CloseLane(n) ==
    /\ lanes[n] = "active"
    /\ lanes' = [lanes EXCEPT ![n] = "closed"]
    /\ laneLog' = [laneLog EXCEPT ![n]["closed"] = @ + 1]
    /\ sync' = Outdated({})
    /\ UNCHANGED <<members, lastList>>

\* The intent is text nothing here depends on, but its write outdates open transactions.
UpdateLane(n) ==
    /\ lanes[n] # "none"
    /\ sync' = Outdated({})
    /\ UNCHANGED <<lanes, members, laneLog, lastList>>

\* The transaction reads the members the lane has, closed or not.
SyncRead(p, n) ==
    /\ sync[p] = NoSync
    /\ lanes[n] # "none"
    /\ laneLog[n]["snapshot"] < MaxSyncs
    /\ \E list \in {<<b>> : b \in Beads} \cup (Beads \X Beads) :
          sync' = [sync EXCEPT ![p] =
              [lane |-> n, list |-> list, read |-> members[n], stale |-> FALSE]]
    /\ UNCHANGED <<lanes, members, laneLog, lastList>>

\* A write on a snapshot somebody has moved on from is let through.
SnapshotHolds_Blind(p) == TRUE

SnapshotHolds(p) == ~sync[p].stale

\* A name listed twice breaks the primary key when it is new.
NewTwice(p) ==
    \E i, j \in DOMAIN sync[p].list :
        i # j /\ sync[p].list[i] = sync[p].list[j] /\ sync[p].list[i] \notin sync[p].read

Synced(p) ==
    (members[sync[p].lane] \cup (Listed(sync[p].list) \ sync[p].read))
        \ (sync[p].read \ Listed(sync[p].list))

SyncCommit(p) ==
    LET n == sync[p].lane IN
    /\ sync[p] # NoSync /\ SnapshotHolds(p) /\ ~NewTwice(p)
    /\ laneLog[n]["snapshot"] < MaxSyncs
    /\ members' = [members EXCEPT ![n] = Synced(p)]
    /\ laneLog' = [laneLog EXCEPT ![n]["snapshot"] = @ + 1]
    /\ lastList' = [lastList EXCEPT ![n] = Listed(sync[p].list)]
    /\ sync' = Outdated({p})
    /\ UNCHANGED lanes

\* Everything is rolled back.
SyncFails(p) ==
    /\ sync[p] # NoSync /\ (NewTwice(p) \/ ~SnapshotHolds(p))
    /\ sync' = [sync EXCEPT ![p] = NoSync]
    /\ UNCHANGED <<lanes, members, laneLog, lastList>>

Removals(n) == laneLog[n]["bead_removed"]

\* Three points a member over the removals, which count as a tenth when there are none.
Starvation(n) ==
    LET weight == 3 * Cardinality(members[n])
    IN  IF Removals(n) = 0 THEN [num |-> 10 * weight, den |-> 1]
        ELSE [num |-> weight, den |-> Removals(n)]

\* The order of ic lane velocity.
MoreStarved(m, n) ==
    Starvation(m).num * Starvation(n).den > Starvation(n).num * Starvation(m).den

ActiveLanes == {n \in LaneNames : lanes[n] = "active"}

LanesNext ==
    \/ \E n \in LaneNames : CreateLane(n) \/ CloseLane(n) \/ UpdateLane(n)
    \/ \E p \in Syncers :
          (\E n \in LaneNames : SyncRead(p, n)) \/ SyncCommit(p) \/ SyncFails(p)

LanesSpec == LanesInit /\ [][LanesNext]_laneVars

---------------------------------------------------------------------------

\* A lane has the members of the last list committed for it and no others, however
\* two syncs of it overlap (SnapshotMembers replaces the member set).
MembersAreLastList == \A n \in LaneNames : members[n] = lastList[n]

\* No command records a removal, so the report of ic lane velocity ranks lanes by
\* nothing but the number of their members.
RankedBySize ==
    \A m, n \in ActiveLanes : MoreStarved(m, n) => Cardinality(members[m]) > Cardinality(members[n])

\* Not kept: velocity.go:95 says throughput comes from the events bead_removed or snapshot;
\* the count takes the removals alone, and a sync that takes beads out leaves a snapshot.
SnapshotsCount ==
    \A n \in ActiveLanes : Removals(n) = laneLog[n]["bead_removed"] + laneLog[n]["snapshot"]
=============================================================================
