------------------------------ MODULE Records -------------------------------
(****************************************************************************)
(* Components whose tables promise something together: the readers that     *)
(* keep their place in a table of their own (consumers of one log, and the  *)
(* relay from the logs of projects); marks that are made once (state        *)
(* entries, budget flags, sentinels); and ledgers of what was reported      *)
(* (sessions, landed commits, lanes).                                       *)
(****************************************************************************)
EXTENDS EventLog, PortfolioRelay, StateStore, Budget, Sentinel, Lanes, WorkLog

\* No reader's cursor gets ahead of what it was given: neither a consumer's of
\* the event log nor the relay's of a project (cmd/ic/events.go, relay.go).
CursorsHonest == AtLeastOnce /\ NothingSkipped

\* A mark is made once, when it is due, and lasts as long as it should: budget
\* crossings, sentinel claims and state entries.
MarksKept == [](CrossingRecorded /\ ClaimsApart) /\ PruneUnseen /\ DurableStays

\* What sessions, lanes and landed commits add up to is what was reported of
\* them, and a landed commit is not attributed anew (store.go of each).
LedgersKept ==
    [][ /\ (TokensKept /\ CurrentIsLast /\ MembersAreLastList /\ RankedBySize)'
        /\ LandedFrozen ]_<<laneVars, workLogVars>>
=============================================================================
