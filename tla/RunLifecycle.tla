---------------------------- MODULE RunLifecycle ----------------------------
(***************************************************************************)
(* The life of one run with every command of "ic" as a single step: what   *)
(* the phase machine promises.  RunTx, where a command is several          *)
(* transactions of concurrent processes, implements it.                    *)
(*                                                                         *)
(* Two commands promise less than their documentation suggests, and the    *)
(* steps below say so: "ic run cancel" writes the status without checking  *)
(* it again, and "ic run skip" records a phase that was ahead of the run   *)
(* when it was read.  The exit rules of an agency spec may be those of a   *)
(* phase the run has left (AnySpec).                                       *)
(***************************************************************************)
EXTENDS RunRecord

VARIABLE db

AnySpec == {SpecExit[p] : p \in Phase}

-----------------------------------------------------------------------------

Init == db \in InitialRuns

(* ic run advance                                                          *)
Pause(cfg) ==
    /\ MayAdvance(db) /\ Pauses(db, cfg)
    /\ db' = Paused(db, db)

Block(cfg, spec) ==
    /\ MayAdvance(db) /\ Blocks(db, cfg, spec)
    /\ db' = BlockedAt(db, db, cfg, spec)

Advance(cfg, spec) ==
    /\ MayAdvance(db) /\ Passes(db, cfg, spec)
    /\ db' = Advanced(db, db, cfg, spec)

(* ic gate override                                                        *)
OverrideBlock ==
    /\ MayAdvance(db) /\ OverrideRefused(db)
    /\ db' = OverrideBlocked(db, db.phase)

Override ==
    /\ MayAdvance(db) /\ ~OverrideRefused(db)
    /\ db' = Overridden(db, db.phase)

(* ic run rollback: the rewind, then three separate clean-up statements.   *)
Rollback(to) ==
    /\ MayRollback(db, to)
    /\ db' = RolledBack(db, db.phase, to)

CleanArtifacts(to, from) ==
    /\ to < from
    /\ db' = MarkArtifactsRolledBack(db, PhasesBetween(to, from))

CleanDispatches == db' = CancelByRun(db)

CleanAgents == db' = FailAgentsByRun(db)

(* ic run skip: "from" is the phase of the run when the command read it.   *)
Skip(from, target) ==
    /\ target > from /\ ~IsTerminal(target)
    /\ db' = SkipRecorded(db, from, target)

(* ic run cancel: the status, then the event.                              *)
Cancel == db' = Cancelled(db)

CancelEvent(from) == db' = CancelRecorded(db, from)

(* ic run set                                                              *)
Configure(u) ==
    /\ MaySet(db, u)
    /\ db' = Set(db, db, u)

(* What workers report through ic run artifact, ic run agent, ic dispatch. *)
RecordArtifact(p, kind) == db' = ArtifactAdded(db, p, kind)

Report ==
    \/ \E a \in Agents : db' = AgentActive(db, a) \/ db' = AgentDone(db, a)
    \/ \E vs \in SUBSET Verdicts : db' = VerdictsInScope(db, vs)
    \/ \E over \in BOOLEAN : BudgetEnforce /\ db' = TokensReported(db, over)
    \/ \E live \in BOOLEAN : db' = DispatchesLive(db, live)

Next ==
    \/ \E cfg \in Configs : Pause(cfg)
    \/ \E cfg \in Configs, spec \in AnySpec : Block(cfg, spec)
    \/ \E cfg \in Configs, spec \in AnySpec : Advance(cfg, spec)
    \/ OverrideBlock \/ Override
    \/ \E to \in Phase : Rollback(to)
    \/ \E to, from \in Phase : CleanArtifacts(to, from)
    \/ CleanDispatches \/ CleanAgents
    \/ \E from, target \in Phase : Skip(from, target)
    \/ Cancel \/ \E from \in Phase : CancelEvent(from)
    \/ \E p \in Phase, kind \in ArtifactKinds : RecordArtifact(p, kind)
    \/ Report
    \/ \E u \in Settings : Configure(u)

Spec == Init /\ [][Next]_db

=============================================================================
