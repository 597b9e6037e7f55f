---------------------------- MODULE PluginCache ----------------------------
(****************************************************************************)
(* What a publish leaves on the machine (internal/publish/cache.go,         *)
(* installed.go, canary.go, doctor.go): the cached version directories of   *)
(* one plugin, the installed record, the marketplace's entry and the        *)
(* release canary, changed by publishes, rollbacks, cleans and doctor runs  *)
(* one after the other while the host and its sessions go on. No other      *)
(* machine publishes this plugin: for that, see Publish.                    *)
(****************************************************************************)
EXTENDS Integers, FiniteSets, FiniteSetsExt

CONSTANT MaxRelease  \* bound on versions

ASSUME CacheAssumption == MaxRelease \in Nat \ {0}

VARIABLES
    dirs,      \* versions with a directory in the cache
    marked,    \* directories that carry an .orphaned_at marker
    aged,      \* those of them whose marker is older than a day
    held,      \* versions a process executes out of
    source,    \* the plugin's version
    market,    \* the version marketplace.json advertises
    installed, \* the version installed_plugins.json points at
    canary,    \* the record under watch
    cmd        \* the command that runs: its next step, whether it is a doctor, and what it has read

cacheVars == <<dirs, marked, aged, held, source, market, installed, canary, cmd>>

Releases == 1..MaxRelease
NoRelease == 0
NoCommand == [at |-> "none", doctor |-> FALSE, target |-> NoRelease, prior |-> NoRelease, seen |-> {}]
NoRecord == [version |-> NoRelease, prior |-> NoRelease, status |-> "none"]
CmdAt(step) == cmd.at = step
CmdGoto(step) == cmd' = [cmd EXCEPT !.at = step, !.seen = {}]

CacheInit ==
    /\ dirs = {1} /\ marked = {} /\ aged = {} /\ held = {}
    /\ source = 1 /\ market = 1 /\ installed = 1
    /\ canary = NoRecord
    /\ cmd = NoCommand

---------------------------------------------------------------------------
(* Publish *)

\* rollbackPriorVersion: what the marketplace advertised, unless this run only syncs.
PriorOf(advertised, current, target) == IF advertised # target THEN advertised ELSE current

\* Up to the marketplace's update: a bump, or the sync of a marketplace that is behind.
Release ==
    /\ CmdAt("none")
    /\ LET target == IF market < source THEN source ELSE source + 1
       IN  /\ target \in Releases
           /\ source' = target
           /\ market' = target
           /\ cmd' = [at |-> "build", doctor |-> FALSE, target |-> target,
                      prior |-> PriorOf(market, source, target), seen |-> {}]
    /\ UNCHANGED <<dirs, marked, aged, held, installed, canary>>

\* RebuildCache keeps a directory that is there, marker and all; a failed copy leaves none.
RebuildCache(v, copied) == IF copied THEN dirs \cup {v} ELSE dirs

Build(copied) ==
    /\ CmdAt("build")
    /\ dirs' = RebuildCache(cmd.target, copied)
    /\ CmdGoto("install")
    /\ UNCHANGED <<marked, aged, held, source, market, installed, canary>>

UpdateInstalled(written) ==
    /\ CmdAt("install")
    /\ installed' = IF written THEN cmd.target ELSE installed
    /\ CmdGoto("read")
    /\ UNCHANGED <<dirs, marked, aged, held, source, market, canary>>

---------------------------------------------------------------------------
(* Sweeps *)

PruneCandidates_Blind(protect) == dirs \ ({protect} \cup marked)

\* pruneCandidates with keep = 1: every directory but the installed version's, the protected one's
\* and the marked ones; nothing when there is neither an installed nor a protected version.
PruneCandidates(protect) ==
    IF installed = NoRelease /\ protect = NoRelease THEN {}
    ELSE dirs \ ({installed, protect} \cup marked)

\* The version the prune of this command protects besides the installed one.
Protected == IF cmd.target # NoRelease THEN cmd.target ELSE market

\* The candidates are computed, then the process table read: a sweep goes over what it
\* found deletable, or over nothing when the table cannot be read.
ReadForPrune(readable) ==
    /\ CmdAt("read")
    /\ cmd' = [cmd EXCEPT !.at = "prune", !.seen = IF readable THEN PruneCandidates(Protected) \ held ELSE {}]
    /\ UNCHANGED <<dirs, marked, aged, held, source, market, installed, canary>>

Prune ==
    /\ CmdAt("prune")
    /\ dirs' = dirs \ cmd.seen
    /\ CmdGoto(IF cmd.doctor THEN "hooks" ELSE IF cmd.target = NoRelease THEN "none" ELSE "orphans")
    /\ UNCHANGED <<marked, aged, held, source, market, installed, canary>>

\* cleanOrphansIn: the table is read first, then the markers are walked; a publish spares the
\* markers younger than a day.
ReadForOrphans ==
    /\ CmdAt("orphans")
    /\ \E unread \in {{}, dirs} : cmd' = [cmd EXCEPT !.at = "walk", !.seen = held \cup unread]
    /\ UNCHANGED <<dirs, marked, aged, held, source, market, installed, canary>>

CleanOrphans ==
    /\ CmdAt("walk")
    /\ LET gone == (IF cmd.target = NoRelease THEN marked ELSE aged) \ cmd.seen
       IN  /\ dirs' = dirs \ gone
           /\ marked' = marked \ gone
           /\ aged' = aged \ gone
    /\ CmdGoto(IF cmd.doctor THEN "missing" ELSE IF cmd.target = NoRelease THEN "read" ELSE "canary")
    /\ UNCHANGED <<held, source, market, installed, canary>>

\* ic publish clean: the orphans at any age, then the prune.
Clean ==
    /\ CmdAt("none")
    /\ cmd' = [NoCommand EXCEPT !.at = "orphans"]
    /\ UNCHANGED <<dirs, marked, aged, held, source, market, installed, canary>>

---------------------------------------------------------------------------
(* Canary and rollback *)

\* One live canary per plugin: the newest release replaces any older record.
RegisterCanary(written) ==
    /\ CmdAt("canary")
    /\ canary' = IF written THEN [version |-> cmd.target, prior |-> cmd.prior, status |-> "pending"] ELSE canary
    /\ cmd' = [NoCommand EXCEPT !.at = "done"]
    /\ UNCHANGED <<dirs, marked, aged, held, source, market, installed>>

Published ==
    /\ CmdAt("done")
    /\ cmd' = NoCommand
    /\ UNCHANGED <<dirs, marked, aged, held, source, market, installed, canary>>

\* resolveRollbackTarget: the recorded prior when its directory is kept, else the newest older one.
Retained == dirs \ (marked \cup {market})
Older == {v \in Retained : v < market}
RollbackTarget == IF canary.prior \in Retained THEN canary.prior
                  ELSE IF Older # {} THEN Max(Older) ELSE NoRelease

\* The local state, then the record; the pushes between them are warnings.
Rollback ==
    /\ CmdAt("none")
    /\ RollbackTarget # NoRelease
    /\ market' = RollbackTarget
    /\ installed' = RollbackTarget
    /\ canary' = IF canary = NoRecord THEN canary ELSE [canary EXCEPT !.status = "rolled_back"]
    /\ UNCHANGED <<dirs, marked, aged, held, source, cmd>>

---------------------------------------------------------------------------
(* doctor --fix *)

\* The checks go by the versions read first. With a checkout of the plugin (found), a marketplace
\* behind it is moved forward; an installed version that is not the marketplace's is repointed.
\* Errors of either write are ignored.
DoctorFix(found) ==
    /\ CmdAt("none")
    /\ LET drift == installed \notin {NoRelease, market}
       IN  /\ market' \in IF found /\ market < source THEN {market, source} ELSE {market}
           /\ installed' \in IF drift THEN {market, installed} ELSE {installed}
           /\ cmd' = [NoCommand EXCEPT !.at = IF drift /\ found THEN "force" ELSE "orphans",
                                       !.doctor = TRUE, !.prior = market]
    /\ UNCHANGED <<dirs, marked, aged, held, source, canary>>

\* ForceRebuildCache removes the directory without a look at the process table, then copies the
\* checkout; what a failing copy leaves may be there or not, and the failure is ignored.
ForceRemove(v, next) ==
    /\ dirs' = dirs \ {v} /\ marked' = marked \ {v} /\ aged' = aged \ {v}
    /\ CmdGoto(next)
    /\ UNCHANGED <<held, source, market, installed, canary>>

ForceCopy(v, next) ==
    /\ dirs' \in {dirs, dirs \cup {v}}
    /\ CmdGoto(next)
    /\ UNCHANGED <<marked, aged, held, source, market, installed, canary>>

\* The installed version that drifted is rebuilt; then orphans and stale versions go the way Clean
\* has them, and between the two a directory the installed record misses is rebuilt.
RebuildDrifted ==
    \/ CmdAt("force") /\ ForceRemove(cmd.prior, "copy")
    \/ CmdAt("copy") /\ ForceCopy(cmd.prior, "orphans")

RebuildMissing(copied) ==
    /\ CmdAt("missing")
    /\ dirs' = IF installed \notin dirs \cup {NoRelease} THEN RebuildCache(cmd.prior, copied) ELSE dirs
    /\ CmdGoto("read")
    /\ UNCHANGED <<marked, aged, held, source, market, installed, canary>>

\* Last, a manifest that declares the standard hooks is corrected and its version rebuilt.
CheckHooks ==
    \/ /\ CmdAt("hooks")
       /\ cmd' \in {NoCommand, [cmd EXCEPT !.at = "hookforce"]}
       /\ UNCHANGED <<dirs, marked, aged, held, source, market, installed, canary>>
    \/ CmdAt("hookforce") /\ ForceRemove(source, "hookcopy")
    \/ CmdAt("hookcopy") /\ ForceCopy(source, "done")

---------------------------------------------------------------------------
(* How commands end *)

\* A command killed, or failing where failing stops it.
CommandDies ==
    /\ ~CmdAt("none")
    /\ cmd' = NoCommand
    /\ UNCHANGED <<dirs, marked, aged, held, source, market, installed, canary>>

---------------------------------------------------------------------------
(* The host and its sessions *)

\* The session-start check of the pending record.
CheckCanary(passed) ==
    /\ canary.status = "pending"
    /\ canary' = [canary EXCEPT !.status = IF passed THEN "passed" ELSE "failed"]
    /\ UNCHANGED <<dirs, marked, aged, held, source, market, installed, cmd>>

SessionStarts ==
    /\ installed \in dirs
    /\ held' = held \cup {installed}
    /\ UNCHANGED <<dirs, marked, aged, source, market, installed, canary, cmd>>

SessionEnds(v) ==
    /\ held' = held \ {v}
    /\ UNCHANGED <<dirs, marked, aged, source, market, installed, canary, cmd>>

\* The host marks a version it has superseded.
MarkOrphan(v) ==
    /\ v \notin {installed, market} /\ installed # NoRelease
    /\ marked' = marked \cup {v}
    /\ UNCHANGED <<dirs, aged, held, source, market, installed, canary, cmd>>

\* No command takes a day.
DayPasses ==
    /\ CmdAt("none")
    /\ aged' = marked
    /\ UNCHANGED <<dirs, marked, held, source, market, installed, canary, cmd>>

\* installed_plugins.json in the middle of a rewrite, and after it: the marketplace's version.
HostRewrites ==
    /\ IF installed # NoRelease
       THEN installed' = NoRelease /\ UNCHANGED <<dirs, marked, aged>>
       ELSE /\ installed' = market
            /\ dirs' = dirs \cup {market}
            /\ marked' = marked \ {market} /\ aged' = aged \ {market}
    /\ UNCHANGED <<held, source, market, canary, cmd>>

CacheNext ==
    \/ Release \/ Prune \/ CleanOrphans \/ Clean \/ Published \/ Rollback \/ CommandDies
    \/ RebuildDrifted \/ CheckHooks
    \/ \E ok \in BOOLEAN : \/ Build(ok) \/ UpdateInstalled(ok) \/ ReadForPrune(ok)
                           \/ RegisterCanary(ok) \/ CheckCanary(ok)
                           \/ DoctorFix(ok) \/ RebuildMissing(ok)
    \/ ReadForOrphans \/ SessionStarts \/ HostRewrites \/ DayPasses
    \/ \E v \in dirs : SessionEnds(v) \/ MarkOrphan(v)

CacheSpec == CacheInit /\ [][CacheNext]_cacheVars

---------------------------------------------------------------------------
(* Properties *)

\* The step of a doctor that removes a directory to rebuild it.
Forced == cmd.at \in {"force", "hookforce"}

\* A sweep removes neither the installed version nor one a process executes out
\* of, unless the host had marked it, although the record and the process table
\* are read before the deletion and both move meanwhile; only a doctor's forced
\* rebuild does (pruneStaleVersions and cleanOrphansIn, cache.go).
SweepsSpare ==
    [][\A v \in held \cup {installed} : v \in dirs /\ v \notin dirs' => v \in marked \/ Forced]_cacheVars

\* "Version directories a running process is executing out of are kept regardless":
\* "`doctor --fix` reaches this path, so leaving it unguarded would make the
\* interlock bypassable" (cache.go:199-202). The code does not keep this: a forced
\* rebuild of the same doctor asks no process table (cache.go:56).
DoctorSpares == [][\A v \in held : cmd.doctor /\ v \in dirs \ marked => v \in dirs']_cacheVars

\* The canary never names the release itself as the version to go back to
\* (rollbackPriorVersion's comment), on the sync-only path either.
CanaryNamesPrior == canary # NoRecord => canary.prior # canary.version

\* A sweep does not pull a plugin from under a session, and a canary can be gone back from.
CachesSound == SweepsSpare /\ []CanaryNamesPrior

\* The assertion at the end of a publish: the path the installed record points
\* at exists, for a publish that left the directory in place.
InstalledServed ==
    [][CleanOrphans /\ cmd.target \in dirs /\ installed = cmd.target => installed \in dirs']_cacheVars

\* "the canary and the rollback verb are the recovery path": after a publish
\* over an advertised version there is one to go back to.
RollbackPossible ==
    CmdAt("done") /\ ~cmd.doctor /\ canary.status = "pending" /\ market = canary.version => RollbackTarget # NoRelease
=============================================================================
