------------------------------ MODULE Publish ------------------------------
(****************************************************************************)
(* Publishing one plugin (internal/publish, cmd/ic/publish.go): processes   *)
(* of one machine share a clone of the plugin, a clone of the marketplace,  *)
(* a peer clone of it and the publish_state table; other machines push to   *)
(* the same remotes. A version is a number, and a repository is the         *)
(* version its plugin or its entry carries.                                 *)
(****************************************************************************)
EXTENDS Integers, Sequences, FiniteSets, SequencesExt, FiniteSetsExt

CONSTANTS
    Publishers,  \* processes running ic publish commands on this machine
    MaxVersion,  \* bound on versions
    MaxLeaked    \* bound on processes that die or fail to delete their row

ASSUME PublishAssumption ==
    /\ MaxVersion \in Nat \ {0} /\ MaxLeaked \in Nat
    /\ IsFiniteSet(Publishers) /\ "nobody" \notin Publishers

VARIABLES
    remote,   \* [plugin, market]: the version at the head of each remote
    plug,     \* the plugin's clone: worktree, head, the remote head it is based on, and
              \* whether the commits it has not pushed hold a rollback
    mkt,      \* the marketplace's clone, likewise
    peer,     \* the peer clone of the marketplace, likewise
    history,  \* versions some commit of the plugin has carried
    rows,     \* unfinished rows of publish_state, oldest first
    pub,      \* what each process is doing
    leaks,    \* processes that died, and deletes of a row that failed
    overlapped  \* two processes of this machine have been past the lock at once

pubVars == <<remote, plug, mkt, peer, history, rows, pub, leaks, overlapped>>

Versions == 1..MaxVersion
NoVersion == 0
Nobody == "nobody"
At(p) == pub[p].at
PubGoto(p, at) == pub' = [pub EXCEPT ![p].at = at]
Resting == [at |-> "idle", auto |-> FALSE, sync |-> FALSE, target |-> NoVersion]
InFlight == {p \in Publishers : At(p) \notin {"idle", "lock"}}
Clone(v) == [wt |-> v, head |-> v, base |-> v, undo |-> FALSE]

PubInit ==
    /\ remote = [plugin |-> 1, market |-> 1]
    /\ plug = Clone(1) /\ mkt = Clone(1) /\ peer = Clone(1)
    /\ history = {1}
    /\ rows = <<>>
    /\ pub = [p \in Publishers |-> Resting]
    /\ leaks = 0
    /\ overlapped = FALSE

---------------------------------------------------------------------------
(* Git *)

\* GitStatus: nothing uncommitted.
CleanTree(c) == c.wt = c.head

Ahead(c) == c.head # c.base

\* GitPullRebase and GitPullFFOnly: a clean clone that holds no commit of its own takes the remote's
\* head; a commit of its own changes the line the remote changed, so it conflicts and is aborted.
CanPull(c, head) == CleanTree(c) /\ (c.base = head \/ ~Ahead(c))
Pulled(c, head) == IF c.base = head THEN c ELSE Clone(head)

CanPush_Forced(c, head) == TRUE

\* GitPush never forces: only a clone based on the remote's head advances it.
CanPush(c, head) == c.base = head

PushedClone(c) == [c EXCEPT !.base = c.head, !.undo = FALSE]

---------------------------------------------------------------------------
(* Discovery and lock *)

\* Discovery reads the manifest of the worktree and the marketplace's entry. An --auto run that finds
\* the marketplace behind only syncs it, as does one asked for the version already written.
Discover(p, auto, v) ==
    /\ At(p) = "idle"
    /\ LET current == plug.wt
           behind == current > mkt.wt
           target == IF ~auto THEN v ELSE IF behind THEN current ELSE current + 1
           sync == behind /\ (auto \/ target = current)
       IN  /\ target \in Versions
           /\ sync \/ target # current
           /\ pub' = [pub EXCEPT ![p] = [at |-> "lock", auto |-> auto, sync |-> sync, target |-> target]]
    /\ UNCHANGED <<remote, plug, mkt, peer, history, rows, leaks>>

\* The newest unfinished row stops an interactive run unless it is stale; an --auto run deletes it.
\* A publish that spends an hour in one phase is taken for stale too: the age of its row is left open.
LockFree(p) == rows = <<>>
LockBroken(p) == rows # <<>> /\ (pub[p].auto \/ Last(rows).stale \/ Last(rows).owner # Nobody)

TakeLock(p) ==
    /\ At(p) = "lock"
    /\ LockFree(p) \/ LockBroken(p)
    /\ rows' = IF rows = <<>> THEN rows ELSE Front(rows)
    /\ PubGoto(p, "create")
    /\ UNCHANGED <<remote, plug, mkt, peer, history, leaks>>

ActivePublish(p) ==
    /\ At(p) = "lock"
    /\ rows # <<>> /\ ~pub[p].auto /\ ~Last(rows).stale
    /\ pub' = [pub EXCEPT ![p] = Resting]
    /\ UNCHANGED <<remote, plug, mkt, peer, history, rows, leaks>>

\* The insert is another statement than the lookup, and its failure is only a warning.
CreateRow(p, tracked) ==
    /\ At(p) = "create"
    /\ rows' = IF tracked THEN Append(rows, [owner |-> p, stale |-> FALSE]) ELSE rows
    /\ PubGoto(p, IF pub[p].sync THEN "verify" ELSE "validate")
    /\ UNCHANGED <<remote, plug, mkt, peer, history, leaks>>

\* The rows a process leaves when it returns: without its own, if that is still there.
OwnRows(p) == {k \in DOMAIN rows : rows[k].owner = p}
RowsWithout(p) == IF OwnRows(p) = {} THEN rows ELSE RemoveAt(rows, CHOOSE k \in OwnRows(p) : TRUE)

\* The row of p is left behind.
RowLeaked(p) == [k \in DOMAIN rows |-> IF rows[k].owner = p THEN [rows[k] EXCEPT !.owner = Nobody] ELSE rows[k]]

\* The row goes when a publish returns, unless the statement that clears it fails, which is only warned
\* about (the deferred delete) or ignored (Complete).
Return(p) ==
    /\ pub' = [pub EXCEPT ![p] = Resting]
    /\ \/ rows' = RowsWithout(p) /\ UNCHANGED leaks
       \/ /\ OwnRows(p) # {} /\ leaks < MaxLeaked
          /\ leaks' = leaks + 1
          /\ rows' = RowLeaked(p)

MayFail == {"verify", "validate", "bump", "commit", "pull", "push", "mpull",
            "mwrite", "mcommit", "mpush"}

\* A step that returns an error: a validator, a hook, a remote, a required check that failed.
StepFails(p) ==
    /\ At(p) \in MayFail
    /\ Return(p)
    /\ UNCHANGED <<remote, plug, mkt, peer, history>>

---------------------------------------------------------------------------
(* Validation *)

\* A sync is refused when the version in the worktree is not the committed one.
VerifyCommitted(p) ==
    /\ At(p) = "verify"
    /\ plug.head = pub[p].target
    /\ PubGoto(p, "mpull")
    /\ UNCHANGED <<remote, plug, mkt, peer, history, rows, leaks>>

Validate(p) ==
    /\ At(p) = "validate"
    /\ CleanTree(plug) /\ CleanTree(mkt)
    /\ PubGoto(p, "bump")
    /\ UNCHANGED <<remote, plug, mkt, peer, history, rows, leaks>>

---------------------------------------------------------------------------
(* The plugin's repository *)

Bump(p) ==
    /\ At(p) = "bump"
    /\ plug' = [plug EXCEPT !.wt = pub[p].target]
    /\ PubGoto(p, "commit")
    /\ UNCHANGED <<remote, mkt, peer, history, rows, leaks>>

\* Nothing to commit is a failure of git commit.
CommitPlugin(p) ==
    /\ At(p) = "commit"
    /\ ~CleanTree(plug)
    /\ plug' = [plug EXCEPT !.head = plug.wt]
    /\ history' = history \cup {plug.wt}
    /\ PubGoto(p, "pull")
    /\ UNCHANGED <<remote, mkt, peer, rows, leaks>>

PullPlugin(p) ==
    /\ At(p) = "pull"
    /\ CanPull(plug, remote.plugin)
    /\ plug' = Pulled(plug, remote.plugin)
    /\ PubGoto(p, "push")
    /\ UNCHANGED <<remote, mkt, peer, history, rows, leaks>>

PushPlugin(p) ==
    /\ At(p) = "push"
    /\ CanPush(plug, remote.plugin)
    /\ remote' = [remote EXCEPT !.plugin = plug.head]
    /\ plug' = PushedClone(plug)
    /\ PubGoto(p, "mpull")
    /\ UNCHANGED <<mkt, peer, history, rows, leaks>>

---------------------------------------------------------------------------
(* The marketplace *)

\* Pull, then read again: a version at or past the target is left, and a commit
\* an earlier run could not push is pushed.
PullMarket(p) ==
    /\ At(p) = "mpull"
    /\ CanPull(mkt, remote.market)
    /\ mkt' = Pulled(mkt, remote.market)
    /\ PubGoto(p, IF mkt'.wt < pub[p].target THEN "mwrite" ELSE IF Ahead(mkt') THEN "mpush" ELSE "peers")
    /\ UNCHANGED <<remote, plug, peer, history, rows, leaks>>

WriteMarket(p) ==
    /\ At(p) = "mwrite"
    /\ mkt' = [mkt EXCEPT !.wt = pub[p].target]
    /\ PubGoto(p, "mcommit")
    /\ UNCHANGED <<remote, plug, peer, history, rows, leaks>>

CommitMarket(p) ==
    /\ At(p) = "mcommit"
    /\ ~CleanTree(mkt)
    /\ mkt' = [mkt EXCEPT !.head = mkt.wt]
    /\ PubGoto(p, "mpush")
    /\ UNCHANGED <<remote, plug, peer, history, rows, leaks>>

\* The gated push advances the branch to the clone's head.
PushMarket(p) ==
    /\ At(p) = "mpush"
    /\ CanPush(mkt, remote.market)
    /\ remote' = [remote EXCEPT !.market = mkt.head]
    /\ mkt' = PushedClone(mkt)
    /\ PubGoto(p, "peers")
    /\ UNCHANGED <<plug, peer, history, rows, leaks>>

\* SyncPeerMarketplaces on the peer: fast-forward it; then write only over an older version, commit
\* and push; a commit it still holds is pushed. It may fail after each of these (upto): what was
\* written or committed stays, with a warning.
PeerPulled == IF CleanTree(peer) /\ ~Ahead(peer) THEN Clone(remote.market) ELSE peer
PeerWritten(v, upto) ==
    IF PeerPulled.wt >= v THEN PeerPulled
    ELSE IF upto = "write" THEN [PeerPulled EXCEPT !.wt = v]
    ELSE [PeerPulled EXCEPT !.wt = v, !.head = v]

SyncPeer(v, upto) ==
    LET c == PeerWritten(v, upto)
    IN  IF upto = "push" /\ Ahead(c) /\ CanPush(c, remote.market)
        THEN /\ remote' = [remote EXCEPT !.market = c.head]
             /\ peer' = PushedClone(c)
        ELSE /\ peer' = c
             /\ UNCHANGED remote

\* SyncCCMarketplace is warned about, and nothing after it fails.
Peers(p, upto) ==
    /\ At(p) = "peers"
    /\ SyncPeer(pub[p].target, upto)
    /\ PubGoto(p, "done")
    /\ UNCHANGED <<plug, mkt, history, rows, leaks>>

\* Complete moves the row to its last phase: it is no longer active.
Done(p) ==
    /\ At(p) = "done"
    /\ Return(p)
    /\ UNCHANGED <<remote, plug, mkt, peer, history>>

---------------------------------------------------------------------------
(* RollbackPublish and unlock *)

\* rollbackLocalState and the commit, for a version the cache retains.
RollbackPublish(p, v) ==
    /\ At(p) = "idle"
    /\ v \in history \ {mkt.wt}
    /\ mkt' = [mkt EXCEPT !.wt = v, !.head = v, !.undo = TRUE]
    /\ pub' = [pub EXCEPT ![p].at = "rpush", ![p].target = v]
    /\ UNCHANGED <<remote, plug, peer, history, rows, leaks>>

\* Pull and push, whose failures are warnings; then the peers.
RollbackPush(p, pushes) ==
    /\ At(p) = "rpush"
    /\ LET landed == pushes /\ CanPull(mkt, remote.market) /\ CanPush(mkt, remote.market)
       IN  /\ remote' = IF landed THEN [remote EXCEPT !.market = mkt.head] ELSE remote
           /\ mkt' = IF landed THEN PushedClone(mkt) ELSE mkt
    /\ PubGoto(p, "rpeer")
    /\ UNCHANGED <<plug, peer, history, rows, leaks>>

RollbackEnds(p, upto) ==
    /\ At(p) = "rpeer"
    /\ SyncPeer(pub[p].target, upto)
    /\ pub' = [pub EXCEPT ![p] = Resting]
    /\ UNCHANGED <<plug, mkt, history, rows, leaks>>

\* ic publish unlock deletes every unfinished row, whoever it belongs to.
Unlock(p) ==
    /\ At(p) = "idle"
    /\ rows # <<>>
    /\ rows' = <<>>
    /\ UNCHANGED <<remote, plug, mkt, peer, history, pub, leaks>>

---------------------------------------------------------------------------
(* Around the commands *)

\* A killed process runs no deferred call.
Dies(p) ==
    /\ At(p) # "idle" /\ leaks < MaxLeaked
    /\ leaks' = leaks + 1
    /\ pub' = [pub EXCEPT ![p] = Resting]
    /\ rows' = RowLeaked(p)
    /\ UNCHANGED <<remote, plug, mkt, peer, history>>

\* A row nobody moves on has its error recorded, or an hour passes without an update.
Ages(k) ==
    /\ rows[k].owner = Nobody /\ ~rows[k].stale
    /\ rows' = [rows EXCEPT ![k].stale = TRUE]
    /\ UNCHANGED <<remote, plug, mkt, peer, history, pub, leaks>>

\* Another machine publishes the next version.
OtherMachine ==
    /\ remote.plugin < MaxVersion
    /\ LET v == remote.plugin + 1
       IN  /\ remote' = [plugin |-> v, market |-> IF remote.market < v THEN v ELSE remote.market]
           /\ history' = history \cup {v}
    /\ UNCHANGED <<plug, mkt, peer, rows, pub, leaks>>

\* A person undoes what a failed publish left in the clones.
Reset ==
    /\ InFlight = {}
    /\ ~CleanTree(plug) \/ ~CleanTree(mkt)
    /\ plug' = [plug EXCEPT !.wt = plug.head]
    /\ mkt' = [mkt EXCEPT !.wt = mkt.head]
    /\ UNCHANGED <<remote, peer, history, rows, pub, leaks>>

PubStep(p) ==
    \/ \E auto \in BOOLEAN, v \in Versions : (auto => v = 1) /\ Discover(p, auto, v)
    \/ TakeLock(p) \/ ActivePublish(p)
    \/ \E tracked \in BOOLEAN : CreateRow(p, tracked)
    \/ StepFails(p) \/ VerifyCommitted(p) \/ Validate(p)
    \/ Bump(p) \/ CommitPlugin(p) \/ PullPlugin(p) \/ PushPlugin(p)
    \/ PullMarket(p) \/ WriteMarket(p) \/ CommitMarket(p) \/ PushMarket(p)
    \/ \E upto \in {"write", "commit", "push"} : Peers(p, upto) \/ RollbackEnds(p, upto)
    \/ \E ok \in BOOLEAN : RollbackPush(p, ok)
    \/ \E v \in Versions : RollbackPublish(p, v)
    \/ Done(p) \/ Unlock(p) \/ Dies(p)

PubNext ==
    /\ \/ \E p \in Publishers : PubStep(p)
       \/ \E k \in DOMAIN rows : Ages(k)
       \/ OtherMachine \/ Reset
    /\ overlapped' = (overlapped \/ \E p, q \in InFlight' : p # q)

PubSpec == PubInit /\ [][PubNext]_pubVars

---------------------------------------------------------------------------
(* Properties *)

\* An unfinished row belongs to a publish that is running, or was left by one that
\* died or whose delete failed, and each of these leaves one: however publishes
\* overlap, fail, break and unlock, no other blocks the next (GetActive and the
\* deferred delete of Publish, engine.go:183-236).
LockExplained ==
    /\ \A k \in DOMAIN rows : rows[k].owner = Nobody \/ rows[k].owner \in InFlight
    /\ Cardinality({k \in DOMAIN rows : rows[k].owner = Nobody}) <= leaks
    /\ \A j, k \in DOMAIN rows : rows[j].owner = rows[k].owner /\ j # k => rows[k].owner = Nobody

\* Until two publishes overlap, the marketplace advertises only versions some
\* commit of the plugin carries (the comment on the sync-only path), across
\* failed, killed and retried publishes.
AdvertisedCommitted == overlapped \/ remote.market \in history

\* Until two publishes overlap, only a rollback, pushed by its own command or left
\* in the clone for a later one, takes the marketplace to an older version,
\* although clones are stale and hold commits of earlier runs
\* (UpdateMarketplaceAndPublish, SyncPeerMarketplaces).
NeverDowngraded == [][remote'.market < remote.market => mkt.undo \/ overlapped]_pubVars

\* ErrActivePublish: two interactive publishes are never past the lock together
\* ("a genuinely-running publish in another terminal is never stomped").
OneInteractive ==
    \A p, q \in InFlight : p # q /\ "rpush" \notin {At(p), At(q)} /\ "rpeer" \notin {At(p), At(q)}
                            => pub[p].auto \/ pub[q].auto

\* The state has its type.
PubTypeOK ==
    LET Repo == [wt : Versions, head : Versions, base : Versions, undo : BOOLEAN]
    IN  /\ remote \in [plugin : Versions, market : Versions]
        /\ {plug, mkt, peer} \subseteq Repo
        /\ history \subseteq Versions
        /\ Len(rows) <= Cardinality(Publishers) + leaks
        /\ \A p \in Publishers : pub[p].target \in Versions \cup {NoVersion}
        /\ leaks \in 0..MaxLeaked

\* What users are offered is what was committed, never older unless rolled back, and
\* the lock of a publish that is over needs a death or a failed delete.
MarketSound == [](PubTypeOK /\ AdvertisedCommitted /\ LockExplained) /\ NeverDowngraded
=============================================================================
