------------------------------ MODULE FileLock ------------------------------
(****************************************************************************)
(* The file lock (internal/lock/lock.go, cmd/ic/lock.go): one name and      *)
(* scope, a directory made with mkdir and an owner.json inside it. Each     *)
(* system call is a step of its own; processes die anywhere. A lock is      *)
(* stale when its file is old and the process it names is dead. Acts go by  *)
(* the name of the file, so a command can be overtaken between its look at  *)
(* the file and what it does about it.                                      *)
(****************************************************************************)
EXTENDS Integers, FiniteSets

CONSTANTS
    LockProcs,   \* processes that run ic lock, each its own owner and pid
    NoOwner      \* no process: no owner.json, nothing read

ASSUME FileLockAssumption == NoOwner \notin LockProcs

VARIABLES
    dir,      \* the lock directory, its owner.json and its age
    running,  \* the processes that are alive
    at,       \* where each process is in its command
    judged,   \* whose file each process has read
    holding,  \* the processes told that they hold the lock
    broke,    \* history: the breakers that went on to remove the lock of the file last written
    overtaken \* history: whether the lock changed hands, or stayed half changed for
              \* the stale age, while a command was acting on it

flockVars == <<dir, running, at, judged, holding, broke, overtaken>>

NoDir == [made |-> FALSE, file |-> NoOwner, old |-> FALSE, debris |-> FALSE]
FreshDir == [NoDir EXCEPT !.made = TRUE]
HasFile == dir.file # NoOwner
Empty == dir.made /\ ~HasFile /\ ~dir.debris

FileLockInit ==
    /\ dir = NoDir /\ running = LockProcs
    /\ at = [p \in LockProcs |-> "idle"]
    /\ judged = [p \in LockProcs |-> NoOwner]
    /\ holding = {} /\ broke = {} /\ overtaken = FALSE

Goes(p, step) == running' = running /\ at' = [at EXCEPT ![p] = step]
Keep(p) == UNCHANGED <<judged, holding, broke, overtaken>>

\* rmdir succeeds on an empty directory only.
RemoveDir == dir' = IF Empty THEN NoDir ELSE dir
RemoveFile == dir' = [dir EXCEPT !.file = NoOwner, !.old = FALSE]

---------------------------------------------------------------------------
(* Acquire *)

\* Where a process is about to remove something of the lock.
Acting == {"rename", "broken", "rmdir", "unlink", "unmake", "undo", "clean", "cleandir"}

MakeDir(p) ==
    /\ p \in running \ holding
    /\ at[p] \in {"idle", "acquire"}
    /\ \/ /\ ~dir.made
          /\ overtaken' = (overtaken \/ \E q \in running : at[q] \in Acting)
          /\ dir' = FreshDir /\ Goes(p, "made")
       \/ dir.made /\ UNCHANGED <<dir, overtaken>> /\ Goes(p, "exists")
    /\ UNCHANGED <<judged, holding, broke>>

\* Whoever made the directory, the file is written into the one that is there.
WriteOwner(p) ==
    /\ p \in running /\ at[p] = "made"
    /\ \/ /\ dir.made
          /\ dir' = [dir EXCEPT !.file = p, !.old = FALSE]
          /\ holding' = holding \cup {p} /\ broke' = {}
          /\ Goes(p, "idle")
       \/ ~dir.made /\ UNCHANGED <<dir, holding, broke>> /\ Goes(p, "undo")
    /\ UNCHANGED <<judged, overtaken>>

UndoDir(p) ==
    p \in running /\ at[p] = "undo" /\ RemoveDir /\ Goes(p, "acquire") /\ Keep(p)

Dead(q) == q \notin running

\* An old file of a process that is gone.
Breakable(q) == dir.old /\ Dead(q)

\* tryBreakStale reads the file; a directory without one is left alone.
Judge(p) ==
    /\ p \in running /\ at[p] = "exists"
    /\ \/ /\ HasFile /\ Breakable(dir.file)
          /\ judged' = [judged EXCEPT ![p] = dir.file]
          /\ Goes(p, "rename")
       \/ ~(HasFile /\ Breakable(dir.file)) /\ UNCHANGED judged /\ Goes(p, "wait")
    /\ UNCHANGED <<dir, holding, broke, overtaken>>

\* Removing the file, there or not, instead of renaming it.
RenameOwner_Removes(p) ==
    /\ p \in running /\ at[p] = "rename"
    /\ RemoveFile /\ broke' = broke \cup {p}
    /\ Goes(p, "broken")
    /\ judged' = [judged EXCEPT ![p] = NoOwner]
    /\ UNCHANGED <<holding, overtaken>>

\* The rename takes whatever file has the name by now; who finds none has lost to another breaker.
RenameOwner(p) ==
    /\ p \in running /\ at[p] = "rename"
    /\ \/ HasFile /\ dir' = [dir EXCEPT !.file = NoOwner, !.debris = TRUE, !.old = FALSE]
                  /\ broke' = broke \cup {p}
                  /\ Goes(p, "broken")
       \/ ~HasFile /\ UNCHANGED <<dir, broke>> /\ Goes(p, "wait")
    /\ judged' = [judged EXCEPT ![p] = NoOwner]
    /\ UNCHANGED <<holding, overtaken>>

\* The renamed file has a name of its own, so only its breaker removes it.
RemoveRenamed(p) ==
    /\ p \in running /\ at[p] = "broken"
    /\ dir' = [dir EXCEPT !.debris = FALSE, !.old = FALSE]
    /\ Goes(p, "rmdir") /\ Keep(p)

RemoveBroken(p) ==
    /\ p \in running /\ at[p] = "rmdir"
    /\ RemoveDir /\ Goes(p, IF Empty THEN "acquire" ELSE "wait") /\ Keep(p)

\* Retry, or give up at the deadline.
RetryOrTimeout(p) ==
    /\ p \in running /\ at[p] = "wait"
    /\ \E next \in {"acquire", "idle"} : Goes(p, next)
    /\ UNCHANGED dir /\ Keep(p)

---------------------------------------------------------------------------
(* Release *)

MayRelease(p) == dir.file = p

ReadOwner(p) ==
    /\ p \in running /\ at[p] = "idle"
    /\ MayRelease(p)
    /\ Goes(p, "unlink") /\ UNCHANGED dir /\ Keep(p)

Unlink(p) ==
    /\ p \in running /\ at[p] = "unlink"
    /\ RemoveFile /\ holding' = holding \ {p}
    /\ Goes(p, "unmake") /\ UNCHANGED <<judged, broke, overtaken>>

Unmake(p) ==
    p \in running /\ at[p] = "unmake" /\ RemoveDir /\ Goes(p, "idle") /\ Keep(p)

---------------------------------------------------------------------------
(* Clean *)

\* List and Stale: an old file, or an old directory without one.
ListStale(p) ==
    /\ p \in running /\ at[p] = "idle"
    /\ dir.made /\ dir.old
    /\ judged' = [judged EXCEPT ![p] = dir.file]
    /\ Goes(p, "clean") /\ UNCHANGED <<dir, holding, broke, overtaken>>

CleanFile(p) ==
    /\ p \in running /\ at[p] = "clean"
    /\ \/ Dead(judged[p]) /\ RemoveFile /\ Goes(p, "cleandir")
       \/ ~Dead(judged[p]) /\ UNCHANGED dir /\ Goes(p, "idle")
    /\ judged' = [judged EXCEPT ![p] = NoOwner]
    /\ UNCHANGED <<holding, broke, overtaken>>

CleanDir(p) ==
    p \in running /\ at[p] = "cleandir" /\ RemoveDir /\ Goes(p, "idle") /\ Keep(p)

---------------------------------------------------------------------------

\* Where a process has changed the directory and is not done with it.
Between == {"made", "broken", "rmdir", "unmake", "cleandir"}

\* The stale age passes since the file, or without one the directory, changed.
GrowsOld ==
    /\ dir.made /\ ~dir.old
    /\ overtaken' = (overtaken \/ \E p \in running : at[p] \in Between)
    /\ dir' = [dir EXCEPT !.old = TRUE]
    /\ UNCHANGED <<running, at, judged, holding, broke>>

ProcDies(p) ==
    /\ p \in running
    /\ running' = running \ {p}
    /\ at' = [at EXCEPT ![p] = "idle"]
    /\ judged' = [judged EXCEPT ![p] = NoOwner]
    /\ UNCHANGED <<dir, holding, broke, overtaken>>

FileLockNext ==
    \/ \E p \in LockProcs :
          \/ MakeDir(p) \/ WriteOwner(p) \/ UndoDir(p) \/ Judge(p) \/ RenameOwner(p)
          \/ RemoveRenamed(p) \/ RemoveBroken(p) \/ RetryOrTimeout(p)
          \/ ReadOwner(p) \/ Unlink(p) \/ Unmake(p)
          \/ ListStale(p) \/ CleanFile(p) \/ CleanDir(p) \/ ProcDies(p)
    \/ GrowsOld

FileLockSpec == FileLockInit /\ [][FileLockNext]_flockVars

---------------------------------------------------------------------------
(* Properties *)

\* Of the breakers that judged one owner file stale, one alone goes on to remove the lock,
\* however many did and whatever overtakes them: what the rename is for (lock.go:351, "only
\* one goroutine succeeds").
OneBreaker == \A p, q \in broke : p = q

\* One breaker wins, and as long as no command is overtaken, the lock of a live
\* holder names that holder, so no two live processes hold it.
HolderNamed ==
    /\ OneBreaker
    /\ ~overtaken => \A p \in holding \cap running : dir.made /\ dir.file = p

\* Not kept: lock.go:327 says that the rename prevents dual ownership. It goes by the file's name,
\* so a breaker that judged a dead owner's file can take the file of whoever broke that lock before
\* it and has acquired it since.
NoDualOwnership == \A p, q \in holding \cap running : p = q
=============================================================================
