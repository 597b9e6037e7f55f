------------------------------ MODULE PushGate ------------------------------
(****************************************************************************)
(* GitPushGated (internal/publish/gated_push.go): a commit reaches a        *)
(* branch that requires checks only after the checks passed on that very    *)
(* commit, pushed first under a candidate ref. Pushers of one clone and     *)
(* other machines share the remote; the checks start, end and are run       *)
(* again on their own time. Commits of the branch's line are numbered.      *)
(****************************************************************************)
EXTENDS Integers, Sequences, FiniteSets

CONSTANTS
    Pushers,    \* processes pushing from the same clone
    Contexts,   \* checks the branch requires
    MaxCommit,  \* bound on commits
    MaxRuns     \* bound on the runs of one check on one commit

ASSUME GateAssumption == MaxCommit \in Nat \ {0} /\ MaxRuns \in Nat \ {0} /\ Contexts # {}

VARIABLES
    clone,   \* HEAD of the clone
    branch,  \* head of the remote branch
    refs,    \* commits a candidate ref exists for
    left,    \* commits whose ref nobody is known to delete any more: the delete failed, or its pusher is gone
    watched, \* the validating workflow triggers on candidate refs
    runs,    \* per commit and check, its runs in the order the pages list them: the second each
             \* started in, 0 when that cannot be read, and its state
    push     \* per pusher: its step, the commit it pushes, whether a check ever appeared, the deadline
             \* that has passed, and the latest starts in the read that let it go on

gateVars == <<clone, branch, refs, left, watched, runs, push>>

Commits == 1..MaxCommit
Unpushed == [at |-> "idle", sha |-> 1, appeared |-> FALSE, past |-> "none", seen |-> [k \in Contexts |-> 0]]
PushAt(p, step) == push[p].at = step
PushGoto(p, step) == push' = [push EXCEPT ![p].at = step]
Passed == "passed"
RunStates == {"running", Passed, "failed"}

GateInit ==
    /\ clone = 1 /\ branch = 1
    /\ refs = {} /\ left = {}
    /\ watched \in BOOLEAN
    /\ runs = [c \in Commits |-> [k \in Contexts |-> <<>>]]
    /\ push = [p \in Pushers |-> Unpushed]

---------------------------------------------------------------------------
(* The push *)

\* HEAD is read once; everything after is about that commit.
BeginPush(p) ==
    /\ PushAt(p, "idle")
    /\ clone > branch
    /\ push' = [push EXCEPT ![p] = [Unpushed EXCEPT !.at = "candidate", !.sha = clone]]
    /\ UNCHANGED <<clone, branch, refs, left, watched, runs>>

PushCandidate(p) ==
    /\ PushAt(p, "candidate")
    /\ refs' = refs \cup {push[p].sha}
    /\ PushGoto(p, "fetch")
    /\ UNCHANGED <<clone, branch, left, watched, runs>>

Newest_First(run) == IF run = <<>> THEN {} ELSE {1}

\* mergeCheckRuns: the run of the newest start speaks for a check, whatever the order of the pages; of
\* several that started in one second the one listed last, which can be any.
Newest(run) == {i \in DOMAIN run : \A j \in DOMAIN run : run[j].start <= run[i].start}

LatestStart(run) ==
    IF run = <<>> THEN 0 ELSE run[CHOOSE i \in DOMAIN run : \A j \in DOMAIN run : run[j].start <= run[i].start].start

\* What checkStates may report of a commit: per check the state of a newest run.
State(p, k) ==
    LET run == runs[push[p].sha][k] IN IF Newest(run) = {} THEN {"none"} ELSE {run[i].state : i \in Newest(run)}
States(p) == {st \in [Contexts -> RunStates \cup {"none"}] : \A k \in Contexts : st[k] \in State(p, k)}
Created(st) == {k \in Contexts : st[k] # "none"}
Pending(st) == {k \in Contexts : st[k] \in {"none", "running"}}
Failed(st) == {k \in Contexts : st[k] = "failed"}
Starts(p) == [k \in Contexts |-> LatestStart(runs[push[p].sha][k])]

FetchStates_NoDeadline(p) ==
    /\ PushAt(p, "fetch")
    /\ \E st \in States(p) :
         LET appeared == push[p].appeared \/ Created(st) # {}
             next == IF Failed(st) # {} THEN "clean" ELSE IF Pending(st) = {} THEN "advance"
                     ELSE IF push[p].past # "none" /\ ~appeared THEN "clean" ELSE "sleep"
         IN  push' = [push EXCEPT ![p].at = next, ![p].appeared = appeared,
                                  ![p].seen = IF next = "advance" THEN Starts(p) ELSE @]
    /\ UNCHANGED <<clone, branch, refs, left, watched, runs>>

\* One round of awaitChecks: a failed check ends it, none pending lets the branch be pushed, and a
\* deadline that has passed ends it, the short one only while no check was ever created.
FetchStates(p) ==
    /\ PushAt(p, "fetch")
    /\ \E st \in States(p) :
         LET appeared == push[p].appeared \/ Created(st) # {}
             late == push[p].past = "deadline" \/ (push[p].past = "grace" /\ ~appeared)
             next == IF Failed(st) # {} THEN "clean" ELSE IF Pending(st) = {} THEN "advance"
                     ELSE IF late THEN "clean" ELSE "sleep"
         IN  push' = [push EXCEPT ![p].at = next, ![p].appeared = appeared,
                                  ![p].seen = IF next = "advance" THEN Starts(p) ELSE @]
    /\ UNCHANGED <<clone, branch, refs, left, watched, runs>>

\* Sleep, then read again; the appear grace passes before the deadline.
AwaitPoll(p) ==
    /\ PushAt(p, "sleep")
    /\ \E past \in {push[p].past, "grace", "deadline"} :
          /\ push[p].past = "deadline" => past = "deadline"
          /\ push' = [push EXCEPT ![p].at = "fetch", ![p].past = past]
    /\ UNCHANGED <<clone, branch, refs, left, watched, runs>>

\* The commit that was checked, not HEAD, and never by force: a branch that moved refuses it,
\* and any push may fail. The wait is over either way.
Advance(p) ==
    /\ PushAt(p, "advance")
    /\ \/ push[p].sha > branch /\ branch' = push[p].sha
       \/ UNCHANGED branch
    /\ push' = [push EXCEPT ![p] = [Unpushed EXCEPT !.at = "clean", !.sha = push[p].sha]]
    /\ UNCHANGED <<clone, refs, left, watched, runs>>

\* The deferred delete. Another pusher of the same commit may have deleted their one ref before;
\* a delete that fails leaves it, and is warned about.
DeleteCandidate(p) ==
    /\ PushAt(p, "clean")
    /\ \/ refs' = refs \ {push[p].sha} /\ left' = left \ {push[p].sha}
       \/ left' = left \cup (refs \cap {push[p].sha}) /\ UNCHANGED refs
    /\ push' = [push EXCEPT ![p] = Unpushed]
    /\ UNCHANGED <<clone, branch, watched, runs>>

\* A candidate whose push reports an error has no deferred delete yet, and may be on the remote for all that.
CandidateFails(p) ==
    /\ PushAt(p, "candidate")
    /\ \/ UNCHANGED <<refs, left>>
       \/ refs' = refs \cup {push[p].sha} /\ left' = left \cup {push[p].sha}
    /\ push' = [push EXCEPT ![p] = Unpushed]
    /\ UNCHANGED <<clone, branch, watched, runs>>

\* A read that fails ends the wait.
FetchFails(p) ==
    /\ PushAt(p, "fetch")
    /\ push' = [push EXCEPT ![p] = [Unpushed EXCEPT !.at = "clean", !.sha = push[p].sha]]
    /\ UNCHANGED <<clone, branch, refs, left, watched, runs>>

\* The process is killed: what it deferred is not done.
PusherKilled(p) ==
    /\ ~PushAt(p, "idle")
    /\ left' = left \cup (refs \cap {push[p].sha})
    /\ push' = [push EXCEPT ![p] = Unpushed]
    /\ UNCHANGED <<clone, branch, refs, watched, runs>>

---------------------------------------------------------------------------
(* Around it *)

\* A later commit in the clone, by a publish in another terminal.
CloneCommits ==
    /\ clone < MaxCommit
    /\ clone' = clone + 1
    /\ UNCHANGED <<branch, refs, left, watched, runs, push>>

\* The seconds a run may now start in: that of the latest, or the next there was one in.
Seconds(run) == {s \in 1..MaxRuns : s \in {LatestStart(run), LatestStart(run) + 1}}

\* A check starts on a commit a ref brought, and may be started again, with the ref gone or
\* the run before not at its end: in the same second or later, or in none that can be read.
RunStarts(c, k) ==
    /\ c \in refs \/ runs[c][k] # <<>>
    /\ watched
    /\ Len(runs[c][k]) < MaxRuns
    /\ \E s \in {0} \cup Seconds(runs[c][k]) :
          runs' = [runs EXCEPT ![c][k] = Append(@, [start |-> s, state |-> "running"])]
    /\ UNCHANGED <<clone, branch, refs, left, watched, push>>

\* A run that waited in the queue begins, and has a start.
RunBegins(c, k, i) ==
    /\ i \in DOMAIN runs[c][k] /\ runs[c][k][i] = [start |-> 0, state |-> "running"]
    /\ \E s \in Seconds(runs[c][k]) :
          runs' = [runs EXCEPT ![c][k] = [@ EXCEPT ![i] = [start |-> s, state |-> "running"]]]
    /\ UNCHANGED <<clone, branch, refs, left, watched, push>>

RunEnds(c, k, i, result) ==
    /\ i \in DOMAIN runs[c][k] /\ runs[c][k][i].state = "running"
    /\ runs' = [runs EXCEPT ![c][k] = [@ EXCEPT ![i] = [start |-> runs[c][k][i].start, state |-> result]]]
    /\ UNCHANGED <<clone, branch, refs, left, watched, push>>

PusherStep(p) ==
    PushCandidate(p) \/ FetchStates(p) \/ AwaitPoll(p) \/ Advance(p) \/ DeleteCandidate(p)

GateNext ==
    \/ \E p \in Pushers : BeginPush(p) \/ PusherStep(p) \/ CandidateFails(p) \/ FetchFails(p) \/ PusherKilled(p)
    \/ CloneCommits
    \/ \E c \in Commits, k \in Contexts :
          \/ RunStarts(c, k)
          \/ \E i \in 1..MaxRuns : RunBegins(c, k, i) \/ \E r \in {Passed, "failed"} : RunEnds(c, k, i, r)

\* A process that runs takes its steps, and the clock passes every deadline.
GateFairness ==
    \A p \in Pushers : /\ WF_gateVars(PusherStep(p))
                       /\ SF_gateVars(AwaitPoll(p) /\ push'[p].past = "deadline")

GateSpec == GateInit /\ [][GateNext]_gateVars
GateFairSpec == GateSpec /\ GateFairness

---------------------------------------------------------------------------
(* Properties *)

\* The branch moves only to a commit on which every required check had a run that
\* passed and that none known to have started later overruled when they were read:
\* neither an older run of the check nor a commit made while the pusher waited gets in.
BranchChecked ==
    [][branch' # branch =>
          \E p \in Pushers :
             /\ PushAt(p, "advance") /\ push[p].sha = branch'
             /\ \A k \in Contexts : \E i \in DOMAIN runs[branch'][k] :
                   runs[branch'][k][i] = [start |-> push[p].seen[k], state |-> Passed]]_gateVars

\* A candidate ref has a pusher that is going to delete it, however the wait ends and although pushers
\* of one commit share the ref, unless a delete failed or its pusher is gone.
CandidateOwned ==
    \A c \in refs \ left : \E p \in Pushers : push[p].sha = c /\ push[p].at \notin {"idle", "candidate"}

\* The gate holds and cleans up after itself: nothing unchecked gets to the branch
\* (awaitChecks), and no return of GitPushGated forgets the candidate ref.
BranchGuarded == BranchChecked /\ []CandidateOwned

\* Not kept: gated_push.go:119 says that two pushes of one commit may share its candidate ref safely. The
\* one that ends first deletes it, and no check starts for the other if none had by then.
SharesSafely == \A p \in Pushers : push[p].at \in {"fetch", "sleep"} => push[p].sha \in refs

\* Every gated push comes to an end, though the workflow may not watch the
\* candidate refs and a check may never end (the deadlock case of awaitChecks).
PushEnds == \A p \in Pushers : []<>PushAt(p, "idle")
=============================================================================
