------------------------------ MODULE WorkLog ------------------------------
(****************************************************************************)
(* Who worked where and what landed: sessions and their attributions        *)
(* (internal/session/store.go, ic session) and landed commits               *)
(* (internal/landed/store.go, ic landed). Hooks call these commands, so a   *)
(* call may come twice or late; each is one statement. Commits are those    *)
(* of one project.                                                          *)
(****************************************************************************)
EXTENDS Integers, FiniteSets, Sequences

CONSTANTS
    SessionIds, ProjectDirs,
    RunIds,         \* runs a session or a commit is attributed to
    Shas,           \* commits
    MaxTokenReports,     \* bound on the token reports
    MaxAttributed,  \* bound on the attributions
    LastHour        \* bound on the clock

ASSUME WorkLogAssumption ==
    MaxTokenReports \in Nat /\ MaxAttributed \in Nat /\ LastHour \in Nat

Worked == SessionIds \X ProjectDirs

VARIABLES
    session,    \* (session, project) -> its row
    reports,    \* (session, project) -> token reports accepted for it
    attributed, \* the session_attributions, by id
    landed,     \* commit -> its row
    hour        \* the wall clock

workLogVars == <<session, reports, attributed, landed, hour>>

NoSession == [there |-> FALSE, ended |-> FALSE, tokens |-> 0]
NotLanded == [run |-> "none", reverted |-> FALSE]

WorkLogInit ==
    /\ session = [w \in Worked |-> NoSession]
    /\ reports = [w \in Worked |-> 0]
    /\ attributed = <<>>
    /\ landed = [c \in Shas |-> NotLanded]
    /\ hour = 1

\* A session started again keeps its counts and is no longer ended.
Reopened(row) == [row EXCEPT !.there = TRUE, !.ended = FALSE]

SessionStart(w) ==
    /\ session' = [session EXCEPT ![w] = Reopened(@)]
    /\ UNCHANGED <<reports, attributed, landed, hour>>

\* Ends the session in every project it is open in.
SessionEnd(s) ==
    LET open == {w \in Worked : w[1] = s /\ session[w].there /\ ~session[w].ended} IN
    /\ open # {}
    /\ session' = [w \in Worked |-> IF w \in open THEN [session[w] EXCEPT !.ended = TRUE] ELSE session[w]]
    /\ UNCHANGED <<reports, attributed, landed, hour>>

\* Tokens are added to what the row has, ended or not.
SessionTokens(w) ==
    /\ session[w].there /\ reports[w] < MaxTokenReports
    /\ session' = [session EXCEPT ![w].tokens = @ + 1]
    /\ reports' = [reports EXCEPT ![w] = @ + 1]
    /\ UNCHANGED <<attributed, landed, hour>>

\* Nobody checks that the session exists.
SessionAttribute(w, r) ==
    /\ Len(attributed) < MaxAttributed
    /\ attributed' = Append(attributed, [worked |-> w, run |-> r, at |-> hour])
    /\ UNCHANGED <<session, reports, landed, hour>>

\* created_at first, the id where the second is the same.
Superseded(i, j) == attributed[i].at < attributed[j].at \/ (attributed[i].at = attributed[j].at /\ i < j)

\* The row ic session current answers from.
Current(w) ==
    LET rows == {i \in DOMAIN attributed : attributed[i].worked = w}
    IN  CHOOSE i \in rows : \A j \in rows \ {i} : Superseded(j, i)

\* The first call for a commit makes its row, the others find it.
Landing(row, r) == IF row = NotLanded THEN [row EXCEPT !.run = r] ELSE row

LandedRecord(c, r) ==
    /\ landed' = [landed EXCEPT ![c] = Landing(@, r)]
    /\ UNCHANGED <<session, reports, attributed, hour>>

LandedRevert(c) ==
    /\ landed[c] # NotLanded /\ ~landed[c].reverted
    /\ landed' = [landed EXCEPT ![c].reverted = TRUE]
    /\ UNCHANGED <<session, reports, attributed, hour>>

NextHour == hour < LastHour /\ hour' = hour + 1 /\ UNCHANGED <<session, reports, attributed, landed>>

\* Commits counted for a run by ic landed summary.
ByRun(r) == {c \in Shas : landed[c].run = r /\ ~landed[c].reverted}

WorkLogNext ==
    \/ \E w \in Worked : SessionStart(w) \/ SessionTokens(w) \/ \E r \in RunIds : SessionAttribute(w, r)
    \/ \E s \in SessionIds : SessionEnd(s)
    \/ \E c \in Shas : LandedRevert(c) \/ \E r \in RunIds : LandedRecord(c, r)
    \/ NextHour

WorkLogSpec == WorkLogInit /\ [][WorkLogNext]_workLogVars

---------------------------------------------------------------------------

\* The tokens of a session are those of every report it accepted, over any ends and
\* restarts (UpdateTokens: "added to the existing totals, not replaced").
TokensKept == \A w \in Worked : session[w].tokens = reports[w]

\* The attribution in force is the one recorded last, also within a second.
CurrentIsLast ==
    \A i \in DOMAIN attributed :
        (\A j \in DOMAIN attributed : attributed[j].worked = attributed[i].worked => j <= i)
            => Current(attributed[i].worked) = i

\* A call that comes again or late moves no commit to another run, and counts no reverted
\* commit again.
LandedFrozen ==
    \A c \in Shas, r \in RunIds : c \in ByRun(r)' => c \in ByRun(r) \/ landed[c] = NotLanded
=============================================================================
