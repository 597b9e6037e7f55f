----------------------------- MODULE AuditChain -----------------------------
(****************************************************************************)
(* The hash-chained audit log of a session (internal/audit/audit.go). A     *)
(* logger keeps the last checksum and sequence number in memory; it loads   *)
(* them once. Rows may be changed or deleted behind its back. A checksum    *)
(* is the entry it was computed over: no two entries share one.             *)
(****************************************************************************)
EXTENDS Integers, Sequences, FiniteSets

CONSTANTS
    Loggers,       \* processes that log for the session
    Bodies,        \* what an entry says, redacted
    MaxChanges,    \* bound on the rows changed or deleted
    MaxEntries     \* bound on the rows and on the sequence numbers

ASSUME AuditAssumption == MaxChanges \in Nat /\ MaxEntries \in Nat

VARIABLES
    entries,   \* audit_log, by row id
    memory,    \* each logger's last checksum and sequence number
    touched,   \* history: how many rows were changed or deleted
    gapped     \* history: whether an insert failed or a second logger was open

auditVars == <<entries, memory, touched, gapped>>

NoHash == <<>>
NotOpen == [open |-> FALSE, hash |-> NoHash, seq |-> 0]

AuditInit ==
    /\ entries = <<>> /\ touched = 0 /\ gapped = FALSE
    /\ memory = [l \in Loggers |-> NotOpen]

Checksum(seq, body, prev) == <<seq, body, prev>>

\* The row with the highest sequence number, the chain's end.
LastRow ==
    LET tops == {i \in DOMAIN entries : \A j \in DOMAIN entries : entries[j].seq <= entries[i].seq}
    IN  entries[CHOOSE i \in tops : TRUE]

OpenLogger(l) ==
    /\ ~memory[l].open
    /\ gapped' = (gapped \/ \E m \in Loggers : memory[m].open)
    /\ memory' = [memory EXCEPT ![l] =
          [open |-> TRUE,
           hash |-> IF entries = <<>> THEN NoHash ELSE LastRow.sum,
           seq |-> IF entries = <<>> THEN 0 ELSE LastRow.seq]]
    /\ UNCHANGED <<entries, touched>>

CloseLogger(l) ==
    /\ memory[l].open
    /\ memory' = [memory EXCEPT ![l] = NotOpen]
    /\ UNCHANGED <<entries, touched, gapped>>

NewEntry(l, body) ==
    [seq |-> memory[l].seq + 1, body |-> body, prev |-> memory[l].hash,
     sum |-> Checksum(memory[l].seq + 1, body, memory[l].hash)]

\* The number is taken before the insert and kept when the insert fails.
Log(l) ==
    /\ memory[l].open /\ memory[l].seq < MaxEntries /\ Len(entries) < MaxEntries
    /\ \E body \in Bodies :
          LET row == NewEntry(l, body) IN
          \/ /\ entries' = Append(entries, row)
             /\ memory' = [memory EXCEPT ![l] = [@ EXCEPT !.seq = row.seq, !.hash = row.sum]]
             /\ UNCHANGED gapped
          \/ /\ memory' = [memory EXCEPT ![l].seq = row.seq]
             /\ gapped' = TRUE /\ UNCHANGED entries
    /\ UNCHANGED touched

AlterRow ==
    /\ \E i \in DOMAIN entries, body \in Bodies :
          body # entries[i].body /\ entries' = [entries EXCEPT ![i].body = body]
    /\ touched < MaxChanges /\ touched' = touched + 1 /\ UNCHANGED <<memory, gapped>>

DeleteRow ==
    /\ \E i \in DOMAIN entries :
          entries' = SubSeq(entries, 1, i - 1) \o SubSeq(entries, i + 1, Len(entries))
    /\ touched < MaxChanges /\ touched' = touched + 1 /\ UNCHANGED <<memory, gapped>>

AuditNext ==
    \/ \E l \in Loggers : OpenLogger(l) \/ CloseLogger(l) \/ Log(l)
    \/ AlterRow \/ DeleteRow

AuditSpec == AuditInit /\ [][AuditNext]_auditVars

---------------------------------------------------------------------------
(* VerifyIntegrity: the rows by sequence number *)

Inserted(row, rows) ==
    LET before == Cardinality({i \in DOMAIN rows : rows[i].seq <= row.seq})
    IN  SubSeq(rows, 1, before) \o <<row>> \o SubSeq(rows, before + 1, Len(rows))

BySeq ==
    LET sorted[n \in 0..Len(entries)] ==
            IF n = 0 THEN <<>> ELSE Inserted(entries[n], sorted[n - 1])
    IN  sorted[Len(entries)]

Good_Gapped(rows, i) ==
    /\ rows[i].prev = IF i = 1 THEN NoHash ELSE rows[i - 1].sum

Good(rows, i) ==
    /\ rows[i].seq = i
    /\ rows[i].prev = IF i = 1 THEN NoHash ELSE rows[i - 1].sum
    /\ rows[i].sum = Checksum(rows[i].seq, rows[i].body, rows[i].prev)

Verifies == \A i \in DOMAIN entries : Good(BySeq, i)

---------------------------------------------------------------------------
(* Properties *)

\* An untouched log verifies, across restarts of its logger, unless an insert
\* failed or two loggers were open at once: but for those, nobody is told of
\* tampering that did not happen (Logger.Log, loadLastEntry, VerifyIntegrity).
UntouchedVerifies == touched = 0 /\ ~gapped => Verifies

\* A log that verifies holds no altered row and none that stands elsewhere than
\* it was written: rows can be missing at its end only (VerifyIntegrity).
TamperingSeen ==
    Verifies => \A i \in DOMAIN entries :
        \E j \in DOMAIN entries :
            /\ entries[j].seq = i
            /\ entries[j].sum[1] = i /\ entries[j].sum[2] = entries[j].body

\* Verification tells the two cases apart: it passes the log nobody touched and
\* no log in which a row was altered or moved.
ChainTells == UntouchedVerifies /\ TamperingSeen
=============================================================================
