------------------------------- MODULE Schema -------------------------------
(* The database file: opening it, migrating it and reporting its health.      *)
(* Processes of this binary share the file; a later binary may migrate it     *)
(* past what this one knows.  A table is the set of schema versions that      *)
(* gave it columns, its first the version that created it.                    *)
(*   db.version  <-> PRAGMA user_version    db.tables <-> the tables' columns *)
(*   onDisk      <-> the main file, which a commit reaches at a checkpoint    *)
(*   backups     <-> <path>.backup-<second>                                   *)
EXTENDS Integers, FiniteSets

CONSTANTS
    Openers,        \* processes of this binary
    FirstVersions,  \* versions the file may be found at
    LastBackupSecond

currentSchemaVersion == 40

ASSUME SchemaAssumption ==
    /\ FirstVersions \subseteq 0 .. currentSchemaVersion + 1
    /\ LastBackupSecond \in Nat

VARIABLES db, onDisk, backups, opener, health, nowSecond,
    found  \* the version the file was found at

schemaVars == <<db, onDisk, backups, opener, health, nowSecond, found>>

-----------------------------------------------------------------------------
(* The tables whose columns more than one version gave, and those Migrate     *)
(* creates itself; every other table is the schema's CREATE IF NOT EXISTS.    *)

schemaDDL ==
    [ runs |-> {3, 6, 10, 12, 16, 39},   dispatches |-> {2, 6, 11, 12, 18},
      run_artifacts |-> {4, 6, 8},       phase_events |-> {3, 21},
      dispatch_events |-> {5, 21},       audit_log |-> {15, 23},
      coordination_locks |-> {20},       coordination_events |-> {20, 21},
      run_replay_inputs |-> {22},        review_events |-> {24, 28},
      authorizations |-> {32, 33},       authz_tokens |-> {34},
      action_receipts |-> {35},          sessions |-> {26, 30},
      lanes |-> {13, 31} ]

\* The rows that mark in authorizations the versions 33, 34 and 35.
cutoverMarkers == {33, 34, 35}

\* A file as the binary of version v left it.
FileAt(v) ==
    [ version |-> v,
      tables  |-> [t \in {u \in DOMAIN schemaDDL : \E c \in schemaDDL[u] : c <= v} |->
                     {c \in schemaDDL[t] : c <= v}],
      markers |-> {m \in cutoverMarkers : m <= v} ]

\* What a step does, given the version the transaction read.
When(v, from, below, what) == IF from <= v /\ v < below THEN what ELSE {}

(* ALTER TABLE ... ADD COLUMN, by the version that introduced the columns.    *)
V6(v)  == When(v, 5, 6, {<<"runs", 6>>, <<"dispatches", 6>>, <<"run_artifacts", 6>>})
V8(v)  == When(v, 4, 8, {<<"run_artifacts", 8>>})
V10(v) == When(v, 3, 10, {<<"runs", 10>>})
V11(v) == When(v, 2, 11, {<<"dispatches", 11>>})
V12(v) == When(v, 3, 12, {<<"runs", 12>>}) \cup When(v, 2, 12, {<<"dispatches", 12>>})
V18(v) == When(v, 2, 18, {<<"dispatches", 18>>})
V16(v) == When(v, 3, 16, {<<"runs", 16>>})
V21(v) ==
    When(v, 3, 21, {<<"phase_events", 21>>})
    \cup When(v, 5, 21, {<<"dispatch_events", 21>>})
    \cup When(v, 19, 21, {<<"coordination_events", 21>>})
V23(v) == When(v, 15, 23, {<<"audit_log", 23>>})
V28(v) == When(v, 20, 28, {<<"review_events", 28>>})
V33(v) == When(v, 32, 33, {<<"authorizations", 33>>})
V39(v) == When(v, 3, 39, {<<"runs", 39>>})

Altered(v) ==
    V6(v) \cup V8(v) \cup V10(v) \cup V11(v) \cup V12(v) \cup V18(v) \cup V16(v)
    \cup V21(v) \cup V23(v) \cup V28(v) \cup V33(v) \cup V39(v)

(* CREATE TABLE IF NOT EXISTS before the schema's own: with the columns the   *)
(* table had when it was introduced.                                          *)
V20(v) == When(v, 19, 20, {<<"coordination_locks", 20>>, <<"coordination_events", 20>>})
V22(v) == When(v, 3, 22, {<<"run_replay_inputs", 22>>})
V24(v) == When(v, 20, 24, {<<"review_events", 24>>})
V34(v) == When(v, 33, 34, {<<"authz_tokens", 34>>})
V35(v) == When(v, 34, 35, {<<"action_receipts", 35>>})

Created(v) == V20(v) \cup V22(v) \cup V24(v) \cup V34(v) \cup V35(v)

\* The steps, then the schema: it creates only what is still missing.
Migrated(f) ==
    LET v == f.version
        columns(t, old) == old \cup {c \in schemaDDL[t] : <<t, c>> \in Altered(v)}
        made(t) == {c \in schemaDDL[t] : <<t, c>> \in Created(v)}
    IN  [ version |-> currentSchemaVersion,
          tables  |-> [t \in DOMAIN schemaDDL |->
                         IF t \in DOMAIN f.tables THEN columns(t, f.tables[t])
                         ELSE IF made(t) # {} THEN columns(t, made(t))
                         ELSE schemaDDL[t]],
          markers |-> cutoverMarkers ]

\* An ALTER of a table that is not there fails, and the migration with it.
StepFails(f) ==
    \E a \in Altered(f.version) :
        /\ a[1] \notin DOMAIN f.tables
        /\ \A c \in Created(f.version) : c[1] # a[1]

-----------------------------------------------------------------------------
SchemaInit ==
    /\ found \in FirstVersions
    /\ db = FileAt(found)
    /\ onDisk = db.version
    /\ backups = [s \in 0 .. LastBackupSecond |-> {}]
    /\ opener = [p \in Openers |-> "closed"]
    /\ health = [p \in Openers |-> "none"]
    /\ nowSecond = 0

\* Open checks the version of the file once.
OpenFile(p) ==
    /\ opener[p] = "closed"
    /\ opener' = [opener EXCEPT ![p] =
                    IF db.version > currentSchemaVersion THEN "refused" ELSE "open"]
    /\ UNCHANGED <<db, onDisk, backups, health, nowSecond, found>>

\* Migrate, its first half: a copy of the main file, named by the second.
Backup(p) ==
    /\ opener[p] = "open"
    /\ backups' = IF onDisk = 0 THEN backups
                  ELSE [backups EXCEPT ![nowSecond] = {onDisk}]
    /\ opener' = [opener EXCEPT ![p] = "copied"]
    /\ UNCHANGED <<db, onDisk, health, nowSecond, found>>

\* A migration that goes by the version Open read before it.
Migrate_Unchecked(p) ==
    /\ opener[p] = "copied"
    /\ db' = IF StepFails(db) THEN db ELSE Migrated(db)
    /\ opener' = [opener EXCEPT ![p] = "migrated"]
    /\ UNCHANGED <<onDisk, backups, health, nowSecond, found>>

\* Its second half: one transaction that holds the write lock and reads the
\* version again inside.
Migrate(p) ==
    /\ opener[p] = "copied"
    /\ db' = IF db.version >= currentSchemaVersion \/ StepFails(db) THEN db ELSE Migrated(db)
    /\ opener' = [opener EXCEPT ![p] = "migrated"]
    /\ UNCHANGED <<onDisk, backups, health, nowSecond, found>>

\* Health of an open file: what it says of the schema; a full disk is an error.
Health(p) ==
    /\ opener[p] \in {"open", "migrated"}
    /\ \E diskOK \in BOOLEAN :
         health' = [health EXCEPT ![p] =
                      IF db.version < currentSchemaVersion THEN "not migrated"
                      ELSE IF db.version > currentSchemaVersion THEN "too new"
                      ELSE IF diskOK THEN "ok" ELSE "disk full"]
    /\ UNCHANGED <<db, onDisk, backups, opener, nowSecond, found>>

\* A process ends or is killed: what it had not committed is gone, and the
\* last to leave moves the log into the main file.
Close(p) ==
    /\ opener[p] # "closed"
    /\ opener' = [opener EXCEPT ![p] = "closed"]
    /\ health' = [health EXCEPT ![p] = "none"]
    /\ onDisk' = IF \E q \in Openers \ {p} : opener[q] \in {"open", "copied", "migrated"}
                 THEN onDisk ELSE db.version
    /\ UNCHANGED <<db, backups, nowSecond, found>>

\* A binary of the next version migrates the file.
NewerMigrates ==
    /\ db.version = currentSchemaVersion
    /\ db' = [db EXCEPT !.version = currentSchemaVersion + 1]
    /\ UNCHANGED <<onDisk, backups, opener, health, nowSecond, found>>

BackupSecondPasses ==
    /\ nowSecond < LastBackupSecond
    /\ nowSecond' = nowSecond + 1
    /\ UNCHANGED <<db, onDisk, backups, opener, health, found>>

SchemaNext ==
    \/ \E p \in Openers : OpenFile(p) \/ Backup(p) \/ Migrate(p) \/ Health(p) \/ Close(p)
    \/ NewerMigrates
    \/ BackupSecondPasses

SchemaSpec == SchemaInit /\ [][SchemaNext]_schemaVars

-----------------------------------------------------------------------------
\* The tables that got columns in a version Migrate has no step for, and the
\* versions before the one its first step begins at.
WithoutStep == {"sessions", "lanes"}
BeforeSteps == 2 .. 4

\* A file that Migrate brought to the current version has the columns of every
\* other table, whatever version it was found at: a table that was there got
\* them one by one, one that was not has them from its creation.
StepsReachTheirTables ==
    (db.version >= currentSchemaVersion /\ found <= currentSchemaVersion /\ found \notin BeforeSteps) =>
        /\ \A t \in DOMAIN schemaDDL \ WithoutStep : db.tables[t] = schemaDDL[t]
        /\ db.markers = cutoverMarkers

\* Migrate moves a file forward only, never touches one a later binary
\* migrated, and never loses a column or a table.
ForwardOnly ==
    /\ db'.version >= db.version
    /\ \A t \in DOMAIN db.tables : db.tables[t] \subseteq db'.tables[t]

\* What a migration replaces has been copied first.
BackedUpFirst ==
    (db.version > 0 /\ db'.version # db.version /\ db'.version = currentSchemaVersion) =>
        \E s \in DOMAIN backups : db.version \in backups[s]

\* Migrating an old file: complete where there is a step, forward only, and
\* with a copy of what was there.
MigratesSafely == []StepsReachTheirTables /\ [][ForwardOnly /\ BackedUpFirst]_db

\* "Health checks that the DB is readable, schema is current, and disk has
\* space": a file it finds healthy has the columns of the current schema.
HealthyIsCurrent ==
    \A p \in Openers : health[p] = "ok" /\ db.version = currentSchemaVersion =>
        db.tables = schemaDDL
=============================================================================
