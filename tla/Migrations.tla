------------------------------ MODULE Migrations ------------------------------
(***************************************************************************)
(* migrate_database, which every process runs on the project's database    *)
(* before each connection it opens.                                        *)
(*                                                                         *)
(* A run is not one transaction.  Python's sqlite3 begins a transaction    *)
(* before an insert, never before a data definition statement, so every    *)
(* `create' and every `alter' of a script is committed when it is executed *)
(* and only the rows at the end, the version among them, are one           *)
(* transaction.  Tables and indexes are created `if not exists'; a column  *)
(* is added by `alter table', which fails when the column is there.        *)
(*                                                                         *)
(* An object stands for the statements of a script that are equally safe   *)
(* to repeat.                                                              *)
(***************************************************************************)
EXTENDS Naturals, Sequences, FiniteSets

CONSTANTS
    Processes,          \* processes that open the database
    MaxInterruptions    \* bound: runs cut short by a crash or a busy database

ASSUME InterruptionsAssumption == MaxInterruptions \in Nat

\* MIGRATIONS.  What each script defines, in its order.
Script ==
    << <<"tables", "indexes">>,
       <<"concept_and_document_search">>,
       <<"issue_and_evidence_search">>,
       <<"source_document">>,
       <<"physical_name", "physical_name_index">> >>

LatestSchemaVersion == Len(Script)

Versions == 1 .. LatestSchemaVersion

\* What a later release of the application may have recorded.
NewerVersion == LatestSchemaVersion + 1

\* The objects added by `alter table', without `if not exists'.
Columns == {"source_document", "physical_name"}

ObjectsOf(v) == {Script[v][k] : k \in DOMAIN Script[v]}

Objects == UNION {ObjectsOf(v) : v \in Versions}

VARIABLES
    exists,         \* the database file exists
    history,        \* the table schema_migrations exists
    objects,        \* the other objects of the schema
    recorded,       \* versions with a row in schema_migrations
    altered,        \* those among them whose row has another script's checksum
    pc,             \* where each process is
    at,             \* the version it is at, and the statement of its script
    interruptions

vars == <<exists, history, objects, recorded, altered, pc, at, interruptions>>

Stages == {"closed", "reject", "ensure", "verify", "look", "apply", "open"}

Start == [version |-> 1, statement |-> 1]

-----------------------------------------------------------------------------
\* A database is missing, of any earlier version, up to date, written by a
\* later release, or of the time before versions were recorded.  One of its
\* versions may have been made by another script, with other objects.
Init ==
    /\ \/ /\ exists = FALSE /\ history = FALSE
          /\ recorded = {} /\ altered = {} /\ objects = {}
       \/ /\ exists = TRUE /\ history = TRUE
          /\ recorded \in {1 .. v : v \in 0 .. NewerVersion}
          /\ altered \in {{}} \cup {{v} : v \in recorded \cap Versions}
          /\ objects = UNION {ObjectsOf(v) : v \in (recorded \cap Versions) \ altered}
       \/ /\ exists = TRUE /\ history = FALSE
          /\ recorded = {} /\ altered = {} /\ objects = ObjectsOf(1)
    /\ pc = [p \in Processes |-> "closed"]
    /\ at = [p \in Processes |-> Start]
    /\ interruptions = 0

Goto(p, stage, position) ==
    /\ pc' = [pc EXCEPT ![p] = stage]
    /\ at' = [at EXCEPT ![p] = position]

\* An exception leaves migrate_database, and open_database with it.
Fail(p) == Goto(p, "closed", Start)

Schema == <<history, objects, recorded, altered>>

\* initialize_project_storage, by `init' and by the server when it starts: the
\* connection creates the file.
InitializeProjectStorage(p) ==
    /\ pc[p] = "closed"
    /\ exists' = TRUE
    /\ Goto(p, "reject", Start)
    /\ UNCHANGED <<Schema, interruptions>>

\* open_database, whose callers have found the file.
OpenDatabase(p) ==
    /\ pc[p] = "closed"
    /\ exists
    /\ Goto(p, "reject", Start)
    /\ UNCHANGED <<exists, Schema, interruptions>>

\* Mutant: tables without a history are taken for an empty database.
RejectNothing(p) ==
    /\ pc[p] = "reject"
    /\ Goto(p, "ensure", Start)
    /\ UNCHANGED <<exists, Schema, interruptions>>

RejectLegacyState(p) ==
    /\ pc[p] = "reject"
    /\ IF ~history /\ objects # {}
       THEN Fail(p)
       ELSE Goto(p, "ensure", Start)
    /\ UNCHANGED <<exists, Schema, interruptions>>

EnsureMigrationTable(p) ==
    /\ pc[p] = "ensure"
    /\ history' = TRUE
    /\ Goto(p, "verify", Start)
    /\ UNCHANGED <<exists, objects, recorded, altered, interruptions>>

\* Mutant: a version that is not known is passed over.
VerifyNothing(p) ==
    /\ pc[p] = "verify"
    /\ Goto(p, "look", Start)
    /\ UNCHANGED <<exists, Schema, interruptions>>

\* Mutant: the checksums are not compared.
VerifyVersions(p) ==
    /\ pc[p] = "verify"
    /\ IF recorded \subseteq Versions
       THEN Goto(p, "look", Start)
       ELSE Fail(p)
    /\ UNCHANGED <<exists, Schema, interruptions>>

\* Every row has to be of a known version, with the checksum of its script.
VerifyAppliedMigrations(p) ==
    /\ pc[p] = "verify"
    /\ IF recorded \subseteq Versions /\ altered = {}
       THEN Goto(p, "look", Start)
       ELSE Fail(p)
    /\ UNCHANGED <<exists, Schema, interruptions>>

\* Mutant: the loop runs once too often.
NextVersionPastEnd(p, newVersion) ==
    IF newVersion > LatestSchemaVersion + 1
    THEN Goto(p, "open", Start)
    ELSE Goto(p, "look", [version |-> newVersion, statement |-> 1])

\* Mutant: the loop leaves out the last version.
NextVersionStopsEarly(p, newVersion) ==
    IF newVersion >= LatestSchemaVersion
    THEN Goto(p, "open", Start)
    ELSE Goto(p, "look", [version |-> newVersion, statement |-> 1])

NextVersion(p, newVersion) ==
    IF newVersion > LatestSchemaVersion
    THEN Goto(p, "open", Start)
    ELSE Goto(p, "look", [version |-> newVersion, statement |-> 1])

\* _has_version, in autocommit: the answer is old when the script is applied.
HasVersion(p) ==
    /\ pc[p] = "look"
    /\ IF at[p].version \in recorded
       THEN NextVersion(p, at[p].version + 1)
       ELSE Goto(p, "apply", at[p])
    /\ UNCHANGED <<exists, Schema, interruptions>>

\* One data definition statement, committed by itself.
Execute(p) ==
    /\ pc[p] = "apply"
    /\ at[p].statement <= Len(Script[at[p].version])
    /\ LET object == Script[at[p].version][at[p].statement]
       IN  IF object \in Columns \cap objects
           THEN Fail(p) /\ UNCHANGED objects
           ELSE /\ objects' = objects \cup {object}
                /\ Goto(p, "apply", [at[p] EXCEPT !.statement = @ + 1])
    /\ UNCHANGED <<exists, history, recorded, altered, interruptions>>

\* Mutant: the version is recorded before its script is executed.
RecordFirst(p) ==
    /\ pc[p] = "apply"
    /\ at[p].version \notin recorded
    /\ recorded' = recorded \cup {at[p].version}
    /\ Goto(p, "apply", at[p])
    /\ UNCHANGED <<exists, history, objects, altered, interruptions>>

\* The rows at the end of a script, in one transaction: another process may
\* have recorded the version first, and the primary key refuses the second.
Record(p) ==
    /\ pc[p] = "apply"
    /\ at[p].statement > Len(Script[at[p].version])
    /\ IF at[p].version \in recorded
       THEN Fail(p) /\ UNCHANGED recorded
       ELSE /\ recorded' = recorded \cup {at[p].version}
            /\ NextVersion(p, at[p].version + 1)
    /\ UNCHANGED <<exists, history, objects, altered, interruptions>>

Close(p) ==
    /\ pc[p] = "open"
    /\ Goto(p, "closed", Start)
    /\ UNCHANGED <<exists, Schema, interruptions>>

\* The process dies, or a statement finds the database busy for too long.
Interrupt(p) ==
    /\ pc[p] \notin {"closed", "open"}
    /\ interruptions < MaxInterruptions
    /\ interruptions' = interruptions + 1
    /\ Fail(p)
    /\ UNCHANGED <<exists, Schema>>

Open(p) == InitializeProjectStorage(p) \/ OpenDatabase(p)

Migrate(p) ==
    \/ RejectLegacyState(p) \/ EnsureMigrationTable(p)
    \/ VerifyAppliedMigrations(p) \/ HasVersion(p) \/ Execute(p) \/ Record(p)

Next ==
    \E p \in Processes : Open(p) \/ Migrate(p) \/ Close(p) \/ Interrupt(p)

\* A run goes on, and commands keep being given: the database is opened again.
Fairness == \A p \in Processes : WF_vars(Migrate(p)) /\ WF_vars(Open(p))

Spec == Init /\ [][Next]_vars /\ Fairness

-----------------------------------------------------------------------------
(***************************************************************************)
(* Properties.                                                             *)
(***************************************************************************)
\* Every variable has its type.
TypeOK ==
    /\ exists \in BOOLEAN
    /\ history \in BOOLEAN
    /\ objects \subseteq Objects
    /\ recorded \subseteq 1 .. NewerVersion
    /\ altered \subseteq Versions
    /\ pc \in [Processes -> Stages]
    /\ at \in [Processes -> [version : Versions, statement : 1 .. 3]]
    /\ interruptions \in 0 .. MaxInterruptions

\* What the history says is true, whoever races and whoever dies: versions
\* are recorded in order, and everything is there that a version defines whose
\* row has the checksum of its script.
HistoryIsTrue ==
    /\ \A v \in recorded : \A u \in 1 .. v : u \in recorded
    /\ \A v \in (recorded \cap Versions) \ altered : ObjectsOf(v) \subseteq objects

\* A connection is handed out only on a complete schema, although another
\* process may be in the middle of the same migration.
OpenedAtLatest ==
    \A p \in Processes : pc[p] = "open" => recorded = Versions /\ objects = Objects

Refused ==
    \/ ~ history /\ objects # {}
    \/ ~ (recorded \subseteq Versions)
    \/ altered # {}

\* A database that cannot be upgraded safely is left as it was found: one of
\* before the history existed, one of a later release, and one that another
\* script has made.
RefusedIsUntouched == [][Refused => UNCHANGED Schema]_vars

Upgradable == history /\ ~ Refused

\* As long as no run is interrupted, a database that can be upgraded is:
\* processes that apply the same version fail each other only while one of
\* them makes progress.
EventuallyLatest == Upgradable ~> (recorded = Versions \/ interruptions > 0)

\* "its schema is brought up to the latest version first so an older on-disk
\* spec is migrated automatically on access": also after an interruption.
OlderSchemaIsMigrated == Upgradable ~> recorded = Versions
=============================================================================
