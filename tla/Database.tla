------------------------------ MODULE Database ------------------------------
(***************************************************************************)
(* The database (database.go) and the start of the process around it       *)
(* (newUpdateManager, updatehandler.New): each start opens the file,       *)
(* migrates it or creates its tables, and reads the update state.  When    *)
(* the migration fails the file is deleted and the start goes on without   *)
(* it; any other error ends the process, which the system starts again.    *)
(*                                                                         *)
(* SQLite is not part of the repository.  Each statement commits on its    *)
(* own; with WAL and synchronous=NORMAL a power cut may undo the last      *)
(* commits, so that the file is as it was at some time before.             *)
(***************************************************************************)
EXTENDS Integers

CONSTANTS
    DbVersion,   \* dbVersion
    Migrations,  \* the versions database/migration has a file for
    MaxVersion,  \* bound on the versions of the component
    MaxFaults    \* bound on the number of faults

ASSUME DatabaseAssumption ==
    /\ DbVersion \in Nat
    /\ Migrations \subseteq 0 .. DbVersion
    /\ MaxVersion \in Nat
    /\ MaxFaults \in Nat

NoSchema == -1

\* The empty version string; a component without a row is of version 0.0.0.
EmptyVersion == -1

Versions == 0 .. MaxVersion

States == {"idle", "prepared", "updated", "failed"}

(***************************************************************************)
(* What a database holds: the version of its schema, whether it has the    *)
(* config table and its only row, the update state and the version it is   *)
(* for in that row, and the version in the state of the SSH module.        *)
(***************************************************************************)
Databases ==
    [schema : -1 .. DbVersion, table : {"none", "empty", "filled"},
     state : States, target : Versions, version : Versions \cup {EmptyVersion}]

NoFile ==
    [schema |-> NoSchema, table |-> "none", state |-> "idle", target |-> 0, version |-> 0]

VARIABLES
    db,       \* the database as the process sees it
    disk,     \* what of it survives a power cut
    start,    \* how far the start of the process has got, "ready" when it is done
    retried,  \* the file was deleted in this start
    torn,     \* history: a crash has left a config table without a row
    faults    \* number of faults so far

vars == <<db, disk, start, retried, torn, faults>>

\* A new system, or one that an earlier release of the software has run on.
Init ==
    /\ db \in {NoFile} \cup
              [schema : {NoSchema} \cup Migrations, table : {"filled"}, state : {"idle"},
               target : {0}, version : Versions]
    /\ disk = db
    /\ start = "open"
    /\ retried = FALSE
    /\ torn = FALSE
    /\ faults = 0

-----------------------------------------------------------------------------
Step(from, to) ==
    /\ start = from
    /\ start' = to
    /\ UNCHANGED <<torn, faults>>

newDatabase ==
    /\ Step("open", IF db.table = "none" THEN "version" ELSE "migrate")
    /\ UNCHANGED <<db, disk, retried>>

\* Mutant of SetDatabaseVersion: a new database is not given a version.
VersionNotSet ==
    /\ Step("version", "config")
    /\ UNCHANGED <<db, disk, retried>>

SetDatabaseVersion ==
    /\ Step("version", "config")
    /\ db' = [db EXCEPT !.schema = DbVersion]
    /\ UNCHANGED <<disk, retried>>

\* The first failure deletes the file, a second one ends the process.
MigrationFailed == IF retried THEN "open" ELSE "cleanup"

(***************************************************************************)
(* A database without a version is forced to version 0.  A migration looks *)
(* for the files of both versions before it changes anything.              *)
(***************************************************************************)
Migratable(schema) == schema = DbVersion \/ {schema, DbVersion} \subseteq Migrations

DoMigrate ==
    LET schema == IF db.schema = NoSchema THEN 0 ELSE db.schema
    IN  /\ Step("migrate", IF Migratable(schema) THEN "config" ELSE MigrationFailed)
        /\ db' = [db EXCEPT !.schema = IF Migratable(schema) THEN DbVersion ELSE schema]
        /\ retried' = (retried /\ Migratable(schema))
        /\ UNCHANGED disk

\* Any error of the migration counts, a database that is busy for too long as well.
MigrationError ==
    /\ start \in {"version", "migrate"}
    /\ faults < MaxFaults
    /\ faults' = faults + 1
    /\ start' = MigrationFailed
    /\ retried' = FALSE
    /\ UNCHANGED <<db, disk, torn>>

\* Mutant of cleanup: the start is repeated, but the file is not deleted.
CleanupNothing ==
    /\ Step("cleanup", "open")
    /\ retried' = TRUE
    /\ UNCHANGED <<db, disk>>

\* The deletion is on the disk no later than the file that is made next, which SQLite syncs.
cleanup ==
    /\ Step("cleanup", "open")
    /\ retried' = TRUE
    /\ db' = NoFile
    /\ disk' = NoFile

\* createConfigTable: the table and its row are two statements.
CreateTable ==
    /\ Step("config", IF db.table = "none" THEN "insert" ELSE "load")
    /\ db' = [db EXCEPT !.table = IF @ = "none" THEN "empty" ELSE @]
    /\ UNCHANGED <<disk, retried>>

InsertRow ==
    /\ Step("insert", "load")
    /\ db' = [db EXCEPT !.table = "filled"]
    /\ UNCHANGED <<disk, retried>>

\* GetUpdateState() finds no row in a table without one: the process ends.
Load(to) ==
    /\ Step("load", to)
    /\ retried' = FALSE
    /\ UNCHANGED <<db, disk>>

NoUpdateState == db.table # "filled" /\ Load("open")

Loaded == db.table = "filled" /\ Load("ready")

-----------------------------------------------------------------------------
\* SQLite writes the log to the disk, for example at a checkpoint.
Sync ==
    /\ disk # db
    /\ disk' = db
    /\ UNCHANGED <<db, start, retried, torn, faults>>

Restarted(contents) ==
    /\ faults < MaxFaults
    /\ faults' = faults + 1
    /\ db' = contents
    /\ start' = "open"
    /\ retried' = FALSE
    /\ torn' = (torn \/ contents.table = "empty")

ProcessCrash == Restarted(db) /\ UNCHANGED disk

PowerCut == Restarted(disk) /\ UNCHANGED disk

Starting ==
    \/ newDatabase \/ SetDatabaseVersion \/ DoMigrate \/ cleanup
    \/ CreateTable \/ InsertRow \/ NoUpdateState
=============================================================================
