--------------------------- MODULE SSHModuleProofs --------------------------
(***************************************************************************)
(* What the SSH module persists, proved for any versions, migrations and   *)
(* faults.  What is persisted and reported stays behind what the remote    *)
(* host needs as long as the handler's state says which step of the update *)
(* the module is at: the invariant has one part for each.                  *)
(***************************************************************************)
EXTENDS SSHModule, TLAPS

\* Each command has its results, and belongs to a process that has started.
Results ==
    /\ op = "prepare" => result \in {"prepared", "failed"}
    /\ op = "update" => result \in {"updated", "failed"}
    /\ op \in {"apply", "revert"} => result = "idle"

\* From the migration on the schema is current; memory is empty until the process is ready.
Started ==
    /\ start \in {"config", "insert", "load", "ready"} => db.schema = DbVersion
    /\ start # "ready" => version = EmptyVersion /\ pending = EmptyVersion
    /\ start = "ready" => (pending = EmptyVersion <=> restarted)
    /\ pending # EmptyVersion => version # EmptyVersion

\* The remote host needs no version up to v, or v was reported though half done.
Unneeded(v) == v \in halfDone \/ needed \subseteq Above(v)

\* What survives a power cut is older than what is persisted, but for an empty version.
DiskBehind ==
    /\ 0 \notin needed
    /\ disk.version # EmptyVersion => Unneeded(disk.version)
    /\ db.version # EmptyVersion => disk.version <= db.version
    /\ start = "ready" => db.version <= version
    /\ version # EmptyVersion => disk.version <= version

\* The update is prepared, in memory too.
PendingPrepared ==
    /\ pending # EmptyVersion
    /\ \/ op = "none" /\ state = "prepared"
       \/ op = "prepare" /\ result = "prepared"

\* The update is on the remote host, and the process that copied it still runs.
PendingUpdated ==
    /\ pending # EmptyVersion
    /\ \/ op = "none" /\ state = "updated"
       \/ op = "update" /\ result = "updated"

Steps ==
    /\ PendingPrepared => pending = target /\ version < pending
    /\ PendingUpdated => pending = target /\ version = pending /\ Unneeded(pending)

IInv == TypeOK /\ Results /\ Started /\ DiskBehind /\ NeverAhead /\ Steps /\ AppliedVersion

USE DatabaseAssumption
DEF Versions, EmptyVersion, NoSchema, States, Databases, Above, Unneeded, Reported, history

-----------------------------------------------------------------------------
\* No file is an empty database.
LEMMA NoFileIsDatabase == NoFile \in Databases
BY DEF NoFile

\* IInv holds at first.
LEMMA InitIInv == SSHInit => IInv
<1> SUFFICES ASSUME SSHInit PROVE IInv
    OBVIOUS
<1>1. db \in Databases
    <2>1. CASE db = NoFile
        BY <2>1, NoFileIsDatabase
    <2>2. CASE db # NoFile
        <3>1. db \in [schema : {NoSchema} \cup Migrations, table : {"filled"}, state : {"idle"},
                      target : {0}, version : Versions]
            BY <2>2 DEF SSHInit, Init
        <3>2. {NoSchema} \cup Migrations \subseteq -1 .. DbVersion /\ 0 \in Versions
            OBVIOUS
        <3> QED
            BY <3>1, <3>2
    <2> QED
        BY <2>1, <2>2
<1>2. db.version \in Versions
    BY DEF SSHInit, Init, NoFile
<1>3. TypeOK
    <2>1. 0 \in Versions /\ 0 \in 0 .. MaxFaults
        OBVIOUS
    <2> QED
        BY <1>1, <1>2, <2>1 DEF SSHInit, Init, TypeOK
<1>4. Results /\ Started /\ Steps /\ AppliedVersion
    BY DEF SSHInit, Init, Results, Started, Steps, PendingPrepared, PendingUpdated, AppliedVersion
<1>5. DiskBehind /\ NeverAhead
    BY <1>2 DEF SSHInit, Init, DiskBehind, NeverAhead
<1> QED
    BY <1>3, <1>4, <1>5 DEF IInv

-----------------------------------------------------------------------------
\* The steps of the start change what the database holds but not the versions, or delete it.
LEMMA StartingIInv ==
    ASSUME IInv, Starting, UNCHANGED <<module, handler, history>>
    PROVE  IInv'
<1> USE DEF IInv, module, handler
<1>1. start # "ready" /\ start' # "ready" /\ op = "none"
    BY DEF Starting, Step, newDatabase, SetDatabaseVersion, DoMigrate, cleanup, CreateTable,
        InsertRow, NoUpdateState, Load, MigrationFailed, TypeOK
<1>2. db' \in Databases /\ disk' \in Databases
    BY NoFileIsDatabase DEF Starting, newDatabase, SetDatabaseVersion, DoMigrate, cleanup,
        CreateTable, InsertRow, NoUpdateState, Load, TypeOK
<1>3. \/ db'.version = db.version /\ disk' = disk
      \/ db' = NoFile /\ disk' = NoFile
    BY DEF Starting, newDatabase, SetDatabaseVersion, DoMigrate, cleanup, CreateTable,
        InsertRow, NoUpdateState, Load, TypeOK
<1>4. start' \in {"config", "insert", "load"} => db'.schema = DbVersion
    BY DEF Starting, Step, newDatabase, SetDatabaseVersion, DoMigrate, cleanup, CreateTable,
        InsertRow, NoUpdateState, Load, MigrationFailed, TypeOK, Started
<1>5. TypeOK'
    <2>1. /\ retried' \in BOOLEAN /\ torn' = torn /\ faults' = faults
          /\ start' \in {"open", "version", "migrate", "cleanup", "config", "insert", "load"}
        BY DEF Starting, Step, newDatabase, SetDatabaseVersion, DoMigrate, cleanup, CreateTable,
            InsertRow, NoUpdateState, Load, MigrationFailed, TypeOK
    <2> QED
        BY <1>1, <1>2, <2>1 DEF TypeOK
<1>6. Results' /\ Started' /\ Steps' /\ AppliedVersion'
    BY <1>1, <1>4 DEF Results, Started, Steps, PendingPrepared, PendingUpdated, AppliedVersion, TypeOK
<1>7. DiskBehind' /\ NeverAhead'
    BY <1>1, <1>3 DEF DiskBehind, NeverAhead, Started, TypeOK, NoFile
<1> QED
    BY <1>5, <1>6, <1>7

\* A new process reports the version that is persisted.
LEMMA NewIInv == ASSUME IInv, New PROVE IInv'
<1> USE DEF IInv, New, Loaded, Load, Step
<1>1. op = "none" /\ version = EmptyVersion /\ pending = EmptyVersion
    BY DEF TypeOK, Started
<1>2. db.version \in Versions \cup {EmptyVersion} /\ db.target \in Versions /\ db.state \in States
    BY DEF TypeOK
<1>3. TypeOK'
    <2>1. start' = "ready" /\ db.schema = DbVersion /\ db.table = "filled"
        BY DEF Started
    <2>2. version' \in Versions \cup {EmptyVersion} /\ target' \in Versions /\ state' \in States
        BY <1>2
    <2>3. retried' \in BOOLEAN /\ torn' \in BOOLEAN /\ restarted' \in BOOLEAN
        BY DEF TypeOK
    <2>4. UNCHANGED <<db, disk, faults, pending, needed, op, result, err, halfDone>>
        OBVIOUS
    <2> HIDE DEF New
    <2> QED
        BY <1>1, <2>1, <2>2, <2>3, <2>4 DEF TypeOK
<1>4. Results' /\ Started' /\ Steps' /\ AppliedVersion'
    BY <1>1 DEF Results, Started, Steps, PendingPrepared, PendingUpdated, AppliedVersion
<1>5. DiskBehind' /\ NeverAhead'
    BY <1>1, <1>2 DEF DiskBehind, NeverAhead, TypeOK
<1> QED
    BY <1>3, <1>4, <1>5

\* An update is prepared when its version is higher than the one in memory.
LEMMA PrepareIInv == ASSUME IInv, NEW v \in Versions, Prepare(v) PROVE IInv'
<1> USE DEF IInv, Prepare, Command, vars
<1>1. TypeOK'
    <2>1. restarted' \in BOOLEAN
        BY DEF TypeOK
    <2>2. pending' \in Versions \cup {EmptyVersion} /\ target' \in Versions
        BY DEF TypeOK
    <2>3. result' \in States /\ op' = "prepare" /\ start = "ready"
        OBVIOUS
    <2> QED
        BY <2>1, <2>2, <2>3 DEF TypeOK
<1>2. Results' /\ Started' /\ AppliedVersion'
    BY DEF Results, Started, AppliedVersion
<1>3. Steps'
    BY DEF Steps, PendingPrepared, PendingUpdated
<1>4. DiskBehind' /\ NeverAhead'
    BY DEF DiskBehind, NeverAhead
<1> QED
    BY <1>1, <1>2, <1>3, <1>4

\* The image is the one prepared, so every version persisted so far is lower.
LEMMA UpdateIInv == ASSUME IInv, Update PROVE IInv'
<1> USE DEF IInv, Update, Command, vars
<1>1. CASE UpdateFails
    <2>1. TypeOK' /\ Results' /\ Started' /\ AppliedVersion'
        BY <1>1 DEF UpdateFails, TypeOK, Results, Started, AppliedVersion
    <2>2. DiskBehind' /\ NeverAhead' /\ Steps'
        BY <1>1 DEF UpdateFails, DiskBehind, NeverAhead, Steps, PendingPrepared, PendingUpdated,
            TypeOK
    <2> QED
        BY <2>1, <2>2
<1>2. CASE Deploy
    <2>1. PICK out \in BOOLEAN : Carried(out) /\ RunCommands(out)
        BY <1>2 DEF Deploy
    <2>2. pending \in Versions /\ pending = target /\ version \in Versions /\ version < pending
        BY <1>2 DEF Deploy, TypeOK, Steps, PendingPrepared, Started
    <2>3. /\ result' \in {"updated", "failed"}
          /\ version' \in {version, pending} /\ (result' = "updated" => version' = pending)
          /\ halfDone' \subseteq Versions
        BY <2>1, <2>2 DEF RunCommands, TypeOK
    <2>4. needed' \subseteq Versions /\ 0 \notin needed'
        <3>1. needed \subseteq Versions /\ 0 \notin needed /\ 0 < pending
            BY <2>2 DEF TypeOK, DiskBehind
        <3>2. needed' = Above(pending) \/ needed' = needed \cup {pending}
            BY <2>1 DEF Carried
        <3>3. 0 \notin Above(pending) /\ Above(pending) \subseteq Versions
            BY <2>2, <3>1
        <3> QED
            BY <2>2, <3>1, <3>2, <3>3
    <2>5. TypeOK' /\ Results' /\ Started' /\ AppliedVersion'
        BY <2>2, <2>3, <2>4 DEF TypeOK, Results, Started, AppliedVersion
    <2>6. ASSUME NEW v \in Versions, v < pending, Unneeded(v) PROVE Unneeded(v)'
        BY <2>1, <2>2, <2>6 DEF Carried, RunCommands
    <2>7. version' = pending => Unneeded(pending)'
        BY <2>1, <2>2 DEF Carried, RunCommands
    <2>8. db.version # EmptyVersion => db.version \in Versions /\ db.version < pending
        BY <2>2 DEF TypeOK, DiskBehind
    <2>9. disk.version # EmptyVersion => disk.version \in Versions /\ disk.version < pending
        BY <2>2 DEF TypeOK, DiskBehind
    <2>10. \A v \in Reported : Unneeded(v)
        BY DEF NeverAhead
    <2>11. DiskBehind'
        BY <2>2, <2>3, <2>4, <2>6, <2>9 DEF DiskBehind, TypeOK
    <2>12. NeverAhead'
        BY <2>2, <2>3, <2>6, <2>7, <2>8, <2>10 DEF NeverAhead
    <2>13. Steps'
        BY <2>2, <2>3, <2>7 DEF Steps, PendingPrepared, PendingUpdated
    <2> QED
        BY <2>5, <2>11, <2>12, <2>13
<1> QED
    BY <1>1, <1>2

\* A statement of the database works or fails.
LEMMA ApplyType ==
    ASSUME IInv, Apply
    PROVE  /\ db' \in Databases /\ faults' \in 0 .. MaxFaults /\ err' \in BOOLEAN
           /\ db' = db \/ db' = [db EXCEPT !.version = pending]
           /\ db'.schema = db.schema /\ db'.table = db.table
           /\ ~err' => db'.version = pending
<1>1. CASE db' = AppliedState /\ err' = FALSE /\ UNCHANGED faults
    BY <1>1 DEF IInv, TypeOK, AppliedState
<1>2. CASE WriteFails /\ err' = TRUE
    BY <1>2 DEF IInv, TypeOK, WriteFails
<1> QED
    BY <1>1, <1>2 DEF Apply

\* An apply persists the version of the update.
LEMMA ApplyIInv == ASSUME IInv, Apply PROVE IInv'
<1> USE DEF IInv, Apply, Command, module
<1>1. /\ UNCHANGED <<disk, start, retried, torn, version, pending, needed, state, target>>
      /\ UNCHANGED <<restarted, halfDone>>
      /\ op = "none" /\ op' = "apply" /\ start = "ready" /\ state = "updated" /\ result' = "idle"
    OBVIOUS
<1> HIDE DEF Apply
<1>2. TypeOK'
    BY <1>1, ApplyType DEF TypeOK
<1>3. Results' /\ Started' /\ Steps'
    BY <1>1, ApplyType DEF Results, Started, Steps, PendingPrepared, PendingUpdated
<1>4. pending # EmptyVersion => pending = target /\ version = pending /\ Unneeded(pending)
    BY <1>1 DEF Steps, PendingUpdated
<1>5. db'.version \in {db.version, pending}
    BY ApplyType DEF TypeOK
<1>6. DiskBehind'
    BY <1>1, <1>4, <1>5 DEF DiskBehind, TypeOK, Started
<1>7. NeverAhead'
    BY <1>1, <1>4, <1>5 DEF NeverAhead
<1>8. AppliedVersion'
    BY <1>1, <1>4, ApplyType DEF AppliedVersion, Started
<1> QED
    BY <1>2, <1>3, <1>6, <1>7, <1>8

\* A revert changes nothing.
LEMMA RevertIInv == ASSUME IInv, Revert PROVE IInv'
<1> USE DEF IInv, module
<1>1. /\ UNCHANGED <<db, disk, start, retried, torn, faults, version, pending, needed>>
      /\ UNCHANGED <<state, target, restarted, halfDone>>
      /\ op' = "revert" /\ result' = "idle" /\ err' = FALSE /\ start = "ready"
    BY DEF Revert, Command, vars, history
<1>2. TypeOK'
    <2>1. op' \in {"none", "prepare", "update", "apply", "revert"} /\ result' \in States
        BY <1>1
    <2>2. err' \in BOOLEAN
        BY <1>1
    <2>3. start' = "ready" => db'.schema = DbVersion /\ db'.table = "filled"
        BY <1>1 DEF TypeOK
    <2> QED
        BY <1>1, <2>1, <2>2, <2>3, SMTT(30) DEF TypeOK
<1>3. Results' /\ Started'
    BY <1>1 DEF Results, Started
<1>4. DiskBehind' /\ NeverAhead'
    BY <1>1 DEF DiskBehind, NeverAhead
<1>5. Steps' /\ AppliedVersion'
    BY <1>1 DEF Steps, PendingPrepared, PendingUpdated, AppliedVersion
<1> QED
    BY <1>2, <1>3, <1>4, <1>5

\* The handler's state follows the command, or the write that fails.
LEMMA SetUpdateStateIInv == ASSUME IInv, SetUpdateState PROVE IInv'
<1> USE DEF IInv, module
<1>1. /\ UNCHANGED <<disk, start, retried, torn, version, pending, needed, result, err, target>>
      /\ UNCHANGED <<restarted, halfDone>>
      /\ op # "none" /\ op' = "none"
    BY DEF SetUpdateState
<1>2. /\ db' \in Databases /\ faults' \in 0 .. MaxFaults
      /\ state' \in {result, "failed"}
      /\ db'.version = db.version /\ db'.schema = db.schema /\ db'.table = db.table
    <2>1. CASE db' = [db EXCEPT !.state = result, !.target = target] /\ state' = result
               /\ UNCHANGED faults
        BY <2>1 DEF TypeOK
    <2>2. CASE WriteFails /\ state' = "failed"
        BY <2>2 DEF TypeOK, WriteFails
    <2> QED
        BY <2>1, <2>2 DEF SetUpdateState
<1>3. TypeOK'
    BY <1>1, <1>2 DEF TypeOK
<1>4. Results' /\ Started' /\ AppliedVersion'
    BY <1>1, <1>2 DEF Results, Started, AppliedVersion
<1>5. Steps'
    BY <1>1, <1>2 DEF Steps, PendingPrepared, PendingUpdated, Results, TypeOK
<1>6. DiskBehind' /\ NeverAhead'
    BY <1>1, <1>2 DEF DiskBehind, NeverAhead
<1> QED
    BY <1>3, <1>4, <1>5, <1>6

\* A migration that fails keeps the versions.
LEMMA MigrationErrorIInv ==
    ASSUME IInv, MigrationError, UNCHANGED <<module, handler, history>>
    PROVE  IInv'
<1> USE DEF IInv, MigrationError, MigrationFailed, module, handler
<1>1. TypeOK'
    <2>1. faults' \in 0 .. MaxFaults
        BY DEF TypeOK
    <2>2. start' \in {"open", "cleanup"} /\ op = "none"
        BY DEF TypeOK
    <2>3. retried' \in BOOLEAN /\ torn' \in BOOLEAN /\ restarted' \in BOOLEAN
        BY DEF TypeOK
    <2>4. UNCHANGED <<db, disk, version, pending, needed, op, result, err, state, target, halfDone>>
        OBVIOUS
    <2> HIDE DEF MigrationError, MigrationFailed
    <2> QED
        BY <2>1, <2>2, <2>3, <2>4 DEF TypeOK
<1>2. Results' /\ Started' /\ Steps' /\ AppliedVersion'
    BY DEF Results, Started, Steps, PendingPrepared, PendingUpdated, AppliedVersion
<1>3. DiskBehind' /\ NeverAhead'
    BY DEF DiskBehind, NeverAhead
<1> QED
    BY <1>1, <1>2, <1>3

\* What reaches the disk was persisted before.
LEMMA SyncIInv ==
    ASSUME IInv, Sync, UNCHANGED <<module, handler, history>>
    PROVE  IInv'
BY DEF IInv, Sync, module, handler, TypeOK, Results, Started,
    DiskBehind, NeverAhead, Steps, PendingPrepared, PendingUpdated, AppliedVersion

\* A crash loses the memory, a power cut the last commits with it.
LEMMA CrashIInv == ASSUME IInv, Crash PROVE IInv'
<1> USE DEF IInv, Crash
<1>1. PICK contents \in {db, disk} : Restarted(contents) /\ disk' = disk
    BY DEF ProcessCrash, PowerCut
<1>2. db' = contents /\ start' = "open" /\ retried' = FALSE
    BY <1>1 DEF Restarted
<1>3. TypeOK'
    <2>1. torn' \in BOOLEAN
        BY <1>1, Zenon DEF Restarted, TypeOK
    <2>2. faults' \in 0 .. MaxFaults
        BY <1>1 DEF Restarted, TypeOK
    <2> QED
        BY <1>1, <1>2, <2>1, <2>2 DEF TypeOK
<1>4. Results' /\ Started' /\ Steps' /\ AppliedVersion'
    BY <1>2 DEF Results, Started, Steps, PendingPrepared, PendingUpdated, AppliedVersion
<1>5. DiskBehind' /\ NeverAhead'
    BY <1>1, <1>2 DEF DiskBehind, NeverAhead, TypeOK
<1> QED
    BY <1>3, <1>4, <1>5

\* Nothing happens.
LEMMA StutterIInv == ASSUME IInv, UNCHANGED sshVars PROVE IInv'
BY DEF IInv, sshVars, vars, module, handler, TypeOK, Results, Started,
    DiskBehind, NeverAhead, Steps, PendingPrepared, PendingUpdated, AppliedVersion

\* Every step keeps IInv.
LEMMA NextIInv == IInv /\ [Next]_sshVars => IInv'
BY StartingIInv, NewIInv, PrepareIInv, UpdateIInv, ApplyIInv, RevertIInv, SetUpdateStateIInv,
    MigrationErrorIInv, SyncIInv, CrashIInv, StutterIInv DEF Next, Start

\* So it is an invariant.
LEMMA IInvAlways == Spec => []IInv
BY InitIInv, NextIInv, PTL DEF Spec

-----------------------------------------------------------------------------
(***************************************************************************)
(* Every variable of the SSH module and its database keeps its type, and a *)
(* process that is ready has a migrated database with its row.             *)
(***************************************************************************)
THEOREM SSHTypeCorrect == Spec => []TypeOK
<1>1. IInv => TypeOK
    BY DEF IInv
<1> QED
    BY <1>1, IInvAlways, PTL

(***************************************************************************)
(* An update the remote host needs is never refused for the version that   *)
(* is reported or persisted, but for an empty one and for one that was     *)
(* reported half done: for any versions and migrations and any number of   *)
(* crashes, power cuts and failures (New, Update, Apply, cleanup).         *)
(***************************************************************************)
THEOREM NeverAheadAlways == Spec => []NeverAhead
<1>1. IInv => NeverAhead
    BY DEF IInv
<1> QED
    BY <1>1, IInvAlways, PTL

(***************************************************************************)
(* An apply without an error persists the version of the update, or the    *)
(* empty one exactly when the process was started since Prepare(), and the *)
(* remote host needs that version no more unless it was reported half done *)
(* (Prepare, Update, Apply).                                               *)
(***************************************************************************)
THEOREM AppliedVersionAlways == Spec => []AppliedVersion
<1>1. IInv => AppliedVersion
    BY DEF IInv
<1> QED
    BY <1>1, IInvAlways, PTL
=============================================================================
