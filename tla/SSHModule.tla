------------------------------ MODULE SSHModule -----------------------------
(***************************************************************************)
(* The SSH update module (sshmodule.go), which copies an image to a remote *)
(* host and runs commands there, on its database, and driven by the update *)
(* handler.  The module keeps what Prepare() was given in memory only, and *)
(* persists a version in Apply(); the handler persists its state after     *)
(* each command; either write may fail, and the process may end between    *)
(* them.  A revert does nothing.                                           *)
(*                                                                         *)
(* The remote host is not part of the repository.  What it runs after an   *)
(* update that was cut short has no version; the module keeps for which    *)
(* versions the host needs an update, that one among them.                 *)
(***************************************************************************)
EXTENDS Database

VARIABLES
    version,    \* module.version
    pending,    \* module.pendingVersion, and module.filePath with it
    needed,     \* the versions an update to which the remote host needs
    state,      \* handler.state.UpdateState
    target,     \* the version of the update
    op,         \* the command whose result is to be persisted, or "none"
    result,     \* the state it leads to
    err,        \* the component failed in it
    restarted,  \* history: the process has started since the update was prepared
    halfDone    \* history: versions reported as installed though a command had failed

module == <<version, pending, needed>>
handler == <<state, target, op, result, err>>
history == <<restarted, halfDone>>
sshVars == <<vars, module, handler, history>>

Above(v) == {w \in Versions : w > v}

SSHInit ==
    /\ Init
    /\ version = EmptyVersion
    /\ pending = EmptyVersion
    /\ needed = Above(db.version)
    /\ state = "idle" /\ target = 0
    /\ op = "none" /\ result = "idle" /\ err = FALSE
    /\ restarted = TRUE
    /\ halfDone = {}

-----------------------------------------------------------------------------
\* New() of the handler and of the module: the persisted state is all that is left.
New ==
    /\ Loaded
    /\ version' = db.version
    /\ state' = db.state
    /\ target' = db.target
    /\ restarted' = TRUE
    /\ UNCHANGED <<pending, needed, op, result, err, halfDone>>

Command(name, states) ==
    /\ start = "ready"
    /\ op = "none"
    /\ state \in states
    /\ op' = name

(***************************************************************************)
(* verifySemver of the handler accepts higher versions only, and rejects   *)
(* an empty one; the download may fail.                                    *)
(***************************************************************************)
Prepare(v) ==
    /\ Command("prepare", {"idle"})
    /\ target' = v
    /\ \/ /\ version # EmptyVersion /\ v > version
          /\ result' = "prepared"
          /\ pending' = v
          /\ restarted' = FALSE
       \/ result' = "failed" /\ UNCHANGED <<pending, restarted>>
    /\ err' = (result' = "failed")
    /\ UNCHANGED <<vars, version, needed, state, halfDone>>

\* The image cannot be copied: there is no connection, or no image any more.
UpdateFails ==
    /\ result' = "failed"
    /\ UNCHANGED <<version, needed, halfDone>>

\* The remote host has carried the update out, or only a part of it.
Carried(out) == needed' = IF out THEN Above(pending) ELSE needed \cup {pending}

\* Mutant of RunCommands: the version is set before the image is copied.
VersionFirst(out) ==
    /\ version' = pending
    /\ \/ result' = "updated" /\ out
       \/ result' = "failed"
    /\ halfDone' = IF out THEN halfDone \ {pending} ELSE halfDone

(***************************************************************************)
(* The remote shell runs all commands, and its result is that of the last  *)
(* one: an update reported as done may be half done, and one that failed   *)
(* at the end of the session may be all there.                             *)
(***************************************************************************)
RunCommands(out) ==
    \/ /\ result' = IF pending = target THEN "updated" ELSE "failed"
       /\ version' = pending
       /\ halfDone' = IF out THEN halfDone \ {pending} ELSE halfDone \cup {pending}
    \/ /\ result' = "failed"
       /\ halfDone' = IF out THEN halfDone \ {pending} ELSE halfDone
       /\ UNCHANGED version

Deploy ==
    /\ pending # EmptyVersion
    /\ \E out \in BOOLEAN : Carried(out) /\ RunCommands(out)

Update ==
    /\ Command("update", {"prepared"})
    /\ UpdateFails \/ Deploy
    /\ err' = (result' = "failed")
    /\ UNCHANGED <<vars, pending, state, target, restarted>>

\* A statement that fails leaves the database as it was.
WriteFails ==
    /\ faults < MaxFaults
    /\ faults' = faults + 1
    /\ UNCHANGED db

\* Mutant of AppliedState: nothing is persisted.
NotPersisted == db

AppliedState == [db EXCEPT !.version = pending]

\* An apply ends in idle though the version could not be persisted.
Apply ==
    /\ Command("apply", {"updated"})
    /\ result' = "idle"
    /\ \/ db' = AppliedState /\ err' = FALSE /\ UNCHANGED faults
       \/ WriteFails /\ err' = TRUE
    /\ UNCHANGED <<disk, start, retried, torn, module, state, target, history>>

Revert ==
    /\ Command("revert", {"prepared", "updated", "failed"})
    /\ result' = "idle"
    /\ err' = FALSE
    /\ UNCHANGED <<vars, module, state, target, history>>

\* onStateChanged of the handler, at the end of each command.
SetUpdateState ==
    /\ op # "none"
    /\ op' = "none"
    /\ \/ /\ db' = [db EXCEPT !.state = result, !.target = target]
          /\ state' = result
          /\ UNCHANGED faults
       \/ WriteFails /\ state' = "failed"
    /\ UNCHANGED <<disk, start, retried, torn, module, result, err, target, history>>

Crash ==
    /\ ProcessCrash \/ PowerCut
    /\ version' = EmptyVersion
    /\ pending' = EmptyVersion
    /\ state' = "idle"
    /\ op' = "none"
    /\ UNCHANGED <<needed, result, err, target, history>>

Start == New \/ (Starting /\ UNCHANGED <<module, handler, history>>)

Next ==
    \/ Start
    \/ \E v \in Versions : Prepare(v)
    \/ Update \/ Apply \/ Revert \/ SetUpdateState
    \/ (MigrationError \/ Sync) /\ UNCHANGED <<module, handler, history>>
    \/ Crash

\* The system starts the process again whenever it has ended.
Spec == SSHInit /\ [][Next]_sshVars /\ WF_sshVars(Start)

-----------------------------------------------------------------------------
\* Every variable has its type; a process that runs has a migrated database with its row.
TypeOK ==
    /\ db \in Databases /\ disk \in Databases
    /\ start \in {"open", "version", "migrate", "cleanup", "config", "insert", "load", "ready"}
    /\ retried \in BOOLEAN /\ torn \in BOOLEAN /\ restarted \in BOOLEAN /\ err \in BOOLEAN
    /\ faults \in 0 .. MaxFaults
    /\ version \in Versions \cup {EmptyVersion}
    /\ pending \in Versions \cup {EmptyVersion}
    /\ needed \subseteq Versions /\ halfDone \subseteq Versions
    /\ op \in {"none", "prepare", "update", "apply", "revert"}
    /\ result \in States /\ state \in States
    /\ target \in Versions
    /\ start = "ready" => db.schema = DbVersion /\ db.table = "filled"
    /\ op # "none" => start = "ready"

(***************************************************************************)
(* An apply without an error persists the version of the update, which is  *)
(* also the one reported, unless the process was started since Prepare():  *)
(* then an empty version is persisted, with which no update is ever        *)
(* accepted again.  The remote host does not need that update any more,    *)
(* unless a command of it has failed unnoticed (Prepare, Update, Apply).   *)
(***************************************************************************)
AppliedVersion ==
    op = "apply" =>
        /\ ~err => db.version = IF restarted THEN EmptyVersion ELSE target
        /\ ~restarted => version = target /\ target \notin needed \ halfDone

(***************************************************************************)
(* An update the remote host needs is never refused because of the version *)
(* reported or persisted, whatever was lost, undone or cut short, unless   *)
(* that version is empty (AppliedVersion), or one whose update was         *)
(* reported as done though a command had failed (runCommands, of which     *)
(* sshmodule_test.go:246 expects an error): New, Update, Apply,            *)
(* verifySemver.                                                           *)
(***************************************************************************)
Reported == {version, db.version} \ {EmptyVersion}

NeverAhead == \A v \in Reported \ halfDone : needed \subseteq Above(v)

(***************************************************************************)
(* Once crashes stop the process gets through its start, with any database *)
(* of an earlier release too, unless one of them has come between the      *)
(* config table and its row, which no start repairs (newDatabase, cleanup, *)
(* createConfigTable).                                                     *)
(***************************************************************************)
ComesUp == []<>(start = "ready" \/ torn)
=============================================================================
