------------------------------ MODULE DualPart ------------------------------
(***************************************************************************)
(* The dual partition module (dualpartmodule.go) with the U-Boot or the    *)
(* EFI boot controller, called by an update handler that has this one      *)
(* component.  Every method is broken into the steps that leave something  *)
(* behind: the copy of a partition, the boot configuration, the module     *)
(* state in the database, the return to the handler.  Power may be cut and *)
(* the process may die between any two of them.                            *)
(*                                                                         *)
(* The boot loader is not part of the repository: it boots the configured  *)
(* partition when that one is bootable and the other one otherwise.        *)
(***************************************************************************)
EXTENDS Integers

CONSTANTS
    Controllers,  \* the boot controllers: "uboot", "efi"
    MaxVersion,   \* bound on the versions of the component
    Faults,       \* what may go wrong, of FaultKinds
    MaxFaults     \* bound on the number of faults

(***************************************************************************)
(* "power":    power is lost at any time                                   *)
(* "process":  the process dies at any time and is restarted               *)
(* "io":       a copy, the boot configuration or the database fails        *)
(* "check":    the update checker finds a service that does not run        *)
(* "init":     Init() fails before the module state is read                *)
(***************************************************************************)
FaultKinds == {"power", "process", "io", "check", "init"}

ASSUME DualPartAssumption ==
    /\ Controllers \subseteq {"uboot", "efi"}
    /\ MaxVersion \in Nat \ {0}
    /\ Faults \subseteq FaultKinds
    /\ MaxFaults \in Nat

VARIABLES
    part,     \* what each partition holds
    boot,     \* the boot configuration: its controller, main, for EFI the one-shot next
    current,  \* the partition the system runs from
    version,  \* the version the system runs
    disk,     \* moduleState in the database
    mem,      \* module.state
    bootErr,  \* module.bootErr # nil
    image,    \* what the image at ImagePath holds
    handler,  \* the update state the handler has persisted
    target,   \* the version the update asks for
    Error,    \* handler.state.Error # ""
    op,       \* the method called last
    pc,       \* the step of it to be taken next
    ret,      \* what it returns
    before,   \* history: the version running when the update was prepared
    decided,  \* history: apply and revert commands accepted for this update
    mishaps,  \* history: see Mishaps
    faults    \* number of faults so far

system == <<part, boot, current, version>>
memory == <<mem, bootErr, op, pc, ret>>
update == <<handler, target, Error, before, decided>>
vars == <<system, disk, memory, image, update, mishaps, faults>>

Partitions == {0, 1}

Other(p) == 1 - p

Versions == 0 .. MaxVersion

\* A partition that is empty, half written, or written with an image that does not boot.
Unbootable == -1

Contents == Versions \cup {Unbootable}

None == -1

States == {"idle", "prepared", "updated"}

ModuleStates == [State : States, UpdatePartition : Partitions]

ZeroState == [State |-> "idle", UpdatePartition |-> 0]

(***************************************************************************)
(* Moments a later revert does not recover from, each recorded when it     *)
(* happens:                                                                *)
(* "stale":   Revert() of an update that was prepared but never begun      *)
(*            takes the running partition for the updated one              *)
(* "torn":    Update() set the boot partition but not the module state     *)
(* "killed":  the process died after Revert(), before the reboot           *)
(* "failed":  an apply or a revert failed, and the handler went to idle    *)
(* "wavered": an apply followed an interrupted revert, or a revert an      *)
(*            interrupted apply                                            *)
(* "blind":   an apply or a revert of a module that could not read its     *)
(*            state in Init()                                              *)
(***************************************************************************)
Mishaps == {"stale", "torn", "killed", "failed", "wavered", "blind"}

Init ==
    /\ \E other \in {0, Unbootable} : part = [p \in Partitions |-> IF p = 0 THEN 0 ELSE other]
    /\ boot \in [by : Controllers, main : {0}, next : {None}]
    /\ current = 0
    /\ version = 0
    /\ disk = ZeroState
    /\ mem = ZeroState
    /\ bootErr = FALSE
    /\ image = Unbootable
    /\ handler = "idle"
    /\ target = 0
    /\ Error = FALSE
    /\ op = "none"
    /\ pc = "ready"
    /\ ret = [err |-> FALSE, reboot |-> FALSE]
    /\ before = 0
    /\ decided = {}
    /\ mishaps = {}
    /\ faults = 0

Fault(kind) ==
    /\ kind \in Faults
    /\ faults < MaxFaults
    /\ faults' = faults + 1

-----------------------------------------------------------------------------
Bootable(p) == p # None /\ part[p] # Unbootable

\* The partition a boot starts from.
BootChoice ==
    IF Bootable(boot.next) THEN boot.next
    ELSE IF Bootable(boot.main) THEN boot.main ELSE Other(boot.main)

\* The process ends and with it the module's memory.
Die ==
    /\ pc' = "down"
    /\ mem' = ZeroState
    /\ bootErr' = FALSE
    /\ op' = "none"
    /\ ret' = [err |-> FALSE, reboot |-> FALSE]

Boot ==
    /\ Bootable(BootChoice)
    /\ current' = BootChoice
    /\ version' = part[BootChoice]
    /\ boot' = [boot EXCEPT !.next = None]
    /\ Die
    /\ UNCHANGED part

\* Mutant of SetBootOK: the boot order is left as it is.
BootOrderKept == boot

\* SetBootOK: the EFI controller makes the running partition the first in boot order.
SetBootOK == [boot EXCEPT !.main = IF boot.by = "efi" THEN current ELSE @]

\* SetMainBoot: for EFI it only holds for the next boot.
SetMainBoot(p) ==
    IF boot.by = "efi" THEN [boot EXCEPT !.next = p] ELSE [boot EXCEPT !.main = p]

\* Init() of a new process.
Start ==
    /\ pc = "down"
    /\ pc' = "ready"
    /\ \/ /\ mem' = disk
          /\ boot' = SetBootOK
          /\ UNCHANGED <<bootErr, faults>>
       \/ /\ Fault("check")
          /\ mem' = disk
          /\ boot' = SetBootOK
          /\ bootErr' = TRUE
       \/ /\ Fault("init")
          /\ mem' = ZeroState
          /\ bootErr' = TRUE
          /\ boot' \in {boot, SetBootOK}
    /\ UNCHANGED <<part, current, version, disk, op, ret, image, update, mishaps>>

-----------------------------------------------------------------------------
Return(err, reboot) ==
    /\ pc' = "return"
    /\ ret' = [err |-> err, reboot |-> reboot]

\* Mutant of Destination: Apply() copies like Revert() does.
AlwaysUpdated(method, m) == m.UpdatePartition

\* The partition a method writes, and the one it then makes the main one.
Destination(method, m) ==
    IF method = "apply" THEN Other(m.UpdatePartition) ELSE m.UpdatePartition

NewMain == IF op = "update" THEN mem.UpdatePartition ELSE Other(mem.UpdatePartition)

\* A copy overwrites its destination from the first block on.
BeginCopy(method, m) ==
    /\ pc' = "copy"
    /\ mem' = m
    /\ part' = [part EXCEPT ![Destination(method, m)] = Unbootable]
    /\ UNCHANGED ret

(***************************************************************************)
(* Prepare() is called with a version higher than the one that runs        *)
(* (verifySemver); the image may hold another version, or not boot.  The   *)
(* handler does not call it when Init() has failed.                        *)
(***************************************************************************)
Prepare(v, img) ==
    /\ pc = "ready" /\ handler = "idle"
    /\ op' = "prepare"
    /\ target' = v
    /\ image' = img
    /\ Error' = FALSE
    /\ before' = version
    /\ decided' = {}
    /\ IF mem.State = "updated" \/ v <= version \/ bootErr
       THEN Return(TRUE, FALSE)
       ELSE pc' = "state" /\ UNCHANGED ret
    /\ UNCHANGED <<system, disk, mem, bootErr, handler, mishaps, faults>>

\* Mutant of SecPartition: the running partition is written.
RunningPartition == current

\* Mutant of SecPartition: the modulo is forgotten.
NextPartition == current + 1

SecPartition == Other(current)

\* Mutant of NotUpdated: what the update checker has found is forgotten.
NotChecked == current # mem.UpdatePartition \/ version # target

\* What Update() checks after the reboot, and then updateComponent of the handler.
NotUpdated == current # mem.UpdatePartition \/ bootErr \/ version # target

(***************************************************************************)
(* Update() of a prepared module writes the partition that does not run;   *)
(* of an updated one, after the reboot, it tells whether the update runs.  *)
(* The handler then compares the version.                                  *)
(***************************************************************************)
Update ==
    /\ pc = "ready" /\ handler = "prepared"
    /\ op' = "update"
    /\ Error' = FALSE
    /\ \/ /\ mem.State = "updated"
          /\ Return(NotUpdated, FALSE)
          /\ UNCHANGED <<part, mem>>
       \/ /\ mem.State = "idle"
          /\ Return(TRUE, FALSE)
          /\ UNCHANGED <<part, mem>>
       \/ /\ mem.State = "prepared"
          /\ BeginCopy("update", [mem EXCEPT !.UpdatePartition = SecPartition])
    /\ UNCHANGED <<boot, current, version, disk, bootErr, image, handler, target, before,
                   decided, mishaps, faults>>

Decided(decision) ==
    (IF decided \ {decision} # {} THEN {"wavered"} ELSE {}) \cup
    (IF mem.State = "idle" /\ disk.State # "idle" THEN {"blind"} ELSE {})

\* Revert() copies the partition that is not the updated one over the updated one.
Revert ==
    /\ pc = "ready" /\ handler \in {"prepared", "updated", "failed"}
    /\ op' = "revert"
    /\ Error' = FALSE
    /\ decided' = decided \cup {"revert"}
    /\ IF mem.State = "idle"
       THEN Return(FALSE, FALSE) /\ UNCHANGED <<part, mem>>
       ELSE BeginCopy("revert", mem)
    /\ mishaps' = mishaps \cup Decided("revert") \cup
         (IF mem.State = "prepared" /\ mem.UpdatePartition = current THEN {"stale"} ELSE {})
    /\ UNCHANGED <<boot, current, version, disk, bootErr, image, handler, target, before,
                   faults>>

\* Apply() copies the updated partition over the other one.
Apply ==
    /\ pc = "ready" /\ handler = "updated"
    /\ op' = "apply"
    /\ Error' = FALSE
    /\ decided' = decided \cup {"apply"}
    /\ \/ /\ mem.State = "idle"
          /\ Return(FALSE, FALSE)
          /\ UNCHANGED <<part, mem>>
       \/ /\ mem.State = "prepared"
          /\ Return(TRUE, FALSE)
          /\ UNCHANGED <<part, mem>>
       \/ /\ mem.State = "updated"
          /\ BeginCopy("apply", mem)
    /\ mishaps' = mishaps \cup Decided("apply")
    /\ UNCHANGED <<boot, current, version, disk, bootErr, image, handler, target, before,
                   faults>>

-----------------------------------------------------------------------------
Copied == IF op = "update" THEN image ELSE part[Other(Destination(op, mem))]

CopyDone ==
    /\ pc = "copy"
    /\ pc' = IF op = "apply" THEN "state" ELSE "main"
    /\ part' = [part EXCEPT ![Destination(op, mem)] = Copied]
    /\ UNCHANGED <<boot, current, version, disk, mem, bootErr, op, ret, image, update,
                   mishaps, faults>>

MainBootSet ==
    /\ pc = "main"
    /\ pc' = "state"
    /\ boot' = SetMainBoot(NewMain)
    /\ UNCHANGED <<part, current, version, disk, mem, bootErr, op, ret, image, update,
                   mishaps, faults>>

\* A failed copy or boot configuration ends the method.
StepFails ==
    /\ pc \in {"copy", "main"}
    /\ Fault("io")
    /\ Return(TRUE, FALSE)
    /\ UNCHANGED <<system, disk, mem, bootErr, op, image, update, mishaps>>

NewState == CASE op = "prepare" -> "prepared" [] op = "update" -> "updated" [] OTHER -> "idle"

\* Mutant of RebootRequired: Revert() does not ask for a reboot.
RebootOfUpdate == op = "update"

RebootRequired ==
    CASE op = "update" -> TRUE
      [] op = "revert" -> current = mem.UpdatePartition
      [] OTHER         -> FALSE

\* setState changes the memory first and then the database.
SetState ==
    /\ pc = "state"
    /\ mem' = [mem EXCEPT !.State = NewState]
    /\ disk' = mem'
    /\ Return(FALSE, RebootRequired)
    /\ UNCHANGED <<system, bootErr, op, image, update, mishaps, faults>>

SetStateFails ==
    /\ pc = "state"
    /\ Fault("io")
    /\ mem' = [mem EXCEPT !.State = NewState]
    /\ Return(TRUE, FALSE)
    /\ mishaps' = mishaps \cup (IF op = "update" THEN {"torn"} ELSE {})
    /\ UNCHANGED <<system, disk, bootErr, op, image, update>>

-----------------------------------------------------------------------------
(***************************************************************************)
(* The handler acts on what a method returns: it persists its next state,  *)
(* or reboots and leaves its state as it was, so that the method is called *)
(* again by the command that follows.                                      *)
(***************************************************************************)
Returned ==
    /\ pc = "return"
    /\ Error' = ret.err
    /\ IF ret.reboot
       THEN pc' = "reboot" /\ UNCHANGED handler
       ELSE /\ pc' = "ready"
            /\ handler' = CASE op = "prepare" -> IF ret.err THEN "failed" ELSE "prepared"
                            [] op = "update"  -> IF ret.err THEN "failed" ELSE "updated"
                            [] op \in {"apply", "revert"} -> "idle"
    /\ mishaps' = mishaps \cup
         (IF op \in {"apply", "revert"} /\ ret.err THEN {"failed"} ELSE {})
    /\ UNCHANGED <<system, disk, mem, bootErr, op, ret, image, target, before, decided,
                   faults>>

Reboot ==
    /\ pc = "reboot"
    /\ Boot
    /\ UNCHANGED <<disk, image, update, mishaps, faults>>

\* A reboot that cannot be started fails an update, and is an error of a revert.
RebootFails ==
    /\ pc = "reboot"
    /\ Fault("io")
    /\ pc' = "ready"
    /\ Error' = TRUE
    /\ handler' = IF op = "update" THEN "failed" ELSE "idle"
    /\ mishaps' = mishaps \cup (IF op = "revert" THEN {"failed"} ELSE {})
    /\ UNCHANGED <<system, disk, mem, bootErr, op, ret, image, target, before, decided>>

Torn == IF op = "update" /\ pc = "state" THEN {"torn"} ELSE {}

PowerCut ==
    /\ Fault("power")
    /\ Boot
    /\ mishaps' = mishaps \cup Torn
    /\ UNCHANGED <<disk, image, update>>

ProcessCrash ==
    /\ pc # "down"
    /\ Fault("process")
    /\ Die
    /\ mishaps' = mishaps \cup Torn \cup
         (IF op = "revert" /\ pc \in {"return", "reboot"} /\ ret.reboot THEN {"killed"} ELSE {})
    /\ UNCHANGED <<system, disk, image, update>>

-----------------------------------------------------------------------------
Command ==
    \/ \E v \in Versions, img \in Contents : Prepare(v, img)
    \/ Update
    \/ Revert
    \/ Apply

Method == CopyDone \/ MainBootSet \/ StepFails \/ SetState \/ SetStateFails

Next ==
    \/ Start \/ Command \/ Method
    \/ Returned \/ Reboot \/ RebootFails
    \/ PowerCut \/ ProcessCrash

Spec == Init /\ [][Next]_vars

-----------------------------------------------------------------------------
\* Every variable has its type.
TypeOK ==
    /\ part \in [Partitions -> Contents]
    /\ boot \in [by : Controllers, main : Partitions, next : Partitions \cup {None}]
    /\ current \in Partitions
    /\ version \in Versions
    /\ disk \in ModuleStates
    /\ mem \in ModuleStates
    /\ bootErr \in BOOLEAN
    /\ image \in Contents
    /\ handler \in States \cup {"failed"}
    /\ target \in Versions
    /\ Error \in BOOLEAN
    /\ op \in {"none", "prepare", "update", "apply", "revert"}
    /\ pc \in {"down", "ready", "copy", "main", "state", "return", "reboot"}
    /\ ret \in [err : BOOLEAN, reboot : BOOLEAN]
    /\ before \in Versions
    /\ decided \subseteq {"apply", "revert"}
    /\ mishaps \subseteq Mishaps
    /\ faults \in 0 .. MaxFaults

(***************************************************************************)
(* Whatever is interrupted, one partition can be booted: an update, an     *)
(* apply or a revert begins by overwriting a partition, and the other one  *)
(* is good until it ends.  Four things break it: a revert that mistakes    *)
(* the running partition for the updated one, a CM that changes its mind   *)
(* when an apply or a revert was interrupted half way, a revert after an   *)
(* apply that failed half way, and a decision of a module that does not    *)
(* know its state, which ends the update for the handler only              *)
(* (dualpartmodule.go 272-372).                                            *)
(***************************************************************************)
SomePartitionBoots == \E p \in Partitions : Bootable(p)

AlwaysBootable ==
    mishaps \cap {"stale", "failed", "wavered", "blind"} = {} => SomePartitionBoots

(***************************************************************************)
(* Until an apply or a revert is asked for, the version that ran when the  *)
(* update was prepared is still on one of the partitions, also while the   *)
(* update is being written and after any number of interrupted attempts,   *)
(* as long as none of the mishaps has happened (Update).                   *)
(***************************************************************************)
PreviousKept ==
    handler # "idle" /\ decided = {} /\ mishaps = {} =>
        \E p \in Partitions : part[p] = before

(***************************************************************************)
(* A successful apply leaves both partitions with the version asked for,   *)
(* so that either boots it (Apply).                                        *)
(***************************************************************************)
Ended(method) == pc = "ready" /\ op = method /\ handler = "idle" /\ ~Error

AppliedMirrors ==
    Ended("apply") /\ mishaps = {} =>
        version = target /\ \A p \in Partitions : part[p] = target

(***************************************************************************)
(* A successful revert ends with the version that ran when the update was  *)
(* prepared, running and chosen by the next boot (Revert), whatever reboot *)
(* or crash it went through, but for the moments of Mishaps.               *)
(***************************************************************************)
Restored == version = before /\ part[BootChoice] = before

RevertRestores == Ended("revert") /\ mishaps = {} => Restored

(***************************************************************************)
(* An update that was verified and not decided on survives a power cut: a  *)
(* boot comes up with the version asked for (Update, SetBootOK).           *)
(***************************************************************************)
VerifiedBoots == handler = "updated" /\ decided = {} => part[BootChoice] = target

(***************************************************************************)
(* "Revert() reverts update and return the system to the previous state"   *)
(* (dualpartmodule.go:61): a revert of an update that was prepared and not *)
(* begun leaves at least a partition that boots.                           *)
(***************************************************************************)
RevertsPrepared == mishaps \subseteq {"stale"} /\ pc # "copy" => SomePartitionBoots
-----------------------------------------------------------------------------
(***************************************************************************)
(* The component the update handler sees: once the module state is updated *)
(* the version before the update is the one it comes back to, until then   *)
(* it is what the running partition holds.                                 *)
(***************************************************************************)
ComesBackTo == IF disk.State = "updated" THEN before ELSE part[current]

\* Init() failed before it read the state.  A decision clears the memory first, then the database.
Unread ==
    /\ bootErr /\ mem.State = "idle" /\ disk.State # "idle"
    /\ ~(pc = "return" /\ op \in {"apply", "revert"})

Component ==
    [phase    |-> disk.State,
     version  |-> version,
     image    |-> IF disk.State = "idle" \/ image = Unbootable THEN ComesBackTo ELSE image,
     previous |-> ComesBackTo,
     init     |-> IF Unread THEN "unread" ELSE IF bootErr THEN "failed" ELSE "ok"]

Result ==
    IF pc = "return" THEN [method |-> op, err |-> ret.err, reboot |-> ret.reboot]
                     ELSE [method |-> "none", err |-> FALSE, reboot |-> FALSE]

Contract == INSTANCE ModuleContract WITH
    module <- Component, running <- pc # "down", returned <- Result

(***************************************************************************)
(* The module keeps the contract the handler relies on: as long as none of *)
(* the mishaps has happened, each of its steps is a step of ModuleContract *)
(* or changes nothing the handler can tell, also the steps that a loss of  *)
(* power or the death of the process leaves half done (updatehandler.go    *)
(* 89-110, dualpartmodule.go).                                             *)
(***************************************************************************)
KeepsContract ==
    Contract!Init /\ [][mishaps' = {} => [Contract!Next]_(Contract!vars)]_vars
=============================================================================
