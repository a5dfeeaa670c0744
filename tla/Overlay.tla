------------------------------ MODULE Overlay -------------------------------
(***************************************************************************)
(* The overlay module (overlaymodule.go), called by an update handler that *)
(* has this one component.  The module never writes the system itself: it  *)
(* leaves an image and flag files in the update directory, and the         *)
(* initramfs script acts on them at the next boot.  Every method is broken *)
(* into the steps that leave something behind: clearing the directory,     *)
(* writing a file of it, saving the state, the return to the handler.      *)
(* Power may be cut and the process may die between any two of them.       *)
(*                                                                         *)
(* The script is not part of the repository.  What the module and its      *)
(* tests take it to do: with do_apply it merges the image into the system; *)
(* with do_update alone it boots the image over the system, which stays as *)
(* it is, and leaves the flag updated; if that does not work it boots the  *)
(* system and leaves the flag failed.  It removes no file.                 *)
(***************************************************************************)
EXTENDS Integers

CONSTANTS
    MaxVersion,  \* bound on the versions of the component
    Faults,      \* what may go wrong, of FaultKinds
    MaxFaults    \* bound on the number of faults

(***************************************************************************)
(* "power":    power is lost at any time                                   *)
(* "process":  the process dies at any time and is restarted               *)
(* "io":       a file, the directory or the state cannot be written        *)
(* "check":    the update checker finds a service that does not run        *)
(* "init":     Init() fails, before or after it has read the flags         *)
(***************************************************************************)
FaultKinds == {"power", "process", "io", "check", "init"}

ASSUME OverlayAssumption ==
    /\ MaxVersion \in Nat \ {0}
    /\ Faults \subseteq FaultKinds
    /\ MaxFaults \in Nat

VARIABLES
    base,            \* the version installed in the system
    version,         \* the version the system runs
    overlay,         \* the image in the update directory
    flags,           \* the flag files in the update directory
    disk,            \* the module state in the database
    mem,             \* module.state
    bootWithUpdate,  \* module.bootWithUpdate
    bootErr,         \* module.bootErr # nil
    image,           \* the image that was prepared, before it is moved
    handler,         \* the update state the handler has persisted
    target,          \* the version the update asks for
    Error,           \* handler.state.Error # ""
    op,              \* the method called last
    pc,              \* the step of it to be taken next
    ret,             \* what it returns
    before,          \* history: the version running when the update was prepared
    decided,         \* history: apply and revert commands accepted for this update
    mishaps,         \* history: see Mishaps
    faults           \* number of faults so far

system    == <<base, version>>
directory == <<overlay, flags>>
boot      == <<bootWithUpdate, bootErr>>
call      == <<op, pc, ret>>
update    == <<handler, target, Error, before, decided>>
vars == <<system, directory, disk, mem, boot, image, update, call, mishaps, faults>>

Versions == 0 .. MaxVersion

\* No image, or one that cannot be booted.
NoImage == -1

Images == Versions \cup {NoImage}

States == {"idle", "prepared", "updated"}

Flags == {"do_update", "do_apply", "updated", "failed"}

(***************************************************************************)
(* Moments after which the module does not keep its promises, each         *)
(* recorded when it happens:                                               *)
(* "killed":    the process died after Apply() or Revert() had saved idle, *)
(*              before the reboot it asked for                             *)
(* "forgotten": the process was restarted while the update was running,    *)
(*              after Update() had removed the flag that tells so          *)
(* "failed":    an apply or a revert failed, and the handler went to idle  *)
(* "wavered":   an apply followed an interrupted revert, or a revert an    *)
(*              interrupted apply                                          *)
(* "blind":     Init() failed before it had read the flags                 *)
(* "astray":    an update was prepared while another version was running   *)
(*              than the one installed, left by one of the above           *)
(***************************************************************************)
Mishaps == {"killed", "forgotten", "failed", "wavered", "blind", "astray"}

Init ==
    /\ base = 0
    /\ version = 0
    /\ overlay = NoImage
    /\ flags = {}
    /\ disk = "idle"
    /\ mem = "idle"
    /\ bootWithUpdate = FALSE
    /\ bootErr = FALSE
    /\ image = NoImage
    /\ handler = "idle"
    /\ target = 0
    /\ Error = FALSE
    /\ op = "none"
    /\ pc = "ready"
    /\ ret = [err |-> FALSE, reboot |-> FALSE]
    /\ before = 0
    /\ decided = {}
    /\ mishaps = {}
    /\ faults = 0

Fault(kind) ==
    /\ kind \in Faults
    /\ faults < MaxFaults
    /\ faults' = faults + 1

-----------------------------------------------------------------------------
\* The process ends and with it the module's memory.
Die ==
    /\ mem' = "idle"
    /\ bootWithUpdate' = FALSE
    /\ bootErr' = FALSE
    /\ op' = "none"
    /\ pc' = "down"
    /\ ret' = [err |-> FALSE, reboot |-> FALSE]

\* The initramfs script.
Merge ==
    /\ "do_apply" \in flags
    /\ base' = IF overlay = NoImage THEN base ELSE overlay
    /\ version' = base'
    /\ UNCHANGED flags

BootOverlay ==
    /\ flags \cap {"do_apply", "do_update"} = {"do_update"}
    /\ overlay # NoImage
    /\ version' = overlay
    /\ flags' = flags \cup {"updated"}
    /\ UNCHANGED base

BootFallsBack ==
    /\ flags \cap {"do_apply", "do_update"} = {"do_update"}
    /\ version' = base
    /\ flags' = flags \cup {"failed"}
    /\ UNCHANGED base

BootSystem ==
    /\ flags \cap {"do_apply", "do_update"} = {}
    /\ version' = base
    /\ UNCHANGED <<base, flags>>

Boot == Die /\ (Merge \/ BootOverlay \/ BootFallsBack \/ BootSystem)

(***************************************************************************)
(* New() and Init() of a new process.  An idle module does not look at the *)
(* flags.                                                                  *)
(***************************************************************************)
Start ==
    /\ pc = "down"
    /\ pc' = "ready"
    /\ mem' = disk
    /\ \/ /\ disk = "idle"
          /\ UNCHANGED <<flags, bootWithUpdate, bootErr, mishaps, faults>>
       \/ /\ disk # "idle"
          /\ bootWithUpdate' = ("updated" \in flags)
          /\ flags' = flags \ {"failed"}
          /\ \/ bootErr' = ("failed" \in flags) /\ UNCHANGED faults
             \/ bootErr' = TRUE /\ Fault("check")
          /\ UNCHANGED mishaps
       \/ /\ Fault("init")
          /\ bootErr' = TRUE
          /\ \/ /\ mishaps' = mishaps \cup {"blind"}
                /\ UNCHANGED bootWithUpdate
             \/ /\ disk # "idle" /\ "failed" \in flags
                /\ bootWithUpdate' = ("updated" \in flags)
                /\ UNCHANGED mishaps
          /\ UNCHANGED flags
    /\ UNCHANGED <<system, overlay, disk, image, update, op, ret>>

-----------------------------------------------------------------------------
Return(err, reboot) ==
    /\ pc' = "return"
    /\ ret' = [err |-> err, reboot |-> reboot]

GoTo(p) == pc' = p /\ UNCHANGED ret

(***************************************************************************)
(* Prepare() is called with a version higher than the one that runs        *)
(* (verifySemver); the image may hold another version, or not boot.  The   *)
(* handler does not call it when Init() has failed, but Init() reports no  *)
(* boot error to it.                                                       *)
(***************************************************************************)
Prepare(v, img) ==
    /\ pc = "ready" /\ handler = "idle"
    /\ op' = "prepare"
    /\ target' = v
    /\ image' = img
    /\ Error' = FALSE
    /\ before' = version
    /\ decided' = {}
    /\ \/ Return(TRUE, FALSE) /\ UNCHANGED mem
       \/ /\ mem # "updated" /\ v > version
          /\ mem' = "prepared"
          /\ GoTo("clear")
    /\ mishaps' = mishaps \cup (IF version # base THEN {"astray"} ELSE {})
    /\ UNCHANGED <<system, directory, disk, boot, handler, faults>>

\* Mutant of NotUpdated: the version that runs is not compared.
OnlyBooted == ~bootWithUpdate \/ bootErr

\* Mutant of NotUpdated: what the update checker has found is forgotten.
NotChecked == ~bootWithUpdate \/ version # target

\* What Update() checks after the reboot, and then updateComponent of the handler.
NotUpdated == ~bootWithUpdate \/ bootErr \/ version # target

Update ==
    /\ pc = "ready" /\ handler = "prepared"
    /\ op' = "update"
    /\ Error' = FALSE
    /\ \/ /\ mem = "updated"
          /\ flags' = IF ~bootWithUpdate \/ bootErr THEN flags ELSE flags \ {"updated"}
          /\ Return(NotUpdated, FALSE)
          /\ UNCHANGED faults
       \/ /\ mem = "updated" /\ bootWithUpdate /\ ~bootErr
          /\ Fault("io")
          /\ Return(TRUE, FALSE)
          /\ UNCHANGED flags
       \/ /\ mem = "idle"
          /\ Return(TRUE, FALSE)
          /\ UNCHANGED <<flags, faults>>
       \/ /\ mem = "prepared"
          /\ GoTo("write")
          /\ UNCHANGED <<flags, faults>>
    /\ UNCHANGED <<system, overlay, disk, mem, boot, image, handler, target, before, decided,
                   mishaps>>

Decide(decision) ==
    /\ Error' = FALSE
    /\ decided' = decided \cup {decision}
    /\ mishaps' = mishaps \cup (IF decided \ {decision} # {} THEN {"wavered"} ELSE {})

Apply ==
    /\ pc = "ready" /\ handler = "updated"
    /\ op' = "apply"
    /\ \/ flags' = flags \ {"updated"} /\ UNCHANGED faults
       \/ UNCHANGED flags /\ Fault("io")
    /\ IF bootErr \/ mem = "prepared" THEN Return(TRUE, FALSE)
       ELSE IF mem = "idle" THEN GoTo("clear") ELSE GoTo("write")
    /\ Decide("apply")
    /\ UNCHANGED <<system, overlay, disk, mem, boot, image, handler, target, before>>

Revert ==
    /\ pc = "ready" /\ handler \in {"prepared", "updated", "failed"}
    /\ op' = "revert"
    /\ IF mem = "idle" THEN Return(FALSE, FALSE) ELSE GoTo("clear")
    /\ Decide("revert")
    /\ UNCHANGED <<system, directory, disk, mem, boot, image, handler, target, before, faults>>

-----------------------------------------------------------------------------
\* clearUpdateDir removes one file after another.
Clearing ==
    /\ pc = "clear"
    /\ \/ overlay' = NoImage /\ UNCHANGED flags
       \/ \E f \in flags : flags' = flags \ {f} /\ UNCHANGED overlay
    /\ UNCHANGED <<system, disk, mem, boot, image, update, call, mishaps, faults>>

Cleared ==
    /\ pc = "clear" /\ overlay = NoImage /\ flags = {}
    /\ CASE op = "prepare" -> GoTo("write")
         [] op = "revert"  -> GoTo("save")
         [] op = "apply"   -> Return(FALSE, FALSE)
    /\ UNCHANGED <<system, directory, disk, mem, boot, image, update, op, mishaps, faults>>

\* The image is moved into the directory, or a flag is written.
Written ==
    /\ pc = "write"
    /\ overlay' = IF op = "prepare" THEN image ELSE overlay
    /\ flags' = flags \cup (CASE op = "prepare" -> {}
                              [] op = "update"  -> {"do_update"}
                              [] op = "apply"   -> {"do_apply"})
    /\ GoTo("save")
    /\ UNCHANGED <<system, disk, mem, boot, image, update, op, mishaps, faults>>

StepFails ==
    /\ pc \in {"clear", "write"}
    /\ Fault("io")
    /\ Return(TRUE, FALSE)
    /\ UNCHANGED <<system, directory, disk, mem, boot, image, update, op, mishaps>>

\* Mutant of NewState: a state that String() does not know.
StateOfOperation == CASE op = "prepare" -> "prepared" [] op = "update" -> "updated"
                      [] op = "apply" -> "applied" [] OTHER -> "idle"

NewState == CASE op = "prepare" -> "prepared" [] op = "update" -> "updated" [] OTHER -> "idle"

\* Mutant of RebootRequired: Revert() does not ask for a reboot.
NotAfterRevert == op \in {"update", "apply"}

\* Mutant of RebootRequired: Apply() does not ask for a reboot.
NotAfterApply == op = "update" \/ (op = "revert" /\ bootWithUpdate)

RebootRequired == op \in {"update", "apply"} \/ (op = "revert" /\ bootWithUpdate)

\* The memory is changed first and then the database.
SaveState ==
    /\ pc = "save"
    /\ mem' = NewState
    /\ disk' = NewState
    /\ Return(FALSE, RebootRequired)
    /\ UNCHANGED <<system, directory, boot, image, update, op, mishaps, faults>>

SaveStateFails ==
    /\ pc = "save"
    /\ Fault("io")
    /\ mem' = NewState
    /\ Return(TRUE, FALSE)
    /\ UNCHANGED <<system, directory, disk, boot, image, update, op, mishaps>>

-----------------------------------------------------------------------------
(***************************************************************************)
(* The handler acts on what a method returns: it persists its next state,  *)
(* or reboots and leaves its state as it was, so that the method is called *)
(* again by the command that follows.                                      *)
(***************************************************************************)
Returned ==
    /\ pc = "return"
    /\ Error' = ret.err
    /\ IF ret.reboot
       THEN pc' = "reboot" /\ UNCHANGED handler
       ELSE /\ pc' = "ready"
            /\ handler' = CASE op = "prepare" -> IF ret.err THEN "failed" ELSE "prepared"
                            [] op = "update"  -> IF ret.err THEN "failed" ELSE "updated"
                            [] op \in {"apply", "revert"} -> "idle"
    /\ mishaps' = mishaps \cup
         (IF op \in {"apply", "revert"} /\ ret.err THEN {"failed"} ELSE {})
    /\ UNCHANGED <<system, directory, disk, mem, boot, op, ret, image, target, before,
                   decided, faults>>

Reboot ==
    /\ pc = "reboot"
    /\ Boot
    /\ UNCHANGED <<overlay, disk, image, update, mishaps, faults>>

\* A reboot that cannot be started fails an update, and is an error of an apply or a revert.
RebootFails ==
    /\ pc = "reboot"
    /\ Fault("io")
    /\ pc' = "ready"
    /\ Error' = TRUE
    /\ handler' = IF op = "update" THEN "failed" ELSE "idle"
    /\ mishaps' = mishaps \cup (IF op # "update" THEN {"failed"} ELSE {})
    /\ UNCHANGED <<system, directory, disk, mem, boot, op, ret, image, target, before,
                   decided>>

PowerCut ==
    /\ Fault("power")
    /\ Boot
    /\ UNCHANGED <<overlay, disk, image, update, mishaps>>

ProcessCrash ==
    /\ pc # "down"
    /\ Fault("process")
    /\ Die
    /\ mishaps' = mishaps \cup
         (IF op \in {"apply", "revert"} /\ ret.reboot /\ pc \in {"return", "reboot"}
          THEN {"killed"} ELSE {}) \cup
         (IF bootWithUpdate /\ "updated" \notin flags /\ disk # "idle" THEN {"forgotten"} ELSE {})
    /\ UNCHANGED <<system, directory, disk, image, update>>

-----------------------------------------------------------------------------
Command ==
    \/ \E v \in Versions, img \in Images : Prepare(v, img)
    \/ Update
    \/ Apply
    \/ Revert

Method == Clearing \/ Cleared \/ Written \/ StepFails \/ SaveState \/ SaveStateFails

Next ==
    \/ Start \/ Command \/ Method
    \/ Returned \/ Reboot \/ RebootFails
    \/ PowerCut \/ ProcessCrash

Spec == Init /\ [][Next]_vars

-----------------------------------------------------------------------------
\* Every variable has its type.
TypeOK ==
    /\ base \in Versions /\ version \in Versions
    /\ overlay \in Images /\ image \in Images
    /\ flags \subseteq Flags
    /\ disk \in States /\ mem \in States
    /\ bootWithUpdate \in BOOLEAN /\ bootErr \in BOOLEAN
    /\ handler \in States \cup {"failed"}
    /\ target \in Versions
    /\ Error \in BOOLEAN
    /\ op \in {"none", "prepare", "update", "apply", "revert"}
    /\ pc \in {"down", "ready", "clear", "write", "save", "return", "reboot"}
    /\ ret \in [err : BOOLEAN, reboot : BOOLEAN]
    /\ before \in Versions
    /\ decided \subseteq {"apply", "revert"}
    /\ mishaps \subseteq Mishaps
    /\ faults \in 0 .. MaxFaults

\* None of some mishaps has happened.
Without(some) == mishaps \cap some = {}

\* The handler is done with the method and reports no error.
Ended(method) == pc = "ready" /\ op = method /\ handler = "idle" /\ ~Error

Installed == base = target /\ version = target

Restored == base = before /\ version = before /\ "do_apply" \notin flags

(***************************************************************************)
(* Nothing but an apply that the CM decided on ever changes the installed  *)
(* system, and then to the version that was asked for and verified; flags  *)
(* left over from an earlier update must not reach a new image             *)
(* (clearUpdateDir in Prepare).  An update that was prepared astray may be *)
(* for the version that is installed; a fallback is then taken for it, and *)
(* the image is merged whatever it holds.                                  *)
(***************************************************************************)
MergesOnlyApplied ==
    [][base' # base /\ Without({"failed", "wavered", "astray"}) =>
         "apply" \in decided /\ base' = target]_vars

(***************************************************************************)
(* A successful apply leaves the version asked for installed and running   *)
(* (Apply, which has to reach the script before the directory is cleared). *)
(***************************************************************************)
AppliedIsInstalled == Ended("apply") /\ Without({"killed", "wavered", "astray"}) => Installed

(***************************************************************************)
(* A successful revert ends with the version that ran when the update was  *)
(* prepared, running, installed, and with nothing left for the script to   *)
(* do (Revert).                                                            *)
(***************************************************************************)
RevertRestores == Ended("revert") /\ mishaps = {} => Restored

(***************************************************************************)
(* An update the handler takes for done really ran the version asked for,  *)
(* and the version before it is still installed until there is a decision  *)
(* (Update, updateComponent).                                              *)
(***************************************************************************)
VerifiedOverBase ==
    handler = "updated" /\ decided = {} /\ Without({"astray"}) =>
        overlay = target /\ base = before

(***************************************************************************)
(* An apply installs the update though the process died before the reboot: *)
(* by the diagram the state only becomes idle after a boot that went well  *)
(* (overlaymodule.go:47).                                                  *)
(***************************************************************************)
AppliesKilled == mishaps \subseteq {"killed"} /\ Ended("apply") => Installed

-----------------------------------------------------------------------------
(***************************************************************************)
(* The component the update handler sees: while the module state is        *)
(* updated the version before the update is the one it comes back to; once *)
(* an apply has saved idle, the image the script is going to merge; and    *)
(* what is installed at any other time.                                    *)
(***************************************************************************)
ComesBackTo ==
    IF disk = "updated" THEN before
    ELSE IF disk = "idle" /\ "do_apply" \in flags /\ overlay # NoImage THEN overlay ELSE base

Component ==
    [phase    |-> disk,
     version  |-> version,
     image    |-> IF disk = "idle" \/ image = NoImage THEN ComesBackTo ELSE image,
     previous |-> ComesBackTo,
     init     |-> IF bootErr THEN "failed" ELSE "ok"]

Result ==
    IF pc = "return" THEN [method |-> op, err |-> ret.err, reboot |-> ret.reboot]
                     ELSE [method |-> "none", err |-> FALSE, reboot |-> FALSE]

Contract == INSTANCE ModuleContract WITH
    module <- Component, running <- pc # "down", returned <- Result

(***************************************************************************)
(* The module keeps the contract the handler relies on: as long as none of *)
(* the mishaps has happened, each of its steps, and of the script's, is a  *)
(* step of ModuleContract or changes nothing the handler can tell          *)
(* (updatehandler.go 89-110, overlaymodule.go).                            *)
(***************************************************************************)
KeepsContract ==
    Contract!Init /\ [][mishaps' = {} => [Contract!Next]_(Contract!vars)]_vars
=============================================================================
