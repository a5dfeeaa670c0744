--------------------------- MODULE BootControllers --------------------------
(***************************************************************************)
(* The boot controller of a system: the configuration gives its dual       *)
(* partition module the one for EFI or the one for U-Boot (register.go of  *)
(* efidualpart and ubootdualpart), and either is the same boot control to  *)
(* the module.                                                             *)
(***************************************************************************)
EXTENDS Integers

CONSTANTS
    PartCount,  \* the number of partitions of the module
    OldIds      \* bound: the numbers EFI boot entries have at first

ASSUME ControllersAssumption == PartCount \in Nat \ {0} /\ OldIds \in Nat

VARIABLES
    kind,       \* the controller of this system: "efi" or "uboot"
    entry, bootOrder, bootNext, bootCurrent, step, items, known, created,
    file, disk, booted, mounted, mountedPart, armed, fired, umounting, abandoned, cfg, pc, op,
    arg, after, unsaved, guessed

efiVars == <<entry, bootOrder, bootNext, bootCurrent, step, items, known, created>>
ubootVars ==
    <<file, disk, booted, mounted, mountedPart, armed, fired, umounting, abandoned, cfg, pc, op,
      arg, after, unsaved, guessed>>
vars == <<kind, efiVars, ubootVars>>

Efi == INSTANCE EfiBootOrder WITH pc <- step

Uboot == INSTANCE UbootEnv

\* What the controller that is not there would keep.
NoEfi ==
    /\ entry = [id \in Efi!Ids |-> 0]
    /\ bootOrder = <<>> /\ bootNext = Efi!NoId /\ bootCurrent = 0
    /\ step = "down" /\ items = <<>> /\ known = {} /\ created = Efi!NoId

NoUboot ==
    /\ Uboot!Init
    /\ file = [main |-> 0, part |-> 0]

Init ==
    \/ kind = "efi" /\ Efi!Init /\ NoUboot
    \/ kind = "uboot" /\ Uboot!Init /\ NoEfi

EfiNext == kind = "efi" /\ Efi!Next /\ UNCHANGED <<kind, ubootVars>>

UbootNext == kind = "uboot" /\ Uboot!Next /\ UNCHANGED <<kind, efiVars>>

Next == EfiNext \/ UbootNext

\* Nothing makes anybody use a controller; see UbootEnv for what is fair there.
Spec ==
    /\ Init /\ [][Next]_vars
    /\ WF_vars(UbootNext /\ Uboot!Fire)
    /\ WF_vars(UbootNext /\ Uboot!Expire)
    /\ WF_vars(UbootNext /\ Uboot!removeAll)
    /\ WF_vars(UbootNext /\ Uboot!loadEnv)

-----------------------------------------------------------------------------
\* Every variable has its type.
TypeOK ==
    /\ kind \in {"efi", "uboot"}
    /\ kind = "efi" => Efi!TypeOK
    /\ Uboot!TypeOK

(***************************************************************************)
(* Both controllers implement the boot control: the main partition is the  *)
(* one confirmed or asked for, however their methods are interrupted, and  *)
(* changes to another one only when the configuration was lost.            *)
(***************************************************************************)
ImplementsControl == Efi!ImplementsControl /\ Uboot!ImplementsControl

(***************************************************************************)
(* The partition a controller reports as the running one is running,       *)
(* unless the system came up by an entry that is not the controller's, or  *)
(* the environment was lost since (GetCurrentBoot of both controllers).    *)
(***************************************************************************)
CurrentIsBooted ==
    /\ kind = "efi" => Efi!CurrentIsBooted
    /\ kind = "uboot" => Uboot!CurrentIsBooted

(***************************************************************************)
(* The order New() computes loses and repeats no entry, has the partitions *)
(* first and keeps the order within each kind; and once New() has          *)
(* returned, BootOrder begins with all the partitions, so the firmware     *)
(* falls back to a partition (checkBootOrder, SetBootOK).                  *)
(***************************************************************************)
BootOrderIsRight == kind = "efi" => Efi!NewOrderIsRight /\ Efi!PartitionsFirst

(***************************************************************************)
(* New() panics only on a BootOrder that lists partitions alone and not    *)
(* all of them, which takes a New() that was cut off (checkBootOrder).     *)
(***************************************************************************)
PanicsWithoutOthers == kind = "efi" => Efi!PanicsWithoutOthers

(***************************************************************************)
(* What the U-Boot controller keeps in memory is in the file, unless the   *)
(* last save failed or the file was lost since (getVar, saveEnv).          *)
(***************************************************************************)
CacheIsFile == Uboot!CacheIsFile

(***************************************************************************)
(* The environment of U-Boot never stays mounted, unless its Unmount has   *)
(* failed for good, or the process that mounted it has ended, and nothing  *)
(* was mounted since (mountEnv, umountEnv, New).                           *)
(***************************************************************************)
EnvUnmounted == Uboot!EnvUnmounted
=============================================================================
