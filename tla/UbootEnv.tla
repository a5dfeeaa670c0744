------------------------------ MODULE UbootEnv ------------------------------
(***************************************************************************)
(* The U-Boot boot controller (ubootcontroller.go) on the environment file *)
(* of the loader.  The file is read once and kept in memory; each setter   *)
(* writes all of it back.  Its device is mounted for that, and unmounted   *)
(* by Close() and by a timer, which runs beside the methods and shares     *)
(* only mountEnv()'s and umountEnv()'s lock with them: SaveTo() is outside.*)
(*                                                                         *)
(* The loader is not part of the repository: it boots the main partition,  *)
(* or another one when that fails, and notes which in aos_boot_part.  The  *)
(* success flags, read by the loader alone, are left out.                  *)
(***************************************************************************)
EXTENDS Integers

CONSTANT PartCount  \* the number of partitions of the module

Partitions == 0 .. PartCount - 1
NoPart == -1

\* The keys aos_boot_main and aos_boot_part; a file that was only truncated has neither.
Env == [main : Partitions \cup {NoPart}, part : Partitions \cup {NoPart}]
Empty == [main |-> NoPart, part |-> NoPart]

\* No file at all, or a configuration that was not read yet (nil).
Absent == [main |-> -2, part |-> -2]

VARIABLES
    file,         \* the environment file as programs see it
    disk,         \* what of it would survive a power cut
    booted,       \* the partition that runs
    mounted,      \* the device is mounted
    mountedPart,  \* controller.mountedPart is set
    armed,        \* controller.mountTimer is set and has not fired
    fired,        \* it fired: its goroutine waits for the lock
    umounting,    \* who is between Unmount and RemoveAll: "no", "timer" or "close"
    abandoned,    \* history: the Unmount of this mount failed, or its process has ended
    cfg,          \* controller.cfg
    pc,           \* where the method that is being called is
    op, arg,      \* that method and the partition it was given
    after,        \* where saveEnv() returns to
    unsaved,      \* a save failed, or the file was lost since the last one
    guessed       \* since this boot, cfg came from generateDefaultEnv()

device == <<file, disk, booted>>
mount == <<mounted, mountedPart, armed, fired, umounting, abandoned>>
call == <<pc, op, arg, after>>
vars == <<device, mount, call, cfg, unsaved, guessed>>

Methods == {"getVar", "SetMainBoot", "SetBootOK"}

Init ==
    /\ file \in {env \in Env : env.main # NoPart /\ env.part # NoPart}
    /\ disk = file
    /\ booted = file.part
    /\ mounted = FALSE /\ mountedPart = FALSE
    /\ armed = FALSE /\ fired = FALSE
    /\ umounting = "no" /\ abandoned = FALSE
    /\ cfg = Absent
    /\ pc = "ready" /\ op = "getVar" /\ arg = NoPart /\ after = "ready"
    /\ unsaved = FALSE /\ guessed = FALSE

-----------------------------------------------------------------------------
(***************************************************************************)
(* Mounting.  The device may still be mounted by an earlier process; Mount *)
(* then unmounts and retries.  A mount that is there is not renewed, and   *)
(* its timer goes on.                                                      *)
(***************************************************************************)
\* Mutant of mountEnv: the timer is started with the first mount only.
MountWithoutTimer ==
    /\ umounting = "no"
    /\ IF mountedPart
       THEN UNCHANGED mount
       ELSE /\ mounted' = TRUE
            /\ mountedPart' = TRUE
            /\ armed' = (cfg = Absent)
            /\ abandoned' = FALSE
            /\ UNCHANGED <<fired, umounting>>

mountEnv ==
    /\ umounting = "no"
    /\ IF mountedPart
       THEN UNCHANGED mount
       ELSE /\ mounted' = TRUE
            /\ mountedPart' = TRUE
            /\ armed' = TRUE
            /\ abandoned' = FALSE
            /\ UNCHANGED <<fired, umounting>>

mountFails ==
    /\ umounting = "no"
    /\ ~mountedPart
    /\ mounted' \in {mounted, FALSE}
    /\ UNCHANGED <<mountedPart, armed, fired, umounting, abandoned>>

(***************************************************************************)
(* umountEnv() holds the lock over both of its steps.  Unmount syncs, and  *)
(* fails for good only while another program uses the device; RemoveAll of *)
(* the mount point follows in any case, and then empties the device.       *)
(***************************************************************************)
unmount(who) ==
    /\ umounting' = who
    /\ armed' = FALSE
    /\ disk' = file
    /\ mounted' \in {mounted, FALSE}
    /\ pc = "writing" => mounted' = mounted
    /\ UNCHANGED <<file, booted, mountedPart, abandoned>>

removeAll ==
    /\ umounting # "no"
    /\ umounting' = "no"
    /\ mountedPart' = FALSE
    /\ abandoned' = mounted
    /\ file' = IF mounted THEN Absent ELSE file
    /\ unsaved' = (unsaved \/ mounted)
    /\ pc' = IF umounting = "close" THEN "ready" ELSE pc
    /\ UNCHANGED <<disk, booted, mounted, armed, fired, op, arg, after, cfg, guessed>>

\* The timer does not fire in the instant between a new mount and the read after it.
Fire ==
    /\ armed
    /\ pc # "load"
    /\ armed' = FALSE
    /\ fired' = TRUE
    /\ UNCHANGED <<device, mounted, mountedPart, umounting, abandoned, call, cfg, unsaved, guessed>>

Expire ==
    /\ fired
    /\ umounting = "no"
    /\ fired' = FALSE
    /\ IF mountedPart THEN unmount("timer")
       ELSE UNCHANGED <<device, mounted, mountedPart, armed, umounting, abandoned>>
    /\ UNCHANGED <<call, cfg, unsaved, guessed>>

Close ==
    /\ pc = "ready"
    /\ umounting = "no"
    /\ mountedPart
    /\ unmount("close")
    /\ pc' = "closing"
    /\ UNCHANGED <<fired, op, arg, after, cfg, unsaved, guessed>>

-----------------------------------------------------------------------------
(***************************************************************************)
(* A method: read the file if it was not read yet, set, write it back.     *)
(***************************************************************************)
Call(method, p) ==
    /\ pc = "ready"
    /\ op' = method
    /\ arg' = p
    /\ pc' = IF cfg = Absent THEN "mount" ELSE "set"
    /\ UNCHANGED <<device, mount, cfg, after, unsaved, guessed>>

GetVar == Call("getVar", NoPart)
SetMainBoot(p) == Call("SetMainBoot", p)
SetBootOK == Call("SetBootOK", NoPart)

Go(to) == pc' = to /\ UNCHANGED <<op, arg, after>>

getEnv ==
    /\ pc = "mount"
    /\ \/ mountEnv /\ Go("load")
       \/ mountFails /\ Go("ready")
    /\ UNCHANGED <<device, cfg, unsaved, guessed>>

\* generateDefaultEnv().
DefaultEnv == [main |-> 0, part |-> 0]

\* Mutant of loadEnv: what cannot be read is generated in memory, never written.
KeepInMemory ==
    /\ pc = "load"
    /\ cfg' = IF file = Absent THEN DefaultEnv ELSE file
    /\ guessed' = (guessed \/ file = Absent)
    /\ Go("set")
    /\ UNCHANGED <<device, mount, unsaved>>

loadEnv ==
    /\ pc = "load"
    /\ IF file # Absent
       THEN cfg' = file /\ Go("set") /\ UNCHANGED guessed
       ELSE /\ cfg' = DefaultEnv
            /\ guessed' = TRUE
            /\ pc' = "save" /\ after' = "set"
            /\ UNCHANGED <<op, arg>>
    /\ UNCHANGED <<device, mount, unsaved>>

setVar ==
    /\ pc = "set"
    /\ cfg' = IF op = "SetMainBoot" THEN [cfg EXCEPT !.main = arg] ELSE cfg
    /\ pc' = IF op = "getVar" THEN "ready" ELSE "save"
    /\ after' = "ready"
    /\ UNCHANGED <<device, mount, op, arg, unsaved, guessed>>

saveEnv ==
    /\ pc = "save"
    /\ \/ mountEnv /\ Go("write") /\ UNCHANGED unsaved
       \/ mountFails /\ Go("ready") /\ unsaved' = TRUE
    /\ UNCHANGED <<device, cfg, guessed>>

(***************************************************************************)
(* SaveTo() truncates the file and then writes it.  When the timer has     *)
(* unmounted the device meanwhile, either the directory is gone, which is  *)
(* an error, or the file goes to the empty mount point and with it.        *)
(***************************************************************************)
Truncate ==
    /\ pc = "write"
    /\ mounted
    /\ file' = Empty
    /\ Go("writing")
    /\ UNCHANGED <<disk, booted, mount, cfg, unsaved, guessed>>

Misplace ==
    /\ pc = "write"
    /\ ~mounted
    /\ unsaved' = TRUE
    /\ Go(IF umounting = "no" THEN "ready" ELSE after)
    /\ UNCHANGED <<device, mount, cfg, guessed>>

\* A file that RemoveAll has taken away meanwhile takes what is written with it.
Write ==
    /\ pc = "writing"
    /\ file' = IF file = Absent THEN file ELSE cfg
    /\ unsaved' = (file = Absent)
    /\ Go(after)
    /\ UNCHANGED <<disk, booted, mount, cfg, guessed>>

WriteFails ==
    /\ pc = "writing"
    /\ unsaved' = TRUE
    /\ Go("ready")
    /\ UNCHANGED <<device, mount, cfg, guessed>>

-----------------------------------------------------------------------------
\* The process ends and the system starts it again: New() only looks at the device.
Forget ==
    /\ mountedPart' = FALSE /\ armed' = FALSE /\ fired' = FALSE
    /\ umounting' = "no"
    /\ cfg' = Absent
    /\ pc' = "ready" /\ op' = "getVar" /\ arg' = NoPart /\ after' = "ready"
    /\ unsaved' = FALSE

Restart == Forget /\ abandoned' = mounted /\ UNCHANGED <<device, mounted, guessed>>

\* What was written reaches the device sooner or later.
Flush ==
    /\ disk # file
    /\ disk' = file
    /\ UNCHANGED <<file, booted, mount, call, cfg, unsaved, guessed>>

(***************************************************************************)
(* Power is cut, or the system reboots, and the loader boots a partition.  *)
(* A file that was not on the disk yet is old, new or empty.               *)
(***************************************************************************)
Survivors == {disk, file} \cup (IF disk = file THEN {} ELSE {Empty})

Boot(p) ==
    /\ \E env \in Survivors :
        /\ file' = IF env = Absent THEN env ELSE [env EXCEPT !.part = p]
        /\ guessed' = (env = Absent)
    /\ disk' = file'
    /\ booted' = p
    /\ mounted' = FALSE /\ abandoned' = FALSE
    /\ Forget

Method ==
    \/ GetVar \/ SetBootOK
    \/ \E p \in Partitions : SetMainBoot(p)
    \/ getEnv \/ loadEnv \/ setVar \/ saveEnv
    \/ Truncate \/ Misplace \/ Write \/ WriteFails

Next ==
    \/ Method
    \/ Fire \/ Expire \/ Close \/ removeAll
    \/ Flush \/ Restart
    \/ \E p \in Partitions : Boot(p)

(***************************************************************************)
(* The timer fires, its goroutine gets the lock and umountEnv() returns; a *)
(* method does not stop between mounting and reading.                      *)
(***************************************************************************)
Fairness == WF_vars(Fire) /\ WF_vars(Expire) /\ WF_vars(removeAll) /\ WF_vars(loadEnv)

Spec == Init /\ [][Next]_vars /\ Fairness

-----------------------------------------------------------------------------
\* Mutant of GetCurrentBoot: the key of the main partition.
MainKey == cfg.main

\* What GetCurrentBoot() returns; Int() fails on a key that is not there.
GetCurrentBoot == cfg.part

MainOf(env) == IF env.main \in Partitions THEN env.main ELSE NoPart

Control == INSTANCE BootControl WITH
    main    <- MainOf(file),
    next    <- NoPart,
    running <- booted,
    pending <- {MainOf(cfg), MainOf(disk)} \ {NoPart}

(***************************************************************************)
(* The controller implements the boot control: the partition to boot from  *)
(* only becomes one that SetMainBoot() was asked for, whatever fails, or   *)
(* the default one once the file was lost (getEnv, saveEnv, umountEnv).    *)
(***************************************************************************)
ImplementsControl == Control!Spec

\* Every variable has its type.
TypeOK ==
    /\ file \in Env \cup {Absent}
    /\ disk \in Env \cup {Absent}
    /\ booted \in Partitions
    /\ mounted \in BOOLEAN /\ mountedPart \in BOOLEAN
    /\ armed \in BOOLEAN /\ fired \in BOOLEAN
    /\ umounting \in {"no", "timer", "close"} /\ abandoned \in BOOLEAN
    /\ cfg \in Env \cup {Absent}
    /\ pc \in {"ready", "mount", "load", "set", "save", "write", "writing", "closing"}
    /\ op \in Methods
    /\ arg \in Partitions \cup {NoPart}
    /\ after \in {"ready", "set"}
    /\ unsaved \in BOOLEAN /\ guessed \in BOOLEAN

(***************************************************************************)
(* What the controller keeps in memory is what is in the file, whenever no *)
(* method runs, unless the last save failed or the file was lost since: it *)
(* never reads the file again to find out (getVar, setVar, saveEnv).       *)
(***************************************************************************)
CacheIsFile == pc = "ready" /\ cfg # Absent /\ ~unsaved => cfg = file

(***************************************************************************)
(* The partition reported as the running one is the running one, unless    *)
(* the file was lost since the boot: the controller then says it is the    *)
(* first one (GetCurrentBoot, generateDefaultEnv).                         *)
(***************************************************************************)
CurrentIsBooted ==
    cfg # Absent /\ cfg.part # NoPart /\ ~guessed => GetCurrentBoot = booted

(***************************************************************************)
(* The device never stays mounted: each mount has a timer that Close, a    *)
(* late goroutine of an earlier timer or a mount that is already there     *)
(* does not lose, unless Unmount fails for good or the process ends; then  *)
(* nothing unmounts it before the next mount (mountEnv, umountEnv, New).   *)
(***************************************************************************)
EnvUnmounted == []<>(~mounted \/ abandoned)
=============================================================================
