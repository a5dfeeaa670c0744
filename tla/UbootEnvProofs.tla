--------------------------- MODULE UbootEnvProofs ---------------------------
(***************************************************************************)
(* The U-Boot controller, proved for any number of partitions: what it     *)
(* keeps in memory against the environment file, and that it implements    *)
(* the boot control, whenever the timer, a crash or a reboot comes.        *)
(***************************************************************************)
EXTENDS UbootEnv, TLAPS

\* What is in memory at each step of a method; only a Close() that waits is at "closing".
Cached ==
    /\ pc \in {"mount", "load"} => cfg = Absent
    /\ pc \in {"set", "save", "write", "writing"} => cfg # Absent
    /\ pc \in {"ready", "set", "closing"} /\ cfg # Absent /\ ~unsaved => cfg = file
    /\ umounting = "close" <=> pc = "closing"
    /\ op = "SetMainBoot" => arg \in Partitions

\* Memory and file tell the partition that runs, unless the file was lost since the boot.
Running ==
    /\ ~guessed /\ cfg # Absent /\ cfg.part # NoPart => cfg.part = booted
    /\ ~guessed /\ file # Absent /\ file.part # NoPart => file.part = booted

IInv == TypeOK /\ Cached /\ Running

\* The places a method can be at.
Steps == {"ready", "mount", "load", "set", "save", "write", "writing", "closing"}

USE DEF Partitions, NoPart, Env, Empty, Absent, DefaultEnv

-----------------------------------------------------------------------------
\* IInv holds at first.
LEMMA InitIInv == Init => IInv
BY DEF Init, IInv, TypeOK, Cached, Running, Methods

\* Timer and Close(): the lock keeps their steps apart, not from a method.
LEMMA UmountIInv ==
    ASSUME IInv, Fire \/ Expire \/ Close \/ removeAll
    PROVE  IInv'
<1> USE DEF IInv, device, mount, call
<1>1. ASSUME Fire PROVE IInv'
    <2>1. TypeOK'
        <3>1. armed' \in BOOLEAN /\ fired' \in BOOLEAN
            BY <1>1 DEF Fire
        <3>2. /\ UNCHANGED <<device, mounted, mountedPart, umounting, abandoned>>
              /\ UNCHANGED <<call, cfg, unsaved, guessed>>
            BY <1>1 DEF Fire
        <3> QED
            BY <3>1, <3>2 DEF TypeOK
    <2>2. Cached'
        BY <1>1 DEF Fire, TypeOK, Cached
    <2>3. Running'
        BY <1>1 DEF Fire, TypeOK, Cached, Running
    <2> QED
        BY <2>1, <2>2, <2>3
<1>2. ASSUME Expire PROVE IInv'
    <2>1. TypeOK'
        <3>1. armed' \in BOOLEAN /\ fired' \in BOOLEAN /\ mounted' \in BOOLEAN
            BY <1>2 DEF Expire, unmount, TypeOK
        <3>2. /\ UNCHANGED <<file, booted, mountedPart, abandoned, call, cfg, unsaved, guessed>>
              /\ umounting' \in {umounting, "timer"}
              /\ disk' \in {disk, file}
            BY <1>2 DEF Expire, unmount
        <3> QED
            BY <3>1, <3>2 DEF TypeOK
    <2>2. Cached'
        BY <1>2 DEF Expire, unmount, TypeOK, Cached
    <2>3. Running'
        BY <1>2 DEF Expire, unmount, TypeOK, Cached, Running
    <2> QED
        BY <2>1, <2>2, <2>3
<1>3. ASSUME Close PROVE IInv'
    <2>1. TypeOK'
        <3>1. mounted' \in BOOLEAN /\ armed' = FALSE
            BY <1>3 DEF Close, unmount, TypeOK
        <3>2. /\ UNCHANGED <<file, booted, mountedPart, abandoned, fired>>
              /\ UNCHANGED <<op, arg, after, cfg, unsaved, guessed>>
              /\ umounting' = "close" /\ pc' = "closing" /\ disk' = file
            BY <1>3 DEF Close, unmount
        <3>3. umounting' \in {"no", "timer", "close"} /\ pc' \in Steps
            BY <3>2 DEF Steps
        <3>4. TypeOK
            OBVIOUS
        <3> HIDE DEF IInv, Env, Empty, Absent, Partitions, NoPart
        <3> QED
            BY <3>1, <3>2, <3>3, <3>4 DEF TypeOK, Steps
    <2>2. Cached'
        BY <1>3 DEF Close, unmount, TypeOK, Cached
    <2>3. Running'
        BY <1>3 DEF Close, unmount, TypeOK, Cached, Running
    <2> QED
        BY <2>1, <2>2, <2>3
<1>4. ASSUME removeAll PROVE IInv'
    <2>1. TypeOK'
        <3>1. /\ UNCHANGED <<disk, booted, mounted, armed, fired, op, arg, after, cfg, guessed>>
              /\ umounting' = "no" /\ mountedPart' = FALSE /\ abandoned' = mounted
              /\ file' \in {file, Absent} /\ unsaved' = (unsaved \/ mounted)
              /\ pc' \in {pc, "ready"}
            BY <1>4 DEF removeAll
        <3>2. umounting' \in {"no", "timer", "close"} /\ pc' \in Steps
            BY <3>1 DEF TypeOK, Steps
        <3>3. unsaved' \in BOOLEAN
            BY <3>1 DEF TypeOK
        <3>4. TypeOK
            OBVIOUS
        <3> HIDE DEF IInv, Env, Empty, Absent, Partitions, NoPart
        <3> QED
            BY <3>1, <3>2, <3>3, <3>4 DEF TypeOK, Steps
    <2>2. Cached'
        BY <1>4 DEF removeAll, TypeOK, Cached
    <2>3. Running'
        BY <1>4 DEF removeAll, TypeOK, Cached, Running
    <2> QED
        BY <2>1, <2>2, <2>3
<1> QED
    BY <1>1, <1>2, <1>3, <1>4

\* A mount, and one that fails, keep the types.
LEMMA MountType ==
    ASSUME IInv, mountEnv \/ mountFails
    PROVE  /\ mounted' \in BOOLEAN /\ mountedPart' \in BOOLEAN
           /\ armed' \in BOOLEAN /\ fired' \in BOOLEAN /\ abandoned' \in BOOLEAN
           /\ umounting = "no" /\ umounting' = "no"
BY DEF IInv, mountEnv, mountFails, mount, TypeOK

\* A method: reading, setting and the beginning of a save.
LEMMA ReadSetIInv ==
    ASSUME PartCount \in Nat \ {0}, IInv,
           GetVar \/ SetBootOK \/ (\E p \in Partitions : SetMainBoot(p)) \/ getEnv \/ loadEnv \/ setVar \/ saveEnv
    PROVE  IInv'
<1> USE DEF IInv, device, call, Go
<1>1. ASSUME NEW method \in Methods, NEW p \in Partitions \cup {NoPart}, Call(method, p),
             method = "SetMainBoot" => p \in Partitions
      PROVE  IInv'
    BY <1>1 DEF Call, mount, TypeOK, Cached, Running, Methods
<1>2. ASSUME getEnv PROVE IInv'
    BY <1>2, MountType DEF getEnv, TypeOK, Cached, Running
<1>3. ASSUME loadEnv PROVE IInv'
    <2>1. TypeOK'
        <3>1. guessed' \in BOOLEAN
            BY <1>3 DEF loadEnv, TypeOK
        <3>2. /\ cfg' \in Env
              /\ pc' \in {"set", "save"}
              /\ after' \in {"ready", "set"}
            BY <1>3 DEF loadEnv, TypeOK
        <3>3. UNCHANGED <<device, mount, op, arg, unsaved>>
            BY <1>3 DEF loadEnv
        <3> QED
            BY <3>1, <3>2, <3>3 DEF mount, TypeOK
    <2>2. Cached'
        BY <1>3 DEF loadEnv, mount, TypeOK, Cached
    <2>3. Running'
        BY <1>3 DEF loadEnv, mount, TypeOK, Cached, Running
    <2> QED
        BY <2>1, <2>2, <2>3
<1>4. ASSUME setVar PROVE IInv'
    BY <1>4 DEF setVar, mount, TypeOK, Cached, Running, Methods
<1>5. ASSUME saveEnv PROVE IInv'
    <2>1. TypeOK'
        <3>1. unsaved' \in BOOLEAN
            BY <1>5 DEF saveEnv, TypeOK
        <3>2. UNCHANGED <<device, cfg, guessed, op, arg, after>> /\ pc' \in {"write", "ready"}
            BY <1>5 DEF saveEnv
        <3>3. mountEnv \/ mountFails
            BY <1>5 DEF saveEnv
        <3> QED
            BY <3>1, <3>2, <3>3, MountType DEF TypeOK
    <2>2. Cached'
        BY <1>5, MountType DEF saveEnv, TypeOK, Cached
    <2>3. Running'
        BY <1>5, MountType DEF saveEnv, TypeOK, Cached, Running
    <2> QED
        BY <2>1, <2>2, <2>3
<1> QED
    BY <1>1, <1>2, <1>3, <1>4, <1>5 DEF GetVar, SetBootOK, SetMainBoot, Methods

\* The file is truncated and written, or is not there any more.
LEMMA SaveIInv ==
    ASSUME IInv, Truncate \/ Misplace \/ Write \/ WriteFails
    PROVE  IInv'
<1> USE DEF IInv, device, mount, Go
<1>1. ASSUME Truncate PROVE IInv'
    BY <1>1 DEF Truncate, TypeOK, Cached, Running
<1>2. ASSUME Misplace PROVE IInv'
    BY <1>2 DEF Misplace, TypeOK, Cached, Running
<1>3. ASSUME Write PROVE IInv'
    <2>1. TypeOK'
        BY <1>3 DEF Write, TypeOK
    <2>2. Cached'
        BY <1>3 DEF Write, TypeOK, Cached
    <2>3. Running'
        BY <1>3 DEF Write, TypeOK, Cached, Running
    <2> QED
        BY <2>1, <2>2, <2>3
<1>4. ASSUME WriteFails PROVE IInv'
    BY <1>4 DEF WriteFails, TypeOK, Cached, Running
<1> QED
    BY <1>1, <1>2, <1>3, <1>4

\* What a reboot leaves of the file names the partition that was booted.
LEMMA RestartIInv ==
    ASSUME IInv, Flush \/ Restart \/ (\E p \in Partitions : Boot(p))
    PROVE  IInv'
<1> USE DEF IInv, device, mount, call
<1>1. ASSUME Flush PROVE IInv'
    BY <1>1 DEF Flush, TypeOK, Cached, Running
<1>2. ASSUME Restart PROVE IInv'
    BY <1>2 DEF Restart, Forget, TypeOK, Cached, Running, Methods
<1>3. ASSUME NEW p \in Partitions, Boot(p) PROVE IInv'
    <2>1. PICK env \in Survivors :
            /\ file' = IF env = Absent THEN env ELSE [env EXCEPT !.part = p]
            /\ guessed' = (env = Absent)
        BY <1>3 DEF Boot
    <2>2. env \in Env \cup {Absent}
        BY DEF Survivors, TypeOK
    <2>3. file' \in Env \cup {Absent} /\ disk' = file' /\ booted' = p
        BY <1>3, <2>1, <2>2 DEF Boot
    <2>4. file' # Absent => file'.part = p
        BY <2>1, <2>2
    <2> QED
        BY <1>3, <2>1, <2>3, <2>4 DEF Boot, Forget, TypeOK, Cached, Running, Methods
<1> QED
    BY <1>1, <1>2, <1>3

\* Nothing happens.
LEMMA StutterIInv == ASSUME IInv, UNCHANGED vars PROVE IInv'
BY DEF IInv, vars, device, mount, call, TypeOK, Cached, Running

\* Every step keeps IInv.
LEMMA NextIInv == ASSUME PartCount \in Nat \ {0} PROVE IInv /\ [Next]_vars => IInv'
BY UmountIInv, ReadSetIInv, SaveIInv, RestartIInv, StutterIInv DEF Next, Method

\* So it is an invariant.
LEMMA IInvAlways == ASSUME PartCount \in Nat \ {0} PROVE Spec => []IInv
BY InitIInv, NextIInv, PTL DEF Spec

(***************************************************************************)
(* Every variable of the U-Boot controller keeps its type.                 *)
(***************************************************************************)
THEOREM UbootTypeCorrect == ASSUME PartCount \in Nat \ {0} PROVE Spec => []TypeOK
<1>1. IInv => TypeOK
    BY DEF IInv
<1> QED
    BY <1>1, IInvAlways, PTL

(***************************************************************************)
(* What the controller keeps in memory is in the file between its methods, *)
(* unless a save failed or the file was lost: for any number of partitions *)
(* and wherever the timer unmounts the file (getVar, saveEnv, umountEnv).  *)
(***************************************************************************)
THEOREM CacheIsFileAlways == ASSUME PartCount \in Nat \ {0} PROVE Spec => []CacheIsFile
<1>1. IInv => CacheIsFile
    BY DEF IInv, Cached, CacheIsFile
<1> QED
    BY <1>1, IInvAlways, PTL

(***************************************************************************)
(* The partition the controller reports as the running one is running,     *)
(* unless the environment was lost since the boot (GetCurrentBoot).        *)
(***************************************************************************)
THEOREM CurrentIsBootedAlways ==
    ASSUME PartCount \in Nat \ {0} PROVE Spec => []CurrentIsBooted
<1>1. IInv => CurrentIsBooted
    BY DEF IInv, Running, CurrentIsBooted, GetCurrentBoot
<1> QED
    BY <1>1, IInvAlways, PTL

-----------------------------------------------------------------------------
(***************************************************************************)
(* The refinement: what may become the main partition is the one in memory *)
(* and the one on the disk.                                                *)
(***************************************************************************)
Main == MainOf(file)

Pending == {MainOf(cfg), MainOf(disk)} \ {NoPart}

\* A main partition is a partition, or there is none.
LEMMA MainType ==
    ASSUME NEW env PROVE MainOf(env) \in Partitions \cup {NoPart}
BY DEF MainOf

\* What may become the main partition is a partition.
LEMMA PendingType == Pending \subseteq Partitions
BY MainType DEF Pending

\* No main partition is configured in an empty file, or in none.
LEMMA NothingConfigured == MainOf(Absent) = NoPart /\ MainOf(Empty) = NoPart
BY DEF MainOf

USE DEF Control!NoPart

\* The initial states are those of the boot control.
LEMMA InitControl == ASSUME Init PROVE Control!Init
BY MainType DEF Init, Control!Init, Control!TypeOK

\* Unmounting may lose the configuration, and flushes what was asked for.
LEMMA UmountControl ==
    ASSUME IInv, Fire \/ Expire \/ Close \/ removeAll \/ Flush
    PROVE  Control!Next \/ (UNCHANGED <<Main, booted, Pending>>)
<1> USE DEF device, call, Main, Pending
<1>1. ASSUME UNCHANGED <<file, booted, cfg>>, disk' \in {disk, file} PROVE Control!Restart
    BY <1>1, MainType DEF Control!Restart, Control!Forget
<1>2. ASSUME Fire \/ Expire \/ Close \/ Flush PROVE Control!Restart
    BY <1>1, <1>2 DEF Fire, Expire, Close, Flush, unmount
<1>3. ASSUME removeAll PROVE Control!Lose \/ UNCHANGED <<Main, booted, Pending>>
    BY <1>3, PendingType, NothingConfigured DEF removeAll, Control!Lose, Control!Forget
<1> QED
    BY <1>2, <1>3 DEF Control!Next

\* The steps of the methods ask for a partition, take it, or lose the file.
LEMMA MethodControl ==
    ASSUME PartCount \in Nat \ {0}, IInv, Method
    PROVE  Control!Next \/ UNCHANGED <<Main, booted, Pending>>
<1> USE DEF device, Go
<1>1. ASSUME UNCHANGED <<file, booted, cfg, disk>> PROVE UNCHANGED <<Main, booted, Pending>>
    BY <1>1 DEF Main, Pending
<1>2. ASSUME GetVar \/ SetBootOK \/ (\E p \in Partitions : SetMainBoot(p)) \/ getEnv \/ saveEnv
             \/ Misplace \/ WriteFails
      PROVE  UNCHANGED <<file, booted, cfg, disk>>
    BY <1>2 DEF GetVar, SetBootOK, SetMainBoot, Call, getEnv, saveEnv, Misplace, WriteFails
<1>3. ASSUME loadEnv PROVE Control!Restart \/ Control!Default
    <2>1. CASE file # Absent
        BY <1>3, <2>1, MainType DEF loadEnv, Main, Pending, Control!Restart, Control!Forget
    <2>2. CASE file = Absent
        <3>1. MainOf(cfg') = 0 /\ Main = NoPart
            BY <1>3, <2>2, NothingConfigured DEF loadEnv, MainOf, Main
        <3> QED
            BY <1>3, <3>1 DEF loadEnv, Main, Pending, Control!Default
    <2> QED
        BY <2>1, <2>2
<1>4. ASSUME setVar
      PROVE  (\E p \in Partitions : Control!Ask(p)) \/ UNCHANGED <<Main, booted, Pending>>
    <2>1. CASE op = "SetMainBoot"
        <3>1. arg \in Partitions /\ cfg \in Env
            BY <1>4, <2>1 DEF IInv, Cached, TypeOK, setVar
        <3>2. MainOf(cfg') = arg
            BY <1>4, <2>1, <3>1 DEF setVar, MainOf
        <3>3. Control!Ask(arg)
            BY <1>4, <3>1, <3>2 DEF setVar, Main, Pending, Control!Ask
        <3> QED
            BY <3>1, <3>3
    <2>2. CASE op # "SetMainBoot"
        BY <1>1, <1>4, <2>2 DEF setVar
    <2> QED
        BY <2>1, <2>2
<1>5. ASSUME Truncate PROVE Control!Lose
    BY <1>5, NothingConfigured, PendingType DEF Truncate, Main, Pending, Control!Lose, Control!Forget
<1>6. ASSUME Write PROVE Control!Take \/ Control!Lose \/ UNCHANGED <<Main, booted, Pending>>
    BY <1>6, PendingType, MainType
    DEF Write, Main, Pending, Control!Take, Control!Lose, Control!Forget
<1> QED
    BY <1>1, <1>2, <1>3, <1>4, <1>5, <1>6 DEF Method, Control!Next

\* A boot finds the old main partition, one that was being written, or none.
LEMMA RebootControl ==
    ASSUME IInv, NEW p \in Partitions, Boot(p)
    PROVE  Control!Boot
<1>1. PICK env \in Survivors : file' = IF env = Absent THEN env ELSE [env EXCEPT !.part = p]
    BY DEF Boot
<1>2. env \in Env \cup {Absent}
    BY DEF Survivors, IInv, TypeOK
<1>3. MainOf(file') = MainOf(env)
    BY <1>1, <1>2 DEF MainOf
<1>4. MainOf(env) \in {Main, NoPart} \cup Pending
    BY MainType, NothingConfigured DEF Survivors, Main, Pending
<1>5. booted' = p /\ disk' = file' /\ cfg' = Absent
    BY DEF Boot, Forget
<1> QED
    BY <1>3, <1>4, <1>5, NothingConfigured, MainType DEF Control!Boot, Main, Pending

\* A restart forgets what was asked for and not written.
LEMMA RestartControl == ASSUME IInv, Restart PROVE Control!Restart
BY NothingConfigured, PendingType
DEF Restart, Forget, device, Main, Pending, Control!Restart, Control!Forget

\* Every step is one of the boot control, or none.
LEMMA NextControl ==
    ASSUME PartCount \in Nat \ {0}
    PROVE  IInv /\ [Next]_vars => [Control!Next]_<<Main, NoPart, booted, Pending>>
<1> SUFFICES ASSUME IInv, [Next]_vars
             PROVE  Control!Next \/ UNCHANGED <<Main, booted, Pending>>
    OBVIOUS
<1>1. CASE UNCHANGED vars
    BY <1>1 DEF vars, device, Main, Pending
<1>2. CASE Next
    BY <1>2, UmountControl, MethodControl, RebootControl, RestartControl DEF Next, Control!Next
<1> QED
    BY <1>1, <1>2

(***************************************************************************)
(* The U-Boot controller implements the boot control, for any number of    *)
(* partitions: the partition boots start from is one that was asked for,   *)
(* or the default one after the file was lost (SetMainBoot, getEnv,        *)
(* saveEnv, umountEnv).                                                    *)
(***************************************************************************)
THEOREM UbootImplementsControl ==
    ASSUME PartCount \in Nat \ {0} PROVE Spec => ImplementsControl
<1>1. Spec => []IInv
    BY IInvAlways
<1>2. Init => Control!Init
    BY InitControl
<1>3. IInv /\ [Next]_vars => [Control!Next]_<<Main, NoPart, booted, Pending>>
    BY NextControl
<1> QED
    BY <1>1, <1>2, <1>3, PTL DEF Spec, ImplementsControl, Control!Spec, Main, Pending
=============================================================================
