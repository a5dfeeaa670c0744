--------------------------- MODULE DualPartProofs ---------------------------
(***************************************************************************)
(* Theorems about DualPart, for any number of versions and of faults.      *)
(***************************************************************************)
EXTENDS DualPart, TLAPS

\* What happened so far leaves the module able to decide which partition is the good one.
Calm == mishaps \cap {"stale", "failed", "wavered", "blind"} = {}

Good(p) == part[p] # Unbootable

\* Where a method is, and what it began with.
Steps ==
    /\ op = "none" => pc \in {"down", "ready"}
    /\ pc = "down" => op = "none" /\ mem = ZeroState
    /\ pc = "reboot" \/ (pc = "return" /\ ret.reboot) => op \in {"update", "revert"}
    /\ op = "prepare" => pc \notin {"copy", "main"}
    /\ op = "prepare" /\ pc \in {"state", "return"} => handler = "idle"
    /\ op = "update" /\ pc \in {"copy", "main", "state"} =>
         /\ handler = "prepared"
         /\ mem.State = "prepared"
         /\ mem.UpdatePartition = Other(current)
    /\ op = "update" /\ pc \in {"return", "reboot"} => handler = "prepared"
    /\ op = "update" /\ pc = "state" /\ boot.by = "uboot" => boot.main = mem.UpdatePartition
    /\ op = "revert" /\ pc \in {"copy", "main", "state"} =>
         "revert" \in decided /\ mem.State # "idle"
    /\ op = "apply" => pc # "main"
    /\ op = "apply" /\ pc \in {"copy", "state"} => handler = "updated" /\ mem.State = "updated"
    /\ op = "prepare" /\ pc = "state" => ~bootErr
    /\ op = "prepare" /\ pc \in {"state", "return"} => decided = {}
    /\ op \in {"apply", "revert"} /\ pc \notin {"down", "ready"} =>
         handler # "idle" /\ op \in decided
    /\ op = "apply" /\ pc \notin {"down", "ready"} => handler = "updated"
    /\ op = "revert" /\ pc = "state" =>
         IF boot.by = "uboot" THEN boot.main = Other(mem.UpdatePartition)
                              ELSE boot.next = Other(mem.UpdatePartition)
    /\ boot.by = "uboot" => boot.next = None
    /\ boot.by = "efi" /\ pc # "down" /\ (mem.State # "idle" \/ ~bootErr) => boot.main = current

\* What the module remembers and what the database says.
Memory ==
    /\ mem.State = "prepared" => disk.State # "updated"
    /\ mem.State = "updated" =>
         mem = disk \/ (disk.State # "updated" /\ mem.UpdatePartition = Other(current))
    /\ handler = "idle" => disk.State # "updated" /\ mem.State # "updated"
    /\ pc = "return" /\ op \in {"apply", "revert"} /\ ~ret.err =>
         disk.State = "idle" /\ mem.State = "idle"
    /\ pc = "return" /\ op = "update" /\ ~ret.err /\ ~ret.reboot =>
         disk.State = "updated" /\ mem = disk
    /\ handler = "updated" => mem = disk \/ mem.State = "idle"

\* Which partitions are good.
Copies ==
    /\ ~Good(current) =>
         /\ disk.State = "updated" /\ disk.UpdatePartition = current
         /\ "revert" \in decided
         /\ Good(Other(current))
    /\ pc = "copy" => Good(Other(Destination(op, mem)))
    /\ op = "revert" /\ pc \in {"copy", "main", "state"} /\ disk.State # "updated" =>
         mem.UpdatePartition = Other(current)
    /\ op \in {"apply", "revert"} /\ pc \in {"main", "state"} =>
         Good(current) /\ Good(Other(current))
    /\ disk.State = "updated" /\ "apply" \notin decided => Good(Other(disk.UpdatePartition))

\* What is booted while nobody has asked for the former version.
Verified ==
    "revert" \notin decided =>
      /\ disk.State = "updated" =>
           /\ boot.by = "uboot" => boot.main = disk.UpdatePartition
           /\ current = disk.UpdatePartition =>
                /\ boot.next = None
                /\ pc # "down" /\ ~bootErr /\ boot.by = "efi" => boot.main = current
      /\ disk.State = "updated" /\ handler = "updated" =>
           current = disk.UpdatePartition /\ boot.main = current /\ boot.next = None
      /\ pc = "return" /\ op = "update" /\ ~ret.err /\ ~ret.reboot =>
           current = disk.UpdatePartition /\ boot.main = current /\ boot.next = None

Mirrored == part[current] = part[Other(current)]

RebootAfterRevert == op = "revert" /\ pc \in {"return", "reboot"} /\ ret.reboot

Begun == handler # "idle" \/ (op = "prepare" /\ pc \in {"state", "return"})

\* Where the version is that ran before the update.
Kept ==
    /\ disk.State = "updated" /\ "apply" \notin decided =>
         part[Other(disk.UpdatePartition)] = before
    /\ disk.State # "updated" /\ "apply" \notin decided /\ Begun => part[current] = before
    /\ op \in {"apply", "revert"} /\ pc \in {"main", "state"} => Mirrored

\* The version that runs is on the partition it was booted from.
Runs ==
    \/ part[current] = version
    \/ disk.State = "updated" /\ disk.UpdatePartition = current /\ "revert" \in decided
    \/ RebootAfterRevert

\* Outside of an update the next boot is as good as the one before.
BootsAlike ==
    disk.State # "updated" /\ ~(op = "update" /\ pc = "state") =>
      \/ boot.main = current /\ boot.next \in {None, current}
      \/ Mirrored /\ RebootAfterRevert
      \/ /\ Mirrored
         /\ boot.by = "efi" /\ boot.next = None
         /\ pc = "down" \/ (bootErr /\ mem.State = "idle")

\* What a decision finds, and what it leaves.
Decisions ==
    /\ pc = "return" /\ op = "update" /\ ~ret.err /\ ~ret.reboot => version = target
    /\ handler = "updated" /\ "revert" \notin decided =>
         /\ version = target /\ part[current] = target
         /\ disk.State # "updated" => Mirrored
    /\ op = "apply" /\ pc \notin {"down", "ready"} => "revert" \notin decided
    /\ op = "revert" /\ pc \notin {"down", "ready"} => "apply" \notin decided
    /\ Ended("apply") => version = target /\ \A p \in Partitions : part[p] = target
    /\ Ended("revert") => Restored

Clean == mishaps = {}

\* An update that nothing has been decided about, whatever went wrong before it.
Undecided ==
    handler \in {"prepared", "updated"} /\ decided = {} =>
      /\ disk.State \in {"prepared", "updated"}
      /\ mem.State = "prepared" => disk.State = "prepared"
      /\ mem.State = "updated" =>
           mem = disk \/ (disk.State = "prepared" /\ mem.UpdatePartition # current)
      /\ disk.State = "updated" =>
           /\ boot.by = "uboot" => boot.main = disk.UpdatePartition
           /\ current = disk.UpdatePartition =>
                /\ boot.next = None
                /\ part[current] = version
                /\ pc # "down" /\ ~bootErr /\ boot.by = "efi" => boot.main = current

Verification ==
    /\ op = "prepare" /\ pc = "return" /\ ~ret.err => mem = disk /\ disk.State = "prepared"
    /\ pc = "return" /\ op = "update" /\ ~ret.err /\ ~ret.reboot /\ decided = {} =>
         /\ disk.State = "updated" /\ current = disk.UpdatePartition
         /\ boot.main = current /\ version = target
    /\ handler = "updated" /\ decided = {} =>
         /\ disk.State = "updated" /\ current = disk.UpdatePartition
         /\ boot.main = current /\ version = target

VerifiedInv == Undecided /\ Verification

-----------------------------------------------------------------------------
(***************************************************************************)
(* There are two partitions.                                               *)
(***************************************************************************)
LEMMA TwoPartitions ==
    /\ Other(0) = 1 /\ Other(1) = 0
    /\ \A p \in Partitions :
         /\ Other(p) \in Partitions /\ Other(p) # p /\ Other(Other(p)) = p
         /\ \A q \in Partitions : q # p => q = Other(p)
    /\ None \notin Partitions
BY DEF Other, Partitions, None

\* The boot loader boots one of the partitions.
LEMMA BootChoiceIsPartition ==
    ASSUME TypeOK
    PROVE  BootChoice \in Partitions
BY TwoPartitions DEF TypeOK, BootChoice, Bootable

TypeInv == TypeOK /\ (op = "none" => pc \in {"down", "ready"})

(***************************************************************************)
(* The end of a process and a boot keep the types.                         *)
(***************************************************************************)
LEMMA DieType ==
    ASSUME TypeOK, Die
    PROVE  /\ pc' = "down" /\ op' = "none" /\ mem' \in ModuleStates
           /\ bootErr' \in BOOLEAN /\ ret' \in [err : BOOLEAN, reboot : BOOLEAN]
BY DEF TypeOK, Die, ZeroState, ModuleStates, States, Partitions

\* A boot keeps the types, and leaves no process.
LEMMA BootType ==
    ASSUME TypeOK, Boot
    PROVE  /\ part' \in [Partitions -> Contents]
           /\ boot' \in [by : Controllers, main : Partitions, next : Partitions \cup {None}]
           /\ current' \in Partitions
           /\ version' \in Versions
<1>1. BootChoice \in Partitions
  BY BootChoiceIsPartition
<1>2. part[BootChoice] \in Contents
  BY <1>1 DEF TypeOK
<1>3. part[BootChoice] \in Versions
  BY <1>2 DEF Boot, Bootable, Contents
<1>4. boot' \in [by : Controllers, main : Partitions, next : Partitions \cup {None}]
  BY DEF TypeOK, Boot
<1> QED
  BY <1>1, <1>3, <1>4 DEF Boot, TypeOK

(***************************************************************************)
(* A method ends with a result, or begins to write a partition.            *)
(***************************************************************************)
LEMMA ReturnType ==
    ASSUME NEW e \in BOOLEAN, NEW r \in BOOLEAN, Return(e, r)
    PROVE  pc' = "return" /\ ret' \in [err : BOOLEAN, reboot : BOOLEAN]
BY DEF Return

\* The copy of a partition keeps the types.
LEMMA BeginCopyType ==
    ASSUME TypeOK, NEW method, NEW m \in ModuleStates, BeginCopy(method, m)
    PROVE  /\ pc' = "copy" /\ mem' = m
           /\ part' \in [Partitions -> Contents]
           /\ ret' \in [err : BOOLEAN, reboot : BOOLEAN]
<1>1. Unbootable \in Contents
  BY DEF Contents
<1> QED
  BY <1>1 DEF BeginCopy, TypeOK

\* Every step keeps the types.
LEMMA TypeStep == TypeInv /\ [Next]_vars => TypeInv'
<1> SUFFICES ASSUME TypeInv, [Next]_vars PROVE TypeInv'
  OBVIOUS
<1> USE DEF TypeInv
<1>t. /\ \A k \in FaultKinds : Fault(k) => faults' \in 0 .. MaxFaults
      /\ \A p \in Partitions : SetMainBoot(p) \in
           [by : Controllers, main : Partitions, next : Partitions \cup {None}]
      /\ SetBootOK \in [by : Controllers, main : Partitions, next : Partitions \cup {None}]
  BY DualPartAssumption DEF Fault, SetMainBoot, SetBootOK, TypeOK
<1>m. /\ \A m \in {"copy", "update", "apply", "revert", "prepare"}, s \in ModuleStates :
           Destination(m, s) \in Partitions
      /\ Destination(op, mem) \in Partitions
      /\ mem.UpdatePartition \in Partitions /\ Other(mem.UpdatePartition) \in Partitions
      /\ SecPartition \in Partitions
      /\ NewMain \in Partitions
      /\ Copied \in Contents
  BY TwoPartitions DEF Destination, SecPartition, NewMain, Copied, TypeOK, ModuleStates
<1>1. CASE Start
  <2>1. ZeroState \in ModuleStates
    BY DEF ZeroState, ModuleStates, States, Partitions
  <2>2. /\ mem' \in ModuleStates
        /\ boot' \in [by : Controllers, main : Partitions, next : Partitions \cup {None}]
        /\ bootErr' \in BOOLEAN
        /\ faults' \in 0 .. MaxFaults
    BY <1>1, <1>t, <2>1 DEF Start, TypeOK, FaultKinds
  <2> QED
    BY <1>1, <2>2 DEF Start, TypeOK, update
<1>2. ASSUME NEW v \in Versions, NEW img \in Contents, Prepare(v, img) PROVE TypeInv'
  <2>1. pc' \in {"return", "state"} /\ ret' \in [err : BOOLEAN, reboot : BOOLEAN]
    BY <1>2, ReturnType DEF Prepare, TypeOK
  <2>2. /\ op' = "prepare" /\ target' \in Versions /\ image' \in Contents
        /\ Error' \in BOOLEAN /\ before' \in Versions /\ decided' \subseteq {"apply", "revert"}
    BY <1>2 DEF Prepare, TypeOK
  <2> QED
    BY <1>2, <2>1, <2>2 DEF Prepare, TypeOK, system
<1>3. CASE Update
  <2>1. [mem EXCEPT !.UpdatePartition = SecPartition] \in ModuleStates
    BY <1>m DEF TypeOK, ModuleStates
  <2>2. NotUpdated \in BOOLEAN
    BY DEF NotUpdated, TypeOK
  <2>3. /\ mem' \in ModuleStates
        /\ part' \in [Partitions -> Contents]
        /\ pc' \in {"copy", "return"}
        /\ ret' \in [err : BOOLEAN, reboot : BOOLEAN]
    BY <1>3, <2>1, <2>2, ReturnType, BeginCopyType DEF Update, TypeOK
  <2> QED
    BY <1>3, <2>3 DEF Update, TypeOK
<1>4. CASE Revert
  <2>1. /\ mem' = mem
        /\ part' \in [Partitions -> Contents]
        /\ pc' \in {"copy", "return"}
        /\ ret' \in [err : BOOLEAN, reboot : BOOLEAN]
    BY <1>4, ReturnType, BeginCopyType DEF Revert, TypeOK
  <2>2. mishaps' \subseteq Mishaps /\ decided' \subseteq {"apply", "revert"}
    BY <1>4 DEF Revert, Decided, Mishaps, TypeOK
  <2> QED
    BY <1>4, <2>1, <2>2 DEF Revert, TypeOK
<1>5. CASE Apply
  <2>1. /\ mem' = mem
        /\ part' \in [Partitions -> Contents]
        /\ pc' \in {"copy", "return"}
        /\ ret' \in [err : BOOLEAN, reboot : BOOLEAN]
    BY <1>5, ReturnType, BeginCopyType DEF Apply, TypeOK
  <2>2. mishaps' \subseteq Mishaps /\ decided' \subseteq {"apply", "revert"}
    BY <1>5 DEF Apply, Decided, Mishaps, TypeOK
  <2> QED
    BY <1>5, <2>1, <2>2 DEF Apply, TypeOK
<1>6. CASE CopyDone
  BY <1>6, <1>m DEF CopyDone, TypeOK, update
<1>7. CASE MainBootSet
  BY <1>7, <1>m, <1>t DEF MainBootSet, TypeOK, update
<1>8. CASE StepFails
  BY <1>8, <1>t DEF StepFails, Return, TypeOK, FaultKinds, system, update
<1>s. [mem EXCEPT !.State = NewState] \in ModuleStates /\ RebootRequired \in BOOLEAN
  BY DEF NewState, RebootRequired, ModuleStates, States, TypeOK
<1>9. CASE SetState
  BY <1>9, <1>s DEF SetState, Return, TypeOK, system, update
<1>10. CASE SetStateFails
  BY <1>10, <1>s, <1>t DEF SetStateFails, Return, TypeOK, Mishaps, FaultKinds, system, update
<1>11. CASE Returned
  BY <1>11 DEF Returned, TypeOK, States, Mishaps, system
<1>12. CASE Reboot
  BY <1>12, DieType, BootType DEF Reboot, Boot, TypeOK, update
<1>13. CASE RebootFails
  BY <1>13, <1>t DEF RebootFails, TypeOK, States, Mishaps, FaultKinds, system
<1>14. CASE PowerCut
  BY <1>14, <1>t, DieType, BootType DEF PowerCut, Boot, Torn, TypeOK, Mishaps, FaultKinds, update
<1>15. CASE ProcessCrash
  BY <1>15, <1>t, DieType DEF ProcessCrash, Torn, TypeOK, Mishaps, FaultKinds, system, update
<1>16. CASE UNCHANGED vars
  BY <1>16 DEF vars, system, memory, update, TypeOK
<1> QED
  BY <1>1, <1>2, <1>3, <1>4, <1>5, <1>6, <1>7, <1>8, <1>9, <1>10, <1>11, <1>12, <1>13, <1>14,
     <1>15, <1>16 DEF Next, Command, Method

\* The types hold at first.
LEMMA TypeInit == Init => TypeInv
<1> SUFFICES ASSUME Init PROVE TypeInv
  OBVIOUS
<1>1. 0 \in Versions /\ 0 \in Contents /\ Unbootable \in Contents /\ 0 \in Partitions
  BY DualPartAssumption DEF Versions, Contents, Partitions
<1>2. part \in [Partitions -> Contents]
  BY <1>1 DEF Init
<1>3. ZeroState \in ModuleStates
  BY <1>1 DEF ZeroState, ModuleStates, States
<1>4. boot \in [by : Controllers, main : Partitions, next : Partitions \cup {None}]
  BY <1>1 DEF Init
<1>5. ret \in [err : BOOLEAN, reboot : BOOLEAN]
  BY DEF Init
<1>6. faults \in 0 .. MaxFaults
  BY DualPartAssumption DEF Init
<1>7. /\ current \in Partitions /\ version \in Versions /\ image \in Contents
      /\ target \in Versions /\ before \in Versions
      /\ disk \in ModuleStates /\ mem \in ModuleStates
      /\ handler \in States \cup {"failed"}
  BY <1>1, <1>3 DEF Init, States
<1>8. /\ bootErr \in BOOLEAN /\ Error \in BOOLEAN
      /\ decided \subseteq {"apply", "revert"} /\ mishaps \subseteq Mishaps
      /\ op = "none" /\ pc = "ready"
  BY DEF Init
<1> QED
  BY <1>2, <1>4, <1>5, <1>6, <1>7, <1>8 DEF TypeInv, TypeOK

(***************************************************************************)
(* Every variable has its type in every state, for any number of versions  *)
(* and of faults.                                                          *)
(***************************************************************************)
THEOREM DualTypeCorrect == Spec => []TypeOK
BY TypeInit, TypeStep, PTL DEF Spec, TypeInv

-----------------------------------------------------------------------------
(***************************************************************************)
(* Steps is inductive, whatever goes wrong.                                *)
(***************************************************************************)
LEMMA StepsStep == TypeInv /\ Steps /\ [Next]_vars => Steps'
<1> SUFFICES ASSUME TypeInv, Steps, [Next]_vars PROVE Steps'
  OBVIOUS
<1> USE DEF TypeInv
<1>1. CASE Start
  <2>1. /\ pc = "down" /\ pc' = "ready"
        /\ UNCHANGED <<op, ret, current, decided, handler, disk>>
        /\ boot' \in {boot, SetBootOK}
        /\ (boot' = SetBootOK) \/ (mem' = ZeroState /\ bootErr')
    BY <1>1 DEF Start, update
  <2>2. /\ boot'.by = boot.by /\ boot'.next = boot.next
        /\ boot' = SetBootOK /\ boot'.by = "efi" => boot'.main = current
    BY <2>1 DEF SetBootOK, TypeOK
  <2> QED
    BY <2>1, <2>2 DEF Steps, ZeroState
<1>2. ASSUME NEW v \in Versions, NEW img \in Contents, Prepare(v, img) PROVE Steps'
  BY <1>2 DEF Prepare, Return, Steps, system
<1>3. CASE Update
  BY <1>3 DEF Update, BeginCopy, Return, Steps, SecPartition, TypeOK, ModuleStates
<1>4. CASE Revert
  BY <1>4 DEF Revert, BeginCopy, Return, Steps
<1>5. CASE Apply
  BY <1>5 DEF Apply, BeginCopy, Return, Steps
<1>6. CASE CopyDone
  BY <1>6 DEF CopyDone, Steps, update
<1>7. CASE MainBootSet
  <2>1. /\ pc = "main" /\ pc' = "state"
        /\ UNCHANGED <<op, mem, current, decided, handler, bootErr>>
        /\ op = "update" => NewMain = mem.UpdatePartition
        /\ op = "revert" => NewMain = Other(mem.UpdatePartition)
    BY <1>7 DEF MainBootSet, NewMain, update
  <2>2. /\ boot'.by = boot.by
        /\ boot.by = "uboot" => boot'.main = NewMain /\ boot'.next = boot.next
        /\ boot.by = "efi" => boot'.main = boot.main /\ boot'.next = NewMain
        /\ boot.by \in {"uboot", "efi"}
    BY <1>7, DualPartAssumption DEF MainBootSet, SetMainBoot, TypeOK
  <2>3. op \in {"update", "revert"}
    BY <2>1 DEF Steps, TypeOK
  <2> QED
    BY <2>1, <2>2, <2>3 DEF Steps
<1>8. CASE StepFails
  BY <1>8 DEF StepFails, Return, Steps, system, update
<1>9. CASE SetState
  BY <1>9 DEF SetState, Return, RebootRequired, Steps, TypeOK, system, update
<1>10. CASE SetStateFails
  BY <1>10 DEF SetStateFails, Return, Steps, TypeOK, system, update
<1>11. CASE Returned
  BY <1>11 DEF Returned, Steps, system
<1>12. CASE Reboot
  BY <1>12 DEF Reboot, Boot, Die, Steps, TypeOK, update
<1>13. CASE RebootFails
  BY <1>13 DEF RebootFails, Steps, system
<1>14. CASE PowerCut
  BY <1>14 DEF PowerCut, Boot, Die, Steps, TypeOK, update
<1>15. CASE ProcessCrash
  BY <1>15 DEF ProcessCrash, Die, Steps, system, update
<1>16. CASE UNCHANGED vars
  BY <1>16 DEF vars, system, memory, update, Steps
<1> QED
  BY <1>1, <1>2, <1>3, <1>4, <1>5, <1>6, <1>7, <1>8, <1>9, <1>10, <1>11, <1>12, <1>13, <1>14,
     <1>15, <1>16 DEF Next, Command, Method

(***************************************************************************)
(* A step that ends calm began calm.                                       *)
(***************************************************************************)
LEMMA CalmBefore == [Next]_vars /\ Calm' => Calm
<1> SUFFICES ASSUME [Next]_vars PROVE mishaps \subseteq mishaps'
  BY DEF Calm
<1> QED
  BY DEF Next, Command, Method, Start, Prepare, Update, Revert, Apply, CopyDone, MainBootSet,
         StepFails, SetState, SetStateFails, Returned, Reboot, RebootFails, PowerCut,
         ProcessCrash, vars

(***************************************************************************)
(* The state the handler persists when a method has returned.              *)
(***************************************************************************)
LEMMA ReturnedTo ==
    ASSUME TypeInv, Returned, ~ret.reboot
    PROVE  /\ op = "prepare" => handler' = IF ret.err THEN "failed" ELSE "prepared"
           /\ op = "update" => handler' = IF ret.err THEN "failed" ELSE "updated"
           /\ op \in {"apply", "revert"} => handler' = "idle"
<1>1. ret.err \in BOOLEAN
  BY DEF TypeInv, TypeOK
<1>2. ASSUME op = "prepare" PROVE handler' = IF ret.err THEN "failed" ELSE "prepared"
  BY <1>1, <1>2 DEF Returned
<1>3. ASSUME op = "update" PROVE handler' = IF ret.err THEN "failed" ELSE "updated"
  BY <1>1, <1>3 DEF Returned
<1>4. ASSUME op \in {"apply", "revert"} PROVE handler' = "idle"
  BY <1>1, <1>4 DEF Returned
<1> QED
  BY <1>2, <1>3, <1>4

(***************************************************************************)
(* A calm step keeps memory and database together, one partition good, and *)
(* a verified update the one that is booted.                               *)
(***************************************************************************)
LEMMA CalmStep ==
    ASSUME TypeInv, TypeInv', Steps, Calm', Memory, Copies, Verified, [Next]_vars
    PROVE  Memory' /\ Copies' /\ Verified'
<1> USE TwoPartitions DEF TypeInv
<1>c. Calm
  BY CalmBefore
<1>1. CASE Start
  <2>1. Memory'
    BY <1>1, <1>c DEF Start, SetBootOK, Calm, Steps, Memory, TypeOK, ModuleStates, update
  <2>2. Copies'
    BY <1>1, <1>c DEF Start, SetBootOK, Calm, Steps, Memory, Copies, Good, TypeOK,
        ModuleStates, update
  <2>3. Verified'
    BY <1>1, <1>c DEF Start, SetBootOK, Calm, Steps, Memory, Verified, Copies, Good, TypeOK,
        ModuleStates, update
  <2> QED
    BY <2>1, <2>2, <2>3
<1>2. ASSUME NEW v \in Versions, NEW img \in Contents, Prepare(v, img)
      PROVE  Memory' /\ Copies' /\ Verified'
  <2>1. Memory'
    BY <1>2, <1>c DEF Prepare, Return, Calm, Steps, Memory, TypeOK, ModuleStates, system
  <2>2. Copies'
    BY <1>2, <1>c DEF Prepare, Return, Calm, Steps, Memory, Copies, Good, TypeOK, ModuleStates,
        system
  <2>3. Verified'
    BY <1>2, <1>c DEF Prepare, Return, Calm, Steps, Memory, Verified, Copies, Good, TypeOK,
        ModuleStates, system
  <2> QED
    BY <2>1, <2>2, <2>3
<1>3. CASE Update
  <2>1. Memory'
    BY <1>3, <1>c DEF Update, BeginCopy, Destination, Return, SecPartition, NotUpdated, Calm,
        Steps, Memory, TypeOK, ModuleStates
  <2>2. Copies'
    BY <1>3, <1>c DEF Update, BeginCopy, Destination, Return, SecPartition, NotUpdated, Calm,
        Steps, Memory, Copies, Good, TypeOK, ModuleStates
  <2>3. Verified'
    <3>1. UNCHANGED <<boot, current, disk, bootErr, decided, handler>> /\ pc = "ready"
      BY <1>3 DEF Update
    <3>2. ASSUME pc' = "return", ~ret'.err
          PROVE  mem.State = "updated" /\ current = mem.UpdatePartition /\ ~bootErr
      <4>1. mem.State = "updated" /\ ret'.err = NotUpdated
        BY <1>3, <3>2 DEF Update, BeginCopy, Return
      <4> QED
        BY <3>2, <4>1 DEF NotUpdated
    <3>3. ASSUME pc' = "return", ~ret'.err PROVE mem = disk
      BY <1>c, <3>2, <3>3 DEF Memory, TypeOK
    <3>4. pc' \in {"copy", "return"}
      BY <1>3 DEF Update, BeginCopy, Return
    <3>5. boot.by \in {"uboot", "efi"}
      BY DualPartAssumption DEF TypeOK
    <3> QED
      BY <3>1, <3>2, <3>3, <3>4, <3>5, <1>c DEF Verified
  <2> QED
    BY <2>1, <2>2, <2>3
<1>4. CASE Revert
  <2>1. Memory'
    BY <1>4, <1>c DEF Revert, BeginCopy, Destination, Return, Decided, Calm, Steps, Memory,
        TypeOK, ModuleStates
  <2>2. Copies'
    <3> DEFINE p == Destination("revert", mem)
    <3>1. p \in Partitions /\ p = mem.UpdatePartition
      BY DEF Destination, TypeOK, ModuleStates
    <3> HIDE DEF p
    <3>2. ASSUME mem.State # "idle" PROVE Good(Other(p))
      <4>1. CASE mem.State = "prepared"
        BY <1>4, <1>c, <3>1, <4>1 DEF Revert, Calm, Memory, Copies, TypeOK, ModuleStates
      <4>2. CASE mem.State = "updated"
        BY <1>4, <1>c, <3>1, <4>2 DEF Revert, Decided, Calm, Memory, Copies, TypeOK, ModuleStates
      <4> QED
        BY <3>2, <4>1, <4>2 DEF TypeOK, ModuleStates, States
    <3>3. CASE mem.State = "idle"
      BY <1>4, <1>c, <3>3 DEF Revert, Return, Copies, Good
    <3>4. CASE mem.State # "idle"
      <4>1. /\ UNCHANGED <<current, disk, mem>> /\ op' = "revert" /\ pc' = "copy"
            /\ "revert" \in decided' /\ decided' = decided \cup {"revert"}
            /\ part' = [part EXCEPT ![p] = Unbootable]
        BY <1>4, <3>4 DEF Revert, BeginCopy, p
      <4>2. /\ part'[p] = Unbootable /\ part'[Other(p)] # Unbootable
            /\ \A q \in Partitions : q # p => part'[q] = part[q]
        BY <3>1, <3>2, <3>4, <4>1 DEF Good, TypeOK
      <4>3. disk.State = "updated" => disk.UpdatePartition = p
        BY <1>c, <3>1, <3>4 DEF Memory, TypeOK, ModuleStates, States
      <4>4. current = p => disk.State = "updated"
        BY <1>4, <1>c, <3>1, <3>4 DEF Revert, Calm, Memory, TypeOK, ModuleStates, States
      <4>5. Destination("revert", mem) = p
        BY DEF p
      <4>6. current \in Partitions
        BY DEF TypeOK
      <4> QED
        BY <1>c, <3>1, <4>1, <4>2, <4>3, <4>4, <4>5, <4>6 DEF Copies, Good
    <3> QED
      BY <3>3, <3>4
  <2>3. Verified'
    BY <1>4, <1>c DEF Revert, BeginCopy, Destination, Return, Decided, Calm, Steps, Memory,
        Verified, Copies, Good, TypeOK, ModuleStates
  <2> QED
    BY <2>1, <2>2, <2>3
<1>5. CASE Apply
  <2>1. Memory'
    BY <1>5, <1>c DEF Apply, BeginCopy, Destination, Return, Decided, Calm, Steps, Memory,
        TypeOK, ModuleStates
  <2>2. Copies'
    <3> DEFINE p == Destination("apply", mem)
    <3>1. p \in Partitions /\ p = Other(mem.UpdatePartition)
      BY DEF Destination, TypeOK, ModuleStates
    <3> HIDE DEF p
    <3>2. ASSUME mem.State = "updated" PROVE Good(Other(p)) /\ p # current
      BY <1>5, <1>c, <3>1, <3>2 DEF Apply, Decided, Calm, Memory, Copies, Verified, TypeOK,
         ModuleStates
    <3> QED
      BY <1>5, <1>c, <3>1, <3>2 DEF Apply, BeginCopy, Destination, Return, Decided, Calm, Memory,
         Copies, Good, TypeOK, ModuleStates, p
  <2>3. Verified'
    BY <1>5, <1>c DEF Apply, BeginCopy, Destination, Return, Decided, Calm, Steps, Memory,
        Verified, Copies, Good, TypeOK, ModuleStates
  <2> QED
    BY <2>1, <2>2, <2>3
<1>6. CASE CopyDone
  <2>1. Memory'
    BY <1>6, <1>c DEF CopyDone, Copied, Destination, Calm, Steps, Memory, TypeOK, ModuleStates,
        update
  <2>2. Copies'
    BY <1>6, <1>c DEF CopyDone, Copied, Destination, Calm, Steps, Memory, Copies, Good, TypeOK,
        ModuleStates, update
  <2>3. Verified'
    BY <1>6, <1>c DEF CopyDone, Copied, Destination, Calm, Steps, Memory, Verified, Copies,
        Good, TypeOK, ModuleStates, update
  <2> QED
    BY <2>1, <2>2, <2>3
<1>7. CASE MainBootSet
  <2>1. Memory'
    BY <1>7, <1>c DEF MainBootSet, SetMainBoot, NewMain, Destination, Calm, Steps, Memory,
        TypeOK, ModuleStates, update
  <2>2. Copies'
    BY <1>7, <1>c DEF MainBootSet, SetMainBoot, NewMain, Destination, Calm, Steps, Memory,
        Copies, Good, TypeOK, ModuleStates, update
  <2>3. Verified'
    BY <1>7, <1>c DEF MainBootSet, SetMainBoot, NewMain, Destination, Calm, Steps, Memory,
        Verified, Copies, Good, TypeOK, ModuleStates, update
  <2> QED
    BY <2>1, <2>2, <2>3
<1>8. CASE StepFails
  <2>1. Memory'
    BY <1>8, <1>c DEF StepFails, Return, Calm, Steps, Memory, TypeOK, ModuleStates, system,
        update
  <2>2. Copies'
    BY <1>8, <1>c DEF StepFails, Return, Calm, Steps, Memory, Copies, Good, TypeOK,
        ModuleStates, system, update
  <2>3. Verified'
    BY <1>8, <1>c DEF StepFails, Return, Calm, Steps, Memory, Verified, Copies, Good, TypeOK,
        ModuleStates, system, update
  <2> QED
    BY <2>1, <2>2, <2>3
<1>9. CASE SetState
  <2>1. Memory'
    BY <1>9, <1>c DEF SetState, Return, NewState, RebootRequired, Calm, Steps, Memory, TypeOK,
        ModuleStates, system, update
  <2>2. Copies'
    BY <1>9, <1>c DEF SetState, Return, NewState, RebootRequired, Calm, Steps, Memory, Copies,
        Good, TypeOK, ModuleStates, system, update
  <2>3. Verified'
    BY <1>9, <1>c DEF SetState, Return, NewState, RebootRequired, Calm, Steps, Memory,
        Verified, Copies, Good, TypeOK, ModuleStates, system, update
  <2> QED
    BY <2>1, <2>2, <2>3
<1>10. CASE SetStateFails
  <2>1. Memory'
    BY <1>10, <1>c DEF SetStateFails, Return, NewState, Calm, Steps, Memory, TypeOK,
        ModuleStates, system, update
  <2>2. Copies'
    BY <1>10, <1>c DEF SetStateFails, Return, NewState, Calm, Steps, Memory, Copies, Good,
        TypeOK, ModuleStates, system, update
  <2>3. Verified'
    BY <1>10, <1>c DEF SetStateFails, Return, NewState, Calm, Steps, Memory, Verified, Copies,
        Good, TypeOK, ModuleStates, system, update
  <2> QED
    BY <2>1, <2>2, <2>3
<1>11. CASE Returned
  <2>1. Memory'
    <3>1. UNCHANGED <<disk, mem, op, ret, current>> /\ pc = "return" /\ pc' \in {"ready", "reboot"}
      BY <1>11 DEF Returned, system
    <3>2. op \in {"apply", "revert"} => ~ret.err
      BY <1>11, <1>c DEF Returned, Calm
    <3>3. op \in {"prepare", "update", "apply", "revert"}
      BY <3>1 DEF TypeOK
    <3>4. CASE ret.reboot
      BY <1>11, <1>c, <3>1, <3>4 DEF Returned, Memory
    <3>5. CASE ~ret.reboot
      BY <1>11, <1>c, <3>1, <3>2, <3>3, <3>5, ReturnedTo DEF Memory
    <3> QED
      BY <3>4, <3>5
  <2>2. Copies'
    BY <1>11, <1>c DEF Returned, Calm, Steps, Memory, Copies, Good, TypeOK, ModuleStates,
        system
  <2>3. Verified'
    <3>1. UNCHANGED <<boot, current, disk, bootErr, decided>> /\ pc' \in {"ready", "reboot"}
      BY <1>11 DEF Returned, system
    <3>2. ASSUME handler' = "updated", handler # "updated"
          PROVE  op = "update" /\ pc = "return" /\ ~ret.err /\ ~ret.reboot
      <4>1. pc = "return" /\ ~ret.reboot
        BY <1>11, <3>2 DEF Returned
      <4>2. op \in {"prepare", "update", "apply", "revert"}
        BY <4>1 DEF TypeOK
      <4> QED
        BY <1>11, <3>2, <4>1, <4>2, ReturnedTo
    <3>3. pc # "down"
      BY <1>11 DEF Returned
    <3> QED
      BY <3>1, <3>2, <3>3, <1>c DEF Verified
  <2> QED
    BY <2>1, <2>2, <2>3
<1>12. CASE Reboot
  <2>1. Memory'
    BY <1>12, <1>c DEF Reboot, Boot, Die, BootChoice, Bootable, ZeroState, Calm, Steps, Memory,
        TypeOK, ModuleStates, update
  <2>2. Copies'
    BY <1>12, <1>c DEF Reboot, Boot, Die, BootChoice, Bootable, ZeroState, Calm, Steps, Memory,
        Copies, Good, TypeOK, ModuleStates, update
  <2>3. Verified'
    BY <1>12, <1>c DEF Reboot, Boot, Die, BootChoice, Bootable, ZeroState, Calm, Steps, Memory,
        Verified, Copies, Good, TypeOK, ModuleStates, update
  <2> QED
    BY <2>1, <2>2, <2>3
<1>13. CASE RebootFails
  <2>1. Memory'
    BY <1>13, <1>c DEF RebootFails, Calm, Steps, Memory, TypeOK, ModuleStates, system
  <2>2. Copies'
    BY <1>13, <1>c DEF RebootFails, Calm, Steps, Memory, Copies, Good, TypeOK, ModuleStates,
        system
  <2>3. Verified'
    BY <1>13, <1>c DEF RebootFails, Calm, Steps, Memory, Verified, Copies, Good, TypeOK,
        ModuleStates, system
  <2> QED
    BY <2>1, <2>2, <2>3
<1>14. CASE PowerCut
  <2>1. Memory'
    BY <1>14, <1>c DEF PowerCut, Boot, Die, BootChoice, Bootable, ZeroState, Calm, Steps,
        Memory, TypeOK, ModuleStates, update
  <2>2. Copies'
    BY <1>14, <1>c DEF PowerCut, Boot, Die, BootChoice, Bootable, ZeroState, Calm, Steps,
        Memory, Copies, Good, TypeOK, ModuleStates, update
  <2>3. Verified'
    BY <1>14, <1>c DEF PowerCut, Boot, Die, BootChoice, Bootable, ZeroState, Calm, Steps,
        Memory, Verified, Copies, Good, TypeOK, ModuleStates, update
  <2> QED
    BY <2>1, <2>2, <2>3
<1>15. CASE ProcessCrash
  <2>1. Memory'
    BY <1>15, <1>c DEF ProcessCrash, Die, ZeroState, Calm, Steps, Memory, TypeOK, ModuleStates,
        system, update
  <2>2. Copies'
    BY <1>15, <1>c DEF ProcessCrash, Die, ZeroState, Calm, Steps, Memory, Copies, Good, TypeOK,
        ModuleStates, system, update
  <2>3. Verified'
    BY <1>15, <1>c DEF ProcessCrash, Die, ZeroState, Calm, Steps, Memory, Verified, Copies,
        Good, TypeOK, ModuleStates, system, update
  <2> QED
    BY <2>1, <2>2, <2>3
<1>16. CASE UNCHANGED vars
  BY <1>16 DEF vars, system, memory, update, Memory, Copies, Verified, Good, Destination
<1> QED
  BY <1>1, <1>2, <1>3, <1>4, <1>5, <1>6, <1>7, <1>8, <1>9, <1>10, <1>11, <1>12, <1>13, <1>14,
     <1>15, <1>16 DEF Next, Command, Method

-----------------------------------------------------------------------------
(***************************************************************************)
(* What a boot comes up with.                                              *)
(***************************************************************************)
LEMMA BootsWhere ==
    ASSUME TypeInv, Boot
    PROVE  /\ part' = part /\ current' \in Partitions /\ Good(current')
           /\ version' = part[current']
           /\ boot'.main = boot.main /\ boot'.by = boot.by /\ boot'.next = None
           /\ pc' = "down" /\ op' = "none" /\ mem' = ZeroState
           /\ boot.main = current /\ boot.next \in {None, current} /\ Good(current) =>
                current' = current
           /\ boot.next = None /\ Good(boot.main) => current' = boot.main
<1> USE TwoPartitions DEF TypeInv
<1>1. BootChoice \in Partitions /\ current' = BootChoice
  BY BootChoiceIsPartition DEF Boot
<1>2. /\ boot.main = current /\ boot.next \in {None, current} /\ Good(current) =>
           BootChoice = current
      /\ boot.next = None /\ Good(boot.main) => BootChoice = boot.main
  BY DEF BootChoice, Bootable, Good, TypeOK
<1>3. boot'.main = boot.main /\ boot'.by = boot.by /\ boot'.next = None
  BY DEF Boot, TypeOK
<1> QED
  BY <1>1, <1>2, <1>3 DEF Boot, Bootable, Good, Die

(***************************************************************************)
(* Without mishaps: where the former version is, which one runs, which one *)
(* the next boot chooses, and what a decision leaves.                      *)
(***************************************************************************)
LEMMA CleanBefore == [Next]_vars /\ Clean' => Clean
<1> SUFFICES ASSUME [Next]_vars PROVE mishaps \subseteq mishaps'
  BY DEF Clean
<1> QED
  BY DEF Next, Command, Method, Start, Prepare, Update, Revert, Apply, CopyDone, MainBootSet,
         StepFails, SetState, SetStateFails, Returned, Reboot, RebootFails, PowerCut,
         ProcessCrash, vars

(***************************************************************************)
(* A boot outside of an update is followed by boots that are as good.      *)
(***************************************************************************)
LEMMA BootsAlikeAfterBoot ==
    ASSUME TypeInv, Steps, Copies, BootsAlike, Boot,
           disk.State # "updated", ~(op = "update" /\ pc = "state")
    PROVE  BootsAlike'
<1> USE TwoPartitions DEF TypeInv
<1>1. Good(current) /\ current \in Partitions /\ boot.main \in Partitions
  BY DEF Copies, TypeOK
<1>2. Mirrored => \A p \in Partitions : Good(p)
  BY <1>1 DEF Mirrored, Good
<1>3. Mirrored => Mirrored'
  BY <1>1, BootsWhere DEF Mirrored
<1>4. CASE boot.main = current /\ boot.next \in {None, current}
  BY <1>1, <1>4, BootsWhere DEF BootsAlike
<1>5. CASE Mirrored /\ boot.next = None
  BY <1>1, <1>2, <1>5, BootsWhere DEF BootsAlike
<1>6. CASE Mirrored /\ boot.next # None
  <2>1. boot'.by = "efi"
    BY <1>6, BootsWhere, DualPartAssumption DEF Steps, TypeOK
  <2> QED
    BY <1>3, <1>6, <2>1, BootsWhere DEF BootsAlike
<1> QED
  BY <1>4, <1>5, <1>6 DEF BootsAlike

\* Without mishaps it stays known what every partition holds.
LEMMA CleanStep ==
    ASSUME TypeInv, TypeInv', Steps, Steps', Clean',
           Memory, Copies, Verified, Memory', Copies', Verified',
           Kept, Runs, BootsAlike, Decisions, [Next]_vars
    PROVE  Kept' /\ Runs' /\ BootsAlike' /\ Decisions'
<1> USE TwoPartitions DEF TypeInv
<1>c. Clean
  BY CleanBefore
<1>1. CASE Start
  <2>1. Kept'
    BY <1>1, <1>c DEF Start, SetBootOK, Clean, Steps, Memory, Copies, Good, Kept,
       Mirrored, Begun, RebootAfterRevert, BootsAlike, TypeOK, ModuleStates, update
  <2>2. Runs'
    BY <1>1, <1>c DEF Start, SetBootOK, Clean, Steps, Memory, Copies, Good, Kept,
       Mirrored, Begun, RebootAfterRevert, Runs, TypeOK, ModuleStates, update
  <2>3. BootsAlike'
    BY <1>1, <1>c DEF Start, SetBootOK, Clean, Steps, Memory, Copies, Good, Kept,
       Mirrored, Begun, RebootAfterRevert, BootsAlike, Verified, TypeOK, ModuleStates,
       update
  <2>4. Decisions'
    BY <1>1, <1>c DEF Start, SetBootOK, Clean, Steps, Memory, Copies, Good, Kept,
       Mirrored, Begun, RebootAfterRevert, Decisions, Runs, BootsAlike, Verified, Ended,
       Restored, BootChoice, Bootable, TypeOK, ModuleStates, update
  <2> QED
    BY <2>1, <2>2, <2>3, <2>4
<1>2. ASSUME NEW v \in Versions, NEW img \in Contents, Prepare(v, img)
      PROVE  Kept' /\ Runs' /\ BootsAlike' /\ Decisions'
  <2>1. Kept'
    BY <1>2, <1>c DEF Prepare, Return, Clean, Steps, Memory, Copies, Good, Kept, Mirrored,
       Begun, RebootAfterRevert, BootsAlike, TypeOK, ModuleStates, system,
       Runs
  <2>2. Runs'
    BY <1>2, <1>c DEF Prepare, Return, Clean, Steps, Memory, Copies, Good, Kept, Mirrored,
       Begun, RebootAfterRevert, Runs, TypeOK, ModuleStates, system
  <2>3. BootsAlike'
    BY <1>2, <1>c DEF Prepare, Return, Clean, Steps, Memory, Copies, Good, Kept, Mirrored,
       Begun, RebootAfterRevert, BootsAlike, Verified, TypeOK, ModuleStates, system
  <2>4. Decisions'
    BY <1>2, <1>c DEF Prepare, Return, Clean, Steps, Memory, Copies, Good, Kept, Mirrored,
       Begun, RebootAfterRevert, Decisions, Runs, BootsAlike, Verified, Ended, Restored,
       BootChoice, Bootable, TypeOK, ModuleStates, system
  <2> QED
    BY <2>1, <2>2, <2>3, <2>4
<1>3. CASE Update
  <2>1. Kept'
    BY <1>3, <1>c DEF Update, BeginCopy, Destination, Return, SecPartition, NotUpdated,
       Clean, Steps, Memory, Copies, Good, Kept, Mirrored, Begun, RebootAfterRevert,
       BootsAlike, TypeOK, ModuleStates
  <2>2. Runs'
    BY <1>3, <1>c DEF Update, BeginCopy, Destination, Return, SecPartition, NotUpdated,
       Clean, Steps, Memory, Copies, Good, Kept, Mirrored, Begun, RebootAfterRevert, Runs,
       TypeOK, ModuleStates
  <2>3. BootsAlike'
    BY <1>3, <1>c DEF Update, BeginCopy, Destination, Return, SecPartition, NotUpdated,
       Clean, Steps, Memory, Copies, Good, Kept, Mirrored, Begun, RebootAfterRevert,
       BootsAlike, Verified, TypeOK, ModuleStates
  <2>4. Decisions'
    BY <1>3, <1>c DEF Update, BeginCopy, Destination, Return, SecPartition, NotUpdated,
       Clean, Steps, Memory, Copies, Good, Kept, Mirrored, Begun, RebootAfterRevert,
       Decisions, Runs, BootsAlike, Verified, Ended, Restored, BootChoice, Bootable,
       TypeOK, ModuleStates
  <2> QED
    BY <2>1, <2>2, <2>3, <2>4
<1>4. CASE Revert
  <2>1. Kept'
    BY <1>4, <1>c DEF Revert, BeginCopy, Destination, Return, Decided, Clean, Steps,
       Memory, Copies, Good, Kept, Mirrored, Begun, RebootAfterRevert, BootsAlike, TypeOK,
       ModuleStates
  <2>2. Runs'
    BY <1>4, <1>c DEF Revert, BeginCopy, Destination, Return, Decided, Clean, Steps,
       Memory, Copies, Good, Kept, Mirrored, Begun, RebootAfterRevert, Runs, TypeOK,
       ModuleStates
  <2>3. BootsAlike'
    BY <1>4, <1>c DEF Revert, BeginCopy, Destination, Return, Decided, Clean, Steps,
       Memory, Copies, Good, Kept, Mirrored, Begun, RebootAfterRevert, BootsAlike,
       Verified, TypeOK, ModuleStates
  <2>4. Decisions'
    BY <1>4, <1>c DEF Revert, BeginCopy, Destination, Return, Decided, Clean, Steps,
       Memory, Copies, Good, Kept, Mirrored, Begun, RebootAfterRevert, Decisions, Runs,
       BootsAlike, Verified, Ended, Restored, BootChoice, Bootable, TypeOK, ModuleStates
  <2> QED
    BY <2>1, <2>2, <2>3, <2>4
<1>5. CASE Apply
  <2>1. Kept'
    BY <1>5, <1>c DEF Apply, BeginCopy, Destination, Return, Decided, Clean, Steps,
       Memory, Copies, Good, Kept, Mirrored, Begun, RebootAfterRevert, BootsAlike, TypeOK,
       ModuleStates
  <2>2. Runs'
    BY <1>5, <1>c DEF Apply, BeginCopy, Destination, Return, Decided, Clean, Steps,
       Memory, Copies, Good, Kept, Mirrored, Begun, RebootAfterRevert, Runs, TypeOK,
       ModuleStates
  <2>3. BootsAlike'
    BY <1>5, <1>c DEF Apply, BeginCopy, Destination, Return, Decided, Clean, Steps,
       Memory, Copies, Good, Kept, Mirrored, Begun, RebootAfterRevert, BootsAlike,
       Verified, TypeOK, ModuleStates
  <2>4. Decisions'
    BY <1>5, <1>c DEF Apply, BeginCopy, Destination, Return, Decided, Clean, Steps,
       Memory, Copies, Good, Kept, Mirrored, Begun, RebootAfterRevert, Decisions, Runs,
       BootsAlike, Verified, Ended, Restored, BootChoice, Bootable, TypeOK, ModuleStates
  <2> QED
    BY <2>1, <2>2, <2>3, <2>4
<1>6. CASE CopyDone
  <2> DEFINE source == Other(Destination(op, mem))
             destination == Destination(op, mem)
  <2>a. /\ pc = "copy" /\ pc' = IF op = "apply" THEN "state" ELSE "main"
        /\ UNCHANGED <<op, mem, current, disk, version, decided, handler, before, ret>>
        /\ part' = [part EXCEPT ![destination] = Copied]
    BY <1>6 DEF CopyDone, update
  <2>b. op \in {"update", "apply", "revert"}
    BY <2>a DEF Steps, TypeOK
  <2>c. /\ destination \in Partitions /\ source \in Partitions /\ source # destination
        /\ op # "apply" => destination = mem.UpdatePartition
        /\ op = "apply" => destination = Other(mem.UpdatePartition)
        /\ op # "update" => Copied = part[source]
    BY <2>b DEF Destination, Copied, TypeOK, ModuleStates
  <2> HIDE DEF source, destination
  <2>d. \A q \in Partitions : part'[q] = IF q = destination THEN Copied ELSE part[q]
    BY <2>a, <2>c DEF TypeOK
  <2>e. op # "update" => \A q \in Partitions : part'[q] = part[source]
    BY <2>c, <2>d
  <2>f. current \in Partitions /\ Other(current) \in Partitions
    BY DEF TypeOK
  <2>g. mem.State # "idle" /\ disk.State = "updated" => mem = disk
    BY DEF Memory, TypeOK, ModuleStates, States
  <2>1. Kept'
    <3>1. CASE op = "update"
      <4>1. disk.State # "updated" /\ part'[current] = part[current]
        BY <2>a, <2>c, <2>d, <2>f, <3>1 DEF Steps, Memory
      <4> QED
        BY <2>a, <3>1, <4>1 DEF Kept, Begun
    <3>2. CASE op = "apply"
      <4>1. "apply" \in decided
        BY <2>a, <3>2 DEF Steps
      <4> QED
        BY <2>a, <2>e, <2>f, <3>2, <4>1 DEF Kept, Mirrored
    <3>3. CASE op = "revert"
      <4>1. mem.State # "idle" /\ source = Other(mem.UpdatePartition)
        BY <2>a, <2>c, <3>3 DEF Steps, TypeOK, ModuleStates
      <4>2. disk.State = "updated" => source = Other(disk.UpdatePartition)
        BY <2>g, <4>1
      <4>3. disk.State # "updated" => source = current
        BY <2>a, <2>f, <3>3, <4>1 DEF Copies
      <4>4. disk.State = "updated" => Other(disk.UpdatePartition) \in Partitions
        BY DEF TypeOK, ModuleStates
      <4> QED
        BY <2>a, <2>e, <2>f, <3>3, <4>2, <4>3, <4>4 DEF Kept, Begun, Mirrored
    <3> QED
      BY <2>b, <3>1, <3>2, <3>3
  <2>2. Runs'
    <3>1. CASE current # destination
      BY <2>a, <2>d, <2>f, <3>1 DEF Runs, RebootAfterRevert
    <3>2. CASE current = destination
      <4>1. op # "update"
        BY <2>a, <2>c, <2>f, <3>2 DEF Steps
      <4>2. op # "apply"
        <5> SUFFICES ASSUME op = "apply" PROVE FALSE
          OBVIOUS
        <5>1. /\ handler = "updated" /\ mem.State = "updated" /\ "revert" \notin decided
              /\ mem = disk
          BY <2>a DEF Steps, Memory, Decisions
        <5> QED
          BY <2>c, <2>f, <3>2, <5>1 DEF Verified
      <4>3. op = "revert" /\ mem.UpdatePartition = current /\ mem.State # "idle"
        BY <2>a, <2>b, <2>c, <3>2, <4>1, <4>2 DEF Steps
      <4>4. disk.State = "updated" /\ mem = disk /\ "revert" \in decided
        BY <2>a, <2>f, <2>g, <4>3 DEF Copies, Steps
      <4> QED
        BY <2>a, <4>3, <4>4 DEF Runs
    <3> QED
      BY <3>1, <3>2
  <2>3. BootsAlike'
    BY <1>6, <1>c DEF CopyDone, Copied, Destination, Clean, Steps, Memory, Copies, Good,
       Kept, Mirrored, Begun, RebootAfterRevert, BootsAlike, Verified, TypeOK,
       ModuleStates, update
  <2>4. Decisions'
    BY <1>6, <1>c DEF CopyDone, Copied, Destination, Clean, Steps, Memory, Copies, Good,
       Kept, Mirrored, Begun, RebootAfterRevert, Decisions, Runs, BootsAlike, Verified,
       Ended, Restored, BootChoice, Bootable, TypeOK, ModuleStates, update
  <2> QED
    BY <2>1, <2>2, <2>3, <2>4
<1>7. CASE MainBootSet
  <2>1. Kept'
    BY <1>7, <1>c DEF MainBootSet, SetMainBoot, NewMain, Destination, Clean, Steps,
       Memory, Copies, Good, Kept, Mirrored, Begun, RebootAfterRevert, BootsAlike, TypeOK,
       ModuleStates, update
  <2>2. Runs'
    BY <1>7, <1>c DEF MainBootSet, SetMainBoot, NewMain, Destination, Clean, Steps,
       Memory, Copies, Good, Kept, Mirrored, Begun, RebootAfterRevert, Runs, TypeOK,
       ModuleStates, update
  <2>3. BootsAlike'
    <3>1. /\ pc = "main" /\ pc' = "state" /\ UNCHANGED <<op, mem, current, disk, part, bootErr, ret>>
          /\ op = "revert" => NewMain = Other(mem.UpdatePartition)
      BY <1>7 DEF MainBootSet, NewMain
    <3>2. /\ boot'.by = boot.by /\ boot.by \in {"uboot", "efi"}
          /\ boot.by = "uboot" => boot'.main = NewMain /\ boot'.next = boot.next
          /\ boot.by = "efi" => boot'.main = boot.main /\ boot'.next = NewMain
      BY <1>7, DualPartAssumption DEF MainBootSet, SetMainBoot, TypeOK
    <3>3. op \in {"update", "revert"}
      BY <3>1 DEF Steps, TypeOK
    <3>4. CASE op = "revert" /\ disk.State # "updated"
      <4>1. mem.UpdatePartition = Other(current) /\ NewMain = current
        BY <3>1, <3>4 DEF Copies, TypeOK
      <4>2. boot.by = "efi" => boot.main = current
        BY <3>1, <3>4 DEF Steps
      <4>3. boot.by = "uboot" => boot.next = None
        BY DEF Steps
      <4> QED
        BY <3>1, <3>2, <4>1, <4>2, <4>3 DEF BootsAlike
    <3> QED
      BY <3>1, <3>3, <3>4 DEF BootsAlike
  <2>4. Decisions'
    BY <1>7, <1>c DEF MainBootSet, SetMainBoot, NewMain, Destination, Clean, Steps,
       Memory, Copies, Good, Kept, Mirrored, Begun, RebootAfterRevert, Decisions, Runs,
       BootsAlike, Verified, Ended, Restored, BootChoice, Bootable, TypeOK, ModuleStates,
       update
  <2> QED
    BY <2>1, <2>2, <2>3, <2>4
<1>8. CASE StepFails
  <2>1. Kept'
    BY <1>8, <1>c DEF StepFails, Return, Clean, Steps, Memory, Copies, Good, Kept,
       Mirrored, Begun, RebootAfterRevert, BootsAlike, TypeOK, ModuleStates, system,
       update
  <2>2. Runs'
    BY <1>8, <1>c DEF StepFails, Return, Clean, Steps, Memory, Copies, Good, Kept,
       Mirrored, Begun, RebootAfterRevert, Runs, TypeOK, ModuleStates, system, update
  <2>3. BootsAlike'
    BY <1>8, <1>c DEF StepFails, Return, Clean, Steps, Memory, Copies, Good, Kept,
       Mirrored, Begun, RebootAfterRevert, BootsAlike, Verified, TypeOK, ModuleStates,
       system, update
  <2>4. Decisions'
    BY <1>8, <1>c DEF StepFails, Return, Clean, Steps, Memory, Copies, Good, Kept,
       Mirrored, Begun, RebootAfterRevert, Decisions, Runs, BootsAlike, Verified, Ended,
       Restored, BootChoice, Bootable, TypeOK, ModuleStates, system, update
  <2> QED
    BY <2>1, <2>2, <2>3, <2>4
<1>9. CASE SetState
  <2>1. Kept'
    BY <1>9, <1>c DEF SetState, Return, NewState, RebootRequired, Clean, Steps, Memory,
       Copies, Good, Kept, Mirrored, Begun, RebootAfterRevert, BootsAlike, TypeOK,
       ModuleStates, system, update
  <2>2. Runs'
    <3>1. /\ pc = "state" /\ pc' = "return" /\ UNCHANGED <<op, part, current, version, decided>>
          /\ disk' = [mem EXCEPT !.State = NewState]
          /\ ret'.reboot = RebootRequired
      BY <1>9 DEF SetState, Return, system, update
    <3>2. op \in {"prepare", "update", "apply", "revert"}
      BY <3>1 DEF TypeOK
    <3>3. CASE op # "revert"
      <4>1. part[current] = version
        BY <3>1, <3>2, <3>3 DEF Runs, RebootAfterRevert, Steps, Memory, Decisions
      <4> QED
        BY <3>1, <4>1 DEF Runs
    <3>4. CASE op = "revert" /\ current = mem.UpdatePartition
      BY <3>1, <3>4 DEF Runs, RebootAfterRevert, RebootRequired
    <3>5. CASE op = "revert" /\ current # mem.UpdatePartition
      <4>1. disk.State = "updated" => disk = mem
        BY <3>1, <3>5 DEF Memory, Steps, TypeOK, ModuleStates, States
      <4>2. part[current] = version
        BY <3>1, <3>5, <4>1 DEF Runs, RebootAfterRevert
      <4> QED
        BY <3>1, <4>2 DEF Runs
    <3> QED
      BY <3>3, <3>4, <3>5
  <2>3. BootsAlike'
    <3>1. /\ pc = "state" /\ pc' = "return"
          /\ UNCHANGED <<op, part, current, boot, bootErr, decided, handler>>
          /\ disk' = [mem EXCEPT !.State = NewState] /\ mem' = disk'
          /\ ret'.reboot = RebootRequired
      BY <1>9 DEF SetState, Return, system, update
    <3>2. op \in {"prepare", "update", "apply", "revert"}
      BY <3>1 DEF TypeOK
    <3>3. CASE op = "prepare"
      <4>1. ~bootErr /\ disk.State # "updated"
        BY <3>1, <3>3 DEF Steps, Memory
      <4>2. boot.main = current /\ boot.next \in {None, current}
        BY <3>1, <3>3, <4>1 DEF BootsAlike, RebootAfterRevert
      <4> QED
        BY <3>1, <4>2 DEF BootsAlike
    <3>4. CASE op = "update"
      <4>1. disk'.State = "updated"
        BY <3>1, <3>4 DEF NewState, TypeOK, ModuleStates
      <4> QED
        BY <4>1 DEF BootsAlike
    <3>5. CASE op = "apply"
      <4>1. disk.State = "updated" /\ handler = "updated" /\ "revert" \notin decided
        BY <3>1, <3>5 DEF Steps, Memory, Decisions, TypeOK
      <4>2. boot.main = current /\ boot.next = None
        BY <4>1 DEF Verified
      <4> QED
        BY <3>1, <4>2 DEF BootsAlike
    <3>6. CASE op = "revert" /\ current = mem.UpdatePartition
      BY <3>1, <3>6 DEF BootsAlike, RebootAfterRevert, RebootRequired, Kept, Mirrored
    <3>7. CASE op = "revert" /\ current # mem.UpdatePartition
      <4>1. Other(mem.UpdatePartition) = current
        BY <3>7 DEF TypeOK, ModuleStates
      <4>2. boot.by \in {"uboot", "efi"}
        BY DualPartAssumption DEF TypeOK
      <4>3. mem.State # "idle"
        BY <3>1, <3>7 DEF Steps
      <4>4. boot.main = current /\ boot.next \in {None, current}
        BY <3>1, <3>7, <4>1, <4>2, <4>3 DEF Steps
      <4> QED
        BY <3>1, <4>4 DEF BootsAlike
    <3> QED
      BY <3>2, <3>3, <3>4, <3>5, <3>6, <3>7
  <2>4. Decisions'
    BY <1>9, <1>c DEF SetState, Return, NewState, RebootRequired, Clean, Steps, Memory,
       Copies, Good, Kept, Mirrored, Begun, RebootAfterRevert, Decisions, Runs,
       BootsAlike, Verified, Ended, Restored, BootChoice, Bootable, TypeOK, ModuleStates,
       system, update
  <2> QED
    BY <2>1, <2>2, <2>3, <2>4
<1>10. CASE SetStateFails
  <2>1. Kept'
    BY <1>10, <1>c DEF SetStateFails, Return, NewState, Clean, Steps, Memory, Copies,
       Good, Kept, Mirrored, Begun, RebootAfterRevert, BootsAlike, TypeOK, ModuleStates,
       system, update
  <2>2. Runs'
    BY <1>10, <1>c DEF SetStateFails, Return, NewState, Clean, Steps, Memory, Copies,
       Good, Kept, Mirrored, Begun, RebootAfterRevert, Runs, TypeOK, ModuleStates, system,
       update
  <2>3. BootsAlike'
    BY <1>10, <1>c DEF SetStateFails, Return, NewState, Clean, Steps, Memory, Copies,
       Good, Kept, Mirrored, Begun, RebootAfterRevert, BootsAlike, Verified, TypeOK,
       ModuleStates, system, update
  <2>4. Decisions'
    BY <1>10, <1>c DEF SetStateFails, Return, NewState, Clean, Steps, Memory, Copies,
       Good, Kept, Mirrored, Begun, RebootAfterRevert, Decisions, Runs, BootsAlike,
       Verified, Ended, Restored, BootChoice, Bootable, TypeOK, ModuleStates, system,
       update
  <2> QED
    BY <2>1, <2>2, <2>3, <2>4
<1>11. CASE Returned
  <2>1. Kept'
    BY <1>11, <1>c DEF Returned, Clean, Steps, Memory, Copies, Good, Kept, Mirrored,
       Begun, RebootAfterRevert, BootsAlike, TypeOK, ModuleStates, system
  <2>2. Runs'
    BY <1>11, <1>c DEF Returned, Clean, Steps, Memory, Copies, Good, Kept, Mirrored,
       Begun, RebootAfterRevert, Runs, TypeOK, ModuleStates, system
  <2>3. BootsAlike'
    BY <1>11, <1>c DEF Returned, Clean, Steps, Memory, Copies, Good, Kept, Mirrored,
       Begun, RebootAfterRevert, BootsAlike, Verified, TypeOK, ModuleStates, system
  <2>4. Decisions'
    BY <1>11, <1>c DEF Returned, Clean, Steps, Memory, Copies, Good, Kept, Mirrored,
       Begun, RebootAfterRevert, Decisions, Runs, BootsAlike, Verified, Ended, Restored,
       BootChoice, Bootable, TypeOK, ModuleStates, system
  <2> QED
    BY <2>1, <2>2, <2>3, <2>4
<1>12. CASE Reboot
  <2>1. Kept'
    BY <1>12, <1>c, BootsWhere DEF Reboot, ZeroState, Clean, Steps, Memory, Copies, Good,
       Kept, Mirrored, Begun, RebootAfterRevert, BootsAlike, TypeOK, ModuleStates, update
  <2>2. Runs'
    BY <1>12, <1>c, BootsWhere DEF Reboot, ZeroState, Clean, Steps, Memory, Copies, Good,
       Kept, Mirrored, Begun, RebootAfterRevert, Runs, TypeOK, ModuleStates, update
  <2>3. BootsAlike'
    <3>1. Boot /\ disk' = disk
      BY <1>12 DEF Reboot
    <3>2. SUFFICES ASSUME disk.State # "updated" PROVE BootsAlike'
      BY <3>1 DEF BootsAlike
    <3>3. ~(op = "update" /\ pc = "state")
      BY <1>12 DEF Reboot
    <3> QED
      BY <3>1, <3>2, <3>3, BootsAlikeAfterBoot
  <2>4. Decisions'
    BY <1>12, <1>c, BootsWhere DEF Reboot, ZeroState, Clean, Steps, Memory, Copies, Good,
       Kept, Mirrored, Begun, RebootAfterRevert, Decisions, Runs, BootsAlike, Verified,
       Ended, Restored, BootChoice, Bootable, TypeOK, ModuleStates, update
  <2> QED
    BY <2>1, <2>2, <2>3, <2>4
<1>13. CASE RebootFails
  <2>1. Kept'
    BY <1>13, <1>c DEF RebootFails, Clean, Steps, Memory, Copies, Good, Kept, Mirrored,
       Begun, RebootAfterRevert, BootsAlike, TypeOK, ModuleStates, system
  <2>2. Runs'
    BY <1>13, <1>c DEF RebootFails, Clean, Steps, Memory, Copies, Good, Kept, Mirrored,
       Begun, RebootAfterRevert, Runs, TypeOK, ModuleStates, system
  <2>3. BootsAlike'
    BY <1>13, <1>c DEF RebootFails, Clean, Steps, Memory, Copies, Good, Kept, Mirrored,
       Begun, RebootAfterRevert, BootsAlike, Verified, TypeOK, ModuleStates, system
  <2>4. Decisions'
    BY <1>13, <1>c DEF RebootFails, Clean, Steps, Memory, Copies, Good, Kept, Mirrored,
       Begun, RebootAfterRevert, Decisions, Runs, BootsAlike, Verified, Ended, Restored,
       BootChoice, Bootable, TypeOK, ModuleStates, system
  <2> QED
    BY <2>1, <2>2, <2>3, <2>4
<1>14. CASE PowerCut
  <2>1. Kept'
    BY <1>14, <1>c, BootsWhere DEF PowerCut, ZeroState, Torn, Clean, Steps, Memory,
       Copies, Good, Kept, Mirrored, Begun, RebootAfterRevert, BootsAlike, TypeOK,
       ModuleStates, update
  <2>2. Runs'
    BY <1>14, <1>c, BootsWhere DEF PowerCut, ZeroState, Torn, Clean, Steps, Memory,
       Copies, Good, Kept, Mirrored, Begun, RebootAfterRevert, Runs, TypeOK, ModuleStates,
       update
  <2>3. BootsAlike'
    <3>1. Boot /\ disk' = disk
      BY <1>14 DEF PowerCut
    <3>2. SUFFICES ASSUME disk.State # "updated" PROVE BootsAlike'
      BY <3>1 DEF BootsAlike
    <3>3. ~(op = "update" /\ pc = "state")
      BY <1>14 DEF PowerCut, Torn, Clean
    <3> QED
      BY <3>1, <3>2, <3>3, BootsAlikeAfterBoot
  <2>4. Decisions'
    BY <1>14, <1>c, BootsWhere DEF PowerCut, ZeroState, Torn, Clean, Steps, Memory,
       Copies, Good, Kept, Mirrored, Begun, RebootAfterRevert, Decisions, Runs,
       BootsAlike, Verified, Ended, Restored, BootChoice, Bootable, TypeOK, ModuleStates,
       update
  <2> QED
    BY <2>1, <2>2, <2>3, <2>4
<1>15. CASE ProcessCrash
  <2>1. Kept'
    BY <1>15, <1>c DEF ProcessCrash, Die, ZeroState, Torn, Clean, Steps, Memory, Copies,
       Good, Kept, Mirrored, Begun, RebootAfterRevert, BootsAlike, TypeOK, ModuleStates,
       system, update
  <2>2. Runs'
    BY <1>15, <1>c DEF ProcessCrash, Die, ZeroState, Torn, Clean, Steps, Memory, Copies,
       Good, Kept, Mirrored, Begun, RebootAfterRevert, Runs, TypeOK, ModuleStates, system,
       update
  <2>3. BootsAlike'
    BY <1>15, <1>c DEF ProcessCrash, Die, ZeroState, Torn, Clean, Steps, Memory, Copies,
       Good, Kept, Mirrored, Begun, RebootAfterRevert, BootsAlike, Verified, TypeOK,
       ModuleStates, system, update
  <2>4. Decisions'
    BY <1>15, <1>c DEF ProcessCrash, Die, ZeroState, Torn, Clean, Steps, Memory, Copies,
       Good, Kept, Mirrored, Begun, RebootAfterRevert, Decisions, Runs, BootsAlike,
       Verified, Ended, Restored, BootChoice, Bootable, TypeOK, ModuleStates, system,
       update
  <2> QED
    BY <2>1, <2>2, <2>3, <2>4
<1>16. CASE UNCHANGED vars
  BY <1>16 DEF vars, system, memory, update, Kept, Runs, BootsAlike, Decisions, Mirrored, Begun,
     RebootAfterRevert, Ended, Restored, BootChoice, Bootable
<1> QED
  BY <1>1, <1>2, <1>3, <1>4, <1>5, <1>6, <1>7, <1>8, <1>9, <1>10, <1>11, <1>12, <1>13, <1>14,
     <1>15, <1>16 DEF Next, Command, Method

-----------------------------------------------------------------------------
(***************************************************************************)
(* What a boot does to an update nobody has decided on is independent of   *)
(* what went wrong in the updates before.                                  *)
(***************************************************************************)
LEMMA VerifiedStep ==
    ASSUME TypeInv, TypeInv', Steps, Steps', VerifiedInv, [Next]_vars
    PROVE  VerifiedInv'
<1> USE TwoPartitions DEF TypeInv, VerifiedInv
<1>1. CASE Start
  <2>1. Undecided'
    BY <1>1 DEF Start, SetBootOK, Steps, Undecided, Verification, TypeOK, ModuleStates,
       update
  <2>2. Verification'
    BY <1>1 DEF Start, SetBootOK, Steps, Undecided, Verification, TypeOK, ModuleStates,
       update
  <2> QED
    BY <2>1, <2>2
<1>2. ASSUME NEW v \in Versions, NEW img \in Contents, Prepare(v, img)
      PROVE  VerifiedInv'
  <2>1. Undecided'
    BY <1>2 DEF Prepare, Return, Steps, Undecided, Verification, TypeOK, ModuleStates,
       system
  <2>2. Verification'
    BY <1>2 DEF Prepare, Return, Steps, Undecided, Verification, TypeOK, ModuleStates,
       system
  <2> QED
    BY <2>1, <2>2
<1>3. CASE Update
  <2>1. Undecided'
    BY <1>3 DEF Update, BeginCopy, Destination, Return, SecPartition, NotUpdated, Steps,
       Undecided, Verification, TypeOK, ModuleStates
  <2>2. Verification'
    <3>1. /\ pc = "ready" /\ handler = "prepared" /\ op' = "update"
          /\ UNCHANGED <<boot, current, version, disk, target, decided, handler, bootErr>>
      BY <1>3 DEF Update
    <3>2. ASSUME pc' = "return", ~ret'.err, decided = {}
          PROVE  disk.State = "updated" /\ current = disk.UpdatePartition
                 /\ boot.main = current /\ version = target
      <4>1. mem.State = "updated" /\ ret'.err = NotUpdated
        BY <1>3, <3>2 DEF Update, BeginCopy, Return
      <4>2. current = mem.UpdatePartition /\ ~bootErr /\ version = target
        BY <3>2, <4>1 DEF NotUpdated
      <4>3. mem = disk
        BY <3>1, <3>2, <4>1, <4>2 DEF Undecided
      <4>4. boot.by \in {"uboot", "efi"}
        BY DualPartAssumption DEF TypeOK
      <4> QED
        BY <3>1, <3>2, <4>1, <4>2, <4>3, <4>4 DEF Undecided
    <3> QED
      BY <3>1, <3>2 DEF Verification
  <2> QED
    BY <2>1, <2>2
<1>4. CASE Revert
  <2>1. Undecided'
    BY <1>4 DEF Revert, BeginCopy, Return, Steps, Undecided, Verification, TypeOK,
       ModuleStates
  <2>2. Verification'
    BY <1>4 DEF Revert, BeginCopy, Return, Steps, Undecided, Verification, TypeOK,
       ModuleStates
  <2> QED
    BY <2>1, <2>2
<1>5. CASE Apply
  <2>1. Undecided'
    BY <1>5 DEF Apply, BeginCopy, Return, Steps, Undecided, Verification, TypeOK,
       ModuleStates
  <2>2. Verification'
    BY <1>5 DEF Apply, BeginCopy, Return, Steps, Undecided, Verification, TypeOK,
       ModuleStates
  <2> QED
    BY <2>1, <2>2
<1>6. CASE CopyDone
  <2>1. Undecided'
    BY <1>6 DEF CopyDone, Copied, Destination, Steps, Undecided, Verification, TypeOK,
       ModuleStates, update
  <2>2. Verification'
    BY <1>6 DEF CopyDone, Copied, Destination, Steps, Undecided, Verification, TypeOK,
       ModuleStates, update
  <2> QED
    BY <2>1, <2>2
<1>7. CASE MainBootSet
  <2>1. Undecided'
    BY <1>7 DEF MainBootSet, SetMainBoot, NewMain, Steps, Undecided, Verification, TypeOK,
       ModuleStates, update
  <2>2. Verification'
    BY <1>7 DEF MainBootSet, SetMainBoot, NewMain, Steps, Undecided, Verification, TypeOK,
       ModuleStates, update
  <2> QED
    BY <2>1, <2>2
<1>8. CASE StepFails
  <2>1. Undecided'
    BY <1>8 DEF StepFails, Return, Steps, Undecided, Verification, TypeOK, ModuleStates,
       system, update
  <2>2. Verification'
    BY <1>8 DEF StepFails, Return, Steps, Undecided, Verification, TypeOK, ModuleStates,
       system, update
  <2> QED
    BY <2>1, <2>2
<1>9. CASE SetState
  <2>1. Undecided'
    BY <1>9 DEF SetState, Return, NewState, RebootRequired, Steps, Undecided,
       Verification, TypeOK, ModuleStates, system, update
  <2>2. Verification'
    BY <1>9 DEF SetState, Return, NewState, RebootRequired, Steps, Undecided,
       Verification, TypeOK, ModuleStates, system, update
  <2> QED
    BY <2>1, <2>2
<1>10. CASE SetStateFails
  <2>1. Undecided'
    BY <1>10 DEF SetStateFails, Return, NewState, Steps, Undecided, Verification, TypeOK,
       ModuleStates, system, update
  <2>2. Verification'
    BY <1>10 DEF SetStateFails, Return, NewState, Steps, Undecided, Verification, TypeOK,
       ModuleStates, system, update
  <2> QED
    BY <2>1, <2>2
<1>11. CASE Returned
  <2>1. Undecided'
    BY <1>11, ReturnedTo DEF Returned, Steps, Undecided, Verification, TypeOK,
       ModuleStates, system
  <2>2. Verification'
    BY <1>11, ReturnedTo DEF Returned, Steps, Undecided, Verification, TypeOK,
       ModuleStates, system
  <2> QED
    BY <2>1, <2>2
<1>12. CASE Reboot
  <2>1. Undecided'
    BY <1>12, BootsWhere DEF Reboot, ZeroState, Steps, Undecided,
       Verification, TypeOK, ModuleStates, update
  <2>2. Verification'
    BY <1>12, BootsWhere DEF Reboot, ZeroState, Steps, Undecided,
       Verification, TypeOK, ModuleStates, update
  <2> QED
    BY <2>1, <2>2
<1>13. CASE RebootFails
  <2>1. Undecided'
    BY <1>13 DEF RebootFails, Steps, Undecided, Verification, TypeOK, ModuleStates, system
  <2>2. Verification'
    BY <1>13 DEF RebootFails, Steps, Undecided, Verification, TypeOK, ModuleStates, system
  <2> QED
    BY <2>1, <2>2
<1>14. CASE PowerCut
  <2>1. Undecided'
    BY <1>14, BootsWhere DEF PowerCut, ZeroState, Steps, Undecided,
       Verification, TypeOK, ModuleStates, update
  <2>2. Verification'
    <3>1. Boot /\ UNCHANGED <<disk, handler, decided, target>>
      BY <1>14 DEF PowerCut, update
    <3>2. CASE handler = "updated" /\ decided = {}
      <4>1. Good(current) /\ boot.main = current /\ boot.next = None /\ part[current] = version
        BY <3>2 DEF Undecided, Verification, Good, TypeOK, Versions, Unbootable
      <4> QED
        BY <3>1, <3>2, <4>1, BootsWhere DEF Verification
    <3>3. CASE ~(handler = "updated" /\ decided = {})
      BY <3>1, <3>3, BootsWhere DEF Verification
    <3> QED
      BY <3>2, <3>3
  <2> QED
    BY <2>1, <2>2
<1>15. CASE ProcessCrash
  <2>1. Undecided'
    BY <1>15 DEF ProcessCrash, Die, ZeroState, Steps, Undecided, Verification, TypeOK,
       ModuleStates, system, update
  <2>2. Verification'
    BY <1>15 DEF ProcessCrash, Die, ZeroState, Steps, Undecided, Verification, TypeOK,
       ModuleStates, system, update
  <2> QED
    BY <2>1, <2>2
<1>16. CASE UNCHANGED vars
  BY <1>16 DEF vars, system, memory, update, Undecided, Verification
<1> QED
  BY <1>1, <1>2, <1>3, <1>4, <1>5, <1>6, <1>7, <1>8, <1>9, <1>10, <1>11, <1>12, <1>13, <1>14,
     <1>15, <1>16 DEF Next, Command, Method

-----------------------------------------------------------------------------
\* All that is shown of DualPart in one invariant.
DualInv ==
    /\ TypeInv
    /\ Steps
    /\ Calm => Memory /\ Copies /\ Verified
    /\ Clean => Kept /\ Runs /\ BootsAlike /\ Decisions
    /\ VerifiedInv

\* DualInv holds at first.
LEMMA DualInit == Init => DualInv
<1> SUFFICES ASSUME Init PROVE DualInv
  OBVIOUS
<1>1. TypeInv
  BY TypeInit
<1>2. /\ op = "none" /\ pc = "ready" /\ handler = "idle"
      /\ mem = ZeroState /\ disk = ZeroState /\ ~bootErr
      /\ current = 0 /\ part[current] = 0 /\ version = 0
      /\ boot.main = current /\ boot.next = None
  BY TwoPartitions DEF Init, Partitions
<1>3. Steps /\ VerifiedInv
  BY <1>2 DEF Steps, VerifiedInv, Undecided, Verification, ZeroState
<1>4. Memory /\ Copies /\ Verified
  BY <1>2 DEF Memory, Copies, Verified, Good, ZeroState, Unbootable
<1>5. Kept /\ Runs /\ BootsAlike /\ Decisions
  BY <1>2 DEF Kept, Begun, Runs, BootsAlike, Decisions, Ended, ZeroState
<1> QED
  BY <1>1, <1>3, <1>4, <1>5 DEF DualInv

\* Every step keeps DualInv.
LEMMA DualStep == DualInv /\ [Next]_vars => DualInv'
<1> SUFFICES ASSUME DualInv, [Next]_vars PROVE DualInv'
  OBVIOUS
<1> USE DEF DualInv
<1>1. TypeInv'
  BY TypeStep
<1>2. Steps'
  BY StepsStep
<1>3. ASSUME Calm' PROVE Memory' /\ Copies' /\ Verified'
  BY <1>1, <1>3, CalmBefore, CalmStep
<1>4. ASSUME Clean' PROVE Kept' /\ Runs' /\ BootsAlike' /\ Decisions'
  <2>1. Clean /\ Calm /\ Calm'
    BY <1>4, CleanBefore DEF Clean, Calm
  <2> QED
    BY <1>1, <1>2, <1>3, <1>4, <2>1, CleanStep
<1>5. VerifiedInv'
  BY <1>1, <1>2, VerifiedStep
<1> QED
  BY <1>1, <1>2, <1>3, <1>4, <1>5

\* So it is an invariant.
LEMMA DualInvAlways == Spec => []DualInv
BY DualInit, DualStep, PTL DEF Spec

(***************************************************************************)
(* Whatever is interrupted and however often, one partition can be booted, *)
(* as long as the module knows which of the two it may overwrite.          *)
(***************************************************************************)
THEOREM AlwaysBootableAlways == Spec => []AlwaysBootable
<1>1. DualInv => AlwaysBootable
  <2> SUFFICES ASSUME DualInv, Calm PROVE SomePartitionBoots
    BY DEF AlwaysBootable, Calm
  <2>1. current \in Partitions /\ Other(current) \in Partitions
    BY TwoPartitions DEF DualInv, TypeInv, TypeOK
  <2>2. Good(current) \/ Good(Other(current))
    BY DEF DualInv, Copies
  <2> QED
    BY <2>1, <2>2, TwoPartitions DEF SomePartitionBoots, Bootable, Good
<1> QED
  BY <1>1, DualInvAlways, PTL

(***************************************************************************)
(* Until a decision the former version is on one of the partitions: on the *)
(* one that runs while the other is being written, and on the other one    *)
(* once the module has persisted that it is updated.                       *)
(***************************************************************************)
THEOREM PreviousKeptAlways == Spec => []PreviousKept
<1>1. DualInv => PreviousKept
  <2> SUFFICES ASSUME DualInv, handler # "idle", decided = {}, Clean
               PROVE  \E p \in Partitions : part[p] = before
    BY DEF PreviousKept, Clean
  <2>1. current \in Partitions /\ Other(disk.UpdatePartition) \in Partitions
    BY TwoPartitions DEF DualInv, TypeInv, TypeOK, ModuleStates
  <2>2. Kept
    BY DEF DualInv
  <2> QED
    BY <2>1, <2>2 DEF Kept, Begun
<1> QED
  BY <1>1, DualInvAlways, PTL

(***************************************************************************)
(* A successful apply leaves the version asked for on both partitions.     *)
(***************************************************************************)
THEOREM AppliedMirrorsAlways == Spec => []AppliedMirrors
<1>1. DualInv => AppliedMirrors
  BY DEF DualInv, AppliedMirrors, Decisions, Clean
<1> QED
  BY <1>1, DualInvAlways, PTL

(***************************************************************************)
(* A successful revert leaves the former version running and chosen by the *)
(* next boot, with and without a reboot of its own.                        *)
(***************************************************************************)
THEOREM RevertRestoresAlways == Spec => []RevertRestores
<1>1. DualInv => RevertRestores
  BY DEF DualInv, RevertRestores, Decisions, Clean
<1> QED
  BY <1>1, DualInvAlways, PTL

(***************************************************************************)
(* A boot of an update that was verified and not decided on comes up with  *)
(* the version asked for, whatever went wrong before.                      *)
(***************************************************************************)
THEOREM VerifiedBootsAlways == Spec => []VerifiedBoots
<1>1. DualInv => VerifiedBoots
  <2> SUFFICES ASSUME DualInv, handler = "updated", decided = {}
               PROVE  part[BootChoice] = target
    BY DEF VerifiedBoots
  <2>1. VerifiedInv /\ TypeOK
    BY DEF DualInv, TypeInv
  <2>2. boot.main = current /\ boot.next = None /\ part[current] = target /\ target \in Versions
    BY <2>1 DEF VerifiedInv, Undecided, Verification, TypeOK
  <2>3. part[current] # Unbootable /\ current # None
    BY <2>1, <2>2, TwoPartitions DEF Versions, Unbootable, TypeOK
  <2> QED
    BY <2>2, <2>3 DEF BootChoice, Bootable
<1> QED
  BY <1>1, DualInvAlways, PTL
-----------------------------------------------------------------------------
(***************************************************************************)
(* Without mishaps: what the image has to do with what the partitions hold *)
(* once the module is updated, also when a copy back was interrupted.      *)
(***************************************************************************)
ImageKept ==
    /\ disk.State = "updated" =>
         /\ part[disk.UpdatePartition] \in {image, before, Unbootable}
         /\ "revert" \notin decided => part[disk.UpdatePartition] = image
         /\ "apply" \in decided =>
              part[Other(disk.UpdatePartition)] \in {image, before, Unbootable}
         /\ current = disk.UpdatePartition => version \in {image, before}
    /\ op = "update" /\ pc \in {"main", "state"} => part[mem.UpdatePartition] = image

Accepted == op = "prepare" /\ (pc = "state" \/ (pc = "return" /\ ~ret.err))

\* What the handler has asked the module for, and what the module has persisted of it.
Requests ==
    /\ handler \in {"prepared", "updated"} \/ Accepted => target > before
    /\ handler = "prepared" => "apply" \notin decided
    /\ handler = "prepared" /\ mem.State = "prepared" => disk.State = "prepared"

\* All that holds as long as no mishap has happened.
CleanInv ==
    /\ TypeInv /\ Steps
    /\ Memory /\ Copies /\ Verified
    /\ Kept /\ Runs /\ BootsAlike /\ Decisions
    /\ VerifiedInv
    /\ ImageKept /\ Requests

\* Without mishaps it stays known where the image is.
LEMMA ImageStep ==
    ASSUME CleanInv, TypeInv', Clean', [Next]_vars
    PROVE  ImageKept' /\ Requests'
<1> USE TwoPartitions DEF TypeInv, CleanInv
<1>c. Clean
  BY CleanBefore
<1>1. CASE Start
  <2>1. ImageKept'
    BY <1>1, <1>c DEF Start, ImageKept, update
  <2>2. Requests'
    BY <1>1, <1>c DEF Start, Requests, Accepted, update, Steps, TypeOK, ModuleStates
  <2> QED
    BY <2>1, <2>2
<1>2. ASSUME NEW v \in Versions, NEW img \in Contents, Prepare(v, img)
      PROVE  ImageKept' /\ Requests'
  <2>1. ImageKept'
    BY <1>2, <1>c DEF Prepare, Memory, ImageKept, system
  <2>2. Requests'
    BY <1>2, <1>c DEF Prepare, Return, Requests, Accepted, TypeOK, Versions
  <2> QED
    BY <2>1, <2>2
<1>3. CASE Update
  <2>1. ImageKept'
    <3>1. /\ UNCHANGED <<disk, image, before, decided, current, version>>
          /\ pc' \in {"return", "copy"}
      BY <1>3 DEF Update, BeginCopy, Return
    <3>2. part' = part \/ disk.State # "updated"
      BY <1>3 DEF Update, Memory
    <3> QED
      BY <3>1, <3>2 DEF ImageKept
  <2>2. Requests'
    BY <1>3, <1>c DEF Update, BeginCopy, Return, Requests, Accepted
  <2> QED
    BY <2>1, <2>2
<1>4. CASE Revert
  <2>1. ImageKept'
    <3>1. /\ UNCHANGED <<disk, image, before, current, version>>
          /\ pc' \in {"return", "copy"}
          /\ decided' = decided \cup {"revert"}
      BY <1>4 DEF Revert, BeginCopy, Return
    <3>2. SUFFICES ASSUME disk.State = "updated"
                   PROVE  /\ part'[disk.UpdatePartition] \in {image, before, Unbootable}
                          /\ "apply" \in decided =>
                               part'[Other(disk.UpdatePartition)] \in {image, before, Unbootable}
      BY <3>1 DEF ImageKept
    <3>3. disk.UpdatePartition \in Partitions
      BY DEF TypeOK, ModuleStates
    <3>4. CASE mem.State = "idle"
      BY <1>4, <3>2, <3>4 DEF Revert, ImageKept
    <3>5. CASE mem.State # "idle"
      <4>1. mem = disk
        BY <3>2, <3>5 DEF Memory, TypeOK, ModuleStates, States
      <4>2. part' = [part EXCEPT ![disk.UpdatePartition] = Unbootable]
        BY <1>4, <3>5, <4>1 DEF Revert, BeginCopy, Destination
      <4> QED
        BY <3>2, <3>3, <4>2 DEF ImageKept, TypeOK
    <3> QED
      BY <3>4, <3>5
  <2>2. Requests'
    BY <1>4, <1>c DEF Revert, BeginCopy, Return, Requests, Accepted
  <2> QED
    BY <2>1, <2>2
<1>5. CASE Apply
  <2>1. ImageKept'
    <3>1. /\ UNCHANGED <<disk, mem, image, before, current, version>>
          /\ pc' \in {"return", "copy"}
          /\ decided' = decided \cup {"apply"} /\ handler = "updated"
      BY <1>5 DEF Apply, BeginCopy, Return
    <3>2. SUFFICES ASSUME disk.State = "updated"
                   PROVE  /\ part'[disk.UpdatePartition] = part[disk.UpdatePartition]
                          /\ part'[Other(disk.UpdatePartition)] \in {image, before, Unbootable}
      BY <3>1 DEF ImageKept
    <3>3. disk.UpdatePartition \in Partitions /\ Other(disk.UpdatePartition) # disk.UpdatePartition
      BY DEF TypeOK, ModuleStates
    <3>4. part[Other(disk.UpdatePartition)] \in {image, before, Unbootable}
      BY <3>2 DEF ImageKept, Kept
    <3>5. CASE mem.State # "updated"
      BY <1>5, <3>4, <3>5 DEF Apply
    <3>6. CASE mem.State = "updated"
      <4>1. mem = disk
        BY <3>1, <3>6 DEF Memory
      <4>2. part' = [part EXCEPT ![Other(disk.UpdatePartition)] = Unbootable]
        BY <1>5, <3>6, <4>1 DEF Apply, BeginCopy, Destination
      <4> QED
        BY <3>3, <4>2 DEF TypeOK
    <3> QED
      BY <3>5, <3>6
  <2>2. Requests'
    BY <1>5, <1>c DEF Apply, BeginCopy, Return, Requests, Accepted
  <2> QED
    BY <2>1, <2>2
<1>6. CASE CopyDone
  <2>1. ImageKept'
    <3> DEFINE d == Destination(op, mem)
    <3>1. /\ pc = "copy" /\ pc' = IF op = "apply" THEN "state" ELSE "main"
          /\ UNCHANGED <<op, mem, current, disk, version, decided, handler, before, image>>
          /\ part' = [part EXCEPT ![d] = Copied]
      BY <1>6 DEF CopyDone, update
    <3>2. op \in {"update", "apply", "revert"}
      BY <3>1 DEF Steps, TypeOK
    <3>3. /\ d \in Partitions
          /\ op # "apply" => d = mem.UpdatePartition
          /\ op = "apply" => d = Other(mem.UpdatePartition)
          /\ op # "update" => Copied = part[Other(d)]
      BY <3>2 DEF Destination, Copied, TypeOK, ModuleStates
    <3> HIDE DEF d
    <3>4. \A q \in Partitions : part'[q] = IF q = d THEN Copied ELSE part[q]
      BY <3>1 DEF TypeOK
    <3>5. disk.UpdatePartition \in Partitions /\ mem.UpdatePartition \in Partitions
      BY DEF TypeOK, ModuleStates
    <3>6. CASE op = "update"
      <4>1. disk.State # "updated"
        BY <3>1, <3>6 DEF Steps, Memory
      <4>2. part'[mem.UpdatePartition] = image
        BY <3>3, <3>4, <3>5, <3>6 DEF Copied
      <4> QED
        BY <3>1, <4>1, <4>2 DEF ImageKept
    <3>7. CASE op # "update" /\ disk.State # "updated"
      BY <3>1, <3>7 DEF ImageKept
    <3>8. CASE op = "apply" /\ disk.State = "updated"
      <4>1. mem = disk /\ "apply" \in decided /\ "revert" \notin decided
        BY <3>1, <3>8 DEF Steps, Memory, Decisions, TypeOK
      <4>2. d = Other(disk.UpdatePartition) /\ Copied = part[disk.UpdatePartition]
        BY <3>3, <3>5, <3>8, <4>1
      <4>3. Copied = image
        BY <3>8, <4>1, <4>2 DEF ImageKept
      <4>4. part'[disk.UpdatePartition] = part[disk.UpdatePartition]
            /\ part'[Other(disk.UpdatePartition)] = image
        BY <3>4, <3>5, <4>2, <4>3
      <4> QED
        BY <3>1, <3>8, <4>4 DEF ImageKept
    <3>9. CASE op = "revert" /\ disk.State = "updated"
      <4>1. mem = disk /\ "apply" \notin decided /\ "revert" \in decided
        BY <3>1, <3>9 DEF Steps, Memory, Decisions, TypeOK, ModuleStates, States
      <4>2. d = disk.UpdatePartition /\ Copied = before
        BY <3>3, <3>9, <4>1 DEF Kept
      <4>3. part'[disk.UpdatePartition] = before
        BY <3>4, <3>5, <4>2
      <4> QED
        BY <3>1, <3>9, <4>1, <4>3 DEF ImageKept
    <3> QED
      BY <3>2, <3>6, <3>7, <3>8, <3>9
  <2>2. Requests'
    BY <1>6, <1>c DEF CopyDone, Requests, Accepted, Steps, update
  <2> QED
    BY <2>1, <2>2
<1>7. CASE MainBootSet
  <2>1. ImageKept'
    BY <1>7 DEF MainBootSet, ImageKept, update
  <2>2. Requests'
    BY <1>7 DEF MainBootSet, Requests, Accepted, Steps, update
  <2> QED
    BY <2>1, <2>2
<1>8. CASE StepFails
  <2>1. ImageKept'
    BY <1>8 DEF StepFails, Return, ImageKept, system, update
  <2>2. Requests'
    BY <1>8 DEF StepFails, Return, Requests, Accepted, system, update
  <2> QED
    BY <2>1, <2>2
<1>9. CASE SetState
  <2>1. /\ pc = "state" /\ pc' = "return" /\ ~ret'.err
        /\ UNCHANGED <<op, part, current, version, decided, handler, image, before, target>>
        /\ mem' = [mem EXCEPT !.State = NewState] /\ disk' = mem'
    BY <1>9 DEF SetState, Return, system, update
  <2>2. mem'.State = NewState /\ mem'.UpdatePartition = mem.UpdatePartition
    BY <2>1 DEF TypeOK, ModuleStates
  <2>3. ImageKept'
    <3>1. SUFFICES ASSUME op = "update"
                   PROVE  /\ part[mem.UpdatePartition] = image
                          /\ "apply" \notin decided
                          /\ current # mem.UpdatePartition
      BY <2>1, <2>2 DEF ImageKept, NewState
    <3> QED
      BY <2>1, <3>1 DEF ImageKept, Requests, Steps, TypeOK, ModuleStates
  <2>4. Requests'
    BY <2>1, <2>2 DEF Requests, Accepted, Steps, NewState
  <2> QED
    BY <2>3, <2>4
<1>10. CASE SetStateFails
  <2>1. /\ pc = "state" /\ pc' = "return" /\ ret'.err
        /\ UNCHANGED <<op, part, current, version, decided, handler, image, before, target, disk>>
        /\ mem' = [mem EXCEPT !.State = NewState]
    BY <1>10 DEF SetStateFails, Return, system, update
  <2>2. mem'.State = NewState
    BY <2>1 DEF TypeOK, ModuleStates
  <2>3. ImageKept'
    BY <2>1 DEF ImageKept
  <2>4. Requests'
    BY <2>1, <2>2 DEF Requests, Accepted, Steps, NewState
  <2> QED
    BY <2>3, <2>4
<1>11. CASE Returned
  <2>1. ImageKept'
    BY <1>11 DEF Returned, ImageKept, system
  <2>2. Requests'
    <3>1. /\ pc = "return" /\ pc' \in {"ready", "reboot"}
          /\ UNCHANGED <<op, ret, mem, disk, decided, target, before>>
      BY <1>11 DEF Returned, system
    <3>2. CASE ret.reboot
      BY <1>11, <3>1, <3>2 DEF Returned, Requests, Accepted
    <3>3. CASE ~ret.reboot
      <4>1. op \in {"prepare", "update", "apply", "revert"}
        BY <3>1 DEF TypeOK
      <4>2. CASE op = "prepare"
        BY <1>11, <3>1, <3>3, <4>2, ReturnedTo
           DEF Requests, Accepted, Verification, VerifiedInv, Steps
      <4>3. CASE op = "update"
        BY <1>11, <3>1, <3>3, <4>3, ReturnedTo DEF Requests, Accepted, Steps
      <4>4. CASE op \in {"apply", "revert"}
        BY <1>11, <3>1, <3>3, <4>4, ReturnedTo DEF Requests, Accepted
      <4> QED
        BY <4>1, <4>2, <4>3, <4>4
    <3> QED
      BY <3>2, <3>3
  <2> QED
    BY <2>1, <2>2
<1>b. ASSUME Boot, UNCHANGED <<disk, image, update>> PROVE ImageKept' /\ Requests'
  <2>1. ImageKept'
    BY <1>b, BootsWhere DEF ImageKept, Good, update, Kept
  <2>2. Requests'
    BY <1>b, BootsWhere DEF Requests, Accepted, ZeroState, update
  <2> QED
    BY <2>1, <2>2
<1>12. CASE Reboot
  BY <1>12, <1>b DEF Reboot
<1>13. CASE RebootFails
  <2>1. ImageKept'
    BY <1>13 DEF RebootFails, ImageKept, system
  <2>2. Requests'
    BY <1>13 DEF RebootFails, Requests, Accepted, system
  <2> QED
    BY <2>1, <2>2
<1>14. CASE PowerCut
  BY <1>14, <1>b DEF PowerCut
<1>15. CASE ProcessCrash
  <2>1. ImageKept'
    BY <1>15 DEF ProcessCrash, Die, ImageKept, system, update
  <2>2. Requests'
    BY <1>15 DEF ProcessCrash, Die, ZeroState, Requests, Accepted, update
  <2> QED
    BY <2>1, <2>2
<1>16. CASE UNCHANGED vars
  BY <1>16 DEF vars, system, memory, update, ImageKept, Requests, Accepted
<1> QED
  BY <1>1, <1>2, <1>3, <1>4, <1>5, <1>6, <1>7, <1>8, <1>9, <1>10, <1>11, <1>12, <1>13, <1>14,
     <1>15, <1>16 DEF Next, Command, Method

-----------------------------------------------------------------------------
\* What the handler can tell, between the calls.
LEMMA ResultIs ==
    /\ pc # "return" => Result = Contract!Nothing
    /\ pc = "return" => Result = [method |-> op, err |-> ret.err, reboot |-> ret.reboot]
BY DEF Result, Contract!Nothing

(***************************************************************************)
(* The component without mishaps: it comes back to a version, and is one   *)
(* of the modules the contract is about.                                   *)
(***************************************************************************)
LEMMA ComponentType ==
    ASSUME CleanInv
    PROVE  /\ ComesBackTo \in Versions
           /\ Component \in Contract!Modules
           /\ Component.phase = disk.State
           /\ Component.version = version
           /\ Component.previous = ComesBackTo
           /\ Component.image \in Versions
<1> USE DEF CleanInv, TypeInv
<1>1. current \in Partitions /\ part[current] \in Contents /\ image \in Contents
  BY DEF TypeOK
<1>2. ComesBackTo \in Versions
  BY <1>1 DEF ComesBackTo, Copies, Good, Contents, TypeOK
<1>3. Component.image \in Versions
  BY <1>1, <1>2 DEF Component, Contents
<1>4. Component.phase = disk.State /\ Component.version = version /\ Component.previous = ComesBackTo
  BY DEF Component
<1>5. Component.init \in {"ok", "unread", "failed"}
  BY DEF Component
<1> QED
  BY <1>2, <1>3, <1>4, <1>5
     DEF Component, Contract!Modules, Contract!Versions, Contract!Phases, Contract!InitResults,
         Versions, TypeOK, ModuleStates, States

Fields(phase, running, img, previous, init) ==
    [phase |-> phase, version |-> running, image |-> img, previous |-> previous, init |-> init]

\* The component by its fields, now and after a step.
LEMMA ComponentFields ==
    /\ Component = Fields(disk.State, version, Component.image, ComesBackTo, Component.init)
    /\ Component' =
          Fields(disk'.State, version', Component'.image, ComesBackTo', Component'.init)
BY DEF Component, Fields

\* The changes the contract makes to the component.
LEMMA Changes ==
    ASSUME NEW x, NEW y
    PROVE  /\ [Component EXCEPT !.phase = x, !.image = y] =
                Fields(x, version, y, ComesBackTo, Component.init)
           /\ [Component EXCEPT !.phase = x, !.previous = y] =
                Fields(x, version, Component.image, y, Component.init)
           /\ [Component EXCEPT !.phase = x] =
                Fields(x, version, Component.image, ComesBackTo, Component.init)
<1>1. [Component EXCEPT !.phase = x] =
        Fields(x, version, Component.image, ComesBackTo, Component.init)
  BY DEF Component, Fields
<1>2. [Fields(x, version, Component.image, ComesBackTo, Component.init) EXCEPT !.image = y] =
        Fields(x, version, y, ComesBackTo, Component.init)
  BY DEF Fields
<1>3. [Fields(x, version, Component.image, ComesBackTo, Component.init) EXCEPT !.previous = y] =
        Fields(x, version, Component.image, y, Component.init)
  BY DEF Fields
<1> QED
  BY <1>1, <1>2, <1>3

\* The change a boot makes to it.
LEMMA BootChanges ==
    ASSUME NEW x
    PROVE  [Component EXCEPT !.version = x, !.init = "ok"] =
             Fields(disk.State, x, Component.image, ComesBackTo, "ok")
<1>1. [Component EXCEPT !.version = x] =
        Fields(disk.State, x, Component.image, ComesBackTo, Component.init)
  BY DEF Component, Fields
<1>2. [Fields(disk.State, x, Component.image, ComesBackTo, Component.init) EXCEPT !.init = "ok"] =
        Fields(disk.State, x, Component.image, ComesBackTo, "ok")
  BY DEF Fields
<1> QED
  BY <1>1, <1>2

\* A step inside a method changes nothing of the component.
LEMMA SameComponent ==
    ASSUME UNCHANGED <<disk, version, bootErr, image>>,
           ComesBackTo' = ComesBackTo, Unread' <=> Unread
    PROVE  Component' = Component
BY DEF Component

\* A method makes one of its outcomes of the component, and returns or goes on.
LEMMA CallStep ==
    ASSUME NEW method \in Contract!Methods, NEW o \in Contract!Offered(method, Component),
           pc # "down", pc # "return", pc' # "down",
           Component' = o.module,
           pc' = "return" => op' = method /\ ret'.err = o.err /\ ret'.reboot = o.reboot
    PROVE  Contract!Call(method)
<1>1. Result = Contract!Nothing
  BY ResultIs
<1>2. Result' \in {Contract!Nothing, Contract!Result(method, o)}
  BY DEF Result, Contract!Nothing, Contract!Result
<1> QED
  BY <1>1, <1>2 DEF Contract!Call

\* Init() of a new process.
LEMMA StartKeeps ==
    ASSUME CleanInv, Start
    PROVE  Contract!Start
<1>1. /\ pc = "down" /\ pc' = "ready"
      /\ UNCHANGED <<disk, version, image, part, current, before>>
  BY DEF Start, update
<1>2. ComesBackTo' = ComesBackTo
  BY <1>1 DEF ComesBackTo
<1>3. PICK r \in {"ok", "unread", "failed"} : Component' = [Component EXCEPT !.init = r]
  BY <1>1, <1>2 DEF Component
<1> QED
  BY <1>1, <1>3, ResultIs DEF Contract!Start, Contract!InitResults, Result

\* Prepare() takes the image, or fails.
LEMMA PrepareKeeps ==
    ASSUME CleanInv, NEW v \in Versions, NEW img \in Contents, Prepare(v, img)
    PROVE  Contract!Call("prepare")
<1> USE DEF CleanInv
<1>1. /\ pc = "ready" /\ handler = "idle" /\ op' = "prepare" /\ image' = img
      /\ UNCHANGED <<disk, version, part, current, bootErr, mem>>
      /\ pc' = "state" \/ (pc' = "return" /\ ret' = [err |-> TRUE, reboot |-> FALSE])
  BY DEF Prepare, Return, system
<1>2. disk.State # "updated"
  BY <1>1 DEF Memory
<1>3. ComesBackTo' = ComesBackTo /\ (Unread' <=> Unread)
  BY <1>1, <1>2 DEF ComesBackTo, Unread
<1>4. ComesBackTo \in Versions /\ Component \in Contract!Modules /\ Component.phase = disk.State
  BY ComponentType
<1>5. \/ Component' = Component
      \/ \E i \in Versions :
            Component' = [Component EXCEPT !.phase = "prepared", !.image = i]
  <2>1. CASE disk.State = "idle"
    BY <1>1, <1>3, <2>1 DEF Component
  <2>2. CASE disk.State = "prepared"
    <3> DEFINE i == IF img = Unbootable THEN ComesBackTo ELSE img
    <3>3. Component'.image = i /\ Component'.init = Component.init
      BY <1>1, <1>3, <2>2 DEF Component
    <3> HIDE DEF i
    <3>1. Component' = [Component EXCEPT !.phase = "prepared", !.image = i]
      <4>1. Component' = Fields("prepared", version, i, ComesBackTo, Component.init)
        BY <1>1, <1>3, <2>2, <3>3, ComponentFields
      <4>2. [Component EXCEPT !.phase = "prepared", !.image = i] =
               Fields("prepared", version, i, ComesBackTo, Component.init)
        BY Changes
      <4> QED
        BY <4>1, <4>2
    <3>2. i \in Versions
      BY <1>4 DEF Contents, i
    <3> QED
      BY <3>1, <3>2
  <2> QED
    BY <1>2, <2>1, <2>2 DEF TypeInv, TypeOK, ModuleStates, States
<1>6. Contract!Fail(Component') \in Contract!Offered("prepare", Component)
  <2>1. Contract!Phase(Component) # "updated"
    BY <1>2, <1>4 DEF Contract!Phase
  <2> QED
    BY <1>5, <2>1 DEF Contract!Offered, Contract!Prepare, Contract!Versions, Versions
<1>7. /\ Contract!Fail(Component').module = Component'
      /\ Contract!Fail(Component').err = TRUE /\ Contract!Fail(Component').reboot = FALSE
  BY DEF Contract!Fail
<1>8. "prepare" \in Contract!Methods
  BY DEF Contract!Methods
<1>9. /\ pc # "down" /\ pc # "return" /\ pc' # "down"
      /\ pc' = "return" => ret'.err = TRUE /\ ret'.reboot = FALSE
  BY <1>1
<1> HIDE DEF CleanInv
<1> QED
  BY <1>1, <1>6, <1>7, <1>8, <1>9, CallStep

(***************************************************************************)
(* Update() returns without an error only when the component runs the      *)
(* image: it runs the version asked for, which is higher than the one      *)
(* before, and nothing else is on the updated partition.                   *)
(***************************************************************************)
LEMMA UpdateKeeps ==
    ASSUME CleanInv, Update
    PROVE  Contract!Call("update") \/ UNCHANGED Contract!vars
<1> USE DEF CleanInv
<1>1. /\ pc = "ready" /\ handler = "prepared" /\ op' = "update"
      /\ UNCHANGED <<disk, version, image, current, bootErr, before, target>>
  BY DEF Update
<1>2. CASE mem.State = "prepared"
  <2>1. /\ pc' = "copy" /\ part' = [part EXCEPT ![Other(current)] = Unbootable]
        /\ mem' = [mem EXCEPT !.UpdatePartition = SecPartition]
    BY <1>2 DEF Update, BeginCopy, Destination, SecPartition, TypeInv, TypeOK, ModuleStates
  <2>2. part'[current] = part[current]
    BY <2>1, TwoPartitions DEF TypeInv, TypeOK
  <2>3. ComesBackTo' = ComesBackTo
    BY <1>1, <2>2 DEF ComesBackTo
  <2>4. ~Unread /\ ~Unread'
    BY <1>2, <2>1 DEF Unread, TypeInv, TypeOK, ModuleStates
  <2>5. Component' = Component
    BY <1>1, <2>3, <2>4, SameComponent
  <2> QED
    BY <1>1, <2>1, <2>5, ResultIs DEF Contract!vars, Result
<1>3. CASE mem.State # "prepared"
  <2>1. /\ UNCHANGED <<part, mem>> /\ pc' = "return" /\ ret'.reboot = FALSE
        /\ ret'.err = TRUE \/ (mem.State = "updated" /\ ret'.err = NotUpdated)
    BY <1>3 DEF Update, Return
  <2>2. Component' = Component
    BY <1>1, <2>1, SameComponent DEF ComesBackTo, Unread
  <2>3. CASE ret'.err = TRUE
    <3>1. Contract!Fail(Component) \in Contract!Offered("update", Component)
      BY DEF Contract!Offered, Contract!Update
    <3> QED
      BY <1>1, <2>1, <2>2, <2>3, <3>1, CallStep DEF Contract!Fail, Contract!Methods
  <2>4. CASE mem.State = "updated" /\ ret'.err = NotUpdated /\ ~NotUpdated
    <3>1. current = mem.UpdatePartition /\ ~bootErr /\ version = target
      BY <2>4 DEF NotUpdated
    <3>2. mem = disk
      BY <2>4, <3>1, TwoPartitions DEF Memory, TypeInv, TypeOK, ModuleStates
    <3>3. version = image
      BY <1>1, <2>4, <3>1, <3>2 DEF ImageKept, Requests, TypeInv, TypeOK, Versions
    <3>4. Component.image = version /\ Component.init = "ok" /\ Component.phase = "updated"
          /\ Component.version = version
      BY <2>4, <3>1, <3>2, <3>3 DEF Component, Unread, TypeInv, TypeOK, Versions, Unbootable
    <3>5. Contract!Done(Component) \in Contract!Offered("update", Component)
      BY <3>4 DEF Contract!Offered, Contract!Update, Contract!Phase
    <3>6. ret'.err = FALSE
      BY <2>4 DEF NotUpdated, TypeInv, TypeOK
    <3> QED
      BY <1>1, <2>1, <2>2, <3>5, <3>6, CallStep DEF Contract!Done, Contract!Methods
  <2> QED
    BY <2>1, <2>3, <2>4 DEF NotUpdated, TypeInv, TypeOK
<1> QED
  BY <1>2, <1>3

\* What a decision without mishaps finds.
LEMMA NoMishaps ==
    ASSUME Clean', Revert \/ Apply
    PROVE  /\ mem.State = "idle" => disk.State = "idle"
           /\ Revert /\ mem.State = "prepared" => mem.UpdatePartition # current
BY DEF Clean, Revert, Apply, Decided

\* A decision on an idle module does nothing.
LEMMA IdleDoesNothing ==
    ASSUME CleanInv, disk.State = "idle"
    PROVE  /\ Contract!Done(Component) \in Contract!Offered("apply", Component)
           /\ Contract!Done(Component) \in Contract!Offered("revert", Component)
<1>1. Contract!Phase(Component) = "idle"
  BY ComponentType DEF Contract!Phase
<1> QED
  BY <1>1 DEF Contract!Offered, Contract!Apply, Contract!Revert

(***************************************************************************)
(* Revert() begins with a copy over the partition the component does not   *)
(* come back to.                                                           *)
(***************************************************************************)
LEMMA RevertKeeps ==
    ASSUME CleanInv, Clean', Revert
    PROVE  Contract!Call("revert") \/ UNCHANGED Contract!vars
<1> USE DEF CleanInv
<1>1. /\ pc = "ready" /\ op' = "revert"
      /\ UNCHANGED <<disk, version, image, current, bootErr, before, mem>>
  BY DEF Revert, BeginCopy
<1>2. CASE mem.State = "idle"
  <2>1. /\ UNCHANGED part /\ pc' = "return" /\ ret'.err = FALSE /\ ret'.reboot = FALSE
    BY <1>2 DEF Revert, Return
  <2>4. disk.State = "idle"
    BY <1>2, NoMishaps
  <2>2. Component' = Component
    BY <1>1, <2>1, <2>4, SameComponent DEF ComesBackTo, Unread
  <2>3. Contract!Done(Component) \in Contract!Offered("revert", Component)
    BY <2>4, IdleDoesNothing
  <2> QED
    BY <1>1, <2>1, <2>2, <2>3, CallStep DEF Contract!Done, Contract!Methods
<1>3. CASE mem.State # "idle"
  <2>1. pc' = "copy" /\ part' = [part EXCEPT ![mem.UpdatePartition] = Unbootable]
    BY <1>3 DEF Revert, BeginCopy, Destination
  <2>2. disk.State # "updated" => mem.UpdatePartition # current
    BY <1>3, NoMishaps, TwoPartitions DEF Memory, TypeInv, TypeOK, ModuleStates, States
  <2>3. disk.State # "updated" => part'[current] = part[current]
    BY <2>1, <2>2 DEF TypeInv, TypeOK
  <2>4. ComesBackTo' = ComesBackTo
    BY <1>1, <2>3 DEF ComesBackTo
  <2>5. Component' = Component
    BY <1>1, <1>3, <2>4, SameComponent DEF Unread
  <2> QED
    BY <1>1, <2>1, <2>5, ResultIs DEF Contract!vars, Result
<1> QED
  BY <1>2, <1>3

(***************************************************************************)
(* Apply() begins with a copy over the partition the component came from,  *)
(* which the contract still has it come back to.                           *)
(***************************************************************************)
LEMMA ApplyKeeps ==
    ASSUME CleanInv, Clean', Apply
    PROVE  Contract!Call("apply") \/ UNCHANGED Contract!vars
<1> USE DEF CleanInv
<1>1. /\ pc = "ready" /\ op' = "apply" /\ handler = "updated"
      /\ UNCHANGED <<disk, version, image, current, bootErr, before, mem>>
  BY DEF Apply, BeginCopy
<1>2. CASE mem.State = "idle"
  <2>1. /\ UNCHANGED part /\ pc' = "return" /\ ret'.err = FALSE /\ ret'.reboot = FALSE
    BY <1>2 DEF Apply, Return
  <2>4. disk.State = "idle"
    BY <1>2, NoMishaps
  <2>2. Component' = Component
    BY <1>1, <2>1, <2>4, SameComponent DEF ComesBackTo, Unread
  <2>3. Contract!Done(Component) \in Contract!Offered("apply", Component)
    BY <2>4, IdleDoesNothing
  <2> QED
    BY <1>1, <2>1, <2>2, <2>3, CallStep DEF Contract!Done, Contract!Methods
<1>3. CASE mem.State = "prepared"
  <2>1. /\ UNCHANGED part /\ pc' = "return" /\ ret'.err = TRUE /\ ret'.reboot = FALSE
    BY <1>3 DEF Apply, Return
  <2>2. Component' = Component
    BY <1>1, <1>3, <2>1, SameComponent DEF ComesBackTo, Unread
  <2>3. Contract!Fail(Component) \in Contract!Offered("apply", Component)
    BY DEF Contract!Offered, Contract!Apply
  <2> QED
    BY <1>1, <2>1, <2>2, <2>3, CallStep DEF Contract!Fail, Contract!Methods
<1>4. CASE mem.State = "updated"
  <2>1. pc' = "copy" /\ disk.State = "updated"
    BY <1>1, <1>4 DEF Apply, BeginCopy, Memory
  <2>2. Component' = Component
    BY <1>1, <1>4, <2>1, SameComponent DEF ComesBackTo, Unread
  <2> QED
    BY <1>1, <2>1, <2>2, ResultIs DEF Contract!vars, Result
<1> QED
  BY <1>2, <1>3, <1>4 DEF TypeInv, TypeOK, ModuleStates, States

\* A copy and the boot configuration change nothing the handler can tell.
LEMMA CopyKeeps ==
    ASSUME CleanInv, CopyDone \/ MainBootSet
    PROVE  UNCHANGED Contract!vars
<1> USE DEF CleanInv
<1>1. /\ pc \in {"copy", "main"} /\ pc' \in {"main", "state"}
      /\ UNCHANGED <<disk, version, image, current, bootErr, before, mem, op>>
  BY DEF CopyDone, MainBootSet, update
<1>2. op \in {"update", "apply", "revert"} /\ mem.State # "idle"
  BY <1>1 DEF Steps, TypeInv, TypeOK
<1>3. ASSUME disk.State # "updated", CopyDone PROVE Destination(op, mem) # current
  <2>1. op # "apply"
    BY <1>1, <1>3 DEF CopyDone, Steps, Memory
  <2> QED
    BY <1>2, <1>3, <2>1, TwoPartitions
       DEF CopyDone, Steps, Copies, Destination, TypeInv, TypeOK, ModuleStates
<1>4. disk.State # "updated" => part'[current] = part[current]
  BY <1>3 DEF CopyDone, MainBootSet, TypeInv, TypeOK
<1>5. ComesBackTo' = ComesBackTo
  BY <1>1, <1>4 DEF ComesBackTo
<1>6. Component' = Component
  BY <1>1, <1>2, <1>5, SameComponent DEF Unread
<1> QED
  BY <1>1, <1>6, ResultIs DEF Contract!vars, Result

\* A failed copy or boot configuration is an error of the method.
LEMMA FailKeeps ==
    ASSUME CleanInv, StepFails
    PROVE  Contract!Call(op)
<1> USE DEF CleanInv
<1>1. /\ pc \in {"copy", "main"} /\ pc' = "return" /\ ret'.err = TRUE /\ ret'.reboot = FALSE
      /\ UNCHANGED <<disk, version, image, current, part, bootErr, before, mem, op>>
  BY DEF StepFails, Return, system, update
<1>2. op \in {"update", "apply", "revert"} /\ mem.State # "idle"
  BY <1>1 DEF Steps, TypeInv, TypeOK
<1>3. Component' = Component
  BY <1>1, <1>2, SameComponent DEF ComesBackTo, Unread
<1>4. Contract!Fail(Component) \in Contract!Offered(op, Component) /\ op \in Contract!Methods
  BY <1>2 DEF Contract!Offered, Contract!Update, Contract!Apply, Contract!Revert, Contract!Methods
<1> QED
  BY <1>1, <1>3, <1>4, CallStep DEF Contract!Fail

\* The state of the module becomes the next one.
LEMMA StateSet ==
    ASSUME CleanInv, SetState
    PROVE  /\ pc = "state" /\ pc' = "return" /\ ret'.err = FALSE /\ ret'.reboot = RebootRequired
           /\ op \in Contract!Methods
           /\ disk'.State = NewState /\ disk'.UpdatePartition = mem.UpdatePartition
           /\ mem' = disk'
           /\ UNCHANGED <<version, image, current, part, bootErr, before, op>>
<1> USE DEF CleanInv
<1>1. /\ mem' = [mem EXCEPT !.State = NewState] /\ disk' = mem'
      /\ pc = "state" /\ pc' = "return" /\ ret' = [err |-> FALSE, reboot |-> RebootRequired]
      /\ UNCHANGED <<version, image, current, part, bootErr, before, op>>
  BY DEF SetState, Return, system, update
<1>2. op \in Contract!Methods
  BY <1>1 DEF Steps, TypeInv, TypeOK, Contract!Methods
<1> QED
  BY <1>1, <1>2 DEF TypeInv, TypeOK, ModuleStates

\* Prepare() has accepted the image.
LEMMA PreparedKeeps ==
    ASSUME CleanInv, SetState, op = "prepare"
    PROVE  Contract!Call("prepare")
<1> USE DEF CleanInv
<1> DEFINE i == IF image = Unbootable THEN ComesBackTo ELSE image
<1>1. disk'.State = "prepared" /\ mem'.State = "prepared" /\ RebootRequired = FALSE
  BY StateSet DEF NewState, RebootRequired
<1>2. disk.State # "updated" /\ ~bootErr
  BY StateSet DEF Steps, Memory
<1>3. ComesBackTo' = ComesBackTo
  BY <1>1, <1>2, StateSet DEF ComesBackTo
<1>4. Component'.init = Component.init /\ Component'.image = i
  BY <1>1, <1>2, <1>3, StateSet DEF Component, Unread
<1>5. i \in Versions
  BY ComponentType DEF Contents, TypeInv, TypeOK
<1> HIDE DEF i
<1>6. Component' = [Component EXCEPT !.phase = "prepared", !.image = i]
  <2>1. Component' = Fields("prepared", version, i, ComesBackTo, Component.init)
    BY <1>1, <1>3, <1>4, StateSet, ComponentFields
  <2>2. [Component EXCEPT !.phase = "prepared", !.image = i] =
           Fields("prepared", version, i, ComesBackTo, Component.init)
    BY Changes
  <2> QED
    BY <2>1, <2>2
<1>7. Contract!Done(Component') \in Contract!Offered("prepare", Component)
  <2>1. Contract!Phase(Component) # "updated"
    BY <1>2, ComponentType DEF Contract!Phase
  <2> QED
    BY <1>5, <1>6, <2>1 DEF Contract!Offered, Contract!Prepare, Contract!Versions, Versions
<1>8. /\ Contract!Done(Component').module = Component'
      /\ Contract!Done(Component').err = FALSE /\ Contract!Done(Component').reboot = FALSE
  BY DEF Contract!Done
<1>9. "prepare" \in Contract!Methods
  BY DEF Contract!Methods
<1>10. /\ pc # "down" /\ pc # "return" /\ pc' # "down" /\ op' = "prepare"
       /\ ret'.err = FALSE /\ ret'.reboot = FALSE
  BY <1>1, StateSet
<1> HIDE DEF CleanInv
<1> QED
  BY <1>7, <1>8, <1>9, <1>10, CallStep

\* Update() has installed the image: until then the running partition held the version before.
LEMMA UpdatedKeeps ==
    ASSUME CleanInv, SetState, op = "update"
    PROVE  Contract!Call("update")
<1> USE DEF CleanInv
<1> DEFINE m == [Component EXCEPT !.phase = "updated"]
<1>1. disk'.State = "updated" /\ mem'.State = "updated" /\ RebootRequired = TRUE
  BY StateSet DEF NewState, RebootRequired
<1>2. /\ handler = "prepared" /\ mem.State = "prepared" /\ "apply" \notin decided
      /\ disk.State = "prepared"
  BY StateSet DEF Steps, Requests
<1>3. ComesBackTo' = ComesBackTo
  BY <1>1, <1>2, StateSet DEF ComesBackTo, Kept, Begun
<1>4. Component'.init = Component.init /\ Component'.image = Component.image
  BY <1>1, <1>2, <1>3, StateSet DEF Component, Unread
<1>5. Component' = m
  <2>1. Component' = Fields("updated", version, Component.image, ComesBackTo, Component.init)
    BY <1>1, <1>3, <1>4, StateSet, ComponentFields
  <2>2. m = Fields("updated", version, Component.image, ComesBackTo, Component.init)
    BY Changes
  <2> QED
    BY <2>1, <2>2
<1>6. Contract!Phase(Component) = "prepared"
  <2>1. Component.phase = "prepared" /\ Component.init # "unread"
    BY <1>2 DEF Component, Unread
  <2> QED
    BY <2>1 DEF Contract!Phase
<1>7. Contract!NeedReboot(m) \in Contract!Offered("update", Component)
  BY <1>6 DEF Contract!Offered, Contract!Update
<1> HIDE DEF m
<1>8. /\ Contract!NeedReboot(m).module = m
      /\ Contract!NeedReboot(m).err = FALSE /\ Contract!NeedReboot(m).reboot = TRUE
  BY DEF Contract!NeedReboot
<1>9. "update" \in Contract!Methods
  BY DEF Contract!Methods
<1>10. /\ pc # "down" /\ pc # "return" /\ pc' # "down" /\ op' = "update"
       /\ ret'.err = FALSE /\ ret'.reboot = TRUE
  BY <1>1, StateSet
<1> HIDE DEF CleanInv
<1> QED
  BY <1>5, <1>7, <1>8, <1>9, <1>10, CallStep

(***************************************************************************)
(* Apply() has copied the image: it is what the component runs, so it is   *)
(* what it comes back to.                                                  *)
(***************************************************************************)
LEMMA AppliedKeeps ==
    ASSUME CleanInv, SetState, op = "apply"
    PROVE  Contract!Call("apply")
<1> USE DEF CleanInv
<1> DEFINE m == [Component EXCEPT !.phase = "idle", !.previous = Component.image]
<1>1. disk'.State = "idle" /\ mem'.State = "idle" /\ RebootRequired = FALSE
  BY StateSet DEF NewState, RebootRequired
<1>2. /\ handler = "updated" /\ mem.State = "updated" /\ disk.State = "updated"
      /\ "revert" \notin decided
  BY StateSet DEF Steps, Memory, Decisions
<1>3. version = target /\ part[current] = target /\ current = disk.UpdatePartition /\ target > before
  BY <1>2 DEF Decisions, Verified, Requests
<1>4. part[current] = Component.image
  <2>1. version = image
    BY <1>2, <1>3 DEF ImageKept, TypeInv, TypeOK, Versions
  <2> QED
    BY <1>2, <1>3, <2>1 DEF Component, TypeInv, TypeOK, Versions, Unbootable
<1>5. ComesBackTo' = Component.image
  BY <1>1, <1>4, StateSet DEF ComesBackTo
<1>6. Component'.init = Component.init /\ Component'.image = Component.image
  <2>1. ~Unread /\ ~Unread'
    BY <1>1, <1>2 DEF Unread
  <2> QED
    BY <1>1, <1>5, <2>1, StateSet DEF Component
<1>7. Component' = m
  <2>1. Component' = Fields("idle", version, Component.image, Component.image, Component.init)
    BY <1>1, <1>5, <1>6, StateSet, ComponentFields
  <2>2. m = Fields("idle", version, Component.image, Component.image, Component.init)
    BY Changes
  <2> QED
    BY <2>1, <2>2
<1>8. Contract!Phase(Component) = "updated"
  <2>1. Component.phase = "updated" /\ Component.init # "unread"
    BY <1>2 DEF Component, Unread
  <2> QED
    BY <2>1 DEF Contract!Phase
<1>9. Contract!Done(m) \in Contract!Offered("apply", Component)
  BY <1>8 DEF Contract!Offered, Contract!Apply
<1> HIDE DEF m
<1>10. /\ Contract!Done(m).module = m
       /\ Contract!Done(m).err = FALSE /\ Contract!Done(m).reboot = FALSE
  BY DEF Contract!Done
<1>11. "apply" \in Contract!Methods
  BY DEF Contract!Methods
<1>12. /\ pc # "down" /\ pc # "return" /\ pc' # "down" /\ op' = "apply"
       /\ ret'.err = FALSE /\ ret'.reboot = FALSE
  BY <1>1, StateSet
<1> HIDE DEF CleanInv
<1> QED
  BY <1>7, <1>9, <1>10, <1>11, <1>12, CallStep

(***************************************************************************)
(* Revert() has copied the version before over the image, and asks for a   *)
(* reboot when the image was booted.                                       *)
(***************************************************************************)
LEMMA RevertedKeeps ==
    ASSUME CleanInv, SetState, op = "revert"
    PROVE  Contract!Call("revert")
<1> USE DEF CleanInv
<1> DEFINE m == [Component EXCEPT !.phase = "idle", !.image = ComesBackTo]
<1>1. disk'.State = "idle" /\ mem'.State = "idle"
  BY StateSet DEF NewState
<1>2. mem.State # "idle" /\ "apply" \notin decided /\ Mirrored
  BY StateSet DEF Steps, Decisions, Kept
<1>3. current \in Partitions /\ disk.UpdatePartition \in Partitions /\ mem.UpdatePartition \in Partitions
  BY DEF TypeInv, TypeOK, ModuleStates
<1>4. part[current] = ComesBackTo
  <2>1. ASSUME disk.State = "updated" PROVE part[current] = before
    <3>1. part[Other(disk.UpdatePartition)] = before
      BY <1>2, <2>1 DEF Kept
    <3>2. current \in {disk.UpdatePartition, Other(disk.UpdatePartition)}
      BY <1>3, TwoPartitions
    <3> QED
      BY <1>2, <1>3, <3>1, <3>2, TwoPartitions DEF Mirrored
  <2> QED
    BY <2>1 DEF ComesBackTo
<1>5. ComesBackTo' = ComesBackTo
  BY <1>1, <1>4, StateSet DEF ComesBackTo
<1>6. Component'.init = Component.init /\ Component'.image = ComesBackTo
  <2>1. ~Unread /\ ~Unread'
    BY <1>1, <1>2 DEF Unread
  <2> QED
    BY <1>1, <1>5, <2>1, StateSet DEF Component
<1>7. Component' = m
  <2>1. Component' = Fields("idle", version, ComesBackTo, ComesBackTo, Component.init)
    BY <1>1, <1>5, <1>6, StateSet, ComponentFields
  <2>2. m = Fields("idle", version, ComesBackTo, ComesBackTo, Component.init)
    BY Changes
  <2> QED
    BY <2>1, <2>2
<1>8. ~RebootRequired => version = ComesBackTo
  <2> SUFFICES ASSUME current # mem.UpdatePartition PROVE version = part[current]
    BY <1>4, StateSet DEF RebootRequired
  <2>1. disk.State = "updated" => mem = disk
    BY <1>2 DEF Memory, TypeInv, TypeOK, ModuleStates, States
  <2> QED
    BY <2>1, StateSet DEF Runs, RebootAfterRevert
<1>9. Component.init # "unread"
  BY <1>2 DEF Component, Unread
<1>10. IF RebootRequired THEN Contract!NeedReboot(m) \in Contract!Offered("revert", Component)
                         ELSE Contract!Done(m) \in Contract!Offered("revert", Component)
  <2>1. CASE disk.State # "idle"
    <3>1. Contract!Phase(Component) # "idle"
      BY <1>9, <2>1, ComponentType DEF Contract!Phase
    <3>2. Component.previous = ComesBackTo /\ Component.version = version
      BY ComponentType
    <3> HIDE DEF CleanInv
    <3> QED
      BY <1>8, <3>1, <3>2 DEF Contract!Offered, Contract!Revert
  <2>2. CASE disk.State = "idle"
    <3>1. ~RebootRequired
      BY <1>2, <1>3, <2>2, StateSet, TwoPartitions DEF Copies, RebootRequired
    <3>2. Component.image = ComesBackTo
      BY <2>2 DEF Component
    <3>3. m = Component
      <4>1. m = Fields("idle", version, ComesBackTo, ComesBackTo, Component.init)
        BY Changes
      <4> QED
        BY <2>2, <3>2, <4>1, ComponentFields
    <3> QED
      BY <2>2, <3>1, <3>3, IdleDoesNothing
  <2> QED
    BY <2>1, <2>2
<1> HIDE DEF m
<1>11. /\ Contract!Done(m).module = m
       /\ Contract!Done(m).err = FALSE /\ Contract!Done(m).reboot = FALSE
       /\ Contract!NeedReboot(m).module = m
       /\ Contract!NeedReboot(m).err = FALSE /\ Contract!NeedReboot(m).reboot = TRUE
  BY DEF Contract!Done, Contract!NeedReboot
<1>12. "revert" \in Contract!Methods
  BY DEF Contract!Methods
<1>13. /\ pc # "down" /\ pc # "return" /\ pc' # "down" /\ op' = "revert"
       /\ ret'.err = FALSE /\ ret'.reboot = RebootRequired
       /\ RebootRequired \in BOOLEAN
  BY StateSet DEF RebootRequired
<1> HIDE DEF CleanInv
<1>14. CASE RebootRequired
  BY <1>7, <1>10, <1>11, <1>12, <1>13, <1>14, CallStep
<1>15. CASE ~RebootRequired
  BY <1>7, <1>10, <1>11, <1>12, <1>13, <1>15, CallStep
<1> QED
  BY <1>14, <1>15

\* The state could not be written: only the memory of the module has changed.
LEMMA StateFailsKeeps ==
    ASSUME CleanInv, Clean', SetStateFails
    PROVE  Contract!Call(op)
<1> USE DEF CleanInv
<1>1. /\ pc = "state" /\ pc' = "return" /\ ret'.err = TRUE /\ ret'.reboot = FALSE
      /\ mem' = [mem EXCEPT !.State = NewState]
      /\ UNCHANGED <<disk, version, image, current, part, bootErr, before, op>>
      /\ op # "update"
  BY DEF SetStateFails, Return, Clean, system, update
<1>2. op \in {"prepare", "apply", "revert"}
  BY <1>1 DEF Steps, TypeInv, TypeOK
<1>3. ~Unread /\ ~Unread'
  BY <1>1, <1>2 DEF Steps, Unread
<1>4. Component' = Component
  BY <1>1, <1>3, SameComponent DEF ComesBackTo
<1>5. Contract!Fail(Component) \in Contract!Offered(op, Component) /\ op \in Contract!Methods
  BY <1>2 DEF Contract!Offered, Contract!Prepare, Contract!Apply, Contract!Revert, Contract!Methods
<1> QED
  BY <1>1, <1>4, <1>5, CallStep DEF Contract!Fail

\* The handler takes the result, and the component stays what it is.
LEMMA ReturnedKeeps ==
    ASSUME CleanInv, Clean', Returned
    PROVE  Contract!Take
<1> USE DEF CleanInv
<1>1. /\ pc = "return" /\ pc' \in {"ready", "reboot"}
      /\ UNCHANGED <<disk, version, image, current, part, bootErr, before, mem, op>>
      /\ op \in {"apply", "revert"} => ~ret.err
  BY DEF Returned, Clean, system
<1>2. op \in {"apply", "revert"} => disk.State = "idle"
  BY <1>1 DEF Memory
<1>3. Component' = Component
  BY <1>1, <1>2, SameComponent DEF ComesBackTo, Unread
<1>4. Result.method = op /\ op # "none"
  BY <1>1 DEF Result, Steps
<1>5. Result # Contract!Nothing /\ Result' = Contract!Nothing
  BY <1>1, <1>4 DEF Result, Contract!Nothing
<1> QED
  BY <1>1, <1>3, <1>5 DEF Contract!Take

\* A reboot that cannot be started changes nothing of the component.
LEMMA RebootFailsKeeps ==
    ASSUME CleanInv, RebootFails
    PROVE  UNCHANGED Contract!vars
<1> USE DEF CleanInv
<1>1. /\ pc = "reboot" /\ pc' = "ready"
      /\ UNCHANGED <<disk, version, image, current, part, bootErr, before, mem, op>>
  BY DEF RebootFails, system
<1>2. Component' = Component
  BY <1>1, SameComponent DEF ComesBackTo, Unread
<1> QED
  BY <1>1, <1>2, ResultIs DEF Contract!vars, Result

(***************************************************************************)
(* A boot brings up what the component comes back to, or the image when it *)
(* is installed.                                                           *)
(***************************************************************************)
LEMMA BootKeeps ==
    ASSUME CleanInv, Boot, UNCHANGED <<disk, image, update>>, ~(op = "update" /\ pc = "state")
    PROVE  Contract!Boot
<1> USE DEF CleanInv
<1>1. /\ part' = part /\ current' \in Partitions /\ Good(current') /\ version' = part[current']
      /\ pc' = "down" /\ mem' = ZeroState /\ bootErr' = FALSE
      /\ before' = before
  BY BootsWhere DEF Boot, Die, update
<1>2. current \in Partitions /\ boot.main \in Partitions /\ disk.UpdatePartition \in Partitions
  BY DEF TypeInv, TypeOK, ModuleStates
<1>3. ASSUME disk.State # "updated" PROVE part[current'] = part[current]
  <2>1. Good(current)
    BY <1>3 DEF Copies
  <2>2. CASE boot.main = current /\ boot.next \in {None, current}
    BY <2>1, <2>2, BootsWhere
  <2>3. CASE Mirrored
    BY <1>1, <1>2, <2>3, TwoPartitions DEF Mirrored
  <2> QED
    BY <1>3, <2>2, <2>3 DEF BootsAlike
<1>4. ComesBackTo' = ComesBackTo
  BY <1>1, <1>3 DEF ComesBackTo
<1>5. version' \in Contract!BootVersions(Component)
  <2>1. CASE disk.State # "updated"
    BY <1>1, <1>3, <2>1, ComponentType DEF Contract!BootVersions, ComesBackTo
  <2>2. CASE disk.State = "updated"
    <3>1. current' \in {disk.UpdatePartition, Other(disk.UpdatePartition)}
      BY <1>1, <1>2, TwoPartitions
    <3>2. version' \in {image, before, Unbootable}
      BY <1>1, <2>2, <3>1 DEF ImageKept, Kept
    <3>3. version' # Unbootable
      BY <1>1 DEF Good
    <3>4. version' = before \/ version' = Component.image
      BY <2>2, <3>2, <3>3 DEF Component
    <3>5. Component.phase = "updated" /\ Component.previous = before
      BY <2>2, ComponentType DEF ComesBackTo
    <3> HIDE DEF CleanInv
    <3> QED
      BY <3>4, <3>5 DEF Contract!BootVersions
  <2> QED
    BY <2>1, <2>2
<1>6. PICK v : v = version'
  OBVIOUS
<1>7. Component' = [Component EXCEPT !.version = v, !.init = "ok"]
  <2>1. Component'.init = "ok" /\ Component'.image = Component.image
    BY <1>1, <1>4 DEF Component, Unread
  <2>2. Component' = Fields(disk.State, v, Component.image, ComesBackTo, "ok")
    BY <1>1, <1>4, <1>6, <2>1, ComponentFields
  <2>3. [Component EXCEPT !.version = v, !.init = "ok"] =
           Fields(disk.State, v, Component.image, ComesBackTo, "ok")
    BY BootChanges
  <2> QED
    BY <2>2, <2>3
<1>8. Result' = Contract!Nothing
  BY <1>1 DEF Result, Contract!Nothing
<1> HIDE DEF CleanInv
<1> QED
  BY <1>1, <1>5, <1>6, <1>7, <1>8 DEF Contract!Boot

\* The death of the process only forgets the result of Init().
LEMMA CrashKeeps ==
    ASSUME CleanInv, ProcessCrash
    PROVE  Contract!Exit
<1>1. /\ pc' = "down" /\ bootErr' = FALSE
      /\ UNCHANGED <<disk, version, image, current, part, before>>
  BY DEF ProcessCrash, Die, system, update
<1>2. ComesBackTo' = ComesBackTo
  BY <1>1 DEF ComesBackTo
<1>3. Component' = [Component EXCEPT !.init = "ok"]
  BY <1>1, <1>2 DEF Component, Unread
<1>4. Result' = Contract!Nothing
  BY <1>1 DEF Result, Contract!Nothing
<1> QED
  BY <1>1, <1>3, <1>4 DEF Contract!Exit

-----------------------------------------------------------------------------
(***************************************************************************)
(* Every step without mishaps is a step of the contract, or one the        *)
(* handler cannot tell.                                                    *)
(***************************************************************************)
LEMMA ContractStep ==
    ASSUME CleanInv, Clean', [Next]_vars
    PROVE  [Contract!Next]_(Contract!vars)
<1> SUFFICES Contract!Next \/ UNCHANGED Contract!vars
  OBVIOUS
<1>m. \A method \in Contract!Methods : Contract!Call(method) => Contract!Next
  BY DEF Contract!Next
<1>n. {"prepare", "update", "apply", "revert"} = Contract!Methods
  BY DEF Contract!Methods
<1>1. CASE Start
  BY <1>1, StartKeeps DEF Contract!Next
<1>2. ASSUME NEW v \in Versions, NEW img \in Contents, Prepare(v, img) PROVE Contract!Next
  BY <1>2, <1>m, <1>n, PrepareKeeps
<1>3. CASE Update
  BY <1>3, <1>m, <1>n, UpdateKeeps
<1>4. CASE Revert
  BY <1>4, <1>m, <1>n, RevertKeeps
<1>5. CASE Apply
  BY <1>5, <1>m, <1>n, ApplyKeeps
<1>6. CASE CopyDone \/ MainBootSet
  BY <1>6, CopyKeeps
<1>7. CASE StepFails
  <2>1. op \in Contract!Methods
    BY <1>7, <1>n DEF StepFails, CleanInv, Steps, TypeInv, TypeOK
  <2> QED
    BY <1>7, <1>m, <2>1, FailKeeps
<1>8. CASE SetState
  BY <1>8, <1>m, <1>n, StateSet, PreparedKeeps, UpdatedKeeps, AppliedKeeps, RevertedKeeps
<1>9. CASE SetStateFails
  <2>1. op \in Contract!Methods
    BY <1>9, <1>n DEF SetStateFails, CleanInv, Steps, TypeInv, TypeOK
  <2> QED
    BY <1>9, <1>m, <2>1, StateFailsKeeps
<1>10. CASE Returned
  BY <1>10, ReturnedKeeps DEF Contract!Next
<1>11. CASE Reboot
  BY <1>11, BootKeeps DEF Reboot, Contract!Next
<1>12. CASE RebootFails
  BY <1>12, RebootFailsKeeps
<1>13. CASE PowerCut
  <2>1. ~(op = "update" /\ pc = "state")
    BY <1>13 DEF PowerCut, Torn, Clean
  <2> QED
    BY <1>13, <2>1, BootKeeps DEF PowerCut, Contract!Next
<1>14. CASE ProcessCrash
  BY <1>14, CrashKeeps DEF Contract!Next
<1>15. CASE UNCHANGED vars
  <2>1. Component' = Component /\ Result' = Result /\ pc' = pc
    BY <1>15 DEF vars, system, memory, update, Component, ComesBackTo, Unread, Result
  <2> QED
    BY <2>1 DEF Contract!vars
<1> QED
  BY <1>1, <1>2, <1>3, <1>4, <1>5, <1>6, <1>7, <1>8, <1>9, <1>10, <1>11, <1>12, <1>13, <1>14,
     <1>15 DEF Next, Command, Method

\* A new module is one the contract begins with.
LEMMA ContractInit == Init => Contract!Init
<1> SUFFICES ASSUME Init PROVE Contract!Init
  OBVIOUS
<1>1. /\ disk.State = "idle" /\ version = 0 /\ bootErr = FALSE /\ pc = "ready"
      /\ part[current] = 0
  BY TwoPartitions DEF Init, ZeroState, Partitions
<1>2. Component = Contract!Factory
  BY <1>1 DEF Component, ComesBackTo, Unread, Contract!Factory, Contract!InitialVersion
<1> QED
  BY <1>1, <1>2, ResultIs DEF Contract!Init

\* What is known without mishaps is an invariant.
LEMMA CleanInvAlways == Spec => [](Clean => CleanInv)
<1>1. Init => ImageKept /\ Requests
  BY DEF Init, ImageKept, Requests, Accepted, ZeroState
<1>2. DualInv /\ (Clean => ImageKept /\ Requests) /\ DualInv' /\ [Next]_vars
        => (Clean => ImageKept /\ Requests)'
  <2> SUFFICES ASSUME DualInv, Clean => ImageKept /\ Requests, DualInv', [Next]_vars, Clean'
               PROVE  ImageKept' /\ Requests'
    OBVIOUS
  <2>1. Clean /\ Calm
    BY CleanBefore DEF Clean, Calm
  <2>2. CleanInv /\ TypeInv'
    BY <2>1 DEF DualInv, CleanInv
  <2> QED
    BY <2>2, ImageStep
<1>3. DualInv /\ (Clean => ImageKept /\ Requests) => (Clean => CleanInv)
  BY DEF DualInv, CleanInv, Clean, Calm
<1> QED
  BY <1>1, <1>2, <1>3, DualInvAlways, PTL DEF Spec

(***************************************************************************)
(* The dual partition module implements the contract the update handler is *)
(* verified against, for any number of versions and of faults: as long as  *)
(* none of the mishaps has happened, every step is one of the contract.    *)
(***************************************************************************)
THEOREM DualKeepsContract == Spec => KeepsContract
<1>1. (Clean => CleanInv) /\ [Next]_vars
        => [mishaps' = {} => [Contract!Next]_(Contract!vars)]_vars
  <2> SUFFICES ASSUME Clean => CleanInv, [Next]_vars, mishaps' = {}
               PROVE  [Contract!Next]_(Contract!vars)
    OBVIOUS
  <2>1. Clean' /\ CleanInv
    BY CleanBefore DEF Clean
  <2> QED
    BY <2>1, ContractStep
<1> QED
  BY <1>1, ContractInit, CleanInvAlways, PTL DEF Spec, KeepsContract
=============================================================================
