---------------------------- MODULE EfiBootOrder ----------------------------
(***************************************************************************)
(* The EFI boot controller (eficontroller.go) on the boot variables of the *)
(* firmware (efi.go): New() looks the boot entry of each partition up,     *)
(* creates the missing ones and puts the partitions first in BootOrder;    *)
(* SetMainBoot() writes BootNext and SetBootOK() makes the current entry   *)
(* the first.  Each write of a variable is a step: it may fail, the        *)
(* process may end and power may be cut between any two of them.           *)
(*                                                                         *)
(* The firmware is not part of the repository: it boots BootNext once,     *)
(* else the first entry of BootOrder that works.  BootOrder names existing *)
(* entries; it has no value when the variable does not exist.              *)
(***************************************************************************)
EXTENDS Integers, SequencesExt, FiniteSetsExt

CONSTANTS
    PartCount,  \* the number of partitions of the module
    OldIds      \* bound: the numbers of the entries there are at first, 0 .. OldIds - 1

Partitions == 0 .. PartCount - 1

\* New() creates at most one entry for each partition.
Ids == 0 .. OldIds + PartCount - 1

NoId == -1
NoPart == -1

\* What an entry boots that is not a partition of the module, and no entry.
Foreign == -2
NoEntry == -3

VARIABLES
    entry,        \* Boot####: the partition each entry boots, Foreign or NoEntry
    bootOrder,    \* BootOrder
    bootNext,     \* BootNext, or NoId
    bootCurrent,  \* BootCurrent
    pc,           \* the step of New() to be taken next, "ready" once it has returned
    items,        \* controller.bootItems: the entry of each partition, by index
    known,        \* instance.bootItems: the entries read, or created since
    created       \* the entry that is not yet in BootOrder, or NoId

firmware == <<entry, bootOrder, bootNext, bootCurrent>>
vars == <<firmware, pc, items, known, created>>

Existing == {id \in Ids : entry[id] # NoEntry}

\* The entry GetBootByPartUUID() finds for partition p among those in S, the lowest one.
Matching(p, S) == {id \in S : entry[id] = p}

Init ==
    /\ entry \in [Ids -> Partitions \cup {Foreign, NoEntry}]
    /\ Existing \subseteq 0 .. OldIds - 1
    /\ bootOrder \in BoundedSeq(Existing, OldIds)
    /\ bootNext = NoId
    /\ bootCurrent \in Existing
    /\ pc = "down"
    /\ items = <<>>
    /\ known = {}
    /\ created = NoId

-----------------------------------------------------------------------------
(***************************************************************************)
(* The process ends, also when New() panics or returns an error as it does *)
(* when a variable cannot be read or written; the system starts it again.  *)
(***************************************************************************)
Die(how) ==
    /\ pc' = how
    /\ items' = <<>>
    /\ known' = {}
    /\ created' = NoId

Exit == pc # "down" /\ Die("down") /\ UNCHANGED firmware

\* efi.New() reads the boot entries.
New ==
    /\ pc \in {"down", "panicked"}
    /\ pc' = "find"
    /\ known' = Existing
    /\ UNCHANGED <<firmware, items, created>>

\* Mutant of findFreeNum: the number of the first entry is taken.
FirstNum == IF known = {} THEN 0 ELSE Min(known)

\* The first number that is free, counted from the lowest that is not.
findFreeNum ==
    IF known = {} THEN 0
    ELSE Min({n \in Min(known) .. Max(known) + 1 : n \notin known})

AddItem(id) ==
    /\ items' = Append(items, id)
    /\ pc' = IF Len(items') = PartCount THEN "check" ELSE "find"

\* The next partition has an entry.
FindEntry ==
    /\ pc = "find"
    /\ Matching(Len(items), known) # {}
    /\ AddItem(Min(Matching(Len(items), known)))
    /\ UNCHANGED <<firmware, known, created>>

\* Mutant of CreateEntry: the entry is not written.
OnlyInOrder ==
    /\ pc = "find"
    /\ Matching(Len(items), known) = {}
    /\ created' = findFreeNum
    /\ pc' = "append"
    /\ UNCHANGED <<firmware, items, known>>

\* CreateBootEntry writes the new entry first, and then BootOrder.
CreateEntry ==
    /\ pc = "find"
    /\ Matching(Len(items), known) = {}
    /\ entry' = [entry EXCEPT ![findFreeNum] = Len(items)]
    /\ created' = findFreeNum
    /\ pc' = "append"
    /\ UNCHANGED <<bootOrder, bootNext, bootCurrent, items, known>>

\* GetBootOrder() fails when there is no BootOrder.
AppendToOrder ==
    /\ pc = "append"
    /\ bootOrder # <<>>
    /\ bootOrder' = Append(bootOrder, created)
    /\ known' = known \cup {created}
    /\ created' = NoId
    /\ AddItem(created)
    /\ UNCHANGED <<entry, bootNext, bootCurrent>>

-----------------------------------------------------------------------------
appendIfNotExist(slice, item) == IF Contains(slice, item) THEN slice ELSE Append(slice, item)

\* Those of seq that are in S are appended, in their order.
appendItems(slice, seq, S) ==
    FoldLeft(LAMBDA s, id : IF id \in S THEN appendIfNotExist(s, id) ELSE s, slice, seq)

\* Mutant of NewBootOrder: what is not a partition stays before it.
AppendMissing(order, its) == appendItems(<<>>, order \o its, ToSet(order) \cup ToSet(its))

\* The partitions in the order they are in, those that are missing, all others.
NewBootOrder(order, its) ==
    LET parts  == appendItems(<<>>, order, ToSet(its))
        others == appendItems(<<>>, order, ToSet(order) \ ToSet(its))
    IN  appendItems(parts, its, ToSet(its)) \o others

(***************************************************************************)
(* The comparison of the new order with the old one runs over the new one: *)
(* it stops at a difference, and reads past the end of the old order when  *)
(* it meets none before (line 276).                                        *)
(***************************************************************************)
\* Mutant of Differs: only the first entries are compared.
FirstDiffers(new, old) == new # <<>> /\ old # <<>> /\ new[1] # old[1]

Differs(new, old) == \E i \in 1 .. Min({Len(new), Len(old)}) : new[i] # old[i]

Panics(new, old) == ~Differs(new, old) /\ Len(new) > Len(old)

checkBootOrder ==
    /\ pc = "check"
    /\ bootOrder # <<>>
    /\ LET new == NewBootOrder(bootOrder, items)
       IN  IF Panics(new, bootOrder)
           THEN Die("panicked") /\ UNCHANGED firmware
           ELSE /\ bootOrder' = IF Differs(new, bootOrder) THEN new ELSE bootOrder
                /\ pc' = "ready"
                /\ UNCHANGED <<entry, bootNext, bootCurrent, items, known, created>>

-----------------------------------------------------------------------------
\* An entry that is not one of the items is treated as partition 0.
GetCurrentBoot ==
    IF Contains(items, bootCurrent) THEN SelectInSeq(items, LAMBDA id : id = bootCurrent) - 1
    ELSE 0

SetMainBoot(p) ==
    /\ pc = "ready"
    /\ bootNext' = items[p + 1]
    /\ UNCHANGED <<entry, bootOrder, bootCurrent, pc, items, known, created>>

Swapped(i) == [bootOrder EXCEPT ![1] = bootOrder[i], ![i] = bootOrder[1]]

\* Nothing is done for an entry that is no partition, or that is first already.
SetBootOK ==
    /\ pc = "ready"
    /\ Contains(items, bootCurrent)
    /\ Contains(bootOrder, bootCurrent)
    /\ bootOrder' = Swapped(SelectInSeq(bootOrder, LAMBDA id : id = bootCurrent))
    /\ UNCHANGED <<entry, bootNext, bootCurrent, pc, items, known, created>>

\* The firmware, whenever power comes back: the entries in broken do not boot.
Boot(broken) ==
    LET tried == SelectInSeq(<<bootNext>> \o bootOrder, LAMBDA id : id \in Existing \ broken)
    IN  /\ tried # 0
        /\ bootCurrent' = (<<bootNext>> \o bootOrder)[tried]
        /\ bootNext' = NoId
        /\ Die("down")
        /\ UNCHANGED <<entry, bootOrder>>

Next ==
    \/ New \/ FindEntry \/ CreateEntry \/ AppendToOrder \/ checkBootOrder
    \/ SetBootOK
    \/ \E p \in Partitions : SetMainBoot(p)
    \/ \E broken \in SUBSET Existing : Boot(broken)
    \/ Exit

Spec == Init /\ [][Next]_vars

-----------------------------------------------------------------------------
\* The partition an entry stands for: only the first entry of a partition does.
PartOf(id) ==
    IF id \in Existing /\ entry[id] \in Partitions /\ id = Min(Matching(entry[id], Existing))
    THEN entry[id] ELSE NoPart

MainPart ==
    LET first == SelectInSeq(bootOrder, LAMBDA id : PartOf(id) # NoPart)
    IN  IF first = 0 THEN NoPart ELSE PartOf(bootOrder[first])

Control == INSTANCE BootControl WITH
    main    <- MainPart,
    next    <- PartOf(bootNext),
    running <- PartOf(bootCurrent),
    pending <- {}

(***************************************************************************)
(* The controller implements the boot control: neither the entries New()   *)
(* creates nor the order it writes, interrupted anywhere, change the main  *)
(* partition; only SetBootOK() does (checkPartitions, checkBootOrder).     *)
(***************************************************************************)
ImplementsControl == Control!Spec

\* Every variable has its type.
TypeOK ==
    /\ entry \in [Ids -> Partitions \cup {Foreign, NoEntry}]
    /\ bootOrder \in Seq(Existing)
    /\ bootNext \in Existing \cup {NoId}
    /\ bootCurrent \in Existing
    /\ pc \in {"down", "find", "append", "check", "ready", "panicked"}
    /\ items \in Seq(Existing)
    /\ known \subseteq Existing
    /\ created \in Ids \cup {NoId}

(***************************************************************************)
(* Once New() has returned, BootOrder begins with the partitions, all of   *)
(* them: when the main one does not boot, the firmware goes on to another  *)
(* partition of the module and to nothing else, which is what the dual     *)
(* partition module falls back to (checkBootOrder, SetBootOK).             *)
(***************************************************************************)
PartitionsFirst ==
    pc = "ready" =>
        /\ Len(bootOrder) >= PartCount
        /\ {PartOf(bootOrder[i]) : i \in 1 .. PartCount} = Partitions

(***************************************************************************)
(* The order New() computes, against what it is for: it loses and repeats  *)
(* no entry, the partitions are first, and entries of the same kind stay   *)
(* in the order they were in, missing partitions last (checkBootOrder).    *)
(***************************************************************************)
Position(seq, id) == SelectInSeq(seq, LAMBDA x : x = id)

NewOrderIsRight ==
    pc = "check" =>
        LET new == NewBootOrder(bootOrder, items)
        IN  /\ IsInjective(new)
            /\ ToSet(new) = ToSet(bootOrder) \cup ToSet(items)
            /\ \A i, j \in DOMAIN new : i < j =>
                /\ Contains(items, new[j]) => Contains(items, new[i])
                /\ (Contains(items, new[i]) <=> Contains(items, new[j]))
                   /\ Contains(bootOrder, new[j])
                   => Position(bootOrder, new[i]) \in 1 .. Position(bootOrder, new[j])

(***************************************************************************)
(* The controller only panics on a BootOrder of partitions alone, not all  *)
(* of them: any other entry in it, or a partition out of place, makes the  *)
(* comparison stop in time.  An entry written by a New() that was cut off  *)
(* before BootOrder leads there (checkBootOrder, CreateBootEntry).         *)
(***************************************************************************)
PanicsWithoutOthers ==
    pc = "panicked" =>
        /\ \A i \in DOMAIN bootOrder : PartOf(bootOrder[i]) # NoPart
        /\ {PartOf(bootOrder[i]) : i \in DOMAIN bootOrder} # Partitions

(***************************************************************************)
(* The partition GetCurrentBoot() tells is the one that was booted, unless *)
(* the system came up by an entry the controller does not use: a foreign   *)
(* one, or a second entry of a partition (GetBootByPartUUID).              *)
(***************************************************************************)
CurrentIsBooted ==
    pc = "ready" /\ PartOf(bootCurrent) # NoPart => GetCurrentBoot = entry[bootCurrent]
=============================================================================
