------------------------ MODULE BootControllersProofs -----------------------
(***************************************************************************)
(* What is proved of each boot controller alone holds of the controller a  *)
(* system has, whichever it is: the other one leaves its variables alone.  *)
(***************************************************************************)
EXTENDS BootControllers, TLAPS

UbootProofs == INSTANCE UbootEnvProofs

EfiProofs == INSTANCE EfiBootOrderProofs WITH pc <- step

\* The two instances of the U-Boot controller are one.
LEMMA SameUbootInit == Uboot!Init => UbootProofs!Init
BY DEF Uboot!Init, UbootProofs!Init, Uboot!Env, UbootProofs!Env, Uboot!Empty,
        UbootProofs!Empty, Uboot!Absent, UbootProofs!Absent, Uboot!NoPart,
        UbootProofs!NoPart, Uboot!Partitions, UbootProofs!Partitions, Uboot!Methods,
        UbootProofs!Methods

\* Nor do their steps differ.
LEMMA SameUbootNext == [Uboot!Next]_ubootVars => [UbootProofs!Next]_UbootProofs!vars
BY DEF ubootVars, Uboot!Next, UbootProofs!Next, Uboot!Method, UbootProofs!Method, Uboot!GetVar,
        UbootProofs!GetVar, Uboot!SetBootOK, UbootProofs!SetBootOK, Uboot!SetMainBoot,
        UbootProofs!SetMainBoot, Uboot!Call, UbootProofs!Call, Uboot!Go, UbootProofs!Go,
        Uboot!getEnv, UbootProofs!getEnv, Uboot!loadEnv, UbootProofs!loadEnv,
        Uboot!setVar, UbootProofs!setVar, Uboot!saveEnv, UbootProofs!saveEnv,
        Uboot!mountEnv, UbootProofs!mountEnv, Uboot!mountFails, UbootProofs!mountFails,
        Uboot!Truncate, UbootProofs!Truncate, Uboot!Misplace, UbootProofs!Misplace,
        Uboot!Write, UbootProofs!Write, Uboot!WriteFails, UbootProofs!WriteFails,
        Uboot!Fire, UbootProofs!Fire, Uboot!Expire, UbootProofs!Expire, Uboot!Close,
        UbootProofs!Close, Uboot!removeAll, UbootProofs!removeAll, Uboot!unmount,
        UbootProofs!unmount, Uboot!Flush, UbootProofs!Flush, Uboot!Restart,
        UbootProofs!Restart, Uboot!Forget, UbootProofs!Forget, Uboot!Boot,
        UbootProofs!Boot, Uboot!Survivors, UbootProofs!Survivors, Uboot!device,
        UbootProofs!device, Uboot!mount, UbootProofs!mount, Uboot!call, UbootProofs!call,
        Uboot!DefaultEnv, UbootProofs!DefaultEnv, Uboot!Env, UbootProofs!Env, Uboot!Empty,
        UbootProofs!Empty, Uboot!Absent, UbootProofs!Absent, Uboot!NoPart,
        UbootProofs!NoPart, Uboot!Partitions, UbootProofs!Partitions, Uboot!vars,
        UbootProofs!vars

\* A step of a system with either controller is one of the U-Boot controller, or none.
LEMMA UbootInside ==
    /\ Init => UbootProofs!Init
    /\ [Next]_vars => [UbootProofs!Next]_UbootProofs!vars
<1>1. Init => Uboot!Init
    BY DEF Init, NoUboot
<1>2. [Next]_vars => [Uboot!Next]_ubootVars
    BY DEF Next, EfiNext, UbootNext, vars
<1> QED
    BY <1>1, <1>2, SameUbootInit, SameUbootNext

\* The U-Boot controller's invariant holds of a system with either controller.
LEMMA UbootInvariant == Spec => []UbootProofs!IInv
<1>1. Init => UbootProofs!IInv
    BY UbootInside, UbootProofs!InitIInv
<1>2. UbootProofs!IInv /\ [Next]_vars => UbootProofs!IInv'
    BY ControllersAssumption, UbootInside, UbootProofs!NextIInv
<1> QED
    BY <1>1, <1>2, PTL DEF Spec

-----------------------------------------------------------------------------
\* appendItems() of the two instances of the EFI controller is one.
LEMMA SameAppend ==
    \A slice, seq, S : Efi!appendItems(slice, seq, S) = EfiProofs!appendItems(slice, seq, S)
BY DEF Efi!appendItems, EfiProofs!appendItems, Efi!FoldLeft, EfiProofs!FoldLeft,
        Efi!MapThenFoldSet, EfiProofs!MapThenFoldSet, Efi!appendIfNotExist,
        EfiProofs!appendIfNotExist, Efi!Contains, EfiProofs!Contains, Efi!Max, EfiProofs!Max

\* So are the other operators.
LEMMA SameEfi ==
    /\ \A S : Efi!Min(S) = EfiProofs!Min(S)
    /\ Efi!Ids = EfiProofs!Ids /\ Efi!Partitions = EfiProofs!Partitions
    /\ Efi!Existing = EfiProofs!Existing
    /\ \A p, S : Efi!Matching(p, S) = EfiProofs!Matching(p, S)
    /\ \A id : Efi!PartOf(id) = EfiProofs!PartOf(id)
    /\ \A seq, x : Efi!Contains(seq, x) = EfiProofs!Contains(seq, x)
    /\ \A order, its : Efi!NewBootOrder(order, its) = EfiProofs!NewBootOrder(order, its)
    /\ Efi!findFreeNum = EfiProofs!findFreeNum
<1>1. \A S : Efi!Min(S) = EfiProofs!Min(S)
    BY DEF Efi!Min, EfiProofs!Min
<1>2. Efi!Ids = EfiProofs!Ids /\ Efi!Partitions = EfiProofs!Partitions
    BY DEF Efi!Ids, EfiProofs!Ids, Efi!Partitions, EfiProofs!Partitions
<1>3. Efi!Existing = EfiProofs!Existing
    BY <1>2 DEF Efi!Existing, EfiProofs!Existing, Efi!NoEntry, EfiProofs!NoEntry
<1>4. \A p, S : Efi!Matching(p, S) = EfiProofs!Matching(p, S)
    BY DEF Efi!Matching, EfiProofs!Matching
<1>5. \A id : Efi!PartOf(id) = EfiProofs!PartOf(id)
    BY <1>1, <1>2, <1>3, <1>4 DEF Efi!PartOf, EfiProofs!PartOf, Efi!NoPart, EfiProofs!NoPart
<1>6. \A seq, x : Efi!Contains(seq, x) = EfiProofs!Contains(seq, x)
    BY DEF Efi!Contains, EfiProofs!Contains
<1>7. \A order, its : Efi!NewBootOrder(order, its) = EfiProofs!NewBootOrder(order, its)
    BY SameAppend DEF Efi!NewBootOrder, EfiProofs!NewBootOrder, Efi!ToSet, EfiProofs!ToSet
<1>8. Efi!findFreeNum = EfiProofs!findFreeNum
    BY DEF Efi!findFreeNum, EfiProofs!findFreeNum, Efi!Min, EfiProofs!Min, Efi!Max, EfiProofs!Max
<1> QED
    BY <1>1, <1>2, <1>3, <1>4, <1>5, <1>6, <1>7, <1>8

\* The two instances of the EFI controller begin alike.
LEMMA SameEfiInit == Efi!Init => EfiProofs!Init
BY SameEfi DEF Efi!Init, EfiProofs!Init, Efi!NoId, EfiProofs!NoId, Efi!Foreign, EfiProofs!Foreign,
        Efi!NoEntry, EfiProofs!NoEntry, Efi!BoundedSeq, EfiProofs!BoundedSeq, Efi!SeqOf, EfiProofs!SeqOf

\* Nor do their steps differ.
LEMMA SameEfiNext == [Efi!Next]_efiVars => [EfiProofs!Next]_EfiProofs!vars
<1> USE DEF EfiProofs!vars, EfiProofs!firmware, Efi!vars, Efi!firmware, efiVars, Efi!NoId, EfiProofs!NoId,
        Efi!Die, EfiProofs!Die, Efi!AddItem, EfiProofs!AddItem
<1>1. Efi!New => EfiProofs!New
    BY SameEfi DEF Efi!New, EfiProofs!New
<1>2. Efi!FindEntry => EfiProofs!FindEntry
    BY SameEfi DEF Efi!FindEntry, EfiProofs!FindEntry
<1>3. Efi!CreateEntry => EfiProofs!CreateEntry
    BY SameEfi DEF Efi!CreateEntry, EfiProofs!CreateEntry
<1>4. Efi!AppendToOrder => EfiProofs!AppendToOrder
    BY SameEfi DEF Efi!AppendToOrder, EfiProofs!AppendToOrder
<1>5. Efi!checkBootOrder => EfiProofs!checkBootOrder
    BY SameEfi DEF Efi!checkBootOrder, EfiProofs!checkBootOrder, Efi!Panics, EfiProofs!Panics,
        Efi!Differs, EfiProofs!Differs
<1>6. Efi!SetBootOK => EfiProofs!SetBootOK
    BY SameEfi DEF Efi!SetBootOK, EfiProofs!SetBootOK, Efi!Swapped, EfiProofs!Swapped,
        Efi!SelectInSeq, EfiProofs!SelectInSeq
<1>7. ASSUME NEW p, Efi!SetMainBoot(p) PROVE EfiProofs!SetMainBoot(p)
    BY <1>7 DEF Efi!SetMainBoot, EfiProofs!SetMainBoot
<1>8. ASSUME NEW broken, Efi!Boot(broken) PROVE EfiProofs!Boot(broken)
    BY <1>8, SameEfi DEF Efi!Boot, EfiProofs!Boot, Efi!SelectInSeq, EfiProofs!SelectInSeq
<1>9. Efi!Exit => EfiProofs!Exit
    BY DEF Efi!Exit, EfiProofs!Exit
<1> QED
    BY <1>1, <1>2, <1>3, <1>4, <1>5, <1>6, <1>7, <1>8, <1>9, SameEfi DEF Efi!Next, EfiProofs!Next

\* A step of a system with the EFI controller is one of that controller; else it stays as it is.
LEMMA EfiInside ==
    /\ Init => kind \in {"efi", "uboot"} /\ (kind = "efi" => EfiProofs!Init)
    /\ [Next]_vars => kind' = kind
    /\ [Next]_vars => (kind = "efi" => [EfiProofs!Next]_EfiProofs!vars)
    /\ [Next]_vars => (kind # "efi" => UNCHANGED efiVars)
<1>1. Init => kind \in {"efi", "uboot"} /\ (kind = "efi" => Efi!Init)
    BY DEF Init
<1>2. [Next]_vars => kind' = kind /\ [Efi!Next]_efiVars /\ (kind # "efi" => UNCHANGED efiVars)
    BY DEF Next, EfiNext, UbootNext, vars
<1> QED
    BY <1>1, <1>2, SameEfiInit, SameEfiNext

\* Of the EFI controller something is only known when it is there.
EfiInv == kind \in {"efi", "uboot"} /\ (kind = "efi" => EfiProofs!IInv)

\* The EFI controller's invariant holds of a system that has it.
LEMMA EfiInvariant == Spec => []EfiInv
<1> USE ControllersAssumption DEF EfiInv
<1>1. Init => EfiInv
    BY EfiInside, EfiProofs!InitIInv
<1>2. EfiInv /\ [Next]_vars => EfiInv'
    BY EfiInside, EfiProofs!NextIInv
<1> QED
    BY <1>1, <1>2, PTL DEF Spec
-----------------------------------------------------------------------------
\* The properties of the two instances are the same.
LEMMA EfiProperties ==
    /\ EfiProofs!TypeOK <=> Efi!TypeOK
    /\ EfiProofs!PartitionsFirst <=> Efi!PartitionsFirst
    /\ EfiProofs!NewOrderIsRight => Efi!NewOrderIsRight
    /\ EfiProofs!PanicsWithoutOthers <=> Efi!PanicsWithoutOthers
    /\ EfiProofs!CurrentIsBooted <=> Efi!CurrentIsBooted
<1>1. EfiProofs!TypeOK <=> Efi!TypeOK
    BY SameEfi DEF EfiProofs!TypeOK, Efi!TypeOK, Efi!NoId, EfiProofs!NoId, Efi!Foreign,
        EfiProofs!Foreign, Efi!NoEntry, EfiProofs!NoEntry
<1>2. EfiProofs!PartitionsFirst <=> Efi!PartitionsFirst
    BY SameEfi DEF EfiProofs!PartitionsFirst, Efi!PartitionsFirst
<1>3. EfiProofs!PanicsWithoutOthers <=> Efi!PanicsWithoutOthers
    BY SameEfi DEF EfiProofs!PanicsWithoutOthers, Efi!PanicsWithoutOthers, Efi!NoPart, EfiProofs!NoPart
<1>4. EfiProofs!CurrentIsBooted <=> Efi!CurrentIsBooted
    BY SameEfi DEF EfiProofs!CurrentIsBooted, Efi!CurrentIsBooted, Efi!NoPart, EfiProofs!NoPart,
        Efi!GetCurrentBoot, EfiProofs!GetCurrentBoot, Efi!SelectInSeq, EfiProofs!SelectInSeq
<1>5. EfiProofs!NewOrderIsRight => Efi!NewOrderIsRight
    <2>1. \A seq, id : Efi!Position(seq, id) = EfiProofs!Position(seq, id)
        BY SameEfi DEF Efi!Position, EfiProofs!Position, Efi!SelectInSeq, EfiProofs!SelectInSeq
    <2> QED
        BY <2>1, SameEfi DEF EfiProofs!NewOrderIsRight, Efi!NewOrderIsRight, Efi!ToSet, EfiProofs!ToSet,
            Efi!IsInjective, EfiProofs!IsInjective
<1> QED
    BY <1>1, <1>2, <1>3, <1>4, <1>5

\* What the boot control sees of either instance.
SameView ==
    /\ Efi!MainPart = EfiProofs!MainPart
    /\ Efi!PartOf(bootNext) = EfiProofs!PartOf(bootNext)
    /\ Efi!PartOf(bootCurrent) = EfiProofs!PartOf(bootCurrent)

\* It is the same.
LEMMA SameViews == SameView
BY SameEfi DEF SameView, Efi!MainPart, EfiProofs!MainPart, Efi!NoPart, EfiProofs!NoPart,
    Efi!SelectInSeq, EfiProofs!SelectInSeq

\* The same of the next state.
LEMMA SameViewsNext == SameView'
BY SameViews, PTL

EfiView == <<Efi!MainPart, Efi!PartOf(bootNext), Efi!PartOf(bootCurrent), {}>>

EfiProofsView ==
    <<EfiProofs!MainPart, EfiProofs!PartOf(bootNext), EfiProofs!PartOf(bootCurrent), {}>>

\* The boot control the two instances map to begins alike.
LEMMA SameEfiControlInit == EfiProofs!Control!Init => Efi!Control!Init
BY SameEfi, SameViews DEF SameView, EfiProofs!Control!Init, Efi!Control!Init,
        EfiProofs!Control!TypeOK, Efi!Control!TypeOK, Efi!Control!NoPart,
        EfiProofs!Control!NoPart

\* Nor do its steps differ.
LEMMA SameEfiControlNext ==
    [EfiProofs!Control!Next]_EfiProofsView => [Efi!Control!Next]_EfiView
BY SameEfi, SameViews, SameViewsNext DEF EfiView, EfiProofsView, SameView,
        EfiProofs!Control!Next, Efi!Control!Next, Efi!Control!NoPart,
        EfiProofs!Control!NoPart, Efi!Control!Ask, EfiProofs!Control!Ask,
        Efi!Control!Once, EfiProofs!Control!Once, Efi!Control!Take,
        EfiProofs!Control!Take, Efi!Control!Confirm, EfiProofs!Control!Confirm,
        Efi!Control!Adopt, EfiProofs!Control!Adopt, Efi!Control!Lose,
        EfiProofs!Control!Lose, Efi!Control!Default, EfiProofs!Control!Default,
        Efi!Control!Restart, EfiProofs!Control!Restart, Efi!Control!Boot,
        EfiProofs!Control!Boot, Efi!Control!Forget, EfiProofs!Control!Forget

\* Without an EFI controller no partition is the main one, and none ever becomes it.
LEMMA NoEfiControl == NoEfi => Efi!Control!Init
<1> SUFFICES ASSUME NoEfi PROVE Efi!Control!Init
    OBVIOUS
<1>1. Efi!MainPart = Efi!NoPart
    BY DEF NoEfi, Efi!MainPart, Efi!SelectInSeq
<1>2. Efi!PartOf(bootNext) = Efi!NoPart
    BY ControllersAssumption
    DEF NoEfi, Efi!PartOf, Efi!Existing, Efi!Ids, Efi!NoId
<1>3. Efi!PartOf(bootCurrent) \in Efi!Partitions \cup {Efi!NoPart}
    BY DEF Efi!PartOf
<1> QED
    BY <1>1, <1>2, <1>3
    DEF Efi!Control!Init, Efi!Control!TypeOK, Efi!NoPart, Efi!Control!NoPart

\* The steps of a system as steps of the boot control, by the EFI controller.
LEMMA EfiControl ==
    /\ Init => Efi!Control!Init
    /\ EfiInv /\ EfiInv' /\ [Next]_vars => [Efi!Control!Next]_EfiView
<1> USE ControllersAssumption
<1>1. ASSUME Init PROVE Efi!Control!Init
    <2>1. EfiProofs!Init => EfiProofs!Control!Init
        BY EfiProofs!InitControl
    <2> QED
        BY <1>1, <2>1, EfiInside, SameEfiControlInit, NoEfiControl DEF Init
<1>2. ASSUME EfiInv, EfiInv', [Next]_vars PROVE [Efi!Control!Next]_EfiView
    <2>1. CASE kind = "efi"
        <3>1. EfiProofs!IInv /\ EfiProofs!IInv' /\ [EfiProofs!Next]_EfiProofs!vars
            BY <1>2, <2>1, EfiInside DEF EfiInv
        <3>2. [EfiProofs!Control!Next]_EfiProofsView
            BY <3>1, EfiProofs!NextControl DEF EfiProofsView
        <3> QED
            BY <3>2, SameEfiControlNext
    <2>2. CASE kind # "efi"
        <3>1. UNCHANGED efiVars
            BY <1>2, <2>2, EfiInside
        <3>2. UNCHANGED EfiView
            BY <3>1 DEF efiVars, EfiView, Efi!MainPart, Efi!PartOf, Efi!Existing,
                Efi!Matching, Efi!SelectInSeq
        <3> QED
            BY <3>2
    <2> QED
        BY <2>1, <2>2
<1> QED
    BY <1>1, <1>2

\* What the boot control sees of the U-Boot controller.
UbootView ==
    <<Uboot!MainOf(file), Uboot!NoPart, booted,
      {Uboot!MainOf(cfg), Uboot!MainOf(disk)} \ {Uboot!NoPart}>>

UbootProofsView ==
    <<UbootProofs!Main, UbootProofs!NoPart, booted, UbootProofs!Pending>>

\* The boot control the two instances map to is one.
LEMMA SameUbootControl ==
    /\ UbootProofs!Control!Init => Uboot!Control!Init
    /\ [UbootProofs!Control!Next]_UbootProofsView => [Uboot!Control!Next]_UbootView
BY DEF UbootView, UbootProofsView, UbootProofs!Main, UbootProofs!Pending,
        Uboot!MainOf, UbootProofs!MainOf, Uboot!Partitions, UbootProofs!Partitions,
        Uboot!NoPart, UbootProofs!NoPart, UbootProofs!Control!Init, Uboot!Control!Init,
        UbootProofs!Control!TypeOK, Uboot!Control!TypeOK,
        UbootProofs!Control!Next, Uboot!Control!Next, Uboot!Control!NoPart,
        UbootProofs!Control!NoPart, Uboot!Control!Ask, UbootProofs!Control!Ask,
        Uboot!Control!Once, UbootProofs!Control!Once, Uboot!Control!Take,
        UbootProofs!Control!Take, Uboot!Control!Confirm, UbootProofs!Control!Confirm,
        Uboot!Control!Adopt, UbootProofs!Control!Adopt, Uboot!Control!Lose,
        UbootProofs!Control!Lose, Uboot!Control!Default, UbootProofs!Control!Default,
        Uboot!Control!Restart, UbootProofs!Control!Restart, Uboot!Control!Boot,
        UbootProofs!Control!Boot, Uboot!Control!Forget, UbootProofs!Control!Forget

\* The same by the U-Boot controller.
LEMMA UbootControl ==
    /\ Init => Uboot!Control!Init
    /\ UbootProofs!IInv /\ [Next]_vars => [Uboot!Control!Next]_UbootView
<1>1. Init => UbootProofs!Control!Init
    BY UbootInside, UbootProofs!InitControl
<1>2. UbootProofs!IInv /\ [Next]_vars => [UbootProofs!Control!Next]_UbootProofsView
    BY ControllersAssumption, UbootInside, UbootProofs!NextControl DEF UbootProofsView
<1> QED
    BY <1>1, <1>2, SameUbootControl
-----------------------------------------------------------------------------
(***************************************************************************)
(* What the U-Boot controller keeps in memory is in the file, unless a     *)
(* save failed or the file was lost, in a system with either controller,   *)
(* for any number of partitions (getVar, saveEnv, umountEnv).              *)
(***************************************************************************)
THEOREM CacheIsFileAlways == Spec => []CacheIsFile
<1>1. UbootProofs!IInv => CacheIsFile
    BY DEF UbootProofs!IInv, UbootProofs!Cached, UbootProofs!Absent, CacheIsFile,
        Uboot!CacheIsFile, Uboot!Absent
<1> QED
    BY <1>1, UbootInvariant, PTL

(***************************************************************************)
(* Every variable of the controller a system has keeps its type.           *)
(***************************************************************************)
THEOREM TypeCorrect == Spec => []TypeOK
<1>1. UbootProofs!IInv => Uboot!TypeOK
    BY DEF UbootProofs!IInv, UbootProofs!TypeOK, Uboot!TypeOK, Uboot!Env,
        UbootProofs!Env, Uboot!Absent, UbootProofs!Absent, Uboot!NoPart,
        UbootProofs!NoPart, Uboot!Partitions, UbootProofs!Partitions, Uboot!Methods,
        UbootProofs!Methods
<1>2. EfiInv => kind \in {"efi", "uboot"} /\ (kind = "efi" => Efi!TypeOK)
    BY EfiProperties DEF EfiInv, EfiProofs!IInv
<1>3. EfiInv /\ UbootProofs!IInv => TypeOK
    BY <1>1, <1>2 DEF TypeOK
<1> QED
    BY <1>3, EfiInvariant, UbootInvariant, PTL

(***************************************************************************)
(* Either controller implements the boot control, for any number of        *)
(* partitions and of boot entries: the main partition is one confirmed or  *)
(* asked for, however the methods are interrupted (eficontroller.go,       *)
(* ubootcontroller.go, StateController of dualpartmodule.go).              *)
(***************************************************************************)
THEOREM ControllersImplementControl == Spec => ImplementsControl
<1>1. Spec => Efi!ImplementsControl
    BY EfiControl, EfiInvariant, PTL
    DEF Spec, Efi!ImplementsControl, Efi!Control!Spec, EfiView
<1>2. Spec => Uboot!ImplementsControl
    BY UbootControl, UbootInvariant, PTL
    DEF Spec, Uboot!ImplementsControl, Uboot!Control!Spec, UbootView
<1> QED
    BY <1>1, <1>2 DEF ImplementsControl

(***************************************************************************)
(* The partition a controller reports as the running one is running, but   *)
(* for the exceptions of the property, for any number of partitions and of *)
(* boot entries (GetCurrentBoot of both controllers).                      *)
(***************************************************************************)
THEOREM CurrentIsBootedAlways == Spec => []CurrentIsBooted
<1>1. UbootProofs!IInv => Uboot!CurrentIsBooted
    BY DEF UbootProofs!IInv, UbootProofs!Running, UbootProofs!Absent, UbootProofs!NoPart,
        Uboot!CurrentIsBooted, Uboot!GetCurrentBoot, Uboot!Absent, Uboot!NoPart
<1>2. EfiInv => (kind = "efi" => Efi!CurrentIsBooted)
    BY ControllersAssumption, EfiProofs!CurrentByItems, EfiProperties DEF EfiInv
<1>3. EfiInv /\ UbootProofs!IInv => CurrentIsBooted
    BY <1>1, <1>2 DEF CurrentIsBooted
<1> QED
    BY <1>3, EfiInvariant, UbootInvariant, PTL

(***************************************************************************)
(* The order New() computes loses and repeats no entry, has the partitions *)
(* first and keeps the order within each kind, for every BootOrder there   *)
(* may be; and once New() has returned, BootOrder begins with all the      *)
(* partitions, however many entries there are and whatever an earlier      *)
(* New() that was cut off has left behind (checkBootOrder, SetBootOK).     *)
(***************************************************************************)
THEOREM BootOrderIsRightAlways == Spec => []BootOrderIsRight
<1>1. EfiInv /\ kind = "efi" => Efi!NewOrderIsRight
    BY ControllersAssumption, EfiProofs!OrderIsRight, EfiProperties DEF EfiInv
<1>2. EfiInv /\ kind = "efi" => Efi!PartitionsFirst
    BY ControllersAssumption, EfiProofs!FrontIsPartitions, EfiProperties DEF EfiInv
<1>3. EfiInv => BootOrderIsRight
    BY <1>1, <1>2 DEF BootOrderIsRight
<1> QED
    BY <1>3, EfiInvariant, PTL

(***************************************************************************)
(* New() panics only on a BootOrder that lists partitions alone and not    *)
(* all of them (checkBootOrder, CreateBootEntry).                          *)
(***************************************************************************)
THEOREM PanicsWithoutOthersAlways == Spec => []PanicsWithoutOthers
<1>1. EfiInv => PanicsWithoutOthers
    BY EfiProperties DEF EfiInv, EfiProofs!IInv, PanicsWithoutOthers
<1> QED
    BY <1>1, EfiInvariant, PTL
=============================================================================
