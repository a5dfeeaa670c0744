----------------------------- MODULE BootControl ----------------------------
(***************************************************************************)
(* What the dual partition module may rely on, whichever boot controller   *)
(* it is given (StateController, dualpartmodule.go): the main partition is *)
(* one it asked for, or the running one once it is confirmed, for as long  *)
(* as the boot configuration is not lost.                                  *)
(***************************************************************************)
EXTENDS Integers

CONSTANT Partitions  \* the indexes of the partitions, from 0

NoPart == -1

VARIABLES
    main,     \* the partition boots start from, NoPart when none is configured
    next,     \* the partition of the next boot alone, or NoPart
    running,  \* the partition the system was booted from, NoPart when unknown
    pending   \* the partitions that were asked for and may become the main one

TypeOK ==
    /\ main \in Partitions \cup {NoPart}
    /\ next \in Partitions \cup {NoPart}
    /\ running \in Partitions \cup {NoPart}
    /\ pending \subseteq Partitions

Init == TypeOK /\ next = NoPart

\* What was asked for is forgotten at will; the main partition may count as asked for.
Forget == pending' \subseteq (pending \cup {main}) \cap Partitions

\* SetMainBoot() asks for a partition; one controller makes it hold for a single boot.
Ask(p) == pending' \subseteq pending \cup {p} /\ UNCHANGED <<main, next, running>>

Once(p) == next' = p /\ UNCHANGED <<main, running, pending>>

Take == main' \in pending /\ Forget /\ UNCHANGED <<next, running>>

\* SetBootOK(): the running partition becomes the main one.
Confirm == running # NoPart /\ main' = running /\ Forget /\ UNCHANGED <<next, running>>

\* The main partition, when there is none, is configured by New().
Adopt(p) == main = NoPart /\ main' = p /\ UNCHANGED <<next, running, pending>>

\* The configuration is lost; the default one takes its place.
Lose == main' = NoPart /\ Forget /\ UNCHANGED <<next, running>>

Default ==
    /\ main = NoPart
    /\ pending' \subseteq pending \cup {0}
    /\ UNCHANGED <<main, next, running>>

\* The process ends.
Restart == Forget /\ UNCHANGED <<main, next, running>>

\* A boot in the middle of a change keeps the old main partition, the new one or none.
Boot ==
    /\ main' \in {main, NoPart} \cup pending
    /\ next' = NoPart
    /\ running' \in Partitions \cup {NoPart}
    /\ pending' \subseteq {main'} \cap Partitions

Next ==
    \/ \E p \in Partitions : Ask(p) \/ Once(p) \/ Adopt(p)
    \/ Take \/ Confirm \/ Lose \/ Default \/ Restart \/ Boot

Spec == Init /\ [][Next]_<<main, next, running, pending>>
=============================================================================
