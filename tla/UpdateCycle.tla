---------------------------- MODULE UpdateCycle -----------------------------
(***************************************************************************)
(* What the CM can rely on, whatever happens inside: commands are carried  *)
(* out one at a time; each is judged by the state the one before it ended  *)
(* in; it ends in the state it is for, or in failed; and a reboot or a     *)
(* crash takes the handler back to the state before the command it was     *)
(* working on, never to anything in between.                               *)
(***************************************************************************)
EXTENDS UpdateEvents

VARIABLES
    current,  \* the state the handler reports
    saved,    \* the state it comes back to after a crash
    event     \* the command being carried out, or "none"

vars == <<current, saved, event>>

Init == current = "idle" /\ saved = "idle" /\ event = "none"

Begin(e) ==
    /\ event = "none"
    /\ current \in Transitions[e].from
    /\ event' = e
    /\ UNCHANGED <<current, saved>>

\* The state is visible before it is safe.
Reach(r) ==
    /\ event # "none"
    /\ r \in Results(event)
    /\ current' = r
    /\ UNCHANGED <<saved, event>>

End(r) ==
    /\ event # "none"
    /\ r \in Results(event)
    /\ current' = r
    /\ saved' = r
    /\ event' = "none"

EndUnsaved ==
    /\ event # "none"
    /\ current' = "failed"
    /\ event' = "none"
    /\ UNCHANGED saved

Crash ==
    /\ current' = saved
    /\ event' = "none"
    /\ UNCHANGED saved

Next ==
    \/ \E e \in Events : Begin(e)
    \/ \E r \in States : Reach(r) \/ End(r)
    \/ EndUnsaved
    \/ Crash

Spec == Init /\ [][Next]_vars

=============================================================================
