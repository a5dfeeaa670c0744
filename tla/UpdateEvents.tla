---------------------------- MODULE UpdateEvents ----------------------------
(***************************************************************************)
(* The state machine New configures (updatehandler.go): its states, the    *)
(* commands of the communication manager (CM) that are its events, and     *)
(* what an error in a transition does.                                     *)
(***************************************************************************)

States == {"idle", "prepared", "updated", "failed"}

\* Mutant of Transitions: a failed update cannot be reverted.
NoRevertOfFailed ==
    [prepare |-> [from |-> {"idle"}, to |-> "prepared"],
     update  |-> [from |-> {"prepared"}, to |-> "updated"],
     apply   |-> [from |-> {"updated"}, to |-> "idle"],
     revert  |-> [from |-> {"prepared", "updated"}, to |-> "idle"]]

Transitions ==
    [prepare |-> [from |-> {"idle"}, to |-> "prepared"],
     update  |-> [from |-> {"prepared"}, to |-> "updated"],
     apply   |-> [from |-> {"updated"}, to |-> "idle"],
     revert  |-> [from |-> {"prepared", "updated", "failed"}, to |-> "idle"]]

Events == DOMAIN Transitions

\* Mutant of StopOnError: an update goes on after an error.
OnlyPrepareStops(e) == e = "prepare"

StopOnError(e) == e \in {"prepare", "update"}

\* The states a transition may end in, as long as the state can be persisted.
Results(e) == {Transitions[e].to} \cup (IF StopOnError(e) THEN {"failed"} ELSE {})

=============================================================================
