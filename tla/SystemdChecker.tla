---------------------------- MODULE SystemdChecker --------------------------
(***************************************************************************)
(* The update checker (systemdchecker.go), which decides at the first      *)
(* Init() on a new image whether it works: one goroutine for each bus      *)
(* watches the services of the configuration until they are active, one    *)
(* has failed, or time is up; Check() waits for both.                      *)
(*                                                                         *)
(* The subscription is go-systemd's: it lists the units once a second and  *)
(* sends those whose state is not the one of the listing before, waiting   *)
(* until they are received.  What services do between is up to systemd.    *)
(***************************************************************************)
CONSTANTS
    SystemServices,  \* the services to watch on the system bus
    UserServices     \* and those on the bus of the user, others

Buses == {"system", "user"}
Services == SystemServices \cup UserServices

Watched(bus) == IF bus = "system" THEN SystemServices ELSE UserServices

\* "unlisted": systemd does not list the unit; a status that is nil when it was listed before.
UnitStates == {"unlisted", "inactive", "activating", "active", "failed"}

VARIABLES
    unit,     \* the states of the services
    listed,   \* their states in the last listing of their bus
    changes,  \* for each bus the services about to be received as changed
    watcher,  \* for each bus: "watching", or what watchServices() has returned
    check     \* what Check() has returned, or "running"

vars == <<unit, listed, changes, watcher, check>>

Init ==
    /\ unit \in [Services -> UnitStates]
    /\ listed = [s \in Services |-> "unlisted"]
    /\ changes = [bus \in Buses |-> {}]
    /\ watcher = [bus \in Buses |-> IF Watched(bus) = {} THEN "ok" ELSE "watching"]
    /\ check = "running"

\* systemd starts, stops and restarts services.
ServiceChanges(s) ==
    /\ check = "running"
    /\ \E to \in UnitStates \ {unit[s]} : unit' = [unit EXCEPT ![s] = to]
    /\ UNCHANGED <<listed, changes, watcher, check>>

List(bus) ==
    /\ watcher[bus] = "watching"
    /\ changes[bus] = {}
    /\ changes' = [changes EXCEPT ![bus] = {s \in Watched(bus) : unit[s] # listed[s]}]
    /\ listed' = [s \in Services |-> IF s \in Watched(bus) THEN unit[s] ELSE listed[s]]
    /\ UNCHANGED <<unit, watcher, check>>

Return(bus, result) ==
    /\ watcher[bus] = "watching"
    /\ watcher' = [watcher EXCEPT ![bus] = result]
    /\ UNCHANGED <<unit, listed, check>>

\* Only the services that have changed are looked at.
allActivated(bus) == \A s \in changes[bus] : listed[s] = "active"

AnyFailed(bus) == \E s \in changes[bus] : listed[s] \in {"failed", "unlisted"}

Receive(bus) ==
    /\ changes[bus] # {}
    /\ changes' = [changes EXCEPT ![bus] = {}]
    /\ \/ AnyFailed(bus) /\ Return(bus, "error")
       \/ ~AnyFailed(bus) /\ allActivated(bus) /\ Return(bus, "ok")
       \/ /\ ~AnyFailed(bus) /\ ~allActivated(bus)
          /\ watcher[bus] = "watching"
          /\ UNCHANGED <<unit, listed, watcher, check>>

\* Units cannot be listed, or time is up; either may come before a change is received.
GiveUp(bus) == Return(bus, "error") /\ UNCHANGED changes

Check ==
    /\ check = "running"
    /\ \A bus \in Buses : watcher[bus] # "watching"
    /\ check' = IF \E bus \in Buses : watcher[bus] = "error" THEN "error" ELSE "ok"
    /\ UNCHANGED <<unit, listed, changes, watcher>>

Next ==
    \/ \E s \in Services : ServiceChanges(s)
    \/ \E bus \in Buses : List(bus) \/ Receive(bus) \/ GiveUp(bus)
    \/ Check

Spec == Init /\ [][Next]_vars

(***************************************************************************)
(* When Check() validates an update, every service it was told to watch    *)
(* was active when systemd last listed it (Check, watchServices).          *)
(***************************************************************************)
AllActivated == check = "ok" => \A s \in Services : listed[s] = "active"
=============================================================================
