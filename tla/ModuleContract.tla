--------------------------- MODULE ModuleContract ---------------------------
(***************************************************************************)
(* The contract of UpdateModule as a state machine, for one component and  *)
(* its process: a call leaves the component in one of the outcomes of the  *)
(* method and then returns, unless the process ends before.  The update    *)
(* handler is verified against the outcomes; DualPart and Overlay are      *)
(* shown to implement this machine.                                        *)
(***************************************************************************)
EXTENDS UpdateModule

VARIABLES
    module,    \* the component, one of Modules
    running,   \* whether the process that calls it has started
    returned   \* what a call returned and the handler has not acted on yet, or Nothing

vars == <<module, running, returned>>

Methods == {"prepare", "update", "apply", "revert"}

Nothing == [method |-> "none", err |-> FALSE, reboot |-> FALSE]

Result(method, o) == [method |-> method, err |-> o.err, reboot |-> o.reboot]

Offered(method, m) ==
    CASE method = "prepare" -> Prepare(m)
      [] method = "update"  -> Update(m)
      [] method = "apply"   -> Apply(m)
      [] method = "revert"  -> Revert(m)

Init == module = Factory /\ running = TRUE /\ returned = Nothing

\* What a call does to the component is there before the call has returned.
Call(method) ==
    /\ running /\ returned = Nothing
    /\ \E o \in Offered(method, module) :
        /\ module' = o.module
        /\ returned' \in {Nothing, Result(method, o)}
    /\ UNCHANGED running

\* The handler goes on with what the method returned.
Take == returned # Nothing /\ returned' = Nothing /\ UNCHANGED <<module, running>>

Exit ==
    /\ running' = FALSE
    /\ returned' = Nothing
    /\ module' = [module EXCEPT !.init = "ok"]

Boot ==
    /\ running' = FALSE
    /\ returned' = Nothing
    /\ \E v \in BootVersions(module) : module' = [module EXCEPT !.version = v, !.init = "ok"]

\* Init() of a new process.
Start ==
    /\ ~running /\ running' = TRUE
    /\ \E r \in InitResults : module' = [module EXCEPT !.init = r]
    /\ UNCHANGED returned

Next == (\E method \in Methods : Call(method)) \/ Take \/ Exit \/ Boot \/ Start

Spec == Init /\ [][Next]_vars
=============================================================================
