---------------------------- MODULE UpdateHandler ---------------------------
(***************************************************************************)
(* The update handler (updatehandler.go): the state machine driven by the  *)
(* commands of the communication manager (CM), what it does with the       *)
(* update modules in each transition, what it persists, and how it resumes *)
(* after a reboot, a power cut or a crash of the process.                  *)
(*                                                                         *)
(* One transition runs at a time; its operations on components of equal    *)
(* priority run in any order.  A command that the state machine does not   *)
(* accept is only logged by the code, so it is no step here.  How statuses *)
(* travel to the CM is not modelled here.                                  *)
(***************************************************************************)
EXTENDS UpdateModule, UpdateEvents

CONSTANTS
    Components,      \* the components of the configuration
    Removable,       \* those the configuration may lack after a restart
    UpdatePriority,  \* [Components -> Nat]
    RebootPriority,  \* [Components -> Nat]
    Faults,          \* what may go wrong, of FaultKinds
    MaxFaults        \* bound on the number of faults

(***************************************************************************)
(* "power":    power is lost at any time                                   *)
(* "process":  the process dies at any time and is restarted               *)
(* "reboot":   Reboot() of a module returns an error                       *)
(* "save":     the handler state cannot be written to the database         *)
(* "init":     Init() of a module fails                                    *)
(* "race":     two operations that run together append to rebootStatuses   *)
(*             at the same time, and one is lost (line 550)                *)
(* Calls of the modules' other methods may fail at any time, unbounded.    *)
(***************************************************************************)
FaultKinds == {"power", "process", "reboot", "save", "init", "race"}

ASSUME HandlerAssumption ==
    /\ Removable \subseteq Components
    /\ UpdatePriority \in [Components -> Nat]
    /\ RebootPriority \in [Components -> Nat]
    /\ Faults \subseteq FaultKinds
    /\ MaxFaults \in Nat

VARIABLES
    module,     \* what the update modules are in, a Modules record each
    saved,      \* the handler state in the database
    recorded,   \* the component versions in the database
    installed,  \* the components of the running configuration
    reported,   \* handler.componentStatuses: the versions reported to the CM
    state,      \* handler.state
    current,    \* the current state of the FSM
    event,      \* the event of the transition under way, or "none"
    step,       \* how far the transition, or the process, has got
    queue,      \* components of the current loop still to be operated or rebooted
    reboots,    \* components that asked for a reboot in the current loop
    err,        \* an operation or a reboot has returned an error
    decided,    \* history: apply and revert commands accepted for this update
    faults      \* number of faults so far

process == <<installed, reported, state, current, event, step, queue, reboots, err>>
vars == <<module, saved, recorded, decided, faults, process>>

\* "none": the handler keeps no update status of the component.
ComponentStatuses == [status : {"none", "installing", "error"}, version : Versions]

NoStatus == [status |-> "none", version |-> 0]

HandlerStates ==
    [UpdateState : States, Error : BOOLEAN,
     ComponentStatuses : [Components -> ComponentStatuses],
     CurrentVersions : [Components -> Versions \cup {NoVersion}]]

NoState ==
    [UpdateState |-> "idle", Error |-> FALSE,
     ComponentStatuses |-> [c \in Components |-> NoStatus],
     CurrentVersions |-> [c \in Components |-> NoVersion]]

\* The components of the update a handler state is about.
Requested(s) == {c \in Components : s.ComponentStatuses[c].status # "none"}

Target(s, c) == s.ComponentStatuses[c].version

Failed(s, c) == s.ComponentStatuses[c].status = "error"

\* Mutant of componentError: the version is lost with the error.
ErrorWithoutVersion(s, failed) ==
    [s EXCEPT !.ComponentStatuses =
        [c \in Components |->
            IF c \in failed THEN [status |-> "error", version |-> NoVersion] ELSE @[c]]]

componentError(s, failed) ==
    [s EXCEPT !.ComponentStatuses =
        [c \in Components |->
            IF c \in failed THEN [@[c] EXCEPT !.status = "error"] ELSE @[c]]]

Highest(S, priority) == {c \in S : \A d \in S : priority[d] <= priority[c]}

-----------------------------------------------------------------------------
\* Mutant of getVersions: the versions before the update are ignored.
RunningVersions(s, inst, mods) ==
    [c \in Components |-> IF c \notin inst THEN NoVersion ELSE GetVersion(mods[c])]

\* getVersions: during an update a component keeps the version it had before.
getVersions(s, inst, mods) ==
    [c \in Components |->
        IF c \notin inst THEN NoVersion
        ELSE IF s.UpdateState = "idle" \/ s.CurrentVersions[c] = NoVersion
             THEN GetVersion(mods[c])
             ELSE s.CurrentVersions[c]]

\* A component whose Init() failed reports an error status.
Broken(c) == module[c].init # "ok"

Fault(kind) ==
    /\ kind \in Faults
    /\ faults < MaxFaults
    /\ faults' = faults + 1

Init ==
    /\ module = [c \in Components |-> Factory]
    /\ saved = NoState
    /\ recorded = [c \in Components |-> NoVersion]
    /\ installed = Components
    /\ reported = [c \in Components |-> InitialVersion]
    /\ state = NoState
    /\ current = "idle"
    /\ event = "none"
    /\ step = "ready"
    /\ queue = {}
    /\ reboots = {}
    /\ err = FALSE
    /\ decided = {}
    /\ faults = 0

-----------------------------------------------------------------------------
(***************************************************************************)
(* The start of a transition: the loop of componentOperation is entered    *)
(* with the components of state s.  A component that the configuration no  *)
(* longer has ends a prepare or an update at once; an apply or a revert    *)
(* marks it and goes on, and its error is forgotten (line 558).            *)
(***************************************************************************)
componentOperation(e, s) ==
    LET missing == Requested(s) \ installed
    IN  /\ event' = e
        /\ reboots' = {}
        /\ IF StopOnError(e) /\ missing # {}
           THEN /\ \E c \in missing : state' = [componentError(s, {c}) EXCEPT !.Error = TRUE]
                /\ current' = "failed"
                /\ step' = "changed"
                /\ queue' = {}
                /\ err' = TRUE
           ELSE /\ state' = componentError(s, missing)
                /\ current' = Transitions[e].to
                /\ step' = "operate"
                /\ queue' = Requested(s) \ missing
                /\ err' = FALSE

SendCommand(e) ==
    /\ step = "ready"
    /\ e # "prepare"
    /\ current \in Transitions[e].from
    /\ decided' = decided \cup ({e} \ {"update"})
    /\ componentOperation(e, [state EXCEPT !.Error = FALSE])
    /\ UNCHANGED <<module, saved, recorded, installed, reported, faults>>

(***************************************************************************)
(* PrepareUpdate takes the versions wanted of some components; the list    *)
(* may be empty or (stray) name a component the handler does not know.     *)
(* A list that cannot be accepted leaves the components before the         *)
(* offending entry recorded.                                               *)
(***************************************************************************)
Infos == UNION {[S -> Versions] : S \in SUBSET Components}

Started(infos, accepted) ==
    [UpdateState |-> state.UpdateState, Error |-> FALSE,
     ComponentStatuses |-> [c \in Components |->
         IF c \in accepted THEN [status |-> "installing", version |-> infos[c]]
                           ELSE NoStatus],
     CurrentVersions |-> [c \in Components |->
         IF c \in accepted THEN reported[c] ELSE NoVersion]]

PrepareUpdate(infos, stray) ==
    LET good == {c \in DOMAIN infos : c \in installed /\ ~Broken(c)}
    IN  /\ step = "ready"
        /\ current \in Transitions["prepare"].from
        /\ decided' = {}
        /\ IF DOMAIN infos = {} \/ stray \/ good # DOMAIN infos
           THEN /\ \E accepted \in SUBSET good :
                       state' = [Started(infos, accepted) EXCEPT !.Error = TRUE]
                /\ event' = "prepare"
                /\ current' = "failed"
                /\ step' = "changed"
                /\ queue' = {}
                /\ reboots' = {}
                /\ err' = TRUE
           ELSE componentOperation("prepare", Started(infos, good))
        /\ UNCHANGED <<module, saved, recorded, installed, reported, faults>>

-----------------------------------------------------------------------------
(***************************************************************************)
(* The operations the transitions hand to componentOperation, as outcomes  *)
(* of the module; what the handler adds are the checks before and after    *)
(* the call.                                                               *)
(***************************************************************************)
\* Mutant of prepareComponent: the version asked for is not compared.
AnyVersion(c) == Prepare(module[c])

prepareComponent(c) ==
    LET m == module[c]
    IN  IF Target(state, c) <= GetVersion(m) THEN {Fail(m)} ELSE Prepare(m)

\* Mutant of updateComponent: the version that runs after the update is not compared.
UncheckedUpdate(c) == Update(module[c])

updateComponent(c) ==
    LET verified(o) == o.err \/ o.reboot \/ GetVersion(o.module) = Target(state, c)
    IN  {IF verified(o) THEN o ELSE Fail(o.module) : o \in Update(module[c])}

\* Mutant of applyComponent: the error of Apply() is lost.
ApplyIgnoringError(c) == {[o EXCEPT !.err = FALSE] : o \in Apply(module[c])}

\* An apply that worked may still fail to record the version.
applyComponent(c) ==
    LET out == Apply(module[c])
    IN  out \cup {Fail(o.module) : o \in out}

\* Mutant of revertComponent: the reboot Revert() asks for is not passed on.
RevertWithoutReboot(c) == {[o EXCEPT !.reboot = FALSE] : o \in Revert(module[c])}

revertComponent(c) == Revert(module[c])

Operation(c) ==
    CASE event = "prepare" -> prepareComponent(c)
      [] event = "update"  -> updateComponent(c)
      [] event = "apply"   -> applyComponent(c)
      [] event = "revert"  -> revertComponent(c)

\* Mutant of Rest: lower priorities are operated after an error.
AllTheRest(c, o, priority) == queue \ {c}

\* After an error, a transition that stops on errors finishes the priority it is at.
Rest(c, o, priority) ==
    IF o /\ StopOnError(event)
    THEN {d \in queue \ {c} : priority[d] = priority[c]}
    ELSE queue \ {c}

AddReboot(c, reboot) ==
    \/ /\ reboots' = reboots \cup (IF reboot THEN {c} ELSE {})
       /\ UNCHANGED faults
    \/ /\ reboot
       /\ Fault("race")
       /\ \E d \in reboots :
            /\ UpdatePriority[d] = UpdatePriority[c]
            /\ reboots' = (reboots \ {d}) \cup {c}

DoOperation(c) ==
    /\ step = "operate"
    /\ c \in Highest(queue, UpdatePriority)
    /\ \E o \in Operation(c) :
        /\ module' = [module EXCEPT ![c] = o.module]
        /\ recorded' = IF event = "apply" /\ ~o.err
                       THEN [recorded EXCEPT ![c] = Target(state, c)] ELSE recorded
        /\ state' = componentError(state, IF o.err THEN {c} ELSE {})
        /\ AddReboot(c, o.reboot)
        /\ err' = (err \/ o.err)
        /\ queue' = Rest(c, o.err, UpdatePriority)
    /\ UNCHANGED <<saved, installed, reported, current, event, step, decided>>

\* The callback of the transition returns: its error ends up in the state.
Finish ==
    /\ step' = "changed"
    /\ state' = [state EXCEPT !.Error = err]
    /\ current' = IF err /\ StopOnError(event) THEN "failed" ELSE current
    /\ reboots' = {}
    /\ UNCHANGED queue

OperationsDone ==
    /\ step = "operate"
    /\ queue = {}
    /\ IF reboots = {} \/ (err /\ StopOnError(event))
       THEN Finish
       ELSE /\ step' = "reboot"
            /\ queue' = reboots
            /\ UNCHANGED <<reboots, state, current>>
    /\ UNCHANGED <<module, saved, recorded, installed, reported, event, err, decided, faults>>

\* The process ends, and with it all that is not persisted.
Die ==
    /\ step' = "down"
    /\ event' = "none"
    /\ queue' = {}
    /\ reboots' = {}
    /\ err' = FALSE
    /\ state' = NoState
    /\ current' = "idle"
    /\ UNCHANGED <<saved, recorded, installed, reported, decided>>

\* The modules go through a boot.
GoDown ==
    /\ Die
    /\ \E v \in [Components -> Versions] :
        /\ \A c \in Components : v[c] \in BootVersions(module[c])
        /\ module' = [c \in Components |-> [module[c] EXCEPT !.version = v[c]]]

(***************************************************************************)
(* Reboot() of a component: it may fail, restart the component alone, or   *)
(* take the whole system down.                                             *)
(***************************************************************************)
RebootFails(c) ==
    /\ Fault("reboot")
    /\ state' = componentError(state, {c})
    /\ err' = TRUE
    /\ queue' = Rest(c, TRUE, RebootPriority)
    /\ UNCHANGED <<module, saved, recorded, installed, reported, current, event, step,
                   reboots, decided>>

ComponentReboots(c) ==
    /\ \E v \in BootVersions(module[c]) : module' = [module EXCEPT ![c].version = v]
    /\ queue' = queue \ {c}
    /\ UNCHANGED <<saved, recorded, installed, reported, state, current, event, step,
                   reboots, err, decided, faults>>

SystemReboots == GoDown /\ UNCHANGED faults

RebootComponent(c) ==
    /\ step = "reboot"
    /\ c \in Highest(queue, RebootPriority)
    /\ RebootFails(c) \/ ComponentReboots(c) \/ SystemReboots

\* Components that were rebooted are operated once more.
RebootsDone ==
    /\ step = "reboot"
    /\ queue = {}
    /\ IF err /\ StopOnError(event)
       THEN Finish
       ELSE /\ step' = "operate"
            /\ queue' = reboots
            /\ reboots' = {}
            /\ UNCHANGED <<state, current>>
    /\ UNCHANGED <<module, saved, recorded, installed, reported, event, err, decided, faults>>

\* Mutant of Changed: the state of the FSM is not copied.
WithoutCurrent ==
    [state EXCEPT !.ComponentStatuses = [c \in Components |->
        IF current = "idle" /\ @[c].status # "error" THEN NoStatus ELSE @[c]]]

(***************************************************************************)
(* onStateChanged ends every transition: back to idle the versions are     *)
(* read again and only errors are kept; then the state is persisted.  A    *)
(* failure to persist it fails the update.                                 *)
(***************************************************************************)
Changed ==
    [state EXCEPT !.UpdateState = current,
        !.ComponentStatuses = [c \in Components |->
            IF current = "idle" /\ @[c].status # "error" THEN NoStatus ELSE @[c]]]

OnStateChanged ==
    /\ step = "changed"
    /\ step' = "ready"
    /\ event' = "none"
    /\ err' = FALSE
    /\ reported' = IF current = "idle" THEN getVersions(Changed, installed, module) ELSE reported
    /\ \/ /\ saved' = Changed
          /\ state' = Changed
          /\ UNCHANGED <<current, faults>>
       \/ /\ Fault("save")
          /\ state' = [Changed EXCEPT !.Error = TRUE, !.UpdateState = "failed"]
          /\ current' = "failed"
          /\ UNCHANGED saved
    /\ UNCHANGED <<module, recorded, installed, queue, reboots, decided>>

-----------------------------------------------------------------------------
(***************************************************************************)
(* Power is lost, or the process dies and is restarted while the system    *)
(* keeps running.                                                          *)
(***************************************************************************)
PowerCut == Fault("power") /\ GoDown

ProcessCrash == Fault("process") /\ Die /\ UNCHANGED module

Crash == step # "down" /\ (PowerCut \/ ProcessCrash)

\* New and init: the persisted state is loaded, every module is initialized.
Restart ==
    /\ step = "down"
    /\ \E inst \in {Components, Components \ Removable}, init \in [Components -> InitResults] :
        LET bad  == {c \in Components : init[c] # "ok"}
            mods == [c \in Components |-> [module[c] EXCEPT !.init = init[c]]]
        IN  /\ IF bad = {} THEN UNCHANGED faults ELSE Fault("init")
            /\ installed' = inst
            /\ module' = mods
            /\ reported' = getVersions(saved, inst, mods)
    /\ state' = saved
    /\ current' = saved.UpdateState
    /\ step' = "ready"
    /\ UNCHANGED <<saved, recorded, decided, event, queue, reboots, err>>

-----------------------------------------------------------------------------
Work ==
    \/ \E c \in Components : DoOperation(c) \/ RebootComponent(c)
    \/ OperationsDone
    \/ RebootsDone
    \/ OnStateChanged
    \/ Restart

Command == \E e \in Events : SendCommand(e)

Next ==
    \/ Work
    \/ Command
    \/ \E infos \in Infos, stray \in BOOLEAN : PrepareUpdate(infos, stray)
    \/ Crash

Spec == Init /\ [][Next]_vars

(***************************************************************************)
(* Goroutines run and the system restarts the process; the CM answers      *)
(* every state of an update it has started with some command.              *)
(***************************************************************************)
FairSpec == Spec /\ WF_vars(Work) /\ WF_vars(Command)

-----------------------------------------------------------------------------
(***************************************************************************)
(* To the CM the handler is an update cycle.  While the process is down    *)
(* the state is the one in the database.                                   *)
(***************************************************************************)
Cycle == INSTANCE UpdateCycle WITH
    current <- IF step = "down" THEN saved.UpdateState ELSE state.UpdateState,
    saved   <- saved.UpdateState,
    event   <- event

(***************************************************************************)
(* The handler implements the cycle: no order of module calls, failures,   *)
(* reboots and crashes makes it skip a state, forget that a command was    *)
(* begun, or come back to a state it was not in (SendCommand through       *)
(* onStateChanged, getState).                                              *)
(***************************************************************************)
ImplementsCycle == Cycle!Spec

\* Every variable has its type, and an event is under way exactly in a transition.
TypeOK ==
    /\ module \in [Components -> Modules]
    /\ saved \in HandlerStates
    /\ recorded \in [Components -> Versions \cup {NoVersion}]
    /\ installed \subseteq Components
    /\ reported \in [Components -> Versions \cup {NoVersion}]
    /\ state \in HandlerStates
    /\ current \in States
    /\ event \in Events \cup {"none"}
    /\ step \in {"ready", "operate", "reboot", "changed", "down"}
    /\ event = "none" <=> step \in {"ready", "down"}
    /\ queue \subseteq Components
    /\ reboots \subseteq Components
    /\ err \in BOOLEAN
    /\ decided \subseteq {"apply", "revert"}
    /\ faults \in 0 .. MaxFaults

(***************************************************************************)
(* An update the database says is done, and on which nothing has been      *)
(* decided yet, is done: every component of it holds the image it was      *)
(* asked for, whatever reboots, crashes and failed calls came before       *)
(* (onUpdateState and the version check in it, onStateChanged).            *)
(***************************************************************************)
Verified(s, c) == module[c].phase = "updated" /\ module[c].image = Target(s, c)

UpdatedIsVerified ==
    saved.UpdateState = "updated" /\ decided = {} =>
        \A c \in Requested(saved) : Verified(saved, c)

(***************************************************************************)
(* When an apply ends, and no revert was ever asked for, each component    *)
(* it reports no error for has the version asked for as the version it     *)
(* comes back to, and the database says so (onApplyState, re-run after a   *)
(* reboot until it ends).                                                  *)
(***************************************************************************)
Ending(e) == step = "changed" /\ event = e

Healthy(c) == ~Failed(state, c) /\ module[c].init # "unread"

AppliedIsCommitted ==
    Ending("apply") /\ "revert" \notin decided =>
        \A c \in Requested(state) : Healthy(c) =>
            /\ module[c].phase = "idle"
            /\ module[c].previous = Target(state, c)
            /\ recorded[c] = Target(state, c)

(***************************************************************************)
(* When a revert ends, and no apply was ever asked for, each component it  *)
(* reports no error for has given its image up and runs the version it ran *)
(* when the update was prepared (onRevertState), unless that was already   *)
(* not the version a boot would come back to, left over from an update     *)
(* whose revert failed.  No component is left running a version that was   *)
(* reverted.  This needs the reboot Revert() asks for to happen, so the    *)
(* process must not die alone before it.                                   *)
(***************************************************************************)
RevertedIsRestored ==
    Ending("revert") /\ "apply" \notin decided =>
        \A c \in Requested(state) : Healthy(c) =>
            /\ module[c].phase = "idle"
            /\ state.CurrentVersions[c] = module[c].previous =>
                module[c].version = state.CurrentVersions[c]

(***************************************************************************)
(* Between updates the versions reported are the ones that run; while an   *)
(* update is prepared or updated, they are the ones from before it, also   *)
(* when the process has since restarted on the new version (getVersions).  *)
(***************************************************************************)
ReportedVersions ==
    step = "ready" =>
        \A c \in installed :
            /\ current = "idle" => reported[c] = GetVersion(module[c])
            /\ current \in {"prepared", "updated"} /\ state.CurrentVersions[c] # NoVersion
                 => reported[c] = state.CurrentVersions[c]

(***************************************************************************)
(* What a component comes back to only changes when an apply runs, and     *)
(* then to the version asked for, which is higher than the one reported    *)
(* before the update (verifySemver, onApplyState).                         *)
(***************************************************************************)
CommitsOnlyUpgrades ==
    [][\A c \in Components : module'[c].previous # module[c].previous =>
            /\ event = "apply"
            /\ module'[c].previous = Target(state, c)
            /\ module'[c].previous > state.CurrentVersions[c]]_vars

(***************************************************************************)
(* A component is only updated when every component of the update with a   *)
(* higher priority has been updated and has reported no error              *)
(* (doPriorityOperations with stopOnError).                                *)
(***************************************************************************)
PriorityOrder ==
    [][\A c \in Components :
            module'[c].phase = "updated" /\ module[c].phase # "updated" =>
                \A d \in Requested(state) : UpdatePriority[d] > UpdatePriority[c] =>
                    module[d].phase = "updated" /\ ~Failed(state, d)]_vars

(***************************************************************************)
(* The handler itself never reboots the system in the middle of an update: *)
(* every component has been updated before the first reboot, or the reboot *)
(* would boot a mixture of old and new components (componentOperation).    *)
(***************************************************************************)
RebootsWhenAllUpdated ==
    step = "reboot" /\ event = "update" =>
        \A c \in Requested(state) : module[c].phase = "updated"

(***************************************************************************)
(* Every update that is started ends: the handler gets back to idle.       *)
(***************************************************************************)
UpdateEnds == (current # "idle" \/ step # "ready") ~> (current = "idle" /\ step = "ready")
=============================================================================
