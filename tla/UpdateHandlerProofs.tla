------------------------- MODULE UpdateHandlerProofs ------------------------
(***************************************************************************)
(* Theorems about UpdateHandler, for any set of components, any            *)
(* priorities, any versions and any number of faults of any kind.          *)
(***************************************************************************)
EXTENDS UpdateHandler, TLAPS

\* The operations of a module keep it a module.
LEMMA ModuleOperations ==
    ASSUME NEW m \in Modules
    PROVE  /\ Prepare(m) \subseteq Outcomes
           /\ Update(m) \subseteq Outcomes
           /\ Apply(m) \subseteq Outcomes
           /\ Revert(m) \subseteq Outcomes
           /\ Fail(m) \in Outcomes
<1>1. \A n \in Modules : /\ Fail(n) \in Outcomes
                         /\ Done(n) \in Outcomes
                         /\ NeedReboot(n) \in Outcomes
  BY DEF Outcomes, Fail, Done, NeedReboot
<1>2. Prepare(m) \subseteq Outcomes
  <2> DEFINE prepared(v) == [m EXCEPT !.phase = "prepared", !.image = v]
  <2>1. \A v \in Versions : prepared(v) \in Modules
    BY DEF Modules, Phases
  <2>2. \A o \in Prepare(m) :
          o = Fail(m) \/ \E v \in Versions : o = Done(prepared(v)) \/ o = Fail(prepared(v))
    BY DEF Prepare
  <2> HIDE DEF prepared
  <2> QED
    BY <1>1, <2>1, <2>2
<1>3. Update(m) \subseteq Outcomes
  <2> DEFINE installed_m == [m EXCEPT !.phase = "updated"]
  <2>1. installed_m \in Modules
    BY DEF Modules, Phases
  <2>2. Update(m) \subseteq {Fail(m), Done(m), Fail(installed_m), NeedReboot(installed_m)}
    BY DEF Update
  <2> HIDE DEF installed_m
  <2> QED
    BY <1>1, <2>1, <2>2
<1>4. Apply(m) \subseteq Outcomes
  <2> DEFINE applied == [m EXCEPT !.phase = "idle", !.previous = m.image]
  <2>1. applied \in Modules
    BY DEF Modules, Phases
  <2>2. Apply(m) \subseteq {Fail(m), Done(m), Done(applied), NeedReboot(applied), Fail(applied)}
    BY DEF Apply
  <2> HIDE DEF applied
  <2> QED
    BY <1>1, <2>1, <2>2
<1>5. Revert(m) \subseteq Outcomes
  <2> DEFINE reverted == [m EXCEPT !.phase = "idle", !.image = m.previous]
  <2>1. reverted \in Modules
    BY DEF Modules, Phases
  <2>2. Revert(m) \subseteq {Fail(m), Done(m), Fail(reverted), Done(reverted), NeedReboot(reverted)}
    BY DEF Revert
  <2> HIDE DEF reverted
  <2> QED
    BY <1>1, <2>1, <2>2
<1> QED
  BY <1>1, <1>2, <1>3, <1>4, <1>5

\* A reboot boots some version.
LEMMA BootVersionsType ==
    ASSUME NEW m \in Modules
    PROVE  BootVersions(m) \subseteq Versions
BY DEF Modules, BootVersions

\* What GetVersion returns.
LEMMA GetVersionType ==
    ASSUME NEW m \in Modules
    PROVE  GetVersion(m) \in Versions \cup {NoVersion}
BY DEF Modules, GetVersion

\* The outcomes of every operation of the handler keep the module a module.
LEMMA OperationType ==
    ASSUME TypeOK, NEW c \in Components, event \in Events, NEW o \in Operation(c)
    PROVE  o \in Outcomes
<1> DEFINE m == module[c]
<1>1. m \in Modules
  BY DEF TypeOK
<1>2. event \in {"prepare", "update", "apply", "revert"}
  BY DEF Events, Transitions
<1>3. \A p \in Outcomes : Fail(p.module) \in Outcomes
  BY DEF Outcomes, Fail
<1>4. CASE event = "prepare"
  BY <1>1, <1>4, ModuleOperations DEF Operation, prepareComponent
<1>5. CASE event = "update"
  <2>1. o \in updateComponent(c)
    BY <1>5 DEF Operation
  <2>2. PICK p \in Update(m) : o = p \/ o = Fail(p.module)
    BY <2>1 DEF updateComponent
  <2> QED
    BY <1>1, <1>3, <2>2, ModuleOperations
<1>6. CASE event = "apply"
  <2>1. o \in applyComponent(c)
    BY <1>6 DEF Operation
  <2>2. PICK p \in Apply(m) : o = p \/ o = Fail(p.module)
    BY <2>1 DEF applyComponent
  <2> QED
    BY <1>1, <1>3, <2>2, ModuleOperations
<1>7. CASE event = "revert"
  BY <1>1, <1>7, ModuleOperations DEF Operation, revertComponent
<1> QED
  BY <1>2, <1>4, <1>5, <1>6, <1>7

\* Marking components as failed changes their status and nothing else.
LEMMA ComponentErrorType ==
    ASSUME NEW s \in HandlerStates, NEW failed
    PROVE  /\ componentError(s, failed) \in HandlerStates
           /\ componentError(s, failed).UpdateState = s.UpdateState
           /\ componentError(s, failed).CurrentVersions = s.CurrentVersions
           /\ \A c \in Components :
                Target(componentError(s, failed), c) = Target(s, c)
BY DEF componentError, HandlerStates, ComponentStatuses, Target

-----------------------------------------------------------------------------
\* The state a loop of componentOperation starts in.
LEMMA ComponentOperationType ==
    ASSUME installed \subseteq Components,
           NEW e \in Events, NEW s \in HandlerStates, componentOperation(e, s)
    PROVE  /\ state' \in HandlerStates
           /\ current' \in States
           /\ event' \in Events /\ event' # "none"
           /\ step' \in {"operate", "changed"}
           /\ queue' \subseteq Components
           /\ reboots' = {}
           /\ err' \in BOOLEAN
<1> DEFINE missing == Requested(s) \ installed
<1>1. \A f : componentError(s, f) \in HandlerStates
  BY ComponentErrorType
<1>2. \A t \in HandlerStates : [t EXCEPT !.Error = TRUE] \in HandlerStates
  BY DEF HandlerStates
<1>3. Transitions[e].to \in States /\ e # "none"
  BY DEF Events, Transitions, States
<1>4. Requested(s) \subseteq Components
  BY DEF Requested
<1>5. CASE StopOnError(e) /\ missing # {}
  BY <1>1, <1>2, <1>3, <1>5 DEF componentOperation, States
<1>6. CASE ~(StopOnError(e) /\ missing # {})
  BY <1>1, <1>3, <1>4, <1>6 DEF componentOperation
<1> QED
  BY <1>5, <1>6

(***************************************************************************)
(* A loop of componentOperation leaves the state persisted last alone, and *)
(* the FSM at a state the transition may end in.                           *)
(***************************************************************************)
LEMMA ComponentOperationCycle ==
    ASSUME NEW e \in Events, NEW s \in HandlerStates, componentOperation(e, s)
    PROVE  /\ event' = e
           /\ state'.UpdateState = s.UpdateState
           /\ \/ step' = "changed" /\ current' = "failed" /\ StopOnError(e)
              \/ step' = "operate" /\ current' = Transitions[e].to
<1> DEFINE missing == Requested(s) \ installed
<1>1. \A f : /\ componentError(s, f) \in HandlerStates
             /\ componentError(s, f).UpdateState = s.UpdateState
  BY ComponentErrorType
<1>2. \A t \in HandlerStates : [t EXCEPT !.Error = TRUE].UpdateState = t.UpdateState
  BY DEF HandlerStates
<1>3. CASE StopOnError(e) /\ missing # {}
  <2>1. PICK c \in missing : state' = [componentError(s, {c}) EXCEPT !.Error = TRUE]
    BY <1>3 DEF componentOperation
  <2>2. state'.UpdateState = s.UpdateState
    BY <1>1, <1>2, <2>1
  <2> QED
    BY <1>3, <2>2 DEF componentOperation
<1>4. CASE ~(StopOnError(e) /\ missing # {})
  BY <1>1, <1>4 DEF componentOperation
<1> QED
  BY <1>3, <1>4

\* Dying keeps the types.
LEMMA DieType ==
    ASSUME TypeOK, Die
    PROVE  /\ saved' \in HandlerStates
           /\ recorded' \in [Components -> Versions \cup {NoVersion}]
           /\ installed' \subseteq Components
           /\ reported' \in [Components -> Versions \cup {NoVersion}]
           /\ state' \in HandlerStates
           /\ current' \in States
           /\ event' = "none"
           /\ step' = "down"
           /\ queue' = {}
           /\ reboots' = {}
           /\ err' = FALSE
           /\ decided' \subseteq {"apply", "revert"}
<1>1. NoState \in HandlerStates
  BY MaxVersionAssumption
  DEF NoState, HandlerStates, States, NoStatus, ComponentStatuses, Versions
<1> QED
  BY <1>1 DEF TypeOK, Die, States

\* A boot changes nothing but the version of modules.
LEMMA GoDownModules ==
    ASSUME TypeOK, GoDown
    PROVE  /\ Die
           /\ module' \in [Components -> Modules]
           /\ \A c \in Components : /\ module'[c].phase = module[c].phase
                                  /\ module'[c].image = module[c].image
<1>1. PICK v \in [Components -> Versions] :
        module' = [c \in Components |-> [module[c] EXCEPT !.version = v[c]]]
  BY DEF GoDown
<1>2. \A c \in Components : module[c] \in Modules
  BY DEF TypeOK
<1>3. \A m \in Modules, w \in Versions :
        /\ [m EXCEPT !.version = w] \in Modules
        /\ [m EXCEPT !.version = w].phase = m.phase
        /\ [m EXCEPT !.version = w].image = m.image
  BY DEF Modules
<1>4. Die
  BY DEF GoDown
<1> QED
  BY <1>1, <1>2, <1>3, <1>4

\* One more fault stays within the bound.
LEMMA FaultType ==
    ASSUME TypeOK, NEW kind, Fault(kind)
    PROVE  faults' \in 0 .. MaxFaults
BY HandlerAssumption DEF TypeOK, Fault

\* The versions reported after a restart or an update.
LEMMA GetVersionsType ==
    ASSUME NEW s \in HandlerStates, NEW inst, NEW mods \in [Components -> Modules]
    PROVE  getVersions(s, inst, mods) \in [Components -> Versions \cup {NoVersion}]
<1>1. \A c \in Components : GetVersion(mods[c]) \in Versions \cup {NoVersion}
  BY GetVersionType
<1>2. \A c \in Components : s.CurrentVersions[c] \in Versions \cup {NoVersion}
  BY DEF HandlerStates
<1> QED
  BY <1>1, <1>2 DEF getVersions

-----------------------------------------------------------------------------
\* A state accepted by PrepareUpdate.
LEMMA StartedType ==
    ASSUME TypeOK, NEW infos \in Infos, NEW accepted \in SUBSET (DOMAIN infos)
    PROVE  /\ Started(infos, accepted) \in HandlerStates
           /\ [Started(infos, accepted) EXCEPT !.Error = TRUE] \in HandlerStates
<1>1. PICK S \in SUBSET Components : infos \in [S -> Versions]
  BY DEF Infos
<1>2. \A c \in accepted : infos[c] \in Versions
  BY <1>1
<1>3. NoStatus \in ComponentStatuses
  BY MaxVersionAssumption DEF NoStatus, ComponentStatuses, Versions
<1>4. \A v \in Versions : [status |-> "installing", version |-> v] \in ComponentStatuses
  BY DEF ComponentStatuses
<1>5. Started(infos, accepted) \in HandlerStates
  BY <1>2, <1>3, <1>4 DEF Started, HandlerStates, TypeOK
<1> QED
  BY <1>5 DEF HandlerStates

\* What onStateChanged makes of the state.
LEMMA ChangedType ==
    ASSUME TypeOK
    PROVE  /\ Changed \in HandlerStates
           /\ [Changed EXCEPT !.Error = TRUE, !.UpdateState = "failed"] \in HandlerStates
           /\ Changed.UpdateState = current
           /\ current # "idle" => Changed.ComponentStatuses = state.ComponentStatuses
<1>1. NoStatus \in ComponentStatuses
  BY MaxVersionAssumption DEF NoStatus, ComponentStatuses, Versions
<1>2. state \in HandlerStates /\ current \in States
  BY DEF TypeOK
<1>3. Changed \in HandlerStates
  BY <1>1, <1>2 DEF Changed, HandlerStates
<1>4. Changed.UpdateState = current
  BY <1>2 DEF Changed, HandlerStates
<1>5. current # "idle" => Changed.ComponentStatuses = state.ComponentStatuses
  BY <1>2 DEF Changed, HandlerStates
<1>6. \A t \in HandlerStates :
        [t EXCEPT !.Error = TRUE, !.UpdateState = "failed"] \in HandlerStates
  BY DEF HandlerStates, States
<1> QED
  BY <1>3, <1>4, <1>5, <1>6

(***************************************************************************)
(* The type invariant: every variable of the handler keeps its type.       *)
(***************************************************************************)
THEOREM TypeCorrect == Spec => []TypeOK
<1>1. Init => TypeOK
  <2> SUFFICES ASSUME Init PROVE TypeOK
    OBVIOUS
  <2>1. InitialVersion \in Versions
    BY MaxVersionAssumption DEF InitialVersion, Versions
  <2>2. Factory \in Modules
    BY <2>1 DEF Factory, Modules, Phases, InitResults
  <2>3. NoState \in HandlerStates
    BY MaxVersionAssumption
    DEF NoState, HandlerStates, States, NoStatus, ComponentStatuses, Versions
  <2>4. /\ module \in [Components -> Modules]
        /\ recorded \in [Components -> Versions \cup {NoVersion}]
        /\ reported \in [Components -> Versions \cup {NoVersion}]
    BY <2>1, <2>2 DEF Init
  <2>5. faults \in 0 .. MaxFaults
    BY HandlerAssumption DEF Init
  <2> QED
    BY <2>3, <2>4, <2>5 DEF Init, TypeOK, States

<1>2. TypeOK /\ [Next]_vars => TypeOK'
  <2> SUFFICES ASSUME TypeOK, [Next]_vars PROVE TypeOK'
    OBVIOUS
  <2>1. ASSUME NEW e \in Events, SendCommand(e) PROVE TypeOK'
    <3>1. [state EXCEPT !.Error = FALSE] \in HandlerStates
      BY DEF TypeOK, HandlerStates
    <3>2. installed \subseteq Components
      BY DEF TypeOK
    <3>3. componentOperation(e, [state EXCEPT !.Error = FALSE])
      BY <2>1 DEF SendCommand
    <3>4. e \in {"prepare", "update", "apply", "revert"}
      BY DEF Events, Transitions
    <3>5. decided' \subseteq {"apply", "revert"}
      BY <2>1, <3>4 DEF SendCommand, TypeOK
    <3> HIDE DEF componentOperation
    <3> QED
      BY <2>1, <3>1, <3>2, <3>3, <3>5, ComponentOperationType DEF SendCommand, TypeOK
  <2>2. ASSUME NEW infos \in Infos, NEW stray \in BOOLEAN, PrepareUpdate(infos, stray)
        PROVE  TypeOK'
    <3> DEFINE good == {c \in DOMAIN infos : c \in installed /\ ~Broken(c)}
    <3>1. good \subseteq DOMAIN infos
      OBVIOUS
    <3>2. CASE DOMAIN infos = {} \/ stray \/ good # DOMAIN infos
      <4>1. PICK accepted \in SUBSET good :
              state' = [Started(infos, accepted) EXCEPT !.Error = TRUE]
        BY <2>2, <3>2 DEF PrepareUpdate
      <4>2. state' \in HandlerStates
        BY <3>1, <4>1, StartedType
      <4> QED
        BY <2>2, <3>2, <4>2 DEF PrepareUpdate, TypeOK, States, Events, Transitions
    <3>3. CASE ~(DOMAIN infos = {} \/ stray \/ good # DOMAIN infos)
      <4>1. componentOperation("prepare", Started(infos, good))
        BY <2>2, <3>3 DEF PrepareUpdate
      <4>2. Started(infos, good) \in HandlerStates
        BY <3>1, StartedType
      <4>3. "prepare" \in Events
        BY DEF Events, Transitions
      <4>4. installed \subseteq Components
        BY DEF TypeOK
      <4>5. /\ state' \in HandlerStates
            /\ current' \in States
            /\ event' \in Events /\ event' # "none"
            /\ step' \in {"operate", "changed"}
            /\ queue' \subseteq Components
            /\ reboots' = {}
            /\ err' \in BOOLEAN
        BY <4>1, <4>2, <4>3, <4>4, ComponentOperationType
      <4> QED
        BY <2>2, <4>5 DEF PrepareUpdate, TypeOK
    <3> QED
      BY <3>2, <3>3
  <2>3. ASSUME NEW c \in Components, DoOperation(c) PROVE TypeOK'
    <3>1. event \in Events /\ step = "operate"
      BY <2>3 DEF DoOperation, TypeOK
    <3>2. PICK o \in Operation(c) :
            /\ module' = [module EXCEPT ![c] = o.module]
            /\ recorded' = IF event = "apply" /\ ~o.err
                           THEN [recorded EXCEPT ![c] = Target(state, c)] ELSE recorded
            /\ state' = componentError(state, IF o.err THEN {c} ELSE {})
            /\ AddReboot(c, o.reboot)
            /\ err' = (err \/ o.err)
            /\ queue' = Rest(c, o.err, UpdatePriority)
      BY <2>3 DEF DoOperation
    <3>3. o \in Outcomes
      BY <3>1, <3>2, OperationType
    <3>4. module' \in [Components -> Modules] /\ err' \in BOOLEAN
      BY <3>2, <3>3 DEF TypeOK, Outcomes
    <3>5. state' \in HandlerStates
      BY <3>2, ComponentErrorType DEF TypeOK
    <3>6. Target(state, c) \in Versions
      BY DEF TypeOK, HandlerStates, ComponentStatuses, Target
    <3>7. recorded' \in [Components -> Versions \cup {NoVersion}]
      BY <3>2, <3>6 DEF TypeOK
    <3>8. queue' \subseteq Components
      BY <3>2 DEF TypeOK, Rest
    <3>9. reboots' \subseteq Components /\ faults' \in 0 .. MaxFaults
      BY <3>2, FaultType DEF TypeOK, AddReboot
    <3> QED
      BY <2>3, <3>4, <3>5, <3>7, <3>8, <3>9 DEF DoOperation, TypeOK
  <2>4. ASSUME NEW c \in Components, RebootComponent(c) PROVE TypeOK'
    <3>1. CASE RebootFails(c)
      <4>1. state' \in HandlerStates
        BY <3>1, ComponentErrorType DEF RebootFails, TypeOK
      <4>2. queue' \subseteq Components
        BY <3>1 DEF RebootFails, Rest, TypeOK
      <4>3. faults' \in 0 .. MaxFaults
        BY <3>1, FaultType DEF RebootFails
      <4> QED
        BY <3>1, <4>1, <4>2, <4>3 DEF RebootFails, TypeOK
    <3>2. CASE ComponentReboots(c)
      <4>1. PICK v \in BootVersions(module[c]) : module' = [module EXCEPT ![c].version = v]
        BY <3>2 DEF ComponentReboots
      <4>2. module[c] \in Modules /\ v \in Versions
        BY <4>1, BootVersionsType DEF TypeOK
      <4>3. [module[c] EXCEPT !.version = v] \in Modules
        BY <4>2 DEF Modules
      <4>4. module' \in [Components -> Modules]
        BY <4>1, <4>3 DEF TypeOK
      <4> QED
        BY <3>2, <4>4 DEF ComponentReboots, TypeOK
    <3>3. CASE SystemReboots
      BY <3>3, GoDownModules, DieType DEF SystemReboots, TypeOK
    <3> QED
      BY <2>4, <3>1, <3>2, <3>3 DEF RebootComponent
  <2>5. ASSUME OperationsDone PROVE TypeOK'
    <3>1. [state EXCEPT !.Error = err] \in HandlerStates
      BY DEF TypeOK, HandlerStates
    <3> QED
      BY <2>5, <3>1 DEF OperationsDone, Finish, TypeOK, States
  <2>6. ASSUME RebootsDone PROVE TypeOK'
    <3>1. [state EXCEPT !.Error = err] \in HandlerStates
      BY DEF TypeOK, HandlerStates
    <3> QED
      BY <2>6, <3>1 DEF RebootsDone, Finish, TypeOK, States
  <2>7. ASSUME OnStateChanged PROVE TypeOK'
    <3>1. reported' \in [Components -> Versions \cup {NoVersion}]
      BY <2>7, ChangedType, GetVersionsType DEF OnStateChanged, TypeOK
    <3>2. faults' \in 0 .. MaxFaults
      BY <2>7, FaultType DEF OnStateChanged, TypeOK
    <3>3. saved' \in HandlerStates /\ state' \in HandlerStates
      BY <2>7, ChangedType DEF OnStateChanged, TypeOK
    <3> QED
      BY <2>7, <3>1, <3>2, <3>3 DEF OnStateChanged, TypeOK, States
  <2>8. ASSUME Crash PROVE TypeOK'
    <3>1. CASE PowerCut
      BY <3>1, GoDownModules, DieType, FaultType DEF PowerCut, TypeOK
    <3>2. CASE ProcessCrash
      BY <3>2, DieType, FaultType DEF ProcessCrash, TypeOK
    <3> QED
      BY <2>8, <3>1, <3>2 DEF Crash
  <2>9. ASSUME Restart PROVE TypeOK'
    <3>1. PICK inst \in {Components, Components \ Removable}, init \in [Components -> InitResults] :
            /\ faults' = faults \/ Fault("init")
            /\ installed' = inst
            /\ module' = [c \in Components |-> [module[c] EXCEPT !.init = init[c]]]
            /\ reported' = getVersions(saved, inst, module')
      BY <2>9 DEF Restart
    <3>2. \A m \in Modules, r \in InitResults : [m EXCEPT !.init = r] \in Modules
      BY DEF Modules
    <3>3. module' \in [Components -> Modules]
      BY <3>1, <3>2 DEF TypeOK
    <3>4. reported' \in [Components -> Versions \cup {NoVersion}]
      BY <3>1, <3>3, GetVersionsType DEF TypeOK
    <3>5. faults' \in 0 .. MaxFaults
      BY <3>1, FaultType DEF TypeOK
    <3>6. saved.UpdateState \in States
      BY DEF TypeOK, HandlerStates
    <3> QED
      BY <2>9, <3>1, <3>3, <3>4, <3>5, <3>6 DEF Restart, TypeOK
  <2>10. CASE UNCHANGED vars
    BY <2>10 DEF vars, process, TypeOK
  <2> QED
    BY <2>1, <2>2, <2>3, <2>4, <2>5, <2>6, <2>7, <2>8, <2>9, <2>10 DEF Next, Work, Command
<1> QED
  BY <1>1, <1>2, PTL DEF Spec

-----------------------------------------------------------------------------
\* An update operation that neither fails nor asks for a reboot has verified its component.
LEMMA UpdateVerifies ==
    ASSUME TypeOK, NEW c \in Components, NEW o \in updateComponent(c), ~o.err, ~o.reboot
    PROVE  o.module.phase = "updated" /\ o.module.image = Target(state, c)
<1> DEFINE m == module[c]
           installed_m == [m EXCEPT !.phase = "updated"]
<1>1. m \in Modules
  BY DEF TypeOK
<1>2. PICK p \in Update(m) :
        o = IF p.err \/ p.reboot \/ GetVersion(p.module) = Target(state, c)
            THEN p ELSE Fail(p.module)
  BY DEF updateComponent
<1>3. o = p /\ GetVersion(p.module) = Target(state, c)
  BY <1>2 DEF Fail
<1>4. p = Done(m) /\ Phase(m) = "updated" /\ m.init = "ok" /\ m.version = m.image
  <2>1. \A n : Fail(n).err /\ NeedReboot(n).reboot
    BY DEF Fail, NeedReboot
  <2>2. ~p.err /\ ~p.reboot
    BY <1>3
  <2>3. \/ p = Fail(m) \/ p = Fail(installed_m) \/ p = NeedReboot(installed_m)
        \/ p = Done(m) /\ Phase(m) = "updated" /\ m.init = "ok" /\ m.version = m.image
    BY <1>2 DEF Update
  <2> HIDE DEF installed_m
  <2> QED
    BY <2>1, <2>2, <2>3
<1> QED
  BY <1>3, <1>4 DEF Done, GetVersion, Phase

\* Where nothing fails, the components of the update and their targets stay.
LEMMA NoErrorNoChange ==
    ASSUME NEW s \in HandlerStates
    PROVE  /\ Requested(componentError(s, {})) = Requested(s)
           /\ \A c \in Components : Target(componentError(s, {}), c) = Target(s, c)
<1>1. \A c \in Components :
        componentError(s, {}).ComponentStatuses[c] = s.ComponentStatuses[c]
  BY DEF componentError, HandlerStates
<1> QED
  BY <1>1 DEF Requested, Target

(***************************************************************************)
(* Why UpdatedIsVerified holds: the state in the database is the one the   *)
(* transition under way started from, a transition out of updated has been *)
(* decided by the CM, and the update loop has verified every component it  *)
(* no longer has to operate or reboot, as long as nothing failed.          *)
(***************************************************************************)
UpdateProgress ==
    /\ step = "ready" /\ current # "failed" => saved.UpdateState = current
    /\ step \in {"operate", "reboot", "changed"} =>
        /\ event = "prepare" => saved.UpdateState = "idle"
        /\ event = "update" => saved.UpdateState = "prepared"
        /\ event \in {"apply", "revert"} => event \in decided
    /\ step \in {"operate", "reboot"} => current = Transitions[event].to
    /\ step = "reboot" => queue \subseteq reboots
    /\ step = "changed" => current \in {Transitions[event].to, "failed"}
    /\ event = "update" /\ step \in {"operate", "reboot"} /\ ~err =>
        \A c \in Requested(state) \ (queue \cup reboots) : Verified(state, c)
    /\ event = "update" /\ step = "changed" /\ current = "updated" =>
        \A c \in Requested(state) : Verified(state, c)

(***************************************************************************)
(* UpdateProgress and UpdatedIsVerified together are inductive, given the  *)
(* types.                                                                  *)
(***************************************************************************)
UpdateInv == TypeOK /\ UpdateProgress /\ UpdatedIsVerified

\* While the handler works, the database does not say that an update awaits its decision.
LEMMA NothingAwaitsDecision ==
    ASSUME UpdateInv, step \in {"operate", "reboot", "changed"}
    PROVE  ~(saved.UpdateState = "updated" /\ decided = {})
<1>1. event \in {"prepare", "update", "apply", "revert"}
  BY DEF UpdateInv, TypeOK, Events, Transitions
<1> QED
  BY <1>1 DEF UpdateInv, UpdateProgress

\* Steps that keep phases and images keep what is verified.
LEMMA VerifiedKept ==
    ASSUME UpdatedIsVerified, UNCHANGED <<saved, decided>>,
           \A c \in Components : /\ module'[c].phase = module[c].phase
                                /\ module'[c].image = module[c].image
    PROVE  UpdatedIsVerified'
BY DEF UpdatedIsVerified, Verified, Requested, Target

(***************************************************************************)
(* UpdateInv is an invariant for any components, any priorities and any    *)
(* faults but the race on rebootStatuses.                                  *)
(***************************************************************************)
THEOREM UpdateInvAlways ==
    ASSUME "race" \notin Faults
    PROVE  Spec => []UpdateInv
<1>1. Init => UpdateProgress /\ UpdatedIsVerified
  BY DEF Init, UpdateProgress, UpdatedIsVerified, NoState
<1>2. UpdateInv /\ TypeOK' /\ [Next]_vars => (UpdateProgress /\ UpdatedIsVerified)'
  <2> SUFFICES ASSUME UpdateInv, TypeOK', [Next]_vars
               PROVE  (UpdateProgress /\ UpdatedIsVerified)'
    OBVIOUS
  <2> USE DEF UpdateInv
  <2>1. ASSUME NEW e \in Events, SendCommand(e)
        PROVE  (UpdateProgress /\ UpdatedIsVerified)'
    <3>1. UpdatedIsVerified'
      BY <2>1 DEF SendCommand, UpdatedIsVerified, Verified, Requested, Target
    <3>2. UpdateProgress'
      <4> DEFINE s == [state EXCEPT !.Error = FALSE]
                 missing == Requested(s) \ installed
      <4>1. e \in {"update", "apply", "revert"}
        BY <2>1 DEF SendCommand, Events, Transitions
      <4>2. componentOperation(e, s) /\ event' = e /\ step' \in {"operate", "changed"}
        BY <2>1 DEF SendCommand, componentOperation
      <4>3. e = "update" => saved'.UpdateState = "prepared"
        BY <2>1 DEF SendCommand, Transitions, UpdateProgress
      <4>4. e \in {"apply", "revert"} => e \in decided'
        BY <2>1 DEF SendCommand
      <4>5. /\ step' = "operate" => current' = Transitions[e].to
            /\ step' = "changed" => current' = "failed"
        BY <4>2 DEF componentOperation
      <4>6. ASSUME e = "update", step' = "operate"
            PROVE  Requested(state') \subseteq queue'
        <5>1. missing = {} /\ state' = componentError(s, {}) /\ queue' = Requested(s)
          BY <4>2, <4>6 DEF componentOperation, StopOnError
        <5>2. s \in HandlerStates
          BY DEF TypeOK, HandlerStates
        <5>3. Requested(state') = Requested(s)
          BY <5>1, <5>2, NoErrorNoChange
        <5> QED
          BY <5>1, <5>3
      <4> HIDE DEF s, missing
      <4> QED
        BY <4>1, <4>2, <4>3, <4>4, <4>5, <4>6 DEF UpdateProgress
    <3> QED
      BY <3>1, <3>2
  <2>2. ASSUME NEW infos \in Infos, NEW stray \in BOOLEAN, PrepareUpdate(infos, stray)
        PROVE  (UpdateProgress /\ UpdatedIsVerified)'
    <3>1. saved'.UpdateState = "idle"
      BY <2>2 DEF PrepareUpdate, Transitions, UpdateProgress
    <3>2. event' = "prepare"
      BY <2>2 DEF PrepareUpdate, componentOperation
    <3>3. /\ step' = "operate" => current' = "prepared"
          /\ step' \in {"operate", "changed"}
          /\ current' \in {"prepared", "failed"}
      BY <2>2 DEF PrepareUpdate, componentOperation, Transitions
    <3> QED
      BY <3>1, <3>2, <3>3 DEF UpdateProgress, UpdatedIsVerified, Transitions
  <2>3. ASSUME NEW c \in Components, DoOperation(c)
        PROVE  (UpdateProgress /\ UpdatedIsVerified)'
    <3>1. UpdatedIsVerified'
      BY <2>3, NothingAwaitsDecision DEF DoOperation, UpdatedIsVerified
    <3>2. UpdateProgress'
      <4>1. PICK o \in Operation(c) :
              /\ module' = [module EXCEPT ![c] = o.module]
              /\ state' = componentError(state, IF o.err THEN {c} ELSE {})
              /\ reboots' = reboots \cup (IF o.reboot THEN {c} ELSE {})
              /\ err' = (err \/ o.err)
              /\ queue' = Rest(c, o.err, UpdatePriority)
        BY <2>3 DEF DoOperation, AddReboot, Fault
      <4>2. step = "operate" /\ UNCHANGED <<saved, current, event, step, decided>>
        BY <2>3 DEF DoOperation
      <4>3. ASSUME event = "update", ~err', NEW d \in Requested(state') \ (queue' \cup reboots')
            PROVE  Verified(state, d)' /\ d \in Components
        <5>1. ~err /\ ~o.err
          BY <4>1, <4>3 DEF TypeOK
        <5>2. queue' = queue \ {c} /\ state' = componentError(state, {})
          BY <4>1, <5>1 DEF Rest
        <5>3. state \in HandlerStates
          BY DEF TypeOK
        <5>4. d \in Requested(state) /\ d \in Components /\ Target(state', d) = Target(state, d)
          BY <4>3, <5>2, <5>3, NoErrorNoChange DEF Requested
        <5>5. CASE d = c
          <6>1. ~o.reboot
            BY <4>1, <4>3, <5>5
          <6>2. o \in updateComponent(c)
            BY <4>1, <4>3 DEF Operation
          <6>3. o.module.phase = "updated" /\ o.module.image = Target(state, c)
            BY <5>1, <6>1, <6>2, UpdateVerifies
          <6> QED
            BY <4>1, <5>4, <5>5, <6>3 DEF Verified, TypeOK
        <5>6. CASE d # c
          <6>1. d \notin queue \cup reboots
            BY <4>1, <4>3, <5>2, <5>6
          <6>2. Verified(state, d)
            BY <4>2, <4>3, <5>1, <5>4, <6>1 DEF UpdateProgress
          <6> QED
            BY <4>1, <5>4, <5>6, <6>2 DEF Verified, TypeOK
        <5> QED
          BY <5>5, <5>6
      <4> QED
        BY <4>2, <4>3 DEF UpdateProgress
    <3> QED
      BY <3>1, <3>2
  <2>4. ASSUME NEW c \in Components, RebootComponent(c)
        PROVE  (UpdateProgress /\ UpdatedIsVerified)'
    <3>1. CASE RebootFails(c)
      <4>1. UpdatedIsVerified'
        BY <3>1, VerifiedKept DEF RebootFails
      <4>2. UpdateProgress'
        BY <2>4, <3>1 DEF RebootComponent, RebootFails, UpdateProgress, Rest
      <4> QED
        BY <4>1, <4>2
    <3>2. CASE ComponentReboots(c)
      <4>1. \A d \in Components : /\ module'[d].phase = module[d].phase
                                 /\ module'[d].image = module[d].image
        BY <3>2 DEF ComponentReboots, TypeOK, Modules
      <4>2. UpdatedIsVerified'
        BY <3>2, <4>1, VerifiedKept DEF ComponentReboots
      <4>3. UpdateProgress'
        <5>1. Requested(state)' = Requested(state) /\ UNCHANGED <<saved, state, current, event, step, reboots, err, decided>>
          BY <3>2 DEF ComponentReboots, Requested
        <5>2. \A d \in Requested(state) : Verified(state, d) => Verified(state, d)'
          BY <4>1, <5>1 DEF Requested, Verified, Target
        <5>3. step = "reboot" /\ queue' \subseteq queue /\ queue \subseteq reboots
          BY <2>4, <3>2 DEF RebootComponent, ComponentReboots, UpdateProgress
        <5>4. Requested(state)' \ (queue' \cup reboots') = Requested(state) \ (queue \cup reboots)
          BY <5>1, <5>3
        <5> QED
          BY <5>1, <5>2, <5>3, <5>4 DEF UpdateProgress
      <4> QED
        BY <4>2, <4>3
    <3>3. CASE SystemReboots
      <4>1. UpdatedIsVerified'
        BY <3>3, GoDownModules, VerifiedKept DEF SystemReboots, Die
      <4>2. UpdateProgress'
        BY <3>3 DEF SystemReboots, GoDown, Die, UpdateProgress
      <4> QED
        BY <4>1, <4>2
    <3> QED
      BY <2>4, <3>1, <3>2, <3>3 DEF RebootComponent
  <2>5. ASSUME OperationsDone PROVE (UpdateProgress /\ UpdatedIsVerified)'
    <3>1. UpdatedIsVerified'
      BY <2>5, VerifiedKept DEF OperationsDone
    <3>2. UpdateProgress'
      <4>1. CASE Finish
        <5>1. state'.ComponentStatuses = state.ComponentStatuses
          BY <4>1 DEF Finish, TypeOK, HandlerStates
        <5>2. Requested(state') = Requested(state) /\ \A c : Target(state', c) = Target(state, c)
          BY <5>1 DEF Requested, Target
        <5>3. event = "update" /\ current' = "updated" => ~err /\ reboots = {} /\ queue = {}
          BY <2>5, <4>1 DEF OperationsDone, Finish, StopOnError
        <5>4. step = "operate" /\ UNCHANGED <<module, saved, decided, event>>
          BY <2>5 DEF OperationsDone
        <5>5. step' = "changed" /\ current' \in {current, "failed"}
          BY <4>1 DEF Finish
        <5>6. event = "update" /\ current' = "updated" =>
                \A c \in Requested(state) : Verified(state, c)
          BY <5>3, <5>4 DEF UpdateProgress
        <5> QED
          BY <5>2, <5>4, <5>5, <5>6 DEF UpdateProgress, Verified
      <4>2. CASE ~Finish
        BY <2>5, <4>2 DEF OperationsDone, UpdateProgress, Verified
      <4> QED
        BY <4>1, <4>2
    <3> QED
      BY <3>1, <3>2
  <2>6. ASSUME RebootsDone PROVE (UpdateProgress /\ UpdatedIsVerified)'
    <3>1. UpdatedIsVerified'
      BY <2>6, VerifiedKept DEF RebootsDone
    <3>2. UpdateProgress'
      <4>1. CASE err /\ StopOnError(event)
        BY <2>6, <4>1 DEF RebootsDone, Finish, UpdateProgress
      <4>2. CASE ~(err /\ StopOnError(event))
        BY <2>6, <4>2 DEF RebootsDone, UpdateProgress, Verified
      <4> QED
        BY <4>1, <4>2
    <3> QED
      BY <3>1, <3>2
  <2>7. ASSUME OnStateChanged PROVE (UpdateProgress /\ UpdatedIsVerified)'
    <3>1. UpdatedIsVerified'
      <4>1. CASE saved' = saved
        BY <2>7, <4>1, NothingAwaitsDecision DEF OnStateChanged, UpdatedIsVerified
      <4>2. CASE saved' = Changed /\ current # "updated"
        BY <4>2, ChangedType DEF UpdatedIsVerified
      <4>3. CASE saved' = Changed /\ current = "updated"
        <5>1. event = "update" /\ step = "changed"
          BY <2>7, <4>3 DEF OnStateChanged, UpdateProgress, TypeOK, Events, Transitions
        <5>2. saved'.ComponentStatuses = state.ComponentStatuses
          BY <4>3, ChangedType
        <5>3. \A c \in Requested(state) : Verified(state, c)
          BY <4>3, <5>1 DEF UpdateProgress
        <5> QED
          BY <2>7, <5>2, <5>3 DEF OnStateChanged, UpdatedIsVerified, Verified, Requested, Target
      <4> QED
        BY <2>7, <4>1, <4>2, <4>3 DEF OnStateChanged
    <3>2. UpdateProgress'
      BY <2>7, ChangedType DEF OnStateChanged, UpdateProgress
    <3> QED
      BY <3>1, <3>2
  <2>8. ASSUME Crash PROVE (UpdateProgress /\ UpdatedIsVerified)'
    <3>1. Die
      BY <2>8, GoDownModules DEF Crash, PowerCut, ProcessCrash
    <3>2. UpdatedIsVerified'
      BY <2>8, <3>1, GoDownModules, VerifiedKept DEF Crash, PowerCut, ProcessCrash, Die
    <3>3. UpdateProgress'
      BY <3>1 DEF Die, UpdateProgress
    <3> QED
      BY <3>2, <3>3
  <2>9. ASSUME Restart PROVE (UpdateProgress /\ UpdatedIsVerified)'
    <3>1. \A c \in Components : /\ module'[c].phase = module[c].phase
                               /\ module'[c].image = module[c].image
      BY <2>9 DEF Restart, TypeOK, Modules
    <3>2. UpdatedIsVerified'
      BY <2>9, <3>1, VerifiedKept DEF Restart
    <3>3. UpdateProgress'
      BY <2>9 DEF Restart, UpdateProgress, TypeOK
    <3> QED
      BY <3>2, <3>3
  <2>10. CASE UNCHANGED vars
    BY <2>10, VerifiedKept DEF vars, process, UpdateProgress, Verified, Requested, Target
  <2> QED
    BY <2>1, <2>2, <2>3, <2>4, <2>5, <2>6, <2>7, <2>8, <2>9, <2>10 DEF Next, Work, Command
<1> QED
  BY <1>1, <1>2, TypeCorrect, PTL DEF Spec, UpdateInv

(***************************************************************************)
(* What the database says is updated, and not yet decided on, is verified  *)
(* (onUpdateState, onStateChanged).                                        *)
(***************************************************************************)
THEOREM UpdatedIsVerifiedAlways ==
    ASSUME "race" \notin Faults
    PROVE  Spec => []UpdatedIsVerified
<1>1. UpdateInv => UpdatedIsVerified
  BY DEF UpdateInv
<1>2. Spec => []UpdateInv
  BY UpdateInvAlways
<1> QED
  BY <1>1, <1>2, PTL

(***************************************************************************)
(* The database keeps the state a transition started from, and an update   *)
(* without errors has every component queued, about to be rebooted, or     *)
(* verified (componentOperation).                                          *)
(***************************************************************************)
THEOREM UpdateProgressAlways ==
    ASSUME "race" \notin Faults
    PROVE  Spec => []UpdateProgress
<1>1. UpdateInv => UpdateProgress
  BY DEF UpdateInv
<1>2. Spec => []UpdateInv
  BY UpdateInvAlways
<1> QED
  BY <1>1, <1>2, PTL

-----------------------------------------------------------------------------
(***************************************************************************)
(* Between transitions the FSM and the state agree; within one the FSM is  *)
(* at a state the transition may end in.                                   *)
(***************************************************************************)
CycleInv ==
    /\ step = "ready" => state.UpdateState = current
    /\ step \in {"operate", "reboot"} => current = Transitions[event].to
    /\ step = "changed" => current \in Results(event)

\* Every step keeps CycleInv, and is a step of the cycle or a stutter.
LEMMA CycleStep ==
    ASSUME TypeOK, CycleInv, [Next]_vars
    PROVE  CycleInv' /\ [Cycle!Next]_(Cycle!vars)
<1> DEFINE shown == IF step = "down" THEN saved.UpdateState ELSE state.UpdateState
<1>0. /\ state \in HandlerStates /\ saved \in HandlerStates
      /\ current \in States
      /\ event = "none" <=> step \in {"ready", "down"}
      /\ event \in Events \cup {"none"} /\ "none" \notin Events
  BY DEF TypeOK, Events, Transitions
<1>1. ASSUME NEW e \in Events, SendCommand(e)
      PROVE  CycleInv' /\ Cycle!Begin(e)
  <2>1. [state EXCEPT !.Error = FALSE] \in HandlerStates
    BY <1>0 DEF HandlerStates
  <2>2. componentOperation(e, [state EXCEPT !.Error = FALSE])
    BY <1>1 DEF SendCommand
  <2>3. /\ event' = e /\ state'.UpdateState = state.UpdateState
        /\ \/ step' = "changed" /\ current' = "failed" /\ StopOnError(e)
           \/ step' = "operate" /\ current' = Transitions[e].to
    <3>1. [state EXCEPT !.Error = FALSE].UpdateState = state.UpdateState
      BY <1>0 DEF HandlerStates
    <3> QED
      BY <2>1, <2>2, <3>1, ComponentOperationCycle
  <2>4. CycleInv'
    BY <2>3 DEF CycleInv, Results
  <2>5. Cycle!Begin(e)
    BY <1>0, <1>1, <2>3 DEF SendCommand, CycleInv, Cycle!Begin, Cycle!Transitions, Transitions
  <2> QED
    BY <2>4, <2>5
<1>2. ASSUME NEW infos \in Infos, NEW stray \in BOOLEAN, PrepareUpdate(infos, stray)
      PROVE  CycleInv' /\ Cycle!Begin("prepare")
  <2> DEFINE good == {c \in DOMAIN infos : c \in installed /\ ~Broken(c)}
  <2>1. \A accepted \in SUBSET good :
          /\ Started(infos, accepted) \in HandlerStates
          /\ Started(infos, accepted).UpdateState = state.UpdateState
    BY StartedType DEF Started
  <2>2. /\ event' = "prepare" /\ state'.UpdateState = state.UpdateState
        /\ \/ step' = "changed" /\ current' = "failed"
           \/ step' = "operate" /\ current' = Transitions["prepare"].to
    <3>1. CASE \E accepted \in SUBSET good :
                  /\ state' = [Started(infos, accepted) EXCEPT !.Error = TRUE]
                  /\ event' = "prepare" /\ current' = "failed" /\ step' = "changed"
      BY <3>1, <2>1 DEF HandlerStates
    <3>2. CASE componentOperation("prepare", Started(infos, good))
      <4>1. /\ good \in SUBSET good
            /\ "prepare" \in Events
        BY DEF Events, Transitions
      <4> HIDE DEF good
      <4> QED
        BY <3>2, <2>1, <4>1, ComponentOperationCycle
    <3> QED
      BY <1>2, <3>1, <3>2 DEF PrepareUpdate
  <2>3. CycleInv'
    BY <2>2 DEF CycleInv, Results, StopOnError
  <2>4. Cycle!Begin("prepare")
    BY <1>0, <1>2, <2>2 DEF PrepareUpdate, CycleInv, Cycle!Begin, Cycle!Transitions, Transitions
  <2> QED
    BY <2>3, <2>4
<1>3. ASSUME NEW c \in Components, DoOperation(c)
      PROVE  CycleInv' /\ UNCHANGED Cycle!vars
  <2>1. /\ step = "operate" /\ UNCHANGED <<saved, current, event, step>>
        /\ state'.UpdateState = state.UpdateState
    BY <1>0, <1>3, ComponentErrorType DEF DoOperation
  <2> QED
    BY <2>1 DEF CycleInv, Cycle!vars
<1>4. ASSUME NEW c \in Components, RebootComponent(c)
      PROVE  CycleInv' /\ [Cycle!Next]_(Cycle!vars)
  <2>1. CASE RebootFails(c)
    <3>1. /\ step = "reboot" /\ UNCHANGED <<saved, current, event, step>>
          /\ state'.UpdateState = state.UpdateState
      BY <1>0, <1>4, <2>1, ComponentErrorType DEF RebootComponent, RebootFails
    <3> QED
      BY <3>1 DEF CycleInv, Cycle!vars
  <2>2. CASE ComponentReboots(c)
    BY <2>2 DEF ComponentReboots, CycleInv, Cycle!vars
  <2>3. CASE Die
    BY <2>3 DEF Die, CycleInv, Cycle!Next, Cycle!Crash
  <2> QED
    BY <1>4, <2>1, <2>2, <2>3, GoDownModules DEF RebootComponent, SystemReboots
<1>5. ASSUME OperationsDone \/ RebootsDone
      PROVE  CycleInv' /\ UNCHANGED Cycle!vars
  <2>1. /\ step \in {"operate", "reboot"} /\ UNCHANGED <<saved, event>>
        /\ \/ Finish /\ (Finish => current' \in Results(event))
           \/ step' \in {"operate", "reboot"} /\ UNCHANGED <<state, current>>
    BY <1>5 DEF OperationsDone, RebootsDone, Finish, CycleInv, Results
  <2>2. Finish => step' = "changed" /\ state'.UpdateState = state.UpdateState
    BY <1>0 DEF Finish, HandlerStates
  <2> QED
    BY <2>1, <2>2 DEF CycleInv, Cycle!vars
<1>6. ASSUME OnStateChanged PROVE CycleInv' /\ Cycle!Next
  <2>1. /\ step = "changed" /\ step' = "ready" /\ event' = "none"
        /\ \/ saved' = Changed /\ state' = Changed /\ current' = current
           \/ /\ state' = [Changed EXCEPT !.Error = TRUE, !.UpdateState = "failed"]
              /\ current' = "failed" /\ saved' = saved
    BY <1>6 DEF OnStateChanged
  <2>2. Changed \in HandlerStates /\ Changed.UpdateState = current
    BY ChangedType
  <2>3. current \in Results(event) /\ event \in Events
    BY <1>0, <2>1 DEF CycleInv
  <2>4. CASE saved' = Changed /\ state' = Changed /\ current' = current
    <3>1. Cycle!End(current)
      BY <1>0, <2>1, <2>2, <2>3, <2>4
      DEF Cycle!End, Cycle!Results, Cycle!Transitions, Cycle!StopOnError,
          Results, Transitions, StopOnError
    <3>2. Cycle!Next
      BY <1>0, <3>1 DEF Cycle!Next, Cycle!States, States
    <3> QED
      BY <2>1, <2>2, <2>4, <3>2 DEF CycleInv
  <2>5. CASE /\ state' = [Changed EXCEPT !.Error = TRUE, !.UpdateState = "failed"]
             /\ current' = "failed" /\ saved' = saved
    <3>1. state'.UpdateState = "failed"
      BY <2>2, <2>5 DEF HandlerStates
    <3>2. Cycle!EndUnsaved
      BY <1>0, <2>1, <2>3, <2>5, <3>1 DEF Cycle!EndUnsaved
    <3> QED
      BY <2>1, <2>5, <3>1, <3>2 DEF CycleInv, Cycle!Next
  <2> QED
    BY <2>1, <2>4, <2>5
<1>7. ASSUME Crash PROVE CycleInv' /\ Cycle!Next
  <2>1. Die
    BY <1>7, GoDownModules DEF Crash, PowerCut, ProcessCrash
  <2> QED
    BY <2>1 DEF Die, CycleInv, Cycle!Next, Cycle!Crash
<1>8. ASSUME Restart PROVE CycleInv' /\ UNCHANGED Cycle!vars
  BY <1>8 DEF Restart, CycleInv, Cycle!vars
<1>9. CASE UNCHANGED vars
  BY <1>9 DEF vars, process, CycleInv, Cycle!vars
<1>10. \A e \in Events : Cycle!Begin(e) => Cycle!Next
  BY DEF Cycle!Next, Cycle!Events, Cycle!Transitions, Events, Transitions
<1>11. "prepare" \in Events
  BY DEF Events, Transitions
<1> QED
  BY <1>1, <1>2, <1>3, <1>4, <1>5, <1>6, <1>7, <1>8, <1>9, <1>10, <1>11 DEF Next, Work, Command

\* CycleInv is an invariant, whatever fails.
LEMMA CycleInvAlways == Spec => []CycleInv
<1>1. Init => CycleInv
  BY DEF Init, CycleInv, NoState
<1>2. TypeOK /\ CycleInv /\ [Next]_vars => CycleInv'
  BY CycleStep
<1> QED
  BY <1>1, <1>2, TypeCorrect, PTL DEF Spec

(***************************************************************************)
(* The handler implements the cycle of commands the CM relies on, whatever *)
(* fails, reboots or crashes, the race on rebootStatuses included.         *)
(***************************************************************************)
THEOREM HandlerImplementsCycle == Spec => ImplementsCycle
<1>1. Init => Cycle!Init
  BY DEF Init, NoState, Cycle!Init
<1>2. TypeOK /\ CycleInv /\ [Next]_vars => [Cycle!Next]_(Cycle!vars)
  BY CycleStep
<1> QED
  BY <1>1, <1>2, TypeCorrect, CycleInvAlways, PTL DEF Spec, ImplementsCycle, Cycle!Spec

-----------------------------------------------------------------------------
(***************************************************************************)
(* The order in which components are updated and rebooted, for all faults, *)
(* and the versions that are committed, for all faults but the race on     *)
(* rebootStatuses (which lets an update be reported as done that was never *)
(* verified).                                                              *)
(***************************************************************************)

NoneFailed(s) == \A c \in Components : ~Failed(s, c)

Installed(c) == module[c].phase = "updated"

(***************************************************************************)
(* What a loop has left to do is about components of the update; a state   *)
(* prepared, and the loops of prepare and update up to the first error,    *)
(* have no failed component.                                               *)
(***************************************************************************)
LoopInv ==
    /\ step \in {"operate", "reboot"} => queue \cup reboots \subseteq Requested(state)
    /\ saved.UpdateState = "prepared" => NoneFailed(saved)
    /\ step \in {"ready", "changed"} /\ current = "prepared" => NoneFailed(state)
    /\ step \in {"operate", "reboot"} /\ StopOnError(event) /\ ~err => NoneFailed(state)
    /\ step = "operate" /\ StopOnError(event) => \A c \in queue : ~Failed(state, c)

(***************************************************************************)
(* In an update the components out of the queue have been updated, as long *)
(* as nothing failed; those of a higher priority than one in the queue     *)
(* have been updated in any case.                                          *)
(***************************************************************************)
OrderInv ==
    /\ event = "update" /\ step = "operate" =>
        /\ ~err => \A c \in Requested(state) \ queue : Installed(c)
        /\ \A c \in queue, d \in Requested(state) \ queue :
                UpdatePriority[d] > UpdatePriority[c] => Installed(d) /\ ~Failed(state, d)
    /\ RebootsWhenAllUpdated

\* Only the components marked are failed in addition.
LEMMA ComponentErrorMarks ==
    ASSUME NEW s \in HandlerStates, NEW failed \in SUBSET Requested(s)
    PROVE  /\ componentError(s, failed) \in HandlerStates
           /\ Requested(componentError(s, failed)) = Requested(s)
           /\ \A c \in Components :
                Failed(componentError(s, failed), c) <=> Failed(s, c) \/ c \in failed
<1>1. \A c \in Components :
        componentError(s, failed).ComponentStatuses[c].status =
            IF c \in failed THEN "error" ELSE s.ComponentStatuses[c].status
  BY DEF componentError, HandlerStates, ComponentStatuses
<1> QED
  BY <1>1, ComponentErrorType DEF Requested, Failed

\* A loop begins with the whole update in its queue and nothing failed, or not at all.
LEMMA LoopBegins ==
    ASSUME NEW e \in Events, NEW s \in HandlerStates, componentOperation(e, s)
    PROVE  /\ event' = e
           /\ reboots' = {}
           /\ \/ step' = "changed" /\ current' = "failed"
              \/ /\ step' = "operate"
                 /\ queue' \subseteq Requested(state')
                 /\ StopOnError(e) => /\ queue' = Requested(state')
                                      /\ NoneFailed(s) => NoneFailed(state')
<1> DEFINE missing == Requested(s) \ installed
<1>1. CASE StopOnError(e) /\ missing # {}
  BY <1>1 DEF componentOperation
<1>2. CASE ~(StopOnError(e) /\ missing # {})
  <2>1. missing \in SUBSET Requested(s)
    OBVIOUS
  <2>2. state' = componentError(s, missing) /\ queue' = Requested(s) \ missing
    BY <1>2 DEF componentOperation
  <2>3. /\ Requested(state') = Requested(s)
        /\ \A c \in Components : Failed(state', c) <=> Failed(s, c) \/ c \in missing
    <3> HIDE DEF missing
    <3> QED
      BY <2>1, <2>2, ComponentErrorMarks
  <2> QED
    BY <1>2, <2>2, <2>3 DEF componentOperation, NoneFailed
<1> QED
  BY <1>1, <1>2

\* A component whose update reported no error is updated.
LEMMA UpdateInstalls ==
    ASSUME NEW c \in Components, NEW o \in updateComponent(c), ~o.err,
           module[c] \in Modules
    PROVE  o.module.phase = "updated"
<1> DEFINE m == module[c]
           installed_m == [m EXCEPT !.phase = "updated"]
<1>1. PICK p \in Update(m) :
        o = IF p.err \/ p.reboot \/ GetVersion(p.module) = Target(state, c)
            THEN p ELSE Fail(p.module)
  BY DEF updateComponent
<1>2. o = p /\ ~p.err
  BY <1>1 DEF Fail
<1>3. \/ p = Fail(m) \/ p = Fail(installed_m) \/ p = NeedReboot(installed_m)
      \/ p = Done(m) /\ Phase(m) = "updated"
  BY <1>1 DEF Update
<1>4. installed_m.phase = "updated"
  BY DEF Modules
<1>5. Phase(m) = "updated" => m.phase = "updated"
  BY DEF Phase
<1>6. \A n : Fail(n).err /\ NeedReboot(n).module = n /\ Done(n).module = n
  BY DEF Fail, NeedReboot, Done
<1> HIDE DEF m, installed_m
<1> QED
  BY <1>2, <1>3, <1>4, <1>5, <1>6

\* No other operation makes a component updated.
LEMMA OnlyUpdateInstalls ==
    ASSUME TypeOK, event \in Events, NEW c \in Components, NEW o \in Operation(c),
           o.module.phase = "updated", module[c].phase # "updated"
    PROVE  event = "update"
<1> DEFINE m == module[c]
<1>1. m \in Modules
  BY DEF TypeOK
<1>2. event \in {"prepare", "update", "apply", "revert"}
  BY DEF Events, Transitions
<1>3. \A n : Fail(n).module = n /\ NeedReboot(n).module = n /\ Done(n).module = n
  BY DEF Fail, NeedReboot, Done
<1>4. CASE event = "prepare"
  <2>1. o = Fail(m) \/ o \in Prepare(m)
    BY <1>4 DEF Operation, prepareComponent
  <2> DEFINE prepared(v) == [m EXCEPT !.phase = "prepared", !.image = v]
  <2>2. o = Fail(m) \/ \E v \in Versions : o = Done(prepared(v)) \/ o = Fail(prepared(v))
    BY <2>1 DEF Prepare
  <2>3. \A v \in Versions : prepared(v).phase = "prepared"
    BY <1>1 DEF Modules
  <2> HIDE DEF prepared, m
  <2>4. o.module = m \/ \E v \in Versions : o.module = prepared(v)
    BY <1>3, <2>2
  <2>5. o.module = m \/ o.module.phase = "prepared"
    BY <2>3, <2>4
  <2> QED
    BY <2>5 DEF m
<1>5. CASE event = "apply"
  <2>1. PICK p \in Apply(m) : o = p \/ o = Fail(p.module)
    BY <1>5 DEF Operation, applyComponent
  <2>2. o.module = m \/ o.module = [m EXCEPT !.phase = "idle", !.previous = m.image]
    BY <1>3, <2>1 DEF Apply
  <2> QED
    BY <1>1, <2>2 DEF Modules
<1>6. CASE event = "revert"
  <2>1. o.module = m \/ o.module = [m EXCEPT !.phase = "idle", !.image = m.previous]
    BY <1>3, <1>6 DEF Operation, revertComponent, Revert
  <2> QED
    BY <1>1, <2>1 DEF Modules
<1> QED
  BY <1>2, <1>4, <1>5, <1>6

-----------------------------------------------------------------------------
\* LoopInv does not depend on the modules or on the versions.
LEMMA LoopInvKept ==
    ASSUME LoopInv, UNCHANGED <<saved, state, current, event, step, reboots, err>>,
           queue' \subseteq queue
    PROVE  LoopInv'
BY DEF LoopInv, NoneFailed, Failed, Requested

\* A loop that begins where nothing failed has LoopInv.
LEMMA LoopInvBegins ==
    ASSUME LoopInv, UNCHANGED saved, NEW e \in Events, NEW s \in HandlerStates,
           componentOperation(e, s), StopOnError(e) => NoneFailed(s)
    PROVE  LoopInv'
<1>1. /\ event' = e /\ reboots' = {}
      /\ \/ step' = "changed" /\ current' = "failed"
         \/ /\ step' = "operate"
            /\ queue' \subseteq Requested(state')
            /\ StopOnError(e) => NoneFailed(state')
  BY LoopBegins
<1>2. Requested(state') \subseteq Components
  BY DEF Requested
<1>3. NoneFailed(state') => \A c \in Components : ~Failed(state', c)
  BY DEF NoneFailed
<1>4. saved'.UpdateState = "prepared" => NoneFailed(saved')
  BY DEF LoopInv
<1>5. CASE step' = "changed" /\ current' = "failed"
  BY <1>1, <1>4, <1>5 DEF LoopInv
<1>6. CASE /\ step' = "operate"
           /\ queue' \subseteq Requested(state')
           /\ StopOnError(e) => NoneFailed(state')
  BY <1>1, <1>2, <1>3, <1>4, <1>6 DEF LoopInv
<1> QED
  BY <1>1, <1>5, <1>6

(***************************************************************************)
(* LoopInv is an invariant.                                                *)
(***************************************************************************)
LEMMA LoopInvAlways == Spec => []LoopInv
<1>1. Init => LoopInv
  BY DEF Init, LoopInv, NoneFailed, Failed, NoState, NoStatus
<1>2. TypeOK /\ CycleInv /\ LoopInv /\ [Next]_vars => LoopInv'
  <2> SUFFICES ASSUME TypeOK, CycleInv, LoopInv, [Next]_vars
               PROVE  LoopInv'
    OBVIOUS
  <2>0. /\ state \in HandlerStates /\ saved \in HandlerStates
        /\ event \in Events \cup {"none"} /\ "none" \notin Events
        /\ event = "none" <=> step \in {"ready", "down"}
        /\ Events = {"prepare", "update", "apply", "revert"}
    BY DEF TypeOK, Events, Transitions
  <2>1. ASSUME NEW e \in Events, SendCommand(e) PROVE LoopInv'
    <3> DEFINE s == [state EXCEPT !.Error = FALSE]
    <3>1. s \in HandlerStates /\ s.ComponentStatuses = state.ComponentStatuses
      BY <2>0 DEF HandlerStates
    <3>2. step = "ready" /\ e # "prepare" /\ current \in Transitions[e].from
          /\ componentOperation(e, s) /\ saved' = saved
      BY <2>1 DEF SendCommand
    <3>3. StopOnError(e) => NoneFailed(s)
      <4>1. StopOnError(e) => current = "prepared"
        BY <3>2 DEF StopOnError, Transitions
      <4> QED
        BY <3>1, <3>2, <4>1 DEF LoopInv, NoneFailed, Failed
    <3> HIDE DEF s
    <3> QED
      BY <3>1, <3>2, <3>3, LoopInvBegins
  <2>2. ASSUME NEW infos \in Infos, NEW stray \in BOOLEAN, PrepareUpdate(infos, stray)
        PROVE  LoopInv'
    <3> DEFINE good == {c \in DOMAIN infos : c \in installed /\ ~Broken(c)}
    <3>1. saved' = saved
      BY <2>2 DEF PrepareUpdate
    <3>2. CASE DOMAIN infos = {} \/ stray \/ good # DOMAIN infos
      BY <2>2, <3>1, <3>2 DEF PrepareUpdate, LoopInv
    <3>3. CASE ~(DOMAIN infos = {} \/ stray \/ good # DOMAIN infos)
      <4>1. componentOperation("prepare", Started(infos, good))
        BY <2>2, <3>3 DEF PrepareUpdate
      <4>2. good \in SUBSET (DOMAIN infos)
        OBVIOUS
      <4>3. Started(infos, good) \in HandlerStates
        BY <4>2, StartedType
      <4>4. NoneFailed(Started(infos, good))
        BY DEF NoneFailed, Failed, Started, NoStatus
      <4> HIDE DEF good
      <4> QED
        BY <2>0, <3>1, <4>1, <4>3, <4>4, LoopInvBegins
    <3> QED
      BY <3>2, <3>3
  <2>3. ASSUME NEW c \in Components, DoOperation(c) PROVE LoopInv'
    <3>1. PICK o \in Operation(c) :
            /\ state' = componentError(state, IF o.err THEN {c} ELSE {})
            /\ AddReboot(c, o.reboot)
            /\ err' = (err \/ o.err)
            /\ queue' = Rest(c, o.err, UpdatePriority)
      BY <2>3 DEF DoOperation
    <3>2. step = "operate" /\ c \in queue /\ UNCHANGED <<saved, current, event, step>>
      BY <2>3 DEF DoOperation, Highest
    <3>3. queue \cup reboots \subseteq Requested(state)
      BY <3>2 DEF LoopInv
    <3>4. queue' \subseteq queue \ {c} /\ reboots' \subseteq reboots \cup {c}
      BY <3>1 DEF Rest, AddReboot
    <3>5. o.err \in BOOLEAN /\ err \in BOOLEAN
      BY <2>0, <3>2, OperationType DEF Outcomes, TypeOK
    <3>6. /\ Requested(state') = Requested(state)
          /\ \A d \in Components : Failed(state', d) <=> Failed(state, d) \/ (o.err /\ d = c)
      <4>1. (IF o.err THEN {c} ELSE {}) \in SUBSET Requested(state)
        BY <3>2, <3>3
      <4> QED
        BY <2>0, <3>1, <3>5, <4>1, ComponentErrorMarks
    <3>7. queue \subseteq Components
      BY DEF TypeOK
    <3> QED
      BY <3>1, <3>2, <3>3, <3>4, <3>5, <3>6, <3>7 DEF LoopInv, NoneFailed
  <2>4. ASSUME NEW c \in Components, RebootComponent(c) PROVE LoopInv'
    <3>1. CASE RebootFails(c)
      <4>1. /\ step = "reboot" /\ c \in queue /\ state' = componentError(state, {c})
            /\ err' = TRUE /\ queue' \subseteq queue
            /\ UNCHANGED <<saved, current, event, step, reboots>>
        BY <2>4, <3>1 DEF RebootComponent, RebootFails, Rest, Highest
      <4>2. {c} \in SUBSET Requested(state)
        BY <4>1 DEF LoopInv
      <4>3. Requested(state') = Requested(state)
        BY <2>0, <4>1, <4>2, ComponentErrorMarks
      <4> QED
        BY <4>1, <4>3 DEF LoopInv
    <3>2. CASE ComponentReboots(c)
      BY <3>2, LoopInvKept DEF ComponentReboots
    <3>3. CASE SystemReboots
      BY <3>3 DEF SystemReboots, GoDown, Die, LoopInv
    <3> QED
      BY <2>4, <3>1, <3>2, <3>3 DEF RebootComponent
  <2>5. ASSUME OperationsDone \/ RebootsDone PROVE LoopInv'
    <3>1. /\ step \in {"operate", "reboot"} /\ UNCHANGED <<saved, event, err>>
          /\ \/ Finish
             \/ /\ step' = "reboot" /\ UNCHANGED <<state, reboots>> /\ queue' = reboots
             \/ /\ step' = "operate" /\ state' = state /\ queue' = reboots /\ reboots' = {}
                /\ ~(err /\ StopOnError(event))
      BY <2>5 DEF OperationsDone, RebootsDone
    <3>2. CASE Finish
      <4>1. state'.ComponentStatuses = state.ComponentStatuses
        BY <2>0, <3>2 DEF Finish, HandlerStates
      <4>2. current' = "prepared" => StopOnError(event) /\ ~err
        BY <2>0, <3>1, <3>2 DEF Finish, CycleInv, Transitions, StopOnError
      <4> QED
        BY <3>1, <3>2, <4>1, <4>2 DEF Finish, LoopInv, NoneFailed, Failed
    <3>3. CASE step' = "reboot" /\ UNCHANGED <<state, reboots>> /\ queue' = reboots
      BY <3>1, <3>3 DEF LoopInv, NoneFailed
    <3>4. CASE /\ step' = "operate" /\ state' = state /\ queue' = reboots /\ reboots' = {}
               /\ ~(err /\ StopOnError(event))
      <4>1. reboots \subseteq Components
        BY DEF TypeOK
      <4> QED
        BY <3>1, <3>4, <4>1 DEF LoopInv, NoneFailed
    <3> QED
      BY <3>1, <3>2, <3>3, <3>4
  <2>6. ASSUME OnStateChanged PROVE LoopInv'
    <3>1. current = "prepared" => Changed.ComponentStatuses = state.ComponentStatuses
      BY ChangedType
    <3>2. /\ step = "changed" /\ step' = "ready"
          /\ \/ saved' = Changed /\ state' = Changed /\ current' = current
             \/ current' = "failed" /\ saved' = saved
      BY <2>6 DEF OnStateChanged
    <3>3. Changed.UpdateState = current
      BY ChangedType
    <3> QED
      BY <3>1, <3>2, <3>3 DEF LoopInv, NoneFailed, Failed
  <2>7. ASSUME Crash PROVE LoopInv'
    <3>1. Die
      BY <2>7, GoDownModules DEF Crash, PowerCut, ProcessCrash
    <3> QED
      BY <3>1 DEF Die, LoopInv
  <2>8. ASSUME Restart PROVE LoopInv'
    BY <2>8 DEF Restart, LoopInv
  <2>9. CASE UNCHANGED vars
    BY <2>9, LoopInvKept DEF vars, process
  <2> QED
    BY <2>1, <2>2, <2>3, <2>4, <2>5, <2>6, <2>7, <2>8, <2>9 DEF Next, Work, Command
<1> QED
  BY <1>1, <1>2, TypeCorrect, CycleInvAlways, PTL DEF Spec

-----------------------------------------------------------------------------
\* OrderInv speaks of the phases of the modules, the loop and the state only.
LEMMA OrderInvKept ==
    ASSUME OrderInv, UNCHANGED <<state, event, step, err>>,
           step = "operate" => queue' = queue,
           \A c \in Components : module'[c].phase = module[c].phase
    PROVE  OrderInv'
<1>1. Requested(state) \subseteq Components
  BY DEF Requested
<1> QED
  BY <1>1 DEF OrderInv, RebootsWhenAllUpdated, Installed, Failed, Requested

\* A call of a module in an update keeps OrderInv.
LEMMA OrderOperation ==
    ASSUME TypeOK, LoopInv, OrderInv, NEW c \in Components, DoOperation(c)
    PROVE  OrderInv'
<1>1. step = "operate" /\ UNCHANGED <<event, step>>
  BY DEF DoOperation
<1>2. CASE event # "update"
  BY <1>1, <1>2 DEF OrderInv, RebootsWhenAllUpdated
<1>3. CASE event = "update"
  <2>1. PICK o \in updateComponent(c) :
          /\ module' = [module EXCEPT ![c] = o.module]
          /\ state' = componentError(state, IF o.err THEN {c} ELSE {})
          /\ err' = (err \/ o.err)
          /\ queue' = Rest(c, o.err, UpdatePriority)
    BY <1>3 DEF DoOperation, Operation
  <2>2. /\ queue \subseteq Components
        /\ c \in queue
        /\ queue \subseteq Requested(state)
        /\ \A d \in queue : UpdatePriority[d] <= UpdatePriority[c]
    BY <1>1 DEF DoOperation, Highest, LoopInv, TypeOK
  <2>3. o.err \in BOOLEAN /\ err \in BOOLEAN
    <3>1. o \in Operation(c) /\ event \in Events
      BY <1>3, <2>1 DEF Operation, Events, Transitions
    <3> QED
      BY <3>1, OperationType DEF Outcomes, TypeOK
  <2>4. /\ Requested(state') = Requested(state)
        /\ \A d \in Components : Failed(state', d) <=> Failed(state, d) \/ (o.err /\ d = c)
    <3>1. (IF o.err THEN {c} ELSE {}) \in SUBSET Requested(state)
      BY <2>2
    <3> QED
      BY <2>1, <2>3, <3>1, ComponentErrorMarks DEF TypeOK
  <2>5. \A d \in Components \ {c} : module'[d] = module[d]
    BY <2>1 DEF TypeOK
  <2>6. ~o.err => module'[c].phase = "updated"
    <3>1. module'[c] = o.module /\ module[c] \in Modules
      BY <2>1 DEF TypeOK
    <3> QED
      BY <2>1, <3>1, UpdateInstalls
  <2>7. ~Failed(state, c)
    BY <1>1, <1>3, <2>2 DEF LoopInv, StopOnError
  <2>8. /\ ~o.err => queue' = queue \ {c}
        /\ queue' \subseteq queue \ {c}
        /\ o.err => \A d \in queue' : UpdatePriority[d] = UpdatePriority[c]
    BY <1>3, <2>1, <2>3 DEF Rest, StopOnError
  <2>9. \A d \in Components : UpdatePriority[d] \in Nat
    BY HandlerAssumption
  <2>10. Requested(state) \subseteq Components
    BY DEF Requested
  <2>11. ASSUME ~err', NEW d \in Requested(state) \ queue'
         PROVE  module'[d].phase = "updated"
    <3>1. ~err /\ ~o.err
      BY <2>1, <2>3, <2>11
    <3>2. CASE d = c
      BY <2>6, <3>1, <3>2
    <3>3. CASE d # c
      BY <1>1, <1>3, <2>5, <2>8, <2>10, <2>11, <3>1, <3>3 DEF OrderInv, Installed
    <3> QED
      BY <3>2, <3>3
  <2>12. ASSUME NEW a \in queue', NEW d \in Requested(state) \ queue',
                UpdatePriority[d] > UpdatePriority[a]
         PROVE  module'[d].phase = "updated" /\ ~Failed(state', d)
    <3>1. a \in queue \ {c} /\ a \in Components /\ d \in Components
      BY <2>2, <2>8, <2>10
    <3>2. CASE d = c
      <4>1. ~o.err
        BY <2>8, <2>9, <2>12, <3>1, <3>2
      <4> QED
        BY <2>4, <2>6, <2>7, <3>2, <4>1
    <3>3. CASE d # c
      <4>1. d \notin queue
        <5>1. CASE ~o.err
          BY <2>8, <2>12, <3>3, <5>1
        <5>2. CASE o.err
          <6>1. UpdatePriority[d] > UpdatePriority[c]
            BY <2>8, <2>12, <5>2
          <6> QED
            BY <2>2, <2>9, <3>1, <6>1
        <5> QED
          BY <5>1, <5>2
      <4>2. module[d].phase = "updated" /\ ~Failed(state, d)
        BY <1>1, <1>3, <2>12, <3>1, <4>1 DEF OrderInv, Installed
      <4> QED
        BY <2>4, <2>5, <3>1, <3>3, <4>2
    <3> QED
      BY <3>2, <3>3
  <2>13. step' # "reboot"
    BY <1>1
  <2> QED
    BY <2>4, <2>11, <2>12, <2>13 DEF OrderInv, RebootsWhenAllUpdated, Installed
<1> QED
  BY <1>2, <1>3

(***************************************************************************)
(* OrderInv is an invariant.                                               *)
(***************************************************************************)
LEMMA OrderInvAlways == Spec => []OrderInv
<1>1. Init => OrderInv
  BY DEF Init, OrderInv, RebootsWhenAllUpdated
<1>2. TypeOK /\ LoopInv /\ OrderInv /\ [Next]_vars => OrderInv'
  <2> SUFFICES ASSUME TypeOK, LoopInv, OrderInv, [Next]_vars
               PROVE  OrderInv'
    OBVIOUS
  <2>1. ASSUME NEW e \in Events, SendCommand(e) PROVE OrderInv'
    <3> DEFINE s == [state EXCEPT !.Error = FALSE]
    <3>1. s \in HandlerStates
      BY DEF TypeOK, HandlerStates
    <3>2. componentOperation(e, s)
      BY <2>1 DEF SendCommand
    <3> HIDE DEF s
    <3>3. /\ event' = e
          /\ step' \in {"changed", "operate"}
          /\ step' = "operate" /\ StopOnError(e) => queue' = Requested(state')
      BY <3>1, <3>2, LoopBegins
    <3> QED
      BY <3>3 DEF OrderInv, RebootsWhenAllUpdated, StopOnError
  <2>2. ASSUME NEW infos \in Infos, NEW stray \in BOOLEAN, PrepareUpdate(infos, stray)
        PROVE  OrderInv'
    <3>1. event' = "prepare"
      BY <2>2 DEF PrepareUpdate, componentOperation
    <3> QED
      BY <3>1 DEF OrderInv, RebootsWhenAllUpdated
  <2>3. ASSUME NEW c \in Components, DoOperation(c) PROVE OrderInv'
    BY <2>3, OrderOperation
  <2>4. ASSUME NEW c \in Components, RebootComponent(c) PROVE OrderInv'
    <3>1. CASE RebootFails(c)
      <4>1. /\ step = "reboot" /\ c \in queue /\ state' = componentError(state, {c})
            /\ UNCHANGED <<module, event, step>>
        BY <2>4, <3>1 DEF RebootComponent, RebootFails, Highest
      <4>2. {c} \in SUBSET Requested(state)
        BY <4>1 DEF LoopInv
      <4>3. Requested(state') = Requested(state)
        BY <4>1, <4>2, ComponentErrorMarks DEF TypeOK
      <4> QED
        BY <4>1, <4>3 DEF OrderInv, RebootsWhenAllUpdated
    <3>2. CASE ComponentReboots(c)
      <4>1. \A d \in Components : module'[d].phase = module[d].phase
        BY <3>2 DEF ComponentReboots, TypeOK, Modules
      <4>2. step = "reboot"
        BY <2>4 DEF RebootComponent
      <4> QED
        BY <3>2, <4>1, <4>2, OrderInvKept DEF ComponentReboots
    <3>3. CASE SystemReboots
      BY <3>3 DEF SystemReboots, GoDown, Die, OrderInv, RebootsWhenAllUpdated
    <3> QED
      BY <2>4, <3>1, <3>2, <3>3 DEF RebootComponent
  <2>5. ASSUME OperationsDone PROVE OrderInv'
    <3>1. CASE Finish
      BY <3>1 DEF Finish, OrderInv, RebootsWhenAllUpdated
    <3>2. CASE ~Finish
      <4>1. /\ step = "operate" /\ queue = {} /\ step' = "reboot"
            /\ ~(err /\ StopOnError(event))
            /\ UNCHANGED <<module, state, event>>
        BY <2>5, <3>2 DEF OperationsDone
      <4> QED
        BY <4>1 DEF OrderInv, RebootsWhenAllUpdated, Installed, StopOnError
    <3> QED
      BY <3>1, <3>2
  <2>6. ASSUME RebootsDone PROVE OrderInv'
    <3>1. CASE Finish
      BY <3>1 DEF Finish, OrderInv, RebootsWhenAllUpdated
    <3>2. CASE ~Finish
      <4>1. /\ step = "reboot" /\ step' = "operate"
            /\ ~(err /\ StopOnError(event))
            /\ UNCHANGED <<module, state, event, err>>
        BY <2>6, <3>2 DEF RebootsDone
      <4>2. event = "update" => NoneFailed(state) /\ \A c \in Requested(state) : Installed(c)
        BY <4>1 DEF LoopInv, OrderInv, RebootsWhenAllUpdated, StopOnError, Installed
      <4> QED
        BY <4>1, <4>2 DEF OrderInv, RebootsWhenAllUpdated, Installed, NoneFailed, Requested
    <3> QED
      BY <3>1, <3>2
  <2>7. ASSUME OnStateChanged PROVE OrderInv'
    BY <2>7 DEF OnStateChanged, OrderInv, RebootsWhenAllUpdated
  <2>8. ASSUME Crash PROVE OrderInv'
    <3>1. Die
      BY <2>8, GoDownModules DEF Crash, PowerCut, ProcessCrash
    <3> QED
      BY <3>1 DEF Die, OrderInv, RebootsWhenAllUpdated
  <2>9. ASSUME Restart PROVE OrderInv'
    BY <2>9 DEF Restart, OrderInv, RebootsWhenAllUpdated
  <2>10. CASE UNCHANGED vars
    BY <2>10, OrderInvKept DEF vars, process
  <2> QED
    BY <2>1, <2>2, <2>3, <2>4, <2>5, <2>6, <2>7, <2>8, <2>9, <2>10 DEF Next, Work, Command
<1> QED
  BY <1>1, <1>2, TypeCorrect, LoopInvAlways, PTL DEF Spec

(***************************************************************************)
(* The handler never reboots the system before every component of the      *)
(* update has been updated (componentOperation).                           *)
(***************************************************************************)
THEOREM RebootsWhenAllUpdatedAlways == Spec => []RebootsWhenAllUpdated
<1>1. OrderInv => RebootsWhenAllUpdated
  BY DEF OrderInv
<1> QED
  BY <1>1, OrderInvAlways, PTL

(***************************************************************************)
(* Components are updated in the order of their priorities, and none after *)
(* a failure of a higher priority (doPriorityOperations).                  *)
(***************************************************************************)
THEOREM PriorityOrderAlways == Spec => PriorityOrder
<1> DEFINE Ordered ==
      \A c \in Components :
          module'[c].phase = "updated" /\ module[c].phase # "updated" =>
              \A d \in Requested(state) : UpdatePriority[d] > UpdatePriority[c] =>
                  module[d].phase = "updated" /\ ~Failed(state, d)
<1>1. TypeOK /\ LoopInv /\ OrderInv /\ [Next]_vars => [Ordered]_vars
  <2> SUFFICES ASSUME TypeOK, LoopInv, OrderInv, [Next]_vars,
                      NEW c \in Components,
                      module'[c].phase = "updated", module[c].phase # "updated",
                      NEW d \in Requested(state), UpdatePriority[d] > UpdatePriority[c]
               PROVE  module[d].phase = "updated" /\ ~Failed(state, d)
    OBVIOUS
  <2>1. ASSUME NEW a \in Components, DoOperation(a)
        PROVE  module[d].phase = "updated" /\ ~Failed(state, d)
    <3>1. PICK o \in Operation(a) : module' = [module EXCEPT ![a] = o.module]
      BY <2>1 DEF DoOperation
    <3>2. a = c /\ o.module.phase = "updated"
      BY <3>1 DEF TypeOK
    <3>3. step = "operate" /\ event \in Events /\ c \in Highest(queue, UpdatePriority)
      BY <2>1, <3>2 DEF DoOperation, TypeOK
    <3>4. event = "update"
      BY <3>1, <3>2, <3>3, OnlyUpdateInstalls
    <3>5. d \notin queue /\ c \in queue
      <4>1. c \in queue /\ \A b \in queue : UpdatePriority[b] <= UpdatePriority[c]
        BY <3>3 DEF Highest
      <4>2. UpdatePriority[c] \in Nat /\ UpdatePriority[d] \in Nat
        BY HandlerAssumption DEF Requested
      <4> QED
        BY <4>1, <4>2
    <3> QED
      BY <3>3, <3>4, <3>5 DEF OrderInv, Installed
  <2>2. ASSUME \A a \in Components : module'[a].phase = module[a].phase
        PROVE  FALSE
    BY <2>2
  <2>3. ASSUME module' = module PROVE FALSE
    BY <2>3
  <2>4. ASSUME NEW a \in Components, RebootComponent(a) PROVE FALSE
    <3>1. CASE RebootFails(a)
      BY <2>3, <3>1 DEF RebootFails
    <3>2. CASE ComponentReboots(a)
      BY <2>2, <3>2 DEF ComponentReboots, TypeOK, Modules
    <3>3. CASE SystemReboots
      BY <2>2, <3>3, GoDownModules DEF SystemReboots
    <3> QED
      BY <2>4, <3>1, <3>2, <3>3 DEF RebootComponent
  <2>5. ASSUME Crash PROVE FALSE
    BY <2>2, <2>3, <2>5, GoDownModules DEF Crash, PowerCut, ProcessCrash
  <2>6. ASSUME Restart PROVE FALSE
    BY <2>2, <2>6 DEF Restart, TypeOK, Modules
  <2>7. ASSUME NEW e \in Events, SendCommand(e) PROVE FALSE
    BY <2>3, <2>7 DEF SendCommand
  <2>8. ASSUME NEW infos \in Infos, NEW stray \in BOOLEAN, PrepareUpdate(infos, stray)
        PROVE  FALSE
    BY <2>3, <2>8 DEF PrepareUpdate
  <2>9. ASSUME OperationsDone \/ RebootsDone \/ OnStateChanged \/ UNCHANGED vars PROVE FALSE
    BY <2>3, <2>9 DEF OperationsDone, RebootsDone, OnStateChanged, vars
  <2> QED
    BY <2>1, <2>4, <2>5, <2>6, <2>7, <2>8, <2>9 DEF Next, Work, Command
<1> QED
  BY <1>1, TypeCorrect, LoopInvAlways, OrderInvAlways, PTL DEF Spec, PriorityOrder

-----------------------------------------------------------------------------
\* The state in memory is about the same update as the one in the database.
SameUpdate ==
    /\ Requested(state) = Requested(saved)
    /\ state.CurrentVersions = saved.CurrentVersions
    /\ \A c \in Components : Target(state, c) = Target(saved, c)

Upgrades(s) == \A c \in Requested(s) : Target(s, c) > s.CurrentVersions[c]

(***************************************************************************)
(* The database has the state at rest, unless it could not be written, and *)
(* an update or an apply stays with the update it was begun for.           *)
(***************************************************************************)
SavedInv ==
    /\ step = "ready" /\ current # "failed" => state = saved
    /\ event \in {"update", "apply"} /\ step \in {"operate", "reboot", "changed"} => SameUpdate
    /\ event = "apply" => saved.UpdateState = "updated"

(***************************************************************************)
(* What is prepared is higher than what the CM was told, which is what     *)
(* ran when it was told.                                                   *)
(***************************************************************************)
UpgradeInv ==
    /\ saved.UpdateState \in {"prepared", "updated"} => Upgrades(saved)
    /\ step = "changed" /\ current = "prepared" => Upgrades(state)
    /\ event = "prepare" /\ step \in {"operate", "reboot"} =>
        /\ reboots = {} /\ step = "operate"
        /\ \A c \in Requested(state) : state.CurrentVersions[c] = GetVersion(module[c])
        /\ ~err => \A c \in Requested(state) \ queue :
                        Target(state, c) > state.CurrentVersions[c]
    /\ step = "ready" /\ current = "idle" =>
        \A c \in installed : reported[c] = GetVersion(module[c])

Committed(c) ==
    /\ module[c].phase = "idle"
    /\ module[c].previous = Target(state, c)
    /\ recorded[c] = Target(state, c)

(***************************************************************************)
(* While the database has an update as done, its components hold the image *)
(* asked for or have been decided on.                                      *)
(***************************************************************************)
DecisionSaved ==
    saved.UpdateState = "updated" =>
        \A c \in Requested(saved) :
            /\ module[c].phase = "updated" => module[c].image = Target(saved, c)
            /\ "revert" \notin decided =>
                \/ module[c].phase = "updated"
                \/ module[c].phase = "idle" /\ module[c].previous = Target(saved, c)

\* An apply has committed the components it has been through.
ApplyProgress ==
    event = "apply" /\ step \in {"operate", "reboot"} /\ "revert" \notin decided =>
        \A c \in Requested(state) \ (IF step = "operate" THEN queue ELSE {}) :
            Healthy(c) => Committed(c)

DecisionInv == DecisionSaved /\ ApplyProgress /\ AppliedIsCommitted

-----------------------------------------------------------------------------
\* A state with some components marked as failed is about the same update.
LEMMA MarkedIsSame ==
    ASSUME NEW s \in HandlerStates, NEW failed \in SUBSET Requested(s)
    PROVE  /\ Requested(componentError(s, failed)) = Requested(s)
           /\ componentError(s, failed).CurrentVersions = s.CurrentVersions
           /\ \A c \in Components : Target(componentError(s, failed), c) = Target(s, c)
BY ComponentErrorMarks, ComponentErrorType

\* A transition that begins stays with the update of the state it begins with.
LEMMA BeginsSame ==
    ASSUME NEW e \in Events, NEW s \in HandlerStates, componentOperation(e, s)
    PROVE  /\ Requested(state') = Requested(s)
           /\ state'.CurrentVersions = s.CurrentVersions
           /\ \A c \in Components : Target(state', c) = Target(s, c)
<1> DEFINE missing == Requested(s) \ installed
<1>1. CASE StopOnError(e) /\ missing # {}
  <2>1. PICK c \in missing : state' = [componentError(s, {c}) EXCEPT !.Error = TRUE]
    BY <1>1 DEF componentOperation
  <2>2. {c} \in SUBSET Requested(s)
    BY <2>1
  <2>3. componentError(s, {c}) \in HandlerStates
    BY ComponentErrorType
  <2>4. /\ state'.ComponentStatuses = componentError(s, {c}).ComponentStatuses
        /\ state'.CurrentVersions = componentError(s, {c}).CurrentVersions
    BY <2>1, <2>3 DEF HandlerStates
  <2> QED
    BY <2>2, <2>4, MarkedIsSame DEF Requested, Target
<1>2. CASE ~(StopOnError(e) /\ missing # {})
  <2>1. state' = componentError(s, missing) /\ missing \in SUBSET Requested(s)
    BY <1>2 DEF componentOperation
  <2> HIDE DEF missing
  <2> QED
    BY <2>1, MarkedIsSame
<1> QED
  BY <1>1, <1>2

\* So does one that makes a step of its loops.
LEMMA LoopSame ==
    ASSUME TypeOK, LoopInv,
           \/ \E c \in Components : DoOperation(c) \/ (step = "reboot" /\ c \in queue /\ RebootFails(c))
           \/ OperationsDone \/ RebootsDone
    PROVE  /\ Requested(state') = Requested(state)
           /\ state'.CurrentVersions = state.CurrentVersions
           /\ \A c \in Components : Target(state', c) = Target(state, c)
<1>0. state \in HandlerStates
  BY DEF TypeOK
<1>1. ASSUME NEW c \in Components, DoOperation(c)
      PROVE  \E failed \in SUBSET Requested(state) : state' = componentError(state, failed)
  <2>1. c \in Requested(state)
    BY <1>1 DEF DoOperation, Highest, LoopInv
  <2> QED
    BY <1>1, <2>1 DEF DoOperation
<1>2. ASSUME NEW c \in Components, step = "reboot", c \in queue, RebootFails(c)
      PROVE  \E failed \in SUBSET Requested(state) : state' = componentError(state, failed)
  BY <1>2 DEF RebootFails, LoopInv
<1>3. ASSUME OperationsDone \/ RebootsDone
      PROVE  /\ state'.ComponentStatuses = state.ComponentStatuses
             /\ state'.CurrentVersions = state.CurrentVersions
  BY <1>0, <1>3 DEF OperationsDone, RebootsDone, Finish, HandlerStates
<1> QED
  BY <1>0, <1>1, <1>2, <1>3, MarkedIsSame DEF Requested, Target

\* A transition ends with the update it was about, unless it ends in idle.
LEMMA ChangedSame ==
    ASSUME TypeOK, current # "idle"
    PROVE  /\ Requested(Changed) = Requested(state)
           /\ Changed.CurrentVersions = state.CurrentVersions
           /\ \A c \in Components : Target(Changed, c) = Target(state, c)
<1>1. Changed.ComponentStatuses = state.ComponentStatuses
  BY ChangedType
<1>2. Changed.CurrentVersions = state.CurrentVersions
  BY DEF TypeOK, HandlerStates, Changed
<1> QED
  BY <1>1, <1>2 DEF Requested, Target

-----------------------------------------------------------------------------
(***************************************************************************)
(* SavedInv is an invariant, whatever fails.                               *)
(***************************************************************************)
LEMMA SavedInvAlways == Spec => []SavedInv
<1>1. Init => SavedInv
  BY DEF Init, SavedInv
<1>2. TypeOK /\ CycleInv /\ LoopInv /\ SavedInv /\ [Next]_vars => SavedInv'
  <2> SUFFICES ASSUME TypeOK, CycleInv, LoopInv, SavedInv, [Next]_vars
               PROVE  SavedInv'
    OBVIOUS
  <2>0. /\ state \in HandlerStates /\ event \in Events \cup {"none"}
        /\ event = "none" <=> step \in {"ready", "down"}
    BY DEF TypeOK
  <2>1. ASSUME NEW e \in Events, SendCommand(e) PROVE SavedInv'
    <3> DEFINE s == [state EXCEPT !.Error = FALSE]
    <3>1. /\ s \in HandlerStates
          /\ Requested(s) = Requested(state)
          /\ s.CurrentVersions = state.CurrentVersions
          /\ \A c \in Components : Target(s, c) = Target(state, c)
      <4>1. /\ s \in HandlerStates
            /\ s.ComponentStatuses = state.ComponentStatuses
            /\ s.CurrentVersions = state.CurrentVersions
        BY <2>0 DEF HandlerStates
      <4> HIDE DEF s
      <4> QED
        BY <4>1 DEF Requested, Target
    <3>2. /\ componentOperation(e, s) /\ saved' = saved
          /\ step = "ready" /\ current \in Transitions[e].from
      BY <2>1 DEF SendCommand
    <3> HIDE DEF s
    <3>3. /\ Requested(state') = Requested(s)
          /\ state'.CurrentVersions = s.CurrentVersions
          /\ \A c \in Components : Target(state', c) = Target(s, c)
      BY <3>1, <3>2, BeginsSame
    <3>4. event' = e /\ step' \in {"operate", "changed"}
      BY <3>1, <3>2, LoopBegins
    <3>5. CASE e \in {"update", "apply"}
      <4>1. current # "failed" /\ (e = "apply" => current = "updated")
        BY <3>2, <3>5 DEF Transitions
      <4>2. state = saved
        BY <3>2, <4>1 DEF SavedInv
      <4>3. e = "apply" => saved.UpdateState = "updated"
        BY <3>2, <4>1, <4>2 DEF CycleInv
      <4> QED
        BY <3>1, <3>2, <3>3, <3>4, <4>2, <4>3 DEF SavedInv, SameUpdate
    <3>6. CASE e \notin {"update", "apply"}
      BY <3>4, <3>6 DEF SavedInv
    <3> QED
      BY <3>5, <3>6
  <2>2. ASSUME NEW infos \in Infos, NEW stray \in BOOLEAN, PrepareUpdate(infos, stray)
        PROVE  SavedInv'
    <3>1. event' = "prepare" /\ step' # "ready"
      BY <2>2 DEF PrepareUpdate, componentOperation
    <3> QED
      BY <3>1 DEF SavedInv
  <2>3. ASSUME \/ \E c \in Components : DoOperation(c) \/ (step = "reboot" /\ c \in queue /\ RebootFails(c))
               \/ OperationsDone \/ RebootsDone
        PROVE  SavedInv'
    <3>1. /\ Requested(state') = Requested(state)
          /\ state'.CurrentVersions = state.CurrentVersions
          /\ \A c \in Components : Target(state', c) = Target(state, c)
      BY <2>3, LoopSame
    <3>2. /\ step \in {"operate", "reboot"} /\ step' \in {"operate", "reboot", "changed"}
          /\ UNCHANGED <<saved, event>>
      BY <2>3 DEF DoOperation, RebootFails, OperationsDone, RebootsDone, Finish
    <3> QED
      BY <3>1, <3>2 DEF SavedInv, SameUpdate
  <2>4. ASSUME NEW c \in Components, ComponentReboots(c) PROVE SavedInv'
    BY <2>4 DEF ComponentReboots, SavedInv, SameUpdate, Requested, Target
  <2>5. ASSUME OnStateChanged PROVE SavedInv'
    BY <2>5 DEF OnStateChanged, SavedInv
  <2>6. ASSUME Die PROVE SavedInv'
    BY <2>6 DEF Die, SavedInv
  <2>7. ASSUME Restart PROVE SavedInv'
    BY <2>0, <2>7 DEF Restart, SavedInv
  <2>8. CASE UNCHANGED vars
    BY <2>8 DEF vars, process, SavedInv, SameUpdate, Requested, Target
  <2>9. ASSUME NEW c \in Components, RebootComponent(c) PROVE SavedInv'
    <3>1. RebootFails(c) => step = "reboot" /\ c \in queue
      BY <2>9 DEF RebootComponent, Highest
    <3> QED
      BY <2>3, <2>4, <2>6, <2>9, <3>1, GoDownModules DEF RebootComponent, SystemReboots
  <2>10. ASSUME Crash PROVE SavedInv'
    BY <2>6, <2>10, GoDownModules DEF Crash, PowerCut, ProcessCrash
  <2> QED
    BY <2>1, <2>2, <2>3, <2>5, <2>7, <2>8, <2>9, <2>10 DEF Next, Work, Command
<1> QED
  BY <1>1, <1>2, TypeCorrect, CycleInvAlways, LoopInvAlways, PTL DEF Spec

-----------------------------------------------------------------------------
\* A component whose prepare reported no error is offered a higher version than it runs.
LEMMA PrepareUpgrades ==
    ASSUME TypeOK, NEW c \in Components, NEW o \in prepareComponent(c)
    PROVE  /\ ~o.reboot
           /\ GetVersion(o.module) = GetVersion(module[c])
           /\ ~o.err => Target(state, c) > GetVersion(module[c])
<1> DEFINE m == module[c]
           prepared(v) == [m EXCEPT !.phase = "prepared", !.image = v]
<1>1. m \in Modules /\ state \in HandlerStates
  BY DEF TypeOK
<1>2. \/ o = Fail(m)
      \/ /\ ~(Target(state, c) <= GetVersion(m))
         /\ \E v \in Versions : o = Done(prepared(v)) \/ o = Fail(prepared(v))
  BY DEF prepareComponent, Prepare
<1>3. \A v \in Versions : GetVersion(prepared(v)) = GetVersion(m)
  BY <1>1 DEF Modules, GetVersion
<1>4. Target(state, c) \in Int /\ GetVersion(m) \in Int
  <2>1. Versions \subseteq Int /\ NoVersion \in Int
    BY MaxVersionAssumption DEF Versions, NoVersion
  <2>2. Target(state, c) \in Versions
    BY <1>1 DEF HandlerStates, ComponentStatuses, Target
  <2> QED
    BY <1>1, <2>1, <2>2, GetVersionType
<1>5. \A n : /\ Fail(n).module = n /\ Fail(n).err /\ ~Fail(n).reboot
            /\ Done(n).module = n /\ ~Done(n).reboot
  BY DEF Fail, Done
<1> HIDE DEF m, prepared
<1>6. ~o.reboot /\ GetVersion(o.module) = GetVersion(m)
  BY <1>2, <1>3, <1>5
<1>7. ~o.err => Target(state, c) > GetVersion(m)
  BY <1>2, <1>4, <1>5
<1> QED
  BY <1>6, <1>7 DEF m

\* A call of a module keeps UpgradeInv.
LEMMA UpgradeOperation ==
    ASSUME TypeOK, LoopInv, UpgradeInv, NEW c \in Components, DoOperation(c)
    PROVE  UpgradeInv'
<1>1. step = "operate" /\ UNCHANGED <<saved, event, step>>
  BY DEF DoOperation
<1>2. Upgrades(saved)' = Upgrades(saved)
  BY <1>1 DEF Upgrades, Requested, Target
<1>3. CASE event # "prepare"
  BY <1>1, <1>2, <1>3 DEF UpgradeInv
<1>4. CASE event = "prepare"
  <2>1. PICK o \in prepareComponent(c) :
          /\ module' = [module EXCEPT ![c] = o.module]
          /\ AddReboot(c, o.reboot)
          /\ err' = (err \/ o.err)
          /\ queue' = Rest(c, o.err, UpdatePriority)
    BY <1>4 DEF DoOperation, Operation
  <2>2. /\ ~o.reboot
        /\ GetVersion(o.module) = GetVersion(module[c])
        /\ ~o.err => Target(state, c) > GetVersion(module[c])
    BY <2>1, PrepareUpgrades
  <2>3. reboots' = {}
    BY <1>1, <1>4, <2>1, <2>2 DEF AddReboot, UpgradeInv
  <2>4. /\ Requested(state') = Requested(state)
        /\ state'.CurrentVersions = state.CurrentVersions
        /\ \A d \in Components : Target(state', d) = Target(state, d)
    BY LoopSame
  <2>5. \A d \in Components : GetVersion(module'[d]) = GetVersion(module[d])
    <3>1. module'[c] = o.module /\ \A d \in Components \ {c} : module'[d] = module[d]
      BY <2>1 DEF TypeOK
    <3> QED
      BY <2>2, <3>1
  <2>6. Requested(state) \subseteq Components
    BY DEF Requested
  <2>7. \A d \in Requested(state) : state.CurrentVersions[d] = GetVersion(module[d])
    BY <1>1, <1>4 DEF UpgradeInv
  <2>8. ASSUME ~err', NEW d \in Requested(state) \ queue'
        PROVE  Target(state, d) > state.CurrentVersions[d]
    <3>1. ~err /\ ~o.err
      <4>1. o \in Outcomes
        BY <1>4, <2>1, OperationType DEF Operation, Events, Transitions
      <4> QED
        BY <2>1, <2>8, <4>1 DEF TypeOK, Outcomes
    <3>2. queue' = queue \ {c}
      BY <2>1, <3>1 DEF Rest
    <3>3. CASE d = c
      BY <2>2, <2>7, <2>8, <3>1, <3>3
    <3>4. CASE d # c
      BY <1>1, <1>4, <2>8, <3>1, <3>2, <3>4 DEF UpgradeInv
    <3> QED
      BY <3>3, <3>4
  <2> QED
    BY <1>1, <1>2, <2>3, <2>4, <2>5, <2>6, <2>7, <2>8 DEF UpgradeInv
<1> QED
  BY <1>3, <1>4

(***************************************************************************)
(* UpgradeInv is an invariant, as long as the race does not occur.         *)
(***************************************************************************)
LEMMA UpgradeInvAlways ==
    ASSUME "race" \notin Faults
    PROVE  Spec => []UpgradeInv
<1>1. Init => UpgradeInv
  <2> SUFFICES ASSUME Init PROVE UpgradeInv
    OBVIOUS
  <2>1. \A c \in installed : reported[c] = GetVersion(module[c])
    BY DEF Init, GetVersion, Factory
  <2> QED
    BY <2>1 DEF Init, UpgradeInv, NoState
<1>2. UpdateInv /\ CycleInv /\ LoopInv /\ SavedInv /\ UpgradeInv /\ [Next]_vars => UpgradeInv'
  <2> SUFFICES ASSUME UpdateInv, CycleInv, LoopInv, SavedInv, UpgradeInv, [Next]_vars
               PROVE  UpgradeInv'
    OBVIOUS
  <2>0. /\ TypeOK /\ UpdateProgress
        /\ state \in HandlerStates
        /\ event \in {"prepare", "update", "apply", "revert", "none"}
        /\ event = "none" <=> step \in {"ready", "down"}
    BY DEF UpdateInv, TypeOK, Events, Transitions
  <2>a. saved' = saved => Upgrades(saved)' = Upgrades(saved)
    BY DEF Upgrades, Requested, Target
  <2>1. ASSUME NEW e \in Events, SendCommand(e) PROVE UpgradeInv'
    <3>1. /\ event' = e /\ e # "prepare" /\ saved' = saved
          /\ step' = "operate" \/ (step' = "changed" /\ current' = "failed")
      BY <2>1 DEF SendCommand, componentOperation
    <3> QED
      BY <2>a, <3>1 DEF UpgradeInv
  <2>2. ASSUME NEW infos \in Infos, NEW stray \in BOOLEAN, PrepareUpdate(infos, stray)
        PROVE  UpgradeInv'
    <3> DEFINE good == {c \in DOMAIN infos : c \in installed /\ ~Broken(c)}
    <3>1. UNCHANGED <<saved, module>> /\ step = "ready" /\ current = "idle"
      BY <2>2 DEF PrepareUpdate, Transitions
    <3>2. CASE DOMAIN infos = {} \/ stray \/ good # DOMAIN infos
      <4>1. step' = "changed" /\ current' = "failed"
        BY <2>2, <3>2 DEF PrepareUpdate
      <4> QED
        BY <2>a, <3>1, <4>1 DEF UpgradeInv
    <3>3. CASE ~(DOMAIN infos = {} \/ stray \/ good # DOMAIN infos)
      <4> DEFINE s == Started(infos, good)
      <4>1. componentOperation("prepare", s)
        BY <2>2, <3>3 DEF PrepareUpdate
      <4>2. s \in HandlerStates
        <5>1. good \in SUBSET (DOMAIN infos)
          OBVIOUS
        <5> QED
          BY <2>0, <5>1, StartedType
      <4>3. \A c \in Requested(s) : s.CurrentVersions[c] = GetVersion(module[c])
        <5>1. \A c \in Requested(s) : c \in good /\ s.CurrentVersions[c] = reported[c]
          BY DEF Requested, Started, NoStatus
        <5> QED
          BY <3>1, <5>1 DEF UpgradeInv
      <4>4. "prepare" \in Events /\ StopOnError("prepare")
        BY DEF Events, Transitions, StopOnError
      <4> HIDE DEF s
      <4>5. /\ event' = "prepare" /\ reboots' = {}
            /\ \/ step' = "changed" /\ current' = "failed"
               \/ step' = "operate" /\ queue' = Requested(state')
        BY <4>1, <4>2, <4>4, LoopBegins
      <4>6. Requested(state') = Requested(s) /\ state'.CurrentVersions = s.CurrentVersions
        BY <4>1, <4>2, <4>4, BeginsSame
      <4> QED
        BY <2>a, <3>1, <4>3, <4>5, <4>6 DEF UpgradeInv
    <3> QED
      BY <3>2, <3>3
  <2>3. ASSUME NEW c \in Components, DoOperation(c) PROVE UpgradeInv'
    BY <2>0, <2>3, UpgradeOperation
  <2>4. ASSUME Die PROVE UpgradeInv'
    BY <2>a, <2>4 DEF Die, UpgradeInv
  <2>5. ASSUME NEW c \in Components, RebootComponent(c) PROVE UpgradeInv'
    <3>1. CASE RebootFails(c) \/ ComponentReboots(c)
      <4>1. step = "reboot" /\ UNCHANGED <<saved, event, step>>
        BY <2>5, <3>1 DEF RebootComponent, RebootFails, ComponentReboots
      <4> QED
        BY <2>a, <4>1 DEF UpgradeInv
    <3> QED
      BY <2>0, <2>4, <2>5, <3>1, GoDownModules DEF RebootComponent, SystemReboots
  <2>6. ASSUME OperationsDone PROVE UpgradeInv'
    <3>1. step = "operate" /\ queue = {} /\ UNCHANGED <<saved, event, err, module>>
      BY <2>6 DEF OperationsDone
    <3>2. CASE Finish
      <4>1. step' = "changed"
        BY <3>2 DEF Finish
      <4>2. current' = "prepared" => event = "prepare" /\ ~err
        BY <2>0, <3>1, <3>2 DEF Finish, CycleInv, Transitions, StopOnError
      <4>3. /\ Requested(state') = Requested(state)
            /\ state'.CurrentVersions = state.CurrentVersions
            /\ \A d \in Components : Target(state', d) = Target(state, d)
        BY <2>0, <2>6, LoopSame
      <4>4. current' = "prepared" => Upgrades(state')
        BY <3>1, <4>2, <4>3 DEF UpgradeInv, Upgrades, Requested
      <4> QED
        BY <2>a, <3>1, <4>1, <4>4 DEF UpgradeInv
    <3>3. CASE ~Finish
      <4>1. step' = "reboot" /\ reboots # {}
        BY <2>6, <3>3 DEF OperationsDone
      <4> QED
        BY <2>a, <3>1, <4>1 DEF UpgradeInv
    <3> QED
      BY <3>2, <3>3
  <2>7. ASSUME RebootsDone PROVE UpgradeInv'
    <3>1. /\ step = "reboot" /\ UNCHANGED <<saved, event>>
          /\ step' = "operate" \/ (step' = "changed" /\ current' = "failed")
      BY <2>7 DEF RebootsDone, Finish
    <3> QED
      BY <2>a, <3>1 DEF UpgradeInv
  <2>8. ASSUME OnStateChanged PROVE UpgradeInv'
    <3>1. /\ step = "changed" /\ step' = "ready" /\ event' = "none"
          /\ UNCHANGED <<module, installed>>
          /\ reported' = IF current = "idle" THEN getVersions(Changed, installed, module)
                         ELSE reported
          /\ \/ saved' = Changed /\ current' = current
             \/ saved' = saved /\ current' = "failed"
      BY <2>8 DEF OnStateChanged
    <3>2. Changed.UpdateState = current
      BY <2>0, ChangedType
    <3>3. current = "idle" => \A c \in installed : reported'[c] = GetVersion(module[c])
      BY <2>0, <3>1, <3>2 DEF getVersions, TypeOK
    <3>4. saved' = Changed /\ current \in {"prepared", "updated"} => Upgrades(saved')
      <4>1. CASE current = "prepared"
        BY <2>0, <3>1, <4>1, ChangedSame DEF UpgradeInv, Upgrades, Requested
      <4>2. CASE current = "updated"
        <5>1. event = "update"
          BY <2>0, <3>1, <4>2 DEF CycleInv, Results, Transitions
        <5>2. SameUpdate /\ saved.UpdateState = "prepared"
          BY <2>0, <3>1, <5>1 DEF SavedInv, UpdateProgress
        <5>3. Upgrades(saved)
          BY <5>2 DEF UpgradeInv
        <5> QED
          BY <2>0, <4>2, <5>2, <5>3, ChangedSame DEF Upgrades, SameUpdate, Requested
      <4> QED
        BY <4>1, <4>2
    <3> QED
      BY <2>a, <3>1, <3>2, <3>3, <3>4 DEF UpgradeInv
  <2>9. ASSUME Crash PROVE UpgradeInv'
    BY <2>0, <2>4, <2>9, GoDownModules DEF Crash, PowerCut, ProcessCrash
  <2>10. ASSUME Restart PROVE UpgradeInv'
    <3>1. /\ saved' = saved /\ step' = "ready" /\ event' = event
          /\ current' = saved.UpdateState /\ event = "none"
      BY <2>0, <2>10 DEF Restart
    <3>2. reported' = getVersions(saved, installed', module') /\ installed' \subseteq Components
      BY <2>10 DEF Restart
    <3>3. saved.UpdateState = "idle" =>
            \A c \in installed' : reported'[c] = GetVersion(module'[c])
      BY <3>2 DEF getVersions
    <3> QED
      BY <2>a, <3>1, <3>3 DEF UpgradeInv
  <2>11. CASE UNCHANGED vars
    BY <2>11 DEF vars, process, UpgradeInv, Upgrades, Requested, Target
  <2> QED
    BY <2>1, <2>2, <2>3, <2>5, <2>6, <2>7, <2>8, <2>9, <2>10, <2>11 DEF Next, Work, Command
<1>3. Spec => []UpdateInv
  BY UpdateInvAlways
<1> QED
  BY <1>1, <1>2, <1>3, CycleInvAlways, LoopInvAlways, SavedInvAlways, PTL DEF Spec

-----------------------------------------------------------------------------
\* What an apply may do to a module.
LEMMA ApplyCommits ==
    ASSUME NEW c \in Components, module[c] \in Modules, NEW o \in applyComponent(c)
    PROVE  /\ o.module.init = module[c].init
           /\ \/ o.module = module[c] /\ (~o.err => Phase(module[c]) = "idle")
              \/ /\ module[c].phase = "updated"
                 /\ o.module.phase = "idle"
                 /\ o.module.previous = module[c].image
<1> DEFINE m == module[c]
           applied == [m EXCEPT !.phase = "idle", !.previous = m.image]
<1>1. PICK p \in Apply(m) : o = p \/ o = Fail(p.module)
  BY DEF applyComponent
<1>2. \/ p = Fail(m)
      \/ p = Done(m) /\ Phase(m) = "idle"
      \/ Phase(m) = "updated" /\ p \in {Done(applied), NeedReboot(applied), Fail(applied)}
  BY DEF Apply
<1>3. applied.phase = "idle" /\ applied.previous = m.image /\ applied.init = m.init
  BY DEF Modules
<1>4. Phase(m) = "updated" => m.phase = "updated"
  BY DEF Phase
<1>5. \A n : /\ Fail(n).module = n /\ Fail(n).err
            /\ NeedReboot(n).module = n /\ Done(n).module = n
  BY DEF Fail, NeedReboot, Done
<1> HIDE DEF m, applied
<1> QED
  BY <1>1, <1>2, <1>3, <1>4, <1>5 DEF m

\* What a revert may do to a module.
LEMMA RevertEnds ==
    ASSUME NEW m \in Modules, NEW o \in Revert(m)
    PROVE  /\ o.module.previous = m.previous
           /\ o.module = m \/ o.module.phase = "idle"
<1> DEFINE reverted == [m EXCEPT !.phase = "idle", !.image = m.previous]
<1>1. o \in {Fail(m), Done(m), Fail(reverted), Done(reverted), NeedReboot(reverted)}
  BY DEF Revert
<1>2. reverted.phase = "idle" /\ reverted.previous = m.previous
  BY DEF Modules
<1>3. \A n : Fail(n).module = n /\ NeedReboot(n).module = n /\ Done(n).module = n
  BY DEF Fail, NeedReboot, Done
<1> HIDE DEF reverted
<1> QED
  BY <1>1, <1>2, <1>3

\* Preparing and updating change neither the version a module runs nor the one it
\* comes back to, and do not make it idle.
LEMMA TryingKeeps ==
    ASSUME NEW c \in Components, module[c] \in Modules,
           NEW o \in prepareComponent(c) \cup updateComponent(c)
    PROVE  /\ o.module.previous = module[c].previous
           /\ o.module.version = module[c].version
           /\ o.module.init = module[c].init
           /\ o.module.phase = "idle" => module[c].phase = "idle"
<1> DEFINE m == module[c]
           prepared(v) == [m EXCEPT !.phase = "prepared", !.image = v]
           installed_m == [m EXCEPT !.phase = "updated"]
           Kept(n) == /\ n.previous = m.previous /\ n.version = m.version /\ n.init = m.init
                      /\ n.phase = "idle" => m.phase = "idle"
<1>1. \/ o = Fail(m)
      \/ \E v \in Versions : o = Done(prepared(v)) \/ o = Fail(prepared(v))
      \/ \E p \in Update(m) : o = p \/ o = Fail(p.module)
  BY DEF prepareComponent, Prepare, updateComponent
<1>2. \A p \in Update(m) : p \in {Fail(m), Done(m), Fail(installed_m), NeedReboot(installed_m)}
  BY DEF Update
<1>3. Kept(m) /\ Kept(installed_m) /\ \A v \in Versions : Kept(prepared(v))
  BY DEF Modules
<1>4. \A n : Fail(n).module = n /\ NeedReboot(n).module = n /\ Done(n).module = n
  BY DEF Fail, NeedReboot, Done
<1> HIDE DEF m, prepared, installed_m, Kept
<1>5. Kept(o.module)
  BY <1>1, <1>2, <1>3, <1>4
<1> QED
  BY <1>5 DEF m, Kept

\* What DecisionInv says of a module does not depend on the version it runs.
SameInstall ==
    \A c \in Components : /\ module'[c].phase = module[c].phase
                          /\ module'[c].image = module[c].image
                          /\ module'[c].previous = module[c].previous

\* Boots and restarts of the process keep it.
LEMMA DownSame ==
    ASSUME TypeOK, GoDown \/ Restart \/ module' = module
                   \/ \E c \in Components : ComponentReboots(c)
    PROVE  SameInstall
<1>1. CASE GoDown
  <2>1. PICK v \in [Components -> Versions] :
          module' = [c \in Components |-> [module[c] EXCEPT !.version = v[c]]]
    BY <1>1 DEF GoDown
  <2>2. \A m \in Modules, w \in Versions :
          /\ [m EXCEPT !.version = w].phase = m.phase
          /\ [m EXCEPT !.version = w].image = m.image
          /\ [m EXCEPT !.version = w].previous = m.previous
    BY DEF Modules
  <2> QED
    BY <2>1, <2>2 DEF SameInstall, TypeOK
<1>2. CASE Restart
  BY <1>2 DEF Restart, SameInstall, TypeOK, Modules
<1>3. CASE module' = module
  BY <1>3 DEF SameInstall
<1>4. CASE \E c \in Components : ComponentReboots(c)
  BY <1>4 DEF ComponentReboots, SameInstall, TypeOK, Modules
<1> QED
  BY <1>1, <1>2, <1>3, <1>4

\* Steps that keep SameInstall keep DecisionSaved.
LEMMA DecisionSavedKept ==
    ASSUME DecisionSaved, SameInstall, saved' = saved, decided \subseteq decided'
    PROVE  DecisionSaved'
<1>1. Requested(saved) \subseteq Components
  BY DEF Requested
<1> QED
  BY <1>1 DEF DecisionSaved, SameInstall, Requested, Target

\* A call of a module in an apply keeps DecisionInv.
LEMMA ApplyOperation ==
    ASSUME TypeOK, LoopInv, SavedInv, DecisionInv,
           NEW c \in Components, DoOperation(c), event = "apply"
    PROVE  DecisionInv'
<1>1. step = "operate" /\ c \in queue /\ UNCHANGED <<saved, event, step, decided>>
  BY DEF DoOperation, Highest
<1>2. PICK o \in applyComponent(c) :
        /\ module' = [module EXCEPT ![c] = o.module]
        /\ recorded' = IF ~o.err THEN [recorded EXCEPT ![c] = Target(state, c)] ELSE recorded
        /\ state' = componentError(state, IF o.err THEN {c} ELSE {})
        /\ queue' = Rest(c, o.err, UpdatePriority)
  BY DEF DoOperation, Operation
<1>3. o.err \in BOOLEAN /\ module[c] \in Modules /\ state \in HandlerStates
  BY <1>2, OperationType DEF Operation, Events, Transitions, Outcomes, TypeOK
<1>4. /\ o.module.init = module[c].init
      /\ \/ o.module = module[c] /\ (~o.err => Phase(module[c]) = "idle")
         \/ /\ module[c].phase = "updated"
            /\ o.module.phase = "idle"
            /\ o.module.previous = module[c].image
  BY <1>2, <1>3, ApplyCommits
<1>5. module'[c] = o.module /\ \A d \in Components \ {c} : module'[d] = module[d]
  BY <1>2 DEF TypeOK
<1>6. /\ ~o.err => recorded'[c] = Target(state, c)
      /\ \A d \in Components \ {c} : recorded'[d] = recorded[d]
  BY <1>2 DEF TypeOK
<1>7. queue' = queue \ {c}
  BY <1>2 DEF Rest, StopOnError
<1>8. /\ Requested(state') = Requested(state)
      /\ \A d \in Components : Target(state', d) = Target(state, d)
  BY LoopSame
<1>9. \A d \in Components : Failed(state', d) <=> Failed(state, d) \/ (o.err /\ d = c)
  <2>1. (IF o.err THEN {c} ELSE {}) \in SUBSET Requested(state)
    BY <1>1 DEF LoopInv
  <2> QED
    BY <1>2, <1>3, <2>1, ComponentErrorMarks
<1>10. /\ saved.UpdateState = "updated"
       /\ Requested(state) = Requested(saved)
       /\ \A d \in Components : Target(state, d) = Target(saved, d)
  BY <1>1 DEF SavedInv, SameUpdate
<1>11. c \in Requested(saved) /\ Requested(saved) \subseteq Components
  BY <1>1, <1>10 DEF LoopInv, Requested
<1>12. \A d \in Requested(saved) :
         /\ module[d].phase = "updated" => module[d].image = Target(saved, d)
         /\ "revert" \notin decided =>
              module[d].phase = "updated" \/ (module[d].phase = "idle" /\ module[d].previous = Target(saved, d))
  BY <1>10 DEF DecisionInv, DecisionSaved
<1>13. DecisionSaved'
  <2>1. Requested(saved)' = Requested(saved) /\ \A d : Target(saved, d)' = Target(saved, d)
    BY <1>1 DEF Requested, Target
  <2>2. ASSUME NEW d \in Requested(saved)
        PROVE  /\ module'[d].phase = "updated" => module'[d].image = Target(saved, d)
               /\ "revert" \notin decided =>
                    module'[d].phase = "updated" \/ (module'[d].phase = "idle" /\ module'[d].previous = Target(saved, d))
    <3>1. CASE d = c
      BY <1>4, <1>5, <1>11, <1>12, <3>1
    <3>2. CASE d # c
      BY <1>5, <1>11, <1>12, <3>2
    <3> QED
      BY <3>1, <3>2
  <2> QED
    BY <1>1, <2>1, <2>2 DEF DecisionSaved
<1>14. ApplyProgress'
  <2>1. ASSUME "revert" \notin decided, NEW d \in Requested(state) \ queue', Healthy(d)'
        PROVE  Committed(d)'
    <3>0. d \in Components /\ ~Failed(state', d) /\ module'[d].init # "unread"
      BY <2>1 DEF Requested, Healthy
    <3>1. CASE d = c
      <4>1. ~o.err /\ module[c].init # "unread"
        BY <1>3, <1>4, <1>5, <1>9, <3>0, <3>1
      <4>2. Phase(module[c]) = module[c].phase
        BY <4>1 DEF Phase
      <4>3. module'[c].phase = "idle" /\ module'[c].previous = Target(saved, c)
        BY <1>4, <1>5, <1>11, <1>12, <2>1, <4>1, <4>2
      <4> QED
        BY <1>6, <1>8, <1>10, <3>1, <4>1, <4>3 DEF Committed
    <3>2. CASE d # c
      <4>1. ~Failed(state, d) /\ module'[d] = module[d] /\ recorded'[d] = recorded[d]
        BY <1>5, <1>6, <1>9, <3>0, <3>2
      <4>2. d \in Requested(state) \ queue
        BY <1>7, <2>1, <3>2
      <4>3. Committed(d)
        BY <1>1, <2>1, <3>0, <4>1, <4>2 DEF DecisionInv, ApplyProgress, Healthy
      <4> QED
        BY <1>8, <3>0, <4>1, <4>3 DEF Committed
    <3> QED
      BY <3>1, <3>2
  <2> QED
    BY <1>1, <1>8, <2>1 DEF ApplyProgress
<1>15. AppliedIsCommitted'
  BY <1>1 DEF AppliedIsCommitted, Ending
<1> QED
  BY <1>13, <1>14, <1>15 DEF DecisionInv

\* So does a call of a module in any other transition.
LEMMA OtherOperation ==
    ASSUME UpdateInv, DecisionInv, NEW c \in Components, DoOperation(c), event # "apply"
    PROVE  DecisionInv'
<1>1. step = "operate" /\ UNCHANGED <<saved, event, step, decided>>
  BY DEF DoOperation
<1>2. event \in {"prepare", "update", "revert"} /\ module \in [Components -> Modules]
  BY <1>1 DEF UpdateInv, TypeOK, Events, Transitions
<1>3. DecisionSaved'
  <2>1. CASE event # "revert"
    BY <1>1, <1>2, <2>1 DEF UpdateInv, UpdateProgress, DecisionSaved
  <2>2. CASE event = "revert"
    <3>1. "revert" \in decided /\ "revert" \in decided'
      BY <1>1, <2>2 DEF UpdateInv, UpdateProgress
    <3>2. PICK o \in Revert(module[c]) : module' = [module EXCEPT ![c] = o.module]
      BY <2>2 DEF DoOperation, Operation, revertComponent
    <3>3. o.module = module[c] \/ o.module.phase = "idle"
      BY <1>2, <3>2, RevertEnds
    <3>4. \A d \in Components : module'[d] = module[d] \/ module'[d].phase = "idle"
      BY <1>2, <3>2, <3>3
    <3>5. Requested(saved)' = Requested(saved) /\ \A d : Target(saved, d)' = Target(saved, d)
      BY <1>1 DEF Requested, Target
    <3>6. Requested(saved) \subseteq Components
      BY DEF Requested
    <3> QED
      BY <1>1, <3>1, <3>4, <3>5, <3>6 DEF DecisionInv, DecisionSaved
  <2> QED
    BY <2>1, <2>2
<1>4. ApplyProgress' /\ AppliedIsCommitted'
  BY <1>1 DEF ApplyProgress, AppliedIsCommitted, Ending
<1> QED
  BY <1>3, <1>4 DEF DecisionInv

(***************************************************************************)
(* DecisionInv is an invariant, as long as the race does not occur.        *)
(***************************************************************************)
LEMMA DecisionInvAlways ==
    ASSUME "race" \notin Faults
    PROVE  Spec => []DecisionInv
<1>1. Init => DecisionInv
  BY DEF Init, DecisionInv, DecisionSaved, ApplyProgress, AppliedIsCommitted, Ending, NoState
<1>2. UpdateInv /\ CycleInv /\ LoopInv /\ SavedInv /\ DecisionInv /\ [Next]_vars => DecisionInv'
  <2> SUFFICES ASSUME UpdateInv, CycleInv, LoopInv, SavedInv, DecisionInv, [Next]_vars
               PROVE  DecisionInv'
    OBVIOUS
  <2>0. /\ TypeOK /\ UpdateProgress /\ DecisionSaved
        /\ state \in HandlerStates
        /\ event \in {"prepare", "update", "apply", "revert", "none"}
        /\ event = "none" <=> step \in {"ready", "down"}
    BY DEF UpdateInv, TypeOK, Events, Transitions, DecisionInv
  <2>1. ASSUME NEW e \in Events, SendCommand(e) PROVE DecisionInv'
    <3> DEFINE s == [state EXCEPT !.Error = FALSE]
               missing == Requested(s) \ installed
    <3>1. UNCHANGED <<saved, module>> /\ decided \subseteq decided' /\ componentOperation(e, s)
      BY <2>1 DEF SendCommand
    <3>2. DecisionSaved'
      BY <2>0, <3>1, DownSame, DecisionSavedKept
    <3>3. event' = e /\ (e = "apply" => step' = "operate")
      BY <3>1 DEF componentOperation, StopOnError
    <3>4. ASSUME e = "apply" PROVE \A c \in Requested(state') \ queue' : Failed(state', c)
      <4>1. state' = componentError(s, missing) /\ queue' = Requested(s) \ missing
        BY <3>1, <3>4 DEF componentOperation, StopOnError
      <4>2. s \in HandlerStates /\ missing \in SUBSET Requested(s)
        BY <2>0 DEF HandlerStates
      <4> HIDE DEF s, missing
      <4>3. /\ Requested(state') = Requested(s)
            /\ \A c \in Components : Failed(state', c) <=> Failed(s, c) \/ c \in missing
        BY <4>1, <4>2, ComponentErrorMarks
      <4> QED
        BY <4>1, <4>3 DEF Requested
    <3> QED
      BY <3>2, <3>3, <3>4 DEF DecisionInv, ApplyProgress, AppliedIsCommitted, Ending, Healthy
  <2>2. ASSUME NEW infos \in Infos, NEW stray \in BOOLEAN, PrepareUpdate(infos, stray)
        PROVE  DecisionInv'
    <3>1. saved'.UpdateState = "idle"
      BY <2>0, <2>2 DEF PrepareUpdate, Transitions, UpdateProgress
    <3>2. event' = "prepare"
      BY <2>2 DEF PrepareUpdate, componentOperation
    <3> QED
      BY <3>1, <3>2 DEF DecisionInv, DecisionSaved, ApplyProgress, AppliedIsCommitted, Ending
  <2>3. ASSUME NEW c \in Components, DoOperation(c) PROVE DecisionInv'
    BY <2>0, <2>3, ApplyOperation, OtherOperation
  <2>4. ASSUME NEW c \in Components, RebootComponent(c), ~Die PROVE DecisionInv'
    <3>1. step = "reboot" /\ c \in queue /\ UNCHANGED <<saved, recorded, event, step, decided>>
      BY <2>4, GoDownModules DEF RebootComponent, RebootFails, ComponentReboots, SystemReboots, GoDown, Highest
    <3>2. \/ RebootFails(c) /\ module' = module
          \/ ComponentReboots(c) /\ state' = state
      BY <2>4 DEF RebootComponent, RebootFails, ComponentReboots, SystemReboots, GoDown
    <3>3. SameInstall /\ \A d \in Components : module'[d].init = module[d].init
      <4>1. SameInstall
        BY <2>0, <3>2, DownSame
      <4>2. ComponentReboots(c) => \A d \in Components : module'[d].init = module[d].init
        BY <2>0 DEF ComponentReboots, TypeOK, Modules
      <4> QED
        BY <3>2, <4>1, <4>2
    <3>4. DecisionSaved'
      BY <2>0, <3>1, <3>3, DecisionSavedKept
    <3>5. /\ Requested(state') = Requested(state)
          /\ \A d \in Components : /\ Target(state', d) = Target(state, d)
                                   /\ Failed(state, d) => Failed(state', d)
      <4>1. CASE state' = state
        BY <4>1
      <4>2. CASE RebootFails(c)
        <5>1. state' = componentError(state, {c}) /\ {c} \in SUBSET Requested(state)
          BY <3>1, <4>2 DEF RebootFails, LoopInv
        <5> QED
          BY <2>0, <5>1, ComponentErrorMarks, ComponentErrorType
      <4> QED
        BY <3>2, <4>1, <4>2
    <3>6. ApplyProgress'
      <4>1. \A d \in Components :
              (Healthy(d) => Committed(d)) => (Healthy(d)' => Committed(d)')
        BY <3>1, <3>3, <3>5 DEF Healthy, Committed, SameInstall
      <4>2. Requested(state) \subseteq Components
        BY DEF Requested
      <4> QED
        BY <3>1, <3>5, <4>1, <4>2 DEF DecisionInv, ApplyProgress
    <3> QED
      BY <3>1, <3>4, <3>6 DEF DecisionInv, AppliedIsCommitted, Ending
  <2>5. ASSUME Die, SameInstall PROVE DecisionInv'
    <3>1. step' = "down" /\ event' = "none" /\ UNCHANGED <<saved, decided>>
      BY <2>5 DEF Die
    <3> QED
      BY <2>0, <2>5, <3>1, DecisionSavedKept DEF DecisionInv, ApplyProgress, AppliedIsCommitted, Ending
  <2>6. ASSUME OperationsDone \/ RebootsDone PROVE DecisionInv'
    <3>1. UNCHANGED <<saved, module, recorded, event, decided>>
      BY <2>6 DEF OperationsDone, RebootsDone
    <3>2. DecisionSaved'
      BY <2>0, <3>1, DownSame, DecisionSavedKept
    <3>3. /\ state'.ComponentStatuses = state.ComponentStatuses
          /\ step \in {"operate", "reboot"}
          /\ event = "apply" /\ step = "operate" => queue = {}
          /\ event = "apply" /\ step' = "changed" => step = "operate"
      BY <2>0, <2>6 DEF OperationsDone, RebootsDone, Finish, HandlerStates, StopOnError
    <3>4. event = "apply" /\ "revert" \notin decided =>
            \A c \in Requested(state) : Healthy(c) => Committed(c)
      BY <3>3 DEF DecisionInv, ApplyProgress
    <3>5. /\ Requested(state') = Requested(state)
          /\ \A c : Target(state', c) = Target(state, c) /\ Failed(state', c) = Failed(state, c)
      BY <3>3 DEF Requested, Target, Failed
    <3>6. ApplyProgress' /\ AppliedIsCommitted'
      BY <3>1, <3>4, <3>5 DEF ApplyProgress, AppliedIsCommitted, Ending, Healthy, Committed
    <3> QED
      BY <3>2, <3>6 DEF DecisionInv
  <2>7. ASSUME OnStateChanged PROVE DecisionInv'
    <3>1. /\ step = "changed" /\ step' = "ready" /\ event' = "none"
          /\ UNCHANGED <<module, decided>>
          /\ saved' = Changed \/ saved' = saved
      BY <2>7 DEF OnStateChanged
    <3>2. Changed.UpdateState = current
      BY <2>0, ChangedType
    <3>3. saved' = Changed /\ current = "updated" => DecisionSaved'
      <4> SUFFICES ASSUME saved' = Changed, current = "updated" PROVE DecisionSaved'
        OBVIOUS
      <4>1. event = "update"
        BY <2>0, <3>1 DEF CycleInv, Results, Transitions
      <4>2. \A c \in Requested(state) : module[c].phase = "updated" /\ module[c].image = Target(state, c)
        BY <2>0, <3>1, <4>1 DEF UpdateProgress, Verified
      <4>3. /\ Requested(Changed) = Requested(state)
            /\ \A c \in Components : Target(Changed, c) = Target(state, c)
        BY <2>0, ChangedSame
      <4> QED
        BY <3>1, <4>2, <4>3 DEF DecisionSaved, Requested
    <3>4. DecisionSaved'
      <4>1. CASE saved' = saved
        BY <2>0, <3>1, <4>1, DownSame, DecisionSavedKept
      <4>2. CASE saved' = Changed /\ current # "updated"
        BY <3>2, <4>2 DEF DecisionSaved
      <4> QED
        BY <3>1, <3>3, <4>1, <4>2
    <3> QED
      BY <3>1, <3>4 DEF DecisionInv, ApplyProgress, AppliedIsCommitted, Ending
  <2>8. ASSUME Crash PROVE DecisionInv'
    BY <2>0, <2>5, <2>8, GoDownModules, DownSame DEF Crash, PowerCut, ProcessCrash
  <2>9. ASSUME Restart PROVE DecisionInv'
    <3>1. step' = "ready" /\ event' = "none" /\ UNCHANGED <<saved, decided>>
      BY <2>0, <2>9 DEF Restart
    <3> QED
      BY <2>0, <2>9, <3>1, DownSame, DecisionSavedKept
      DEF DecisionInv, ApplyProgress, AppliedIsCommitted, Ending
  <2>10. CASE UNCHANGED vars
    BY <2>10 DEF vars, process, DecisionInv, DecisionSaved, ApplyProgress, AppliedIsCommitted,
                 Ending, Healthy, Committed, Requested, Target, Failed
  <2>11. ASSUME NEW c \in Components, RebootComponent(c) PROVE DecisionInv'
    BY <2>0, <2>4, <2>5, <2>11, GoDownModules, DownSame
    DEF RebootComponent, RebootFails, ComponentReboots, SystemReboots, Die
  <2> QED
    BY <2>1, <2>2, <2>3, <2>6, <2>7, <2>8, <2>9, <2>10, <2>11 DEF Next, Work, Command
<1>3. Spec => []UpdateInv
  BY UpdateInvAlways
<1> QED
  BY <1>1, <1>2, <1>3, CycleInvAlways, LoopInvAlways, SavedInvAlways, PTL DEF Spec

(***************************************************************************)
(* When an apply ends without a revert ever asked for, every component it  *)
(* reports no error for comes back to the version asked for, and the       *)
(* database says so (onApplyState, repeated after reboots and crashes).    *)
(***************************************************************************)
THEOREM AppliedIsCommittedAlways ==
    ASSUME "race" \notin Faults
    PROVE  Spec => []AppliedIsCommitted
<1>1. DecisionInv => AppliedIsCommitted
  BY DEF DecisionInv
<1>2. Spec => []DecisionInv
  BY DecisionInvAlways
<1> QED
  BY <1>1, <1>2, PTL

(***************************************************************************)
(* What a component comes back to changes in an apply only, and to a       *)
(* higher version than the one reported before the update (verifySemver,   *)
(* onApplyState).                                                          *)
(***************************************************************************)
THEOREM CommitsOnlyUpgradesAlways ==
    ASSUME "race" \notin Faults
    PROVE  Spec => CommitsOnlyUpgrades
<1> DEFINE Upgrade ==
      \A c \in Components : module'[c].previous # module[c].previous =>
          /\ event = "apply"
          /\ module'[c].previous = Target(state, c)
          /\ module'[c].previous > state.CurrentVersions[c]
<1>1. TypeOK /\ LoopInv /\ SavedInv /\ UpgradeInv /\ DecisionInv /\ [Next]_vars => [Upgrade]_vars
  <2> SUFFICES ASSUME TypeOK, LoopInv, SavedInv, UpgradeInv, DecisionInv, [Next]_vars,
                      NEW c \in Components, module'[c].previous # module[c].previous
               PROVE  /\ event = "apply"
                      /\ module'[c].previous = Target(state, c)
                      /\ module'[c].previous > state.CurrentVersions[c]
    OBVIOUS
  <2>1. ~SameInstall
    BY DEF SameInstall
  <2>2. PICK a \in Components : DoOperation(a)
    <3>1. \A a \in Components : RebootComponent(a) => SameInstall
      BY DownSame DEF RebootComponent, RebootFails, SystemReboots
    <3>2. Crash \/ Restart => SameInstall
      BY DownSame DEF Crash, PowerCut, ProcessCrash
    <3>3. OperationsDone \/ RebootsDone \/ OnStateChanged \/ UNCHANGED vars => SameInstall
      BY DownSame DEF OperationsDone, RebootsDone, OnStateChanged, vars
    <3>4. \A e \in Events : SendCommand(e) => SameInstall
      BY DownSame DEF SendCommand
    <3>5. \A infos \in Infos, stray \in BOOLEAN : PrepareUpdate(infos, stray) => SameInstall
      BY DownSame DEF PrepareUpdate
    <3> QED
      BY <2>1, <3>1, <3>2, <3>3, <3>4, <3>5 DEF Next, Work, Command
  <2>3. PICK o \in Operation(a) : module' = [module EXCEPT ![a] = o.module]
    BY <2>2 DEF DoOperation
  <2>4. a = c /\ module'[c] = o.module /\ module[c] \in Modules
    BY <2>3 DEF TypeOK
  <2>5. step = "operate" /\ c \in queue /\ event \in {"prepare", "update", "apply", "revert"}
    BY <2>2, <2>4 DEF DoOperation, Highest, TypeOK, Events, Transitions
  <2>6. event = "apply"
    BY <2>3, <2>4, <2>5, TryingKeeps, RevertEnds DEF Operation, revertComponent
  <2>7. module[c].phase = "updated" /\ o.module.previous = module[c].image
    BY <2>3, <2>4, <2>6, ApplyCommits DEF Operation
  <2>8. /\ saved.UpdateState = "updated"
        /\ c \in Requested(saved)
        /\ Target(state, c) = Target(saved, c)
        /\ state.CurrentVersions = saved.CurrentVersions
    BY <2>5, <2>6 DEF LoopInv, SavedInv, SameUpdate
  <2>9. module[c].image = Target(saved, c)
    BY <2>7, <2>8 DEF DecisionInv, DecisionSaved
  <2>10. Target(saved, c) > saved.CurrentVersions[c]
    BY <2>8 DEF UpgradeInv, Upgrades
  <2> QED
    BY <2>4, <2>6, <2>7, <2>8, <2>9, <2>10
<1>2. Spec => []UpgradeInv /\ []DecisionInv
  BY UpgradeInvAlways, DecisionInvAlways
<1> QED
  BY <1>1, <1>2, TypeCorrect, LoopInvAlways, SavedInvAlways, PTL DEF Spec, CommitsOnlyUpgrades

-----------------------------------------------------------------------------
(***************************************************************************)
(* Between updates the versions reported are those that run, and the       *)
(* versions kept from before an update are the ones that were, and are     *)
(* still, reported.                                                        *)
(***************************************************************************)
ReportInv ==
    /\ step = "ready" /\ current = "idle" => \A c \in installed : reported[c] = GetVersion(module[c])
    /\ (step = "ready" /\ current \in {"prepared", "updated"}) \/ event \in {"prepare", "update"} =>
        \A c \in installed : state.CurrentVersions[c] # NoVersion => reported[c] = state.CurrentVersions[c]

\* A command stays with the update and the modules; components the configuration
\* lacks are marked, and the others are queued.
LEMMA CommandSame ==
    ASSUME TypeOK, NEW e \in Events, SendCommand(e)
    PROVE  /\ step = "ready" /\ current # "idle" /\ event' = e
           /\ Requested(state') = Requested(state)
           /\ state'.CurrentVersions = state.CurrentVersions
           /\ \A c \in Components : Failed(state, c) => Failed(state', c)
           /\ step' \in {"operate", "changed"}
           /\ e = "revert" => /\ step' = "operate" /\ reboots' = {}
                              /\ \A c \in Requested(state') : c \in queue' \/ Failed(state', c)
<1> DEFINE s == [state EXCEPT !.Error = FALSE]
           missing == Requested(s) \ installed
<1>1. /\ s \in HandlerStates
      /\ s.ComponentStatuses = state.ComponentStatuses
      /\ s.CurrentVersions = state.CurrentVersions
  BY DEF TypeOK, HandlerStates
<1>2. componentOperation(e, s) /\ step = "ready" /\ current # "idle"
  BY DEF SendCommand, Events, Transitions
<1>3. \A f \in SUBSET Requested(s) :
        /\ componentError(s, f) \in HandlerStates
        /\ \A c \in Components : Failed(componentError(s, f), c) <=> Failed(s, c) \/ c \in f
  BY <1>1, ComponentErrorMarks
<1>4. \A c : Failed(s, c) = Failed(state, c)
  BY <1>1 DEF Failed
<1>5. Requested(s) = Requested(state)
  BY <1>1 DEF Requested
<1>6. CASE StopOnError(e) /\ missing # {}
  <2>1. PICK c \in missing : state' = [componentError(s, {c}) EXCEPT !.Error = TRUE]
    BY <1>2, <1>6 DEF componentOperation
  <2>2. {c} \in SUBSET Requested(s)
    BY <2>1
  <2>3. state'.ComponentStatuses = componentError(s, {c}).ComponentStatuses
    BY <1>3, <2>1, <2>2 DEF HandlerStates
  <2>4. \A d \in Components : Failed(state, d) => Failed(state', d)
    <3>1. \A d \in Components : Failed(state', d) = Failed(componentError(s, {c}), d)
      BY <2>3 DEF Failed
    <3> HIDE DEF s, missing
    <3> QED
      BY <1>3, <1>4, <2>2, <3>1
  <2>5. e # "revert" /\ event' = e /\ step' = "changed"
    BY <1>2, <1>6 DEF componentOperation, StopOnError
  <2> HIDE DEF s
  <2> QED
    BY <1>1, <1>2, <1>5, <2>4, <2>5, BeginsSame
<1>7. CASE ~(StopOnError(e) /\ missing # {})
  <2>1. /\ state' = componentError(s, missing) /\ queue' = Requested(s) \ missing
        /\ event' = e /\ step' = "operate" /\ reboots' = {}
    BY <1>2, <1>7 DEF componentOperation
  <2>2. missing \in SUBSET Requested(s)
    OBVIOUS
  <2> HIDE DEF s, missing
  <2>3. Requested(state') = Requested(s) /\ state'.CurrentVersions = s.CurrentVersions
    BY <1>1, <1>2, BeginsSame
  <2>4. Requested(s) \subseteq Components
    BY DEF Requested
  <2> QED
    BY <1>1, <1>2, <1>3, <1>4, <1>5, <2>1, <2>2, <2>3, <2>4
<1> QED
  BY <1>6, <1>7

(***************************************************************************)
(* PrepareUpdate starts an update of components that were initialized, at  *)
(* the versions reported, with none of them failed so far.                 *)
(***************************************************************************)
LEMMA PrepareStarts ==
    ASSUME TypeOK, NEW infos \in Infos, NEW stray \in BOOLEAN, PrepareUpdate(infos, stray)
    PROVE  /\ step = "ready" /\ current = "idle" /\ UNCHANGED <<module, installed, reported>>
           /\ event' = "prepare" /\ step' \in {"operate", "changed"}
           /\ \A c \in Components :
                state'.CurrentVersions[c] # NoVersion => state'.CurrentVersions[c] = reported[c]
           /\ \A c \in Requested(state') :
                /\ c \in installed /\ module[c].init = "ok"
                /\ state'.CurrentVersions[c] = reported[c]
<1> DEFINE good == {c \in DOMAIN infos : c \in installed /\ ~Broken(c)}
           Right(s) ==
             /\ \A c \in Components :
                  s.CurrentVersions[c] # NoVersion => s.CurrentVersions[c] = reported[c]
             /\ \A c \in Requested(s) :
                  /\ c \in installed /\ module[c].init = "ok"
                  /\ s.CurrentVersions[c] = reported[c]
<1>1. \A accepted \in SUBSET good :
        Started(infos, accepted) \in HandlerStates /\ Right(Started(infos, accepted))
  <2> SUFFICES ASSUME NEW accepted \in SUBSET good
               PROVE  Started(infos, accepted) \in HandlerStates /\ Right(Started(infos, accepted))
    OBVIOUS
  <2> DEFINE s == Started(infos, accepted)
  <2>1. s \in HandlerStates
    <3>1. accepted \in SUBSET (DOMAIN infos)
      OBVIOUS
    <3> QED
      BY <3>1, StartedType
  <2>2. \A c \in Components :
          s.CurrentVersions[c] = IF c \in accepted THEN reported[c] ELSE NoVersion
    BY DEF Started
  <2>3. \A c \in Requested(s) : c \in Components /\ c \in accepted
    BY DEF Started, Requested, NoStatus
  <2>4. \A c \in accepted : c \in installed /\ module[c].init = "ok"
    BY DEF Broken
  <2> HIDE DEF s, good
  <2>5. Right(s)
    BY <2>2, <2>3, <2>4
  <2> QED
    BY <2>1, <2>5 DEF s
<1>2. /\ step = "ready" /\ current = "idle" /\ UNCHANGED <<module, installed, reported>>
      /\ event' = "prepare" /\ step' \in {"operate", "changed"}
  BY DEF PrepareUpdate, Transitions, componentOperation
<1>3. Right(state')
  <2>1. ASSUME NEW s \in HandlerStates, Right(s), NEW t,
               t.CurrentVersions = s.CurrentVersions, Requested(t) = Requested(s)
        PROVE  Right(t)
    BY <2>1
  <2>2. CASE DOMAIN infos = {} \/ stray \/ good # DOMAIN infos
    <3>1. PICK accepted \in SUBSET good :
            state' = [Started(infos, accepted) EXCEPT !.Error = TRUE]
      BY <2>2 DEF PrepareUpdate
    <3> DEFINE s == Started(infos, accepted)
    <3>2. s \in HandlerStates /\ Right(s)
      BY <1>1
    <3>3. state'.CurrentVersions = s.CurrentVersions
          /\ state'.ComponentStatuses = s.ComponentStatuses
      BY <3>1, <3>2 DEF HandlerStates
    <3> HIDE DEF s, Right
    <3>4. Requested(state') = Requested(s)
      BY <3>3 DEF Requested
    <3> QED
      BY <2>1, <3>2, <3>3, <3>4
  <2>3. CASE ~(DOMAIN infos = {} \/ stray \/ good # DOMAIN infos)
    <3> DEFINE s == Started(infos, good)
    <3>1. componentOperation("prepare", s)
      BY <2>3 DEF PrepareUpdate
    <3>2. s \in HandlerStates /\ Right(s) /\ "prepare" \in Events
      BY <1>1 DEF Events, Transitions
    <3> HIDE DEF s, Right
    <3>3. Requested(state') = Requested(s) /\ state'.CurrentVersions = s.CurrentVersions
      BY <3>1, <3>2, BeginsSame
    <3> QED
      BY <2>1, <3>2, <3>3
  <2> QED
    BY <2>2, <2>3
<1> QED
  BY <1>2, <1>3

-----------------------------------------------------------------------------
(***************************************************************************)
(* ReportInv is an invariant, whatever fails.                              *)
(***************************************************************************)
LEMMA ReportInvAlways == Spec => []ReportInv
<1>1. Init => ReportInv
  BY DEF Init, ReportInv, GetVersion, Factory
<1>2. TypeOK /\ CycleInv /\ LoopInv /\ ReportInv /\ [Next]_vars => ReportInv'
  <2> SUFFICES ASSUME TypeOK, CycleInv, LoopInv, ReportInv, [Next]_vars
               PROVE  ReportInv'
    OBVIOUS
  <2>0. /\ event \in {"prepare", "update", "apply", "revert", "none"}
        /\ event = "none" <=> step \in {"ready", "down"}
        /\ installed \subseteq Components
        /\ Events = {"prepare", "update", "apply", "revert"}
    BY DEF TypeOK, Events, Transitions
  <2>1. ASSUME NEW e \in Events, SendCommand(e) PROVE ReportInv'
    <3>1. /\ step = "ready" /\ event' = e
          /\ state'.CurrentVersions = state.CurrentVersions
          /\ step' \in {"operate", "changed"}
      BY <2>1, <2>0, CommandSame
    <3>2. /\ UNCHANGED <<installed, reported>>
          /\ e \in {"prepare", "update"} => current = "prepared"
      BY <2>1 DEF SendCommand, Transitions
    <3> QED
      BY <3>1, <3>2 DEF ReportInv
  <2>2. ASSUME NEW infos \in Infos, NEW stray \in BOOLEAN, PrepareUpdate(infos, stray)
        PROVE  ReportInv'
    <3>1. /\ UNCHANGED <<installed, reported>> /\ step' # "ready"
          /\ \A c \in Components :
               state'.CurrentVersions[c] # NoVersion => state'.CurrentVersions[c] = reported[c]
      BY <2>2, PrepareStarts
    <3> QED
      BY <2>0, <3>1 DEF ReportInv
  <2>3. ASSUME \/ \E c \in Components : DoOperation(c) \/ (step = "reboot" /\ c \in queue /\ RebootFails(c))
               \/ OperationsDone \/ RebootsDone
        PROVE  ReportInv'
    <3>1. state'.CurrentVersions = state.CurrentVersions
      BY <2>3, LoopSame
    <3>2. step' # "ready" /\ UNCHANGED <<installed, reported, event>>
      BY <2>3 DEF DoOperation, RebootFails, OperationsDone, RebootsDone, Finish
    <3> QED
      BY <3>1, <3>2 DEF ReportInv
  <2>4. ASSUME Die PROVE ReportInv'
    BY <2>4 DEF Die, ReportInv
  <2>5. ASSUME NEW c \in Components, RebootComponent(c) PROVE ReportInv'
    <3>1. step = "reboot" /\ c \in queue
      BY <2>5 DEF RebootComponent, Highest
    <3>2. CASE ComponentReboots(c)
      BY <3>1, <3>2 DEF ComponentReboots, ReportInv
    <3> QED
      BY <2>3, <2>4, <2>5, <3>1, <3>2, GoDownModules DEF RebootComponent, SystemReboots
  <2>6. ASSUME OnStateChanged PROVE ReportInv'
    <3>1. /\ step = "changed" /\ event' = "none" /\ UNCHANGED <<installed, module>>
          /\ reported' = IF current = "idle" THEN getVersions(Changed, installed, module) ELSE reported
          /\ \/ state' = Changed /\ current' = current
             \/ current' = "failed"
      BY <2>6 DEF OnStateChanged
    <3>2. CASE current' = "idle"
      <4>1. current = "idle" /\ Changed.UpdateState = "idle"
        BY <3>1, <3>2, ChangedType
      <4>2. \A c \in installed : reported'[c] = GetVersion(module[c])
        BY <2>0, <3>1, <4>1 DEF getVersions
      <4> QED
        BY <3>1, <3>2, <4>2 DEF ReportInv
    <3>3. CASE current' \in {"prepared", "updated"}
      <4>1. current = current' /\ state' = Changed /\ reported' = reported
        BY <3>1, <3>3
      <4>2. event \in {"prepare", "update"}
        BY <2>0, <3>1, <3>3, <4>1 DEF CycleInv, Results, Transitions
      <4>3. Changed.CurrentVersions = state.CurrentVersions
        BY <3>3, <4>1, ChangedSame
      <4> QED
        BY <3>1, <3>3, <4>1, <4>2, <4>3 DEF ReportInv
    <3> QED
      BY <3>1, <3>2, <3>3 DEF ReportInv
  <2>7. ASSUME Restart PROVE ReportInv'
    <3>1. PICK inst \in SUBSET Components :
            /\ installed' = inst
            /\ reported' = getVersions(saved, inst, module')
      BY <2>7, HandlerAssumption DEF Restart
    <3>2. state' = saved /\ current' = saved.UpdateState /\ event' = "none"
      BY <2>0, <2>7 DEF Restart
    <3>3. \A c \in inst :
            reported'[c] = IF saved.UpdateState = "idle" \/ saved.CurrentVersions[c] = NoVersion
                           THEN GetVersion(module'[c]) ELSE saved.CurrentVersions[c]
      BY <3>1 DEF getVersions
    <3> QED
      BY <3>1, <3>2, <3>3 DEF ReportInv
  <2>8. ASSUME Crash PROVE ReportInv'
    BY <2>4, <2>8, GoDownModules DEF Crash, PowerCut, ProcessCrash
  <2>9. CASE UNCHANGED vars
    BY <2>9 DEF vars, process, ReportInv
  <2> QED
    BY <2>1, <2>2, <2>3, <2>5, <2>6, <2>7, <2>8, <2>9 DEF Next, Work, Command
<1> QED
  BY <1>1, <1>2, TypeCorrect, CycleInvAlways, LoopInvAlways, PTL DEF Spec

(***************************************************************************)
(* Between updates the versions reported are those that run; while an      *)
(* update is prepared or updated, they are the ones from before it         *)
(* (getVersions).                                                          *)
(***************************************************************************)
THEOREM ReportedVersionsAlways == Spec => []ReportedVersions
<1>1. ReportInv => ReportedVersions
  BY DEF ReportInv, ReportedVersions
<1> QED
  BY <1>1, ReportInvAlways, PTL

-----------------------------------------------------------------------------
\* A boot comes back to the right version of the component, or has yet to.
Restorable(c) == module[c].phase = "idle" => module[c].version = module[c].previous

Restoring(c) ==
    Healthy(c) /\ state.CurrentVersions[c] = module[c].previous => Restorable(c)

GivenUp(c) == Healthy(c) => module[c].phase = "idle"

(***************************************************************************)
(* As long as no apply was asked for, an idle component of the update runs *)
(* the version it comes back to, unless a revert has it queued for the     *)
(* reboot that will see to it; a revert has given up the images of all     *)
(* components it no longer has to operate.                                 *)
(***************************************************************************)
RevertInv ==
    /\ step = "down" => \A c \in Components : Restorable(c)
    /\ "apply" \notin decided =>
        /\ (step = "ready" /\ current # "idle") \/ event \in {"prepare", "update"} =>
            \A c \in Requested(state) : Restoring(c)
        /\ event = "revert" => \A c \in Requested(state) :
            /\ step = "operate" => (c \in reboots \/ Restoring(c)) /\ (c \in queue \/ GivenUp(c))
            /\ step = "reboot"  => GivenUp(c) /\ (c \in queue \/ Restoring(c))
            /\ step = "changed" => GivenUp(c) /\ Restoring(c)

(***************************************************************************)
(* A revert that reports no error and asks for no reboot has found an idle *)
(* module, or one that runs the version it comes back to.                  *)
(***************************************************************************)
LEMMA RevertGivesUp ==
    ASSUME NEW m \in Modules, NEW o \in Revert(m)
    PROVE  /\ o.module.init = m.init
           /\ ~o.err /\ m.init # "unread" => o.module.phase = "idle"
           /\ ~o.err /\ ~o.reboot => o.module = m \/ o.module.version = o.module.previous
<1> DEFINE reverted == [m EXCEPT !.phase = "idle", !.image = m.previous]
<1>1. \/ o = Fail(m)
      \/ o = Done(m) /\ Phase(m) = "idle"
      \/ o = Fail(reverted)
      \/ o = Done(reverted) /\ m.version = m.previous
      \/ o = NeedReboot(reverted)
  BY DEF Revert
<1>2. /\ reverted.phase = "idle" /\ reverted.previous = m.previous
      /\ reverted.version = m.version /\ reverted.init = m.init
  BY DEF Modules
<1>3. \A n : /\ Fail(n).module = n /\ NeedReboot(n).module = n /\ Done(n).module = n
            /\ Fail(n).err /\ NeedReboot(n).reboot
  BY DEF Fail, NeedReboot, Done
<1>4. m.init # "unread" => Phase(m) = m.phase
  BY DEF Phase
<1> HIDE DEF reverted
<1> QED
  BY <1>1, <1>2, <1>3, <1>4

\* A component whose module keeps its versions and does not become idle stays right.
LEMMA RestoringKept ==
    ASSUME NEW c \in Components, Restoring(c),
           Failed(state, c) => Failed(state', c),
           state'.CurrentVersions = state.CurrentVersions,
           /\ module'[c].previous = module[c].previous
           /\ module'[c].version = module[c].version
           /\ module'[c].init = module[c].init
           /\ module'[c].phase = "idle" => module[c].phase = "idle"
    PROVE  Restoring(c)'
BY DEF Restoring, Restorable, Healthy

\* So does one a boot has brought back.
LEMMA BootRestores ==
    ASSUME TypeOK, NEW c \in Components, ComponentReboots(c)
    PROVE  /\ Restorable(c)'
           /\ \A d \in Components : module'[d].phase = module[d].phase
           /\ \A d \in Components : module'[d].init = module[d].init
           /\ \A d \in Components \ {c} : module'[d] = module[d]
<1>1. PICK v \in BootVersions(module[c]) : module' = [module EXCEPT ![c].version = v]
  BY DEF ComponentReboots
<1>2. module[c] \in Modules
  BY DEF TypeOK
<1>3. module[c].phase = "idle" => v = module[c].previous
  BY <1>1 DEF BootVersions
<1> QED
  BY <1>1, <1>2, <1>3 DEF Restorable, TypeOK, Modules

\* After a boot of the system every component is right.
LEMMA DownRestores ==
    ASSUME TypeOK, GoDown
    PROVE  \A c \in Components : Restorable(c)'
<1>1. PICK v \in [Components -> Versions] :
        /\ \A c \in Components : v[c] \in BootVersions(module[c])
        /\ module' = [c \in Components |-> [module[c] EXCEPT !.version = v[c]]]
  BY DEF GoDown
<1>2. \A c \in Components : module[c].phase = "idle" => v[c] = module[c].previous
  BY <1>1 DEF BootVersions
<1>3. \A c \in Components : module[c] \in Modules
  BY DEF TypeOK
<1>4. \A m \in Modules, w \in Versions :
        /\ [m EXCEPT !.version = w].version = w
        /\ [m EXCEPT !.version = w].phase = m.phase
        /\ [m EXCEPT !.version = w].previous = m.previous
  BY DEF Modules
<1>5. \A c \in Components : /\ module'[c].version = v[c]
                           /\ module'[c].phase = module[c].phase
                           /\ module'[c].previous = module[c].previous
  BY <1>1, <1>3, <1>4
<1> QED
  BY <1>2, <1>5 DEF Restorable

-----------------------------------------------------------------------------
\* A call of a module keeps RevertInv.
LEMMA RevertOperation ==
    ASSUME "race" \notin Faults, TypeOK, LoopInv, RevertInv,
           NEW c \in Components, DoOperation(c)
    PROVE  RevertInv'
<1>0. /\ step = "operate" /\ c \in queue /\ UNCHANGED <<current, event, step, decided>>
      /\ event \in {"prepare", "update", "apply", "revert"}
      /\ module \in [Components -> Modules]
  BY DEF DoOperation, Highest, TypeOK, Events, Transitions
<1>1. PICK o \in Operation(c) :
        /\ module' = [module EXCEPT ![c] = o.module]
        /\ state' = componentError(state, IF o.err THEN {c} ELSE {})
        /\ AddReboot(c, o.reboot)
        /\ queue' = Rest(c, o.err, UpdatePriority)
  BY DEF DoOperation
<1>2. o.err \in BOOLEAN
  BY <1>0, OperationType DEF Outcomes, Events, Transitions
<1>3. /\ Requested(state') = Requested(state)
      /\ state'.CurrentVersions = state.CurrentVersions
      /\ Requested(state) \subseteq Components
  BY LoopSame DEF Requested
<1>4. \A d \in Components : Failed(state', d) <=> Failed(state, d) \/ (o.err /\ d = c)
  <2>1. (IF o.err THEN {c} ELSE {}) \in SUBSET Requested(state)
    BY <1>0 DEF LoopInv
  <2> QED
    BY <1>1, <1>2, <2>1, ComponentErrorMarks DEF TypeOK
<1>5. module'[c] = o.module /\ \A d \in Components \ {c} : module'[d] = module[d]
  BY <1>0, <1>1
<1>6. \A d \in Components \ {c} : Restoring(d) => Restoring(d)'
  BY <1>3, <1>4, <1>5, RestoringKept
<1>7. CASE event \in {"prepare", "update"}
  <2>1. o \in prepareComponent(c) \cup updateComponent(c)
    BY <1>1, <1>7 DEF Operation
  <2>2. /\ module'[c].previous = module[c].previous
        /\ module'[c].version = module[c].version
        /\ module'[c].init = module[c].init
        /\ module'[c].phase = "idle" => module[c].phase = "idle"
    BY <1>0, <1>5, <2>1, TryingKeeps
  <2>3. Restoring(c) => Restoring(c)'
    BY <1>3, <1>4, <2>2, RestoringKept
  <2>4. "apply" \notin decided => \A d \in Requested(state) : Restoring(d)'
    BY <1>3, <1>6, <1>7, <2>3 DEF RevertInv
  <2> QED
    BY <1>0, <1>3, <1>7, <2>4 DEF RevertInv
<1>8. CASE event = "revert"
  <2>1. o \in Revert(module[c])
    BY <1>1, <1>8 DEF Operation, revertComponent
  <2>2. /\ o.module.init = module[c].init
        /\ ~o.err /\ module[c].init # "unread" => o.module.phase = "idle"
        /\ ~o.err /\ ~o.reboot => o.module = module[c] \/ o.module.version = o.module.previous
    BY <1>0, <2>1, RevertGivesUp
  <2>3. queue' = queue \ {c}
    BY <1>1, <1>8 DEF Rest, StopOnError
  <2>4. reboots \subseteq reboots' /\ (o.reboot => c \in reboots')
    BY <1>1 DEF AddReboot, Fault
  <2>5. ASSUME "apply" \notin decided, NEW d \in Requested(state)
        PROVE  (d \in reboots' \/ Restoring(d)') /\ (d \in queue' \/ GivenUp(d)')
    <3>1. (d \in reboots \/ Restoring(d)) /\ (d \in queue \/ GivenUp(d))
      BY <1>0, <1>8, <2>5 DEF RevertInv
    <3>2. CASE d = c
      <4>1. GivenUp(c)'
        BY <1>4, <1>5, <2>2 DEF GivenUp, Healthy
      <4>2. CASE o.reboot
        BY <2>4, <3>2, <4>1, <4>2
      <4>3. CASE o.err
        BY <1>4, <3>2, <4>1, <4>3 DEF Restoring, Healthy
      <4>4. CASE ~o.err /\ o.module = module[c]
        <5>1. Restoring(c) => Restoring(c)'
          BY <1>3, <1>4, <1>5, <4>4, RestoringKept
        <5> QED
          BY <2>4, <3>1, <3>2, <4>1, <5>1
      <4>5. CASE ~o.err /\ ~o.reboot /\ o.module.version = o.module.previous
        BY <1>5, <3>2, <4>1, <4>5 DEF Restoring, Restorable
      <4> QED
        BY <2>2, <4>2, <4>3, <4>4, <4>5
    <3>3. CASE d # c
      <4>1. GivenUp(d) => GivenUp(d)'
        BY <1>3, <1>4, <1>5, <3>3 DEF GivenUp, Healthy
      <4> QED
        BY <1>3, <1>6, <2>3, <2>4, <3>1, <3>3, <4>1
    <3> QED
      BY <3>2, <3>3
  <2> QED
    BY <1>0, <1>3, <1>8, <2>5 DEF RevertInv
<1>9. CASE event = "apply"
  BY <1>0, <1>9 DEF RevertInv
<1> QED
  BY <1>0, <1>7, <1>8, <1>9

(***************************************************************************)
(* RevertInv is an invariant, as long as the race does not occur and the   *)
(* process does not die alone.                                             *)
(***************************************************************************)
LEMMA RevertInvAlways ==
    ASSUME "race" \notin Faults, "process" \notin Faults
    PROVE  Spec => []RevertInv
<1>1. Init => RevertInv
  BY DEF Init, RevertInv
<1>2. UpdateInv /\ CycleInv /\ LoopInv /\ ReportInv /\ RevertInv /\ [Next]_vars => RevertInv'
  <2> SUFFICES ASSUME UpdateInv, CycleInv, LoopInv, ReportInv, RevertInv, [Next]_vars
               PROVE  RevertInv'
    OBVIOUS
  <2>0. /\ TypeOK /\ UpdateProgress
        /\ event \in {"prepare", "update", "apply", "revert", "none"}
        /\ event = "none" <=> step \in {"ready", "down"}
        /\ Events = {"prepare", "update", "apply", "revert"}
        /\ module \in [Components -> Modules]
        /\ state \in HandlerStates
        /\ Requested(state) \subseteq Components
    BY DEF UpdateInv, TypeOK, Events, Transitions, Requested
  <2>1. ASSUME NEW e \in Events, SendCommand(e) PROVE RevertInv'
    <3>1. /\ step = "ready" /\ current # "idle" /\ event' = e
          /\ Requested(state') = Requested(state)
          /\ state'.CurrentVersions = state.CurrentVersions
          /\ \A c \in Components : Failed(state, c) => Failed(state', c)
          /\ step' \in {"operate", "changed"}
          /\ e = "revert" => /\ step' = "operate" /\ reboots' = {}
                             /\ \A c \in Requested(state') : c \in queue' \/ Failed(state', c)
      BY <2>0, <2>1, CommandSame
    <3>2. module' = module /\ decided \subseteq decided' /\ (e = "apply" => "apply" \in decided')
      BY <2>1 DEF SendCommand
    <3>3. "apply" \notin decided' => \A c \in Requested(state') : Restoring(c)'
      <4>1. \A c \in Components : Restoring(c) => Restoring(c)'
        BY <3>1, <3>2, RestoringKept
      <4> QED
        BY <2>0, <3>1, <3>2, <4>1 DEF RevertInv
    <3>4. e = "revert" => \A c \in Requested(state') : c \in queue' \/ GivenUp(c)'
      BY <3>1 DEF GivenUp, Healthy
    <3> QED
      BY <3>1, <3>2, <3>3, <3>4 DEF RevertInv
  <2>2. ASSUME NEW infos \in Infos, NEW stray \in BOOLEAN, PrepareUpdate(infos, stray)
        PROVE  RevertInv'
    <3>1. /\ step = "ready" /\ current = "idle" /\ UNCHANGED <<module, installed, reported>>
          /\ event' = "prepare" /\ step' \in {"operate", "changed"}
          /\ \A c \in Requested(state') :
               /\ c \in installed /\ module[c].init = "ok"
               /\ state'.CurrentVersions[c] = reported[c]
      BY <2>0, <2>2, PrepareStarts
    <3>2. \A c \in Requested(state') : state'.CurrentVersions[c] = module[c].version
      BY <3>1 DEF ReportInv, GetVersion
    <3>3. \A c \in Requested(state') : Restoring(c)'
      BY <3>1, <3>2 DEF Restoring, Restorable
    <3> QED
      BY <3>1, <3>3 DEF RevertInv
  <2>3. ASSUME NEW c \in Components, DoOperation(c) PROVE RevertInv'
    BY <2>0, <2>3, RevertOperation
  <2>4. ASSUME GoDown PROVE RevertInv'
    <3>1. step' = "down" /\ event' = "none"
      BY <2>4 DEF GoDown, Die
    <3> QED
      BY <2>0, <2>4, <3>1, DownRestores DEF RevertInv
  <2>5. ASSUME NEW c \in Components, RebootComponent(c) PROVE RevertInv'
    <3>1. step = "reboot" /\ c \in queue
      BY <2>5 DEF RebootComponent, Highest
    <3>2. CASE RebootFails(c)
      <4>1. /\ UNCHANGED <<module, current, event, step, decided>>
            /\ state' = componentError(state, {c})
            /\ event = "revert" => queue' = queue \ {c}
        BY <3>2 DEF RebootFails, Rest, StopOnError
      <4>2. {c} \in SUBSET Requested(state)
        BY <3>1 DEF LoopInv
      <4>3. /\ Requested(state') = Requested(state)
            /\ state'.CurrentVersions = state.CurrentVersions
            /\ \A d \in Components : Failed(state', d) <=> Failed(state, d) \/ d \in {c}
        BY <2>0, <4>1, <4>2, ComponentErrorMarks, MarkedIsSame
      <4>4. \A d \in Components : (Restoring(d) => Restoring(d)') /\ (GivenUp(d) => GivenUp(d)')
        BY <4>1, <4>3, RestoringKept DEF GivenUp, Healthy
      <4>5. Restoring(c)'
        BY <4>3 DEF Restoring, Healthy
      <4> QED
        BY <2>0, <3>1, <4>1, <4>3, <4>4, <4>5 DEF RevertInv
    <3>3. CASE ComponentReboots(c)
      <4>1. /\ UNCHANGED <<state, current, event, step, decided>> /\ queue' = queue \ {c}
        BY <3>3 DEF ComponentReboots
      <4>2. /\ Restorable(c)'
            /\ \A d \in Components : /\ module'[d].phase = module[d].phase
                                     /\ module'[d].init = module[d].init
            /\ \A d \in Components \ {c} : module'[d] = module[d]
        BY <2>0, <3>3, BootRestores
      <4>3. Restoring(c)' /\ \A d \in Components \ {c} : Restoring(d) => Restoring(d)'
        BY <4>1, <4>2, RestoringKept DEF Restoring
      <4>4. \A d \in Components : GivenUp(d) => GivenUp(d)'
        BY <4>1, <4>2 DEF GivenUp, Healthy
      <4>5. Requested(state') = Requested(state)
        BY <4>1
      <4> QED
        BY <2>0, <3>1, <4>1, <4>3, <4>4, <4>5 DEF RevertInv
    <3> QED
      BY <2>4, <2>5, <3>2, <3>3 DEF RebootComponent, SystemReboots
  <2>6. ASSUME OperationsDone \/ RebootsDone PROVE RevertInv'
    <3>1. /\ UNCHANGED <<module, event, decided>> /\ step \in {"operate", "reboot"}
          /\ queue = {}
          /\ \/ step = "operate" /\ step' = "reboot" /\ queue' = reboots
             \/ step = "reboot" /\ step' = "operate" /\ queue' = reboots
             \/ step' = "changed" /\ (event = "revert" => step = "operate" /\ reboots = {})
      BY <2>6 DEF OperationsDone, RebootsDone, Finish, StopOnError
    <3>2. /\ Requested(state') = Requested(state)
          /\ state'.CurrentVersions = state.CurrentVersions
      BY <2>0, <2>6, LoopSame
    <3>3. \A c : Failed(state', c) = Failed(state, c)
      BY <2>0, <2>6 DEF OperationsDone, RebootsDone, Finish, HandlerStates, Failed
    <3>4. \A c \in Components : (Restoring(c) => Restoring(c)') /\ (GivenUp(c) => GivenUp(c)')
      BY <3>1, <3>2, <3>3 DEF Restoring, Restorable, GivenUp, Healthy
    <3> QED
      BY <2>0, <3>1, <3>2, <3>4 DEF RevertInv
  <2>7. ASSUME OnStateChanged PROVE RevertInv'
    <3>1. /\ step = "changed" /\ step' = "ready" /\ event' = "none"
          /\ UNCHANGED <<module, decided>>
          /\ \/ state' = Changed /\ current' = current
             \/ /\ state' = [Changed EXCEPT !.Error = TRUE, !.UpdateState = "failed"]
                /\ current' = "failed"
      BY <2>7 DEF OnStateChanged
    <3>2. /\ state'.ComponentStatuses = Changed.ComponentStatuses
          /\ state'.CurrentVersions = Changed.CurrentVersions
      BY <2>0, <3>1, ChangedType DEF HandlerStates
    <3>3. current' # "idle" /\ "apply" \notin decided => \A c \in Requested(state') : Restoring(c)'
      <4> SUFFICES ASSUME current' # "idle", "apply" \notin decided, NEW c \in Requested(state')
                   PROVE  Restoring(c)'
        OBVIOUS
      <4>1. c \in Components
        BY DEF Requested
      <4>2. CASE event \in {"prepare", "update"}
        <5>1. current # "idle"
          BY <3>1, <4>2 DEF CycleInv, Results, Transitions
        <5>2. /\ state'.ComponentStatuses = state.ComponentStatuses
              /\ state'.CurrentVersions = state.CurrentVersions
          BY <2>0, <3>2, <5>1, ChangedType, ChangedSame
        <5>3. c \in Requested(state) /\ Failed(state', c) = Failed(state, c)
          BY <5>2 DEF Requested, Failed
        <5>4. Restoring(c)
          BY <4>2, <5>3 DEF RevertInv
        <5> QED
          BY <3>1, <4>1, <5>2, <5>3, <5>4, RestoringKept
      <4>3. CASE event = "revert"
        <5>1. current = "idle"
          BY <3>1, <4>3 DEF CycleInv, Results, Transitions, StopOnError
        <5>2. Changed.ComponentStatuses[c].status \in {"none", "error"}
          BY <2>0, <4>1, <5>1 DEF Changed, HandlerStates, NoStatus
        <5>3. Failed(state', c)
          BY <3>2, <5>2 DEF Requested, Failed
        <5> QED
          BY <5>3 DEF Restoring, Healthy
      <4> QED
        BY <2>0, <3>1, <4>2, <4>3 DEF UpdateProgress
    <3> QED
      BY <3>1, <3>3 DEF RevertInv
  <2>8. ASSUME Crash PROVE RevertInv'
    BY <2>4, <2>8 DEF Crash, PowerCut, ProcessCrash, Fault
  <2>9. ASSUME Restart PROVE RevertInv'
    <3>1. step = "down" /\ step' = "ready" /\ event' = "none"
      BY <2>0, <2>9 DEF Restart
    <3>2. \A c \in Components : /\ module'[c].phase = module[c].phase
                               /\ module'[c].version = module[c].version
                               /\ module'[c].previous = module[c].previous
      BY <2>0, <2>9 DEF Restart, Modules
    <3>3. \A c \in Components : Restorable(c)'
      BY <3>1, <3>2 DEF RevertInv, Restorable
    <3> QED
      BY <3>1, <3>3 DEF RevertInv, Restoring, Requested
  <2>10. CASE UNCHANGED vars
    BY <2>10 DEF vars, process, RevertInv, Restoring, Restorable, GivenUp, Healthy, Failed, Requested
  <2> QED
    BY <2>1, <2>2, <2>3, <2>5, <2>6, <2>7, <2>8, <2>9, <2>10 DEF Next, Work, Command
<1>3. Spec => []UpdateInv
  BY UpdateInvAlways
<1> QED
  BY <1>1, <1>2, <1>3, CycleInvAlways, LoopInvAlways, ReportInvAlways, PTL DEF Spec

(***************************************************************************)
(* When a revert ends without an apply ever asked for, every component it  *)
(* reports no error for has given its image up and runs the version it ran *)
(* when the update was prepared, if that is what a boot comes back to      *)
(* (onRevertState, repeated after the reboots it asks for).                *)
(***************************************************************************)
THEOREM RevertedIsRestoredAlways ==
    ASSUME "race" \notin Faults, "process" \notin Faults
    PROVE  Spec => []RevertedIsRestored
<1>1. RevertInv => RevertedIsRestored
  BY DEF RevertInv, RevertedIsRestored, Ending, GivenUp, Restoring, Restorable
<1>2. Spec => []RevertInv
  BY RevertInvAlways
<1> QED
  BY <1>1, <1>2, PTL

=============================================================================
