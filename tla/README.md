# Verification of the update manager

The update manager installs updates of the components of a unit (root file
systems, firmware, images of virtual machines) on behalf of the communication
manager (CM). An update is prepared, installed, verified after a reboot, and
then applied or reverted, as the CM decides. The difficulty is not in any of
these steps but between them: the system reboots in the middle of the work,
power is lost, calls fail, and whatever happens the unit must come up with a
version that works and know which one it is.

This directory holds TLA+ models of that behaviour, TLC configurations that
check them on small instances, and TLAPS proofs of theorems that hold for every
instance.

## The system

| component | state it keeps | operations | talks to |
|---|---|---|---|
| update handler (`updatehandler`) | `handlerState` in the database: update state, error, status and version of each component of the update, versions before it; the FSM; the reported statuses | `PrepareUpdate`, `StartUpdate`, `ApplyUpdate`, `RevertUpdate`, `Registered`, restart | modules (calls), database, client (channel) |
| update module (interface) | a state idle, prepared, updated; the image | `Init`, `Prepare`, `Update`, `Apply`, `Revert`, `Reboot`, `GetVersion` | handler, boot loader |
| dual partition module | `moduleState` in the database, two partitions, boot configuration | the same | boot controller, checker, rebooter |
| boot controllers (U-Boot, EFI) | an environment file with a copy in memory and a mount timer; the EFI variables and the entry of each partition | `New`, `SetMainBoot`, `SetBootOK`, `GetMainBoot`, `GetCurrentBoot`, `Close` | boot loader, firmware |
| overlay module | `moduleState`, flag files in the update directory | the same as a module | initramfs script |
| SSH module | version in the database, pending version in memory | the same as a module | a remote host |
| CM client (`umclient`) | connection, stream | registering, receiving commands, sending statuses, certificate change | CM, handler |
| systemd checker | none that lasts; two goroutines while it runs | `Check` | systemd |
| database | one SQLite file: the schema version, the update state, the state of each module, versions | open, migrate, get, set | everyone |
| main program | none | start: database, handler, client | service manager |
| EFI variables, boot parameters, configuration, identifiers, registration | | bindings, parsing | |

The CM's command arrives in the client's receive loop and becomes an event of
the FSM. A transition runs in a goroutine of its own: for each component of the
update, in the order of priorities and concurrently within a priority, it calls
the module; components that ask for it are rebooted, which usually ends the
process; at the end the state is persisted and a status goes to the client
through a channel. After a restart the handler is in the state it persisted
last, and the CM sends the command of that state once more.

What is hard:

- *Resuming.* The state is persisted at the end of a transition only. A command
  repeated after a reboot, a power cut or a crash meets modules that are further
  than the handler knows.
- *Half-done steps.* A module method writes a partition, the boot configuration
  and the database, and can be cut short between any two of them.
- *Partial failure.* One component fails while others have been updated; a call
  does its work and returns an error; the state cannot be written.
- *Histories.* An apply or a revert that failed ends in idle, and the next
  update begins with what it left behind.
- *Concurrency.* Operations of equal priority share variables; statuses are sent
  from two goroutines; a timer unmounts the boot environment beside the methods
  that read and write it.
- *Storage.* What was written may be lost in a power cut, be torn, or come back as
  it was some time ago; the start of the process repairs some of that and deletes
  the rest.

What makes each component correct:

- *handler*: an update said to be done is verified on all its components; an
  apply that ends well commits the versions asked for, a revert restores the
  former ones; versions reported are the right ones; components are updated in
  the order of priorities, nothing reboots before all are updated; every update
  ends.
- *dual partition module*: one partition always boots; the former version is
  kept until a decision; after an apply both partitions hold the new version,
  after a revert the former one runs.
- *overlay module*: the flag files agree with the persisted state, an apply
  reaches the initramfs script.
- *client and status flow*: the last status the CM gets is the current one,
  nobody waits for ever.
- *boot controllers*: either one is the same boot control to the module, however
  its writes are interrupted; all partitions are in the boot order, before
  anything else; the environment in memory is the one in the file.
- *SSH module and database*: no version persisted or reported keeps out an update
  the remote host needs; an update that is applied was carried out, as far as the
  remote shell tells; the process gets through its start.
- *checker*: an update is validated only if the services it was told to watch are
  active.

## Modules

| module | models | kind |
|---|---|---|
| `UpdateEvents` | the states and events of the FSM, what an error in a transition does | constants |
| `UpdateCycle` | what the CM can rely on: commands one at a time, each judged by the state the last one ended in | abstract specification |
| `UpdateModule` | the contract of interface `UpdateModule` | operators: sets of outcomes |
| `ModuleContract` | the same contract for one component, with the calls, boots and restarts it is under | abstract specification |
| `UpdateHandler` | `updatehandler.go` over that contract | state machine |
| `MCUpdateHandler` | one or two components and their priorities | instance for TLC |
| `StatusFlow` | the goroutines of `umclient.go`, `sendEvent`, `Registered`, `onStateChanged`, the channel and the stream | state machine |
| `DualPart` | `dualpartmodule.go` with either boot controller, called by a handler of one component | state machine |
| `Overlay` | `overlaymodule.go` and the initramfs script, called by a handler of one component | state machine |
| `BootControl` | what the dual partition module may rely on, interface `StateController` | abstract specification |
| `EfiBootOrder` | `eficontroller.go` on the boot variables of `efi.go` | state machine |
| `UbootEnv` | `ubootcontroller.go`: environment file, mounts, timer | state machine |
| `BootControllers` | a system with either controller | composition |
| `Database` | `database.go` as far as the start of the process and a power cut | state machine |
| `SSHModule` | `sshmodule.go` on that database, driven by the commands of the handler | state machine over `Database` |
| `SystemdChecker` | `systemdchecker.go` on the subscription of go-systemd | state machine |
| `UpdateHandlerProofs`, `StatusFlowProofs`, `DualPartProofs`, `OverlayProofs`, `SSHModuleProofs`, `EfiBootOrderProofs`, `UbootEnvProofs`, `BootControllersProofs` | | theorems about the module of that name |

`UpdateHandler` is composed over the operators of `UpdateModule`. `DualPart` and
`Overlay` each have a handler reduced to what one module sees of it, and both
implement `ModuleContract`: what is shown of the handler over the contract so holds
over either module, as long as none of their mishaps happens. The two views of the handler, `UpdateHandler` with its modules and `StatusFlow` with its
goroutines, share `UpdateEvents` and implement the same `UpdateCycle`. Both boot
controllers implement the same `BootControl`; `DualPart` uses them in the form that
interface gives them (`main`, and for EFI a `next` that holds once).

### UpdateModule

An operation is the set of its outcomes: the component afterwards, whether an
error was returned, whether a reboot is asked for. A component is the persisted
state of its module (`phase`), the version that runs, the version in the image,
the version it comes back to (`previous`), and what `Init()` made of it in this
process. Versions are numbers: only their order is used. An image may carry
another version than the one asked for, and a boot of it may fall back.

A failing call has either done nothing or everything. Of real modules that is
an idealisation, and `DualPart` and `Overlay` are there to see what happens
without it.

`ModuleContract` makes a state machine of these operators: `Call` leaves the
component in one of the outcomes of a method and returns, now or never, `Take` is
the handler acting on the result, `Exit`, `Boot` and `Start` are the end of a
process, a boot and `Init()`. `KeepsContract` of `DualPart` and of `Overlay` maps
their variables to it. The phase is the state in the database. The version to come
back to is, while that state is updated, the one before the update; once an apply
of the overlay module has saved idle, it is the image the script is going to merge;
and otherwise it is what is installed, in `DualPart` on the running partition. A
call takes effect for the handler when the state is saved, so whatever a crash or a
power cut leaves half done before that is a step the handler cannot tell.

Both modules had a say in the contract. `Revert()` of either asks for a reboot by
what was booted (`dualpartmodule.go:338`, `bootWithUpdate` of the overlay module),
also when the image carries the version it replaces, so `Revert` offers the reboot
whatever the versions are. `Update()` of the overlay module writes `do_update`
before it saves the state, so a boot may run the image of a module that is still
prepared, and `BootVersions` allows that.

### UpdateHandler

`state` is `handler.state`, `saved` its copy in the database, `current` the
state of the FSM, `reported` the versions in `handler.componentStatuses`,
`recorded` the table of versions. `step`, `event`, `queue`, `reboots` and `err`
are the local variables of the transition under way:

| `step` | code |
|---|---|
| `ready` | no transition; a command may come |
| `operate` | `doOperation`, with `queue` the components not yet operated |
| `reboot` | `doReboot`, with `queue` those not yet rebooted |
| `changed` | the callback has returned; `onStateChanged` is next |
| `down` | no process |

`SendCommand` and `PrepareUpdate` begin a transition (`componentOperation` with
its check for components that are not configured), `DoOperation` and
`RebootComponent` are single calls of modules, in any order within a priority,
`OperationsDone` and `RebootsDone` end the two halves of the loop,
`OnStateChanged` ends the transition. `Crash` and `SystemReboots` take the
process down at any point, `Restart` is `New` and `init`. `AddReboot` is the
unsynchronised append to `rebootStatuses` in `doOperation`: with the fault
`race` one of two requests is lost.

The FSM holds its event mutex for the whole of a transition, so a command that
arrives meanwhile waits and is judged by the state the transition ends in; that
is a command at `ready`. A command that is refused changes nothing but the log.

### DualPart

The methods are cut at everything that outlives the process: `BeginCopy` and
`CopyDone` (a partition being written does not boot), `MainBootSet`, `SetState`,
`Returned` (the handler persists its state), `Reboot`. `PowerCut` and
`ProcessCrash` may come between any two, `StepFails` and `SetStateFails` are
errors of single calls. `Start` is `Init()`: it may fail before the state is
read, or the checker may find a dead service. Only the boot loader is assumed:
it boots the partition asked for, or the other one when that one does not boot.
The two controllers differ in `SetMainBoot` (for EFI it holds for one boot) and
`SetBootOK` (for EFI it makes the running partition the first one); `boot.by` is
the controller, chosen in the initial state.

The history variable `mishaps` records the moments after which the code does
not keep its promises (see the findings below). The invariants say that it
keeps them otherwise; `before` and `decided` are history variables too.

### UpdateCycle

Three variables: the state the handler reports, the state it comes back to
after a crash, the command being carried out. `Begin` accepts a command in a
state the FSM has a transition from; `Reach` makes its result visible and `End`
makes it safe; `EndUnsaved` is a transition whose result could not be persisted;
`Crash` takes the handler back. In `UpdateHandler` a transition is one value of
`event`, and while the process is down the state is the one in the database. In
`StatusFlow`, `Reach` is the first line of `onStateChanged` and `End` its
`saveState`; sending the status that follows is a stutter.

### StatusFlow

| variable | code |
|---|---|
| `receiver` | where the goroutine of `createConnection` is: connecting, in `Registered()`, in `processGRPCMessages` or waiting in `fsm.Event` |
| `worker` | where the goroutine of `sendEvent` is: before the FSM changes its state, waiting for the lock of the handler, in the callback, and the steps of `onStateChanged` |
| `sender` | the status `processMessages` has taken from the channel |
| `channel`, `link`, `up`, `down` | `statusChannel`, the stream and what is on it |
| `known`, `asked` | what the CM knows, whether it waits for an answer |

The event mutex is held from `lock` to `saved`, the lock of the handler in
`work` and in `report`. That `onStateChanged` does not take the lock is what
lets a status be overtaken; `overtaken` is a history variable that says so. What
a callback does to modules is left to `UpdateHandler`: here it takes some time
and may fail. `patient` is chosen at first and kept: a patient CM answers each
status with at most one command that the state accepts, an impatient one sends
anything at any time. A status is the update state in it; that is what the CM's
next command depends on. The stream keeps its order and may break at any time with
some of the commands on it read and all statuses lost.

### Overlay

The methods are cut as in `DualPart`: `Clearing` removes one file of the update
directory, `Written` moves the image or writes a flag, `SaveState` persists the
state, `Returned` is the handler's part. The initramfs script is `Merge`,
`BootOverlay`, `BootFallsBack` and `BootSystem`; the repository knows it only
through the flags, and the model assumes what the module and its tests take it
to do: merge the image when there is `do_apply`, boot it over the system when
there is only `do_update`, and leave `updated` or `failed`. It is not assumed to
remove anything, and may fall back on any boot. `mishaps` is used as in
`DualPart`; each invariant names the mishaps it excludes.

### BootControl, EfiBootOrder, UbootEnv, BootControllers

`BootControl` has the partition boots start from, the one of the next boot alone,
the running one, and `pending`: partitions that were asked for and may become the
main one at any time until they are forgotten. A request that was only half
written may so take effect late, or never, but no partition becomes the main one
that nobody asked for or confirmed. `Lose` and `Default` are the loss of the
configuration and what replaces it.

`EfiBootOrder` has the boot variables of the firmware (`entry`, `bootOrder`,
`bootNext`, `bootCurrent`) and the steps of `New()`: entries are looked up in
turn, a missing one is created and then appended to `BootOrder`, and
`checkBootOrder` puts the partitions first. Every write of a variable is a step
and the process may end between any two. `NewBootOrder` is the algorithm on
sequences, `Differs` and `Panics` the comparison of line 275 with its index past
the end. Initially there are any entries in any order, several for one partition
and foreign ones included.

`UbootEnv` has the environment file, what of it would survive a power cut
(`disk`), the mount with its flags (`mounted` is the truth, `mountedPart` what the
controller believes), the timer in two steps (it fires; its goroutine gets the
lock) and `umountEnv` in two steps (`Unmount`, then `RemoveAll`). After a failed
`Unmount`, or the end of the process, the device may stay mounted without a timer,
which `abandoned` records: `EnvUnmounted` is about `mounted` and excludes that.
A method is read, set, save; `SaveTo()` truncates and then writes. The keys are the
two that decide what is booted or reported; the success flags, which the loader
alone reads, are left out.

`BootControllers` puts one of the two into a system, as the registration of
`efidualpart` and `ubootdualpart` does. Its properties are those of the two
controllers, so that one run checks both.

### Database and SSHModule

`db` is the database as the process sees it, `disk` what a power cut leaves:
each statement commits on its own, and with WAL and `synchronous=NORMAL` the last
commits may be undone. `start` walks through opening, migration or creation of the
tables, and reading the update state; an error of the migration deletes the file
once (`cleanup`), any other ends the process, and the service manager starts it
again. Databases of earlier releases, with and without a schema version, are
initial states.

`SSHModule` extends it by the module and the handler's side of its commands:
`version` and `pending` are in memory, `state` is the handler's state, `op`,
`result` and `err` the command whose new state is not persisted yet. The writes of
`Apply()` and of `onStateChanged` may fail: `Apply()` then ends in idle with the
former version persisted, and the handler is failed.

What the remote host runs after an update that was cut short is no version at all,
so it is not modelled as one: `needed` is the set of versions the host needs an
update to. An update that is carried out leaves the higher ones, one that is not
adds its version. The remote shell returns the result of its last command, so
either may be reported as done (`RunCommands`); the versions reported although a
command had failed are in `halfDone`, and `AppliedVersion` and `NeverAhead` exclude
them by that name. SQLite, the connection and the copy are external.

### SystemdChecker

One watcher for each bus, `List` the once-a-second listing of the subscription,
which hands over the units that changed since the last one, `Receive` the body of
the loop in `watchServices`, `GiveUp` an error or the timeout.

## Runs

| run | instance | states | what it shows |
|---|---|---|---|
| `handler_system` | 2 components, of different priorities for the update and the same for the reboot, one of them removable from the configuration; 1 fault of power cut, process crash or failed reboot | 4,200,000 | types; what is said to be updated is verified; an apply commits; order of updates; no reboot before all are updated |
| `handler_history` | 1 component, 3 versions, 2 faults of power cut, failed reboot, failed save and failed `Init()`, fairness | 291,000 | consecutive updates; a revert restores; the versions reported; versions committed only go up; the handler implements `UpdateCycle`; every update ends |
| `handler_race` (violation) | 2 components of equal priority, the race | | an update is said to be done and is not verified |
| `dualpart_faults` | either boot controller, 3 versions, any 2 faults of 5 kinds | 1,340,000 | bootable, kept, mirrored, restored, verified; the contract is kept |
| `dualpart_prepared` (violation) | 2 versions, no fault | | see the findings |
| `overlay_faults` | 3 versions, any 3 faults of 5 kinds | 2,200,000 | what is merged, installed, restored and verified; the contract is kept |
| `overlay_killed` (violation) | 2 versions, 1 process crash | | see the findings |
| `flow_commands` | channel of 1, 1 message on the stream each way, a patient and an impatient CM, fairness | 477,000 | the CM knows the state when all is at rest; commands that meet a transition under way do not disturb it (`UpdateCycle`); no command stays without an answer; every transition ends; the CM gets to know the state |
| `flow_overtaken` (violation) | 2 messages each way | | an old status is delivered last |
| `boot_controllers` | either controller, 2 partitions; EFI with any entries numbered 0 and 1 and any order of them | 34,800 | both implement `BootControl`; the boot order is right; the panic; memory and file agree; the environment does not stay mounted unless its unmount fails or the process ends |
| `ssh_storage` | schema version 3, migration files for 0 to 2, 3 versions, 2 faults (crash, power cut, failed write) | 619,000 | what is persisted, that no version keeps out an update that is needed, and that the process comes up |
| `checker_changed` (violation) | 2 services on one bus, 1 on the other | | see the findings |

Bounds. Two components are enough for what relates components: the first run has
an order and a common reboot at once; the theorems cover more. Two versions tell
new from old; three allow an upgrade over an upgrade and an image that carries
neither. One fault is allowed where there are two components, since calls of
modules may fail any number of times anyway; two faults where there is one, so
that the second can meet the recovery from the first. `Overlay` has three, because
the proof met histories of three faults that two do not show (`astray` below); in
`DualPart` such a history is why `AlwaysBootable` excludes `blind`, which the
theorem needs and the run does not. The number of updates is not bounded in any
run.

The channel has the size it has in the code. One message on the stream is enough
for a command to meet a transition when the CM is impatient; `flow_overtaken`
needs two statuses under way. Breaks of the connection and crashes are not bounded
in `StatusFlow`, nor in the boot controllers. In `Overlay` images carry any
version, or do not boot. Two entries beside those `New()` creates let one
partition have an entry and the other not, two entries stand for one partition,
and a foreign entry come before a partition. The migration files are those of the
repository in number: that there is none for the current version is the case in
which every migration ends in a new file.

Fairness, in `handler_history`: `WF_vars(Work)`: goroutines are scheduled, a
reboot or a restart by the service manager happens. `WF_vars(Command)`: the CM
answers each state of an update with some command that the state accepts; this
is the CM's job, and without it an update rightly waits for ever. Power cuts,
crashes and failed writes are bounded in number; calls of modules may fail for
ever, and an update then ends all the same, through failed and a revert.

In `flow_commands`: strong fairness of the receiver and of the worker, which wait
for a mutex or for room in a channel that others keep taking: Go queues those who
wait, a mutex is handed over after a millisecond at most. Weak fairness of the
sender and of the CM's reading. No fairness of connecting, of the CM's
commands, or of breaks and crashes: `TransitionEnds` must do without a
connection, `StatusDelivered` says what follows if one holds.

In `boot_controllers`: weak fairness of the timer, of its goroutine, of the second
half of `umountEnv`, and of a method between mount and read. Nobody is made to
call a method or `Close()`. In `ssh_storage`: weak fairness of the start, which the
service manager repeats; crashes are bounded in number.

## Proofs

TLC checks the instances above; the theorems hold for every value of the
constants: any components, priorities, versions, partitions, sizes and numbers of
faults. They rest on the assumptions of the modules (`MaxVersionAssumption`,
`HandlerAssumption`, `FlowAssumption`, `DualPartAssumption`, `OverlayAssumption`,
`DatabaseAssumption`, `ControllersAssumption`), which say that the constants have
their types.

### The handler

- `TypeCorrect`: `TypeOK` is an invariant.
- `UpdatedIsVerifiedAlways`, `UpdateProgressAlways`: provided the race on
  `rebootStatuses` does not occur, an update the database says is done, and about
  which nothing has been decided, holds the image asked for on every component.

`UpdatedIsVerified` is not inductive: whether the state about to be persisted is
true depends on what the loop has done so far. `UpdateProgress` adds that the
database keeps the state a transition started from, that leaving `updated` takes
a decision, and that in an update without errors every component of the update
is queued, about to be rebooted, or verified. The last part is where the race
breaks the argument: a component whose request is lost is none of the three.

- `HandlerImplementsCycle`: the handler implements `UpdateCycle`. `CycleInv` says
  that between transitions the FSM and the reported state agree, that during one
  the FSM shows the state the command is for, and that it ends in a result the
  command allows. A transition maps to `Begin`, many stutters, and `End` or
  `EndUnsaved`; a crash maps to `Crash` with a stutter for the restart.
- `RebootsWhenAllUpdatedAlways`, `PriorityOrderAlways` (any faults, the race
  included). `LoopInv` says that the queue and the requests for a reboot are of
  the update, and that a loop that stops on errors has met none so far;
  `OrderInv` that what is out of the queue has been updated.
- `AppliedIsCommittedAlways`, `CommitsOnlyUpgradesAlways` (all faults but the
  race). `SavedInv` ties the persisted state to the one in memory while a
  transition runs, `UpgradeInv` says that what an update is trying is higher than
  what the component comes back to, `DecisionInv` that a component out of the
  queue of an apply has committed.
- `ReportedVersionsAlways` (any faults). `ReportInv` follows the versions reported
  through the transitions of prepare and update: the versions from before the
  update are copied from them when it starts, and a restart copies them back.
- `RevertedIsRestoredAlways` (all faults but the race and a process that dies
  alone). An idle component either runs what it comes back to or has a reboot to
  come, and the proof is about who owes that reboot. `RevertInv` says that a
  revert holds the component among those to be rebooted, that one queued for its
  reboot is the only one that may still run the image, and that after a boot of
  the system no idle component does (`Restorable`). Both hypotheses are needed:
  the race loses a component from the list, and a process that dies alone loses
  the list without the boot that would make up for it. That the update starts on
  versions that run is the first part of `ReportInv`.

### The status flow

- `FlowTypeCorrect`, `FlowImplementsCycle`: the three goroutines implement
  `UpdateCycle`. `FlowInv` relates the state of the FSM, the state the handler
  reports and the place of the worker. It is what makes the second check of a
  command, under the event mutex, judge the state the transition before ended in.
- `CMKnowsStateAlways`: the newest status on its way (in the channel, the sender,
  the stream, or with the CM) is the state of the handler, unless a status is
  still owed or one was overtaken (`NewestInv`). Rest is the case in which the
  newest is the CM's.
- `NobodyWaitsAlways`: a patient CM that waits has its command on the stream or
  with a goroutine, or its answer on the way (`AnswerInv`).

### The modules

- `DualPartProofs`: `DualTypeCorrect`, `AlwaysBootableAlways`,
  `PreviousKeptAlways`, `AppliedMirrorsAlways`, `RevertRestoresAlways`,
  `VerifiedBootsAlways`. The inductive invariant `DualInv` has three layers. What
  holds always says where a method is and what it began with (`Steps`), and what
  an update verified and not yet decided on has made sure of (`VerifiedInv`).
  While the module knows its partitions (`Calm`) one partition is good at every
  step, and which one follows from the state in memory or in the database
  (`Memory`, `Copies`, `Verified`). Without mishaps (`Clean`) it is known what
  every partition holds (`Kept`, `Runs`, `BootsAlike`, `Decisions`). Each layer is
  used by the next. `DualKeepsContract` is the refinement of `ModuleContract`. It
  takes two more facts: which partitions hold nothing but the image or the version
  before it while the state is updated (`ImageKept`), and that the version asked for
  is higher than the one before (`Requests`). From the two follows that a module
  that runs the version asked for runs the image, which is all that `Update()`
  compares. Each action has a lemma that says which step of the contract it is.
- `OverlayProofs`: `OverlayTypeCorrect`, `MergesOnlyAppliedAlways`,
  `AppliedIsInstalledAlways`, `RevertRestoresAlways`, `VerifiedOverBaseAlways`.
  Each part of `OverlayInv` stands under the mishaps it does not survive:
  `Flagged` (the flags belong to the update under way), `Prepared` (the image is
  the one asked for, from preparation to the decision), `Merged` (an apply that
  was saved has reached the script), `Decisions`, `Running` (the module knows
  whether the update runs). `OverlayKeepsContract` is the refinement of
  `ModuleContract` by the module and the script, with `ImageKept` and `Requests` as
  in `DualPart`. Where the script could break it, `Merged` and `Flagged` are used:
  a directory that is cleared bit by bit has been merged or holds no flags, and
  `do_apply` is never found beside an image that was not applied.
- `SSHModuleProofs`: `SSHTypeCorrect`, `NeverAheadAlways`, `AppliedVersionAlways`.
  `DiskBehind` orders the version that would survive a power cut, the persisted
  one and the one in memory, and says that the host needs none of them any more
  (`Unneeded`), or it was reported half done; `Steps` says what the state of the
  handler implies about the versions, so that a version is set and persisted only
  once its update was carried out or reported.

### The boot controllers

- `UbootEnvProofs`: `UbootTypeCorrect`, `CacheIsFileAlways`,
  `CurrentIsBootedAlways`, `UbootImplementsControl`. `Cached` says at each step of
  a method and of `umountEnv` how memory and file compare, the timer included.
  The refinement maps `pending` to the main partitions in memory and on the disk:
  both may still take effect.
- `EfiBootOrderProofs`: `EfiImplementsControl`, and the lemmas that the theorems
  about the composition rest on. The new boot order is made with folds over
  sequences. What a fold computes takes induction over the sequence, and the
  induction theorems of the library take an operator, which the provers cannot
  instantiate; `SetInduction` states induction for the set of the lengths for which
  a claim holds instead, and is proved from the well-foundedness of the numbers.
  With it `AppendItems` says what a loop of `checkBootOrder` returns (all that was
  there, then each member of the set once, in the order in which they come first),
  and `NewOrder` and `OrderIsRight` what the three loops return together. The
  inductive invariant `IInv` says, at each step of `New()`, which entries the items
  found so far are: the lowest of their partitions, all different, and that an
  entry written and not yet in the order is the only one of its partition. So no
  write of `New()` changes which partition comes first, which is the refinement.
- `BootControllersProofs`: `TypeCorrect`, `CacheIsFileAlways`,
  `CurrentIsBootedAlways`, `BootOrderIsRightAlways`,
  `PanicsWithoutOthersAlways`, `ControllersImplementControl`, of a system with
  either controller. A step of the system is one of a controller or leaves its
  variables alone, so the invariants of the two are lifted to it, and the refinement
  of the composition follows from that of the controller in use.

### Only model-checked

Every safety property of a passing run is a theorem, and every action property and
refinement. What stays with TLC: `UpdateEnds`,
`TransitionEnds`, `StatusDelivered`, `EnvUnmounted` and `ComesUp` are liveness
properties under fairness, which is out of the prover's reach. The properties of the
runs marked as violations are false.

## Findings

The runs marked as violations show what the code does against its own comments:

- `dualpart_prepared`: `Revert()` of a module that is prepared uses the update
  partition of the update before, or 0. If that is the running partition it is
  overwritten with the other one, which may never have been written, or only
  half by an `Update()` that was cut short. Nothing boots then.
- `handler_race`: a request for a reboot that is lost in the unsynchronised append
  leaves a component neither rebooted nor verified in an update reported as done.
- `flow_overtaken`: `Registered()` builds its status under the lock, a transition
  ends and sends the newer one, and the older is delivered last. The CM then
  answers a state the handler is no longer in, and that command is refused with
  nothing but a log entry. All is well again with the next connection.
- `checker_changed`: `watchServices()` looks at the services a report says have
  changed, and the update is validated once all of one report are active. In the
  run a service that systemd does not list, and so is in no report, is not missed;
  the same holds for one of an earlier report that is still starting.
- `overlay_killed`: `Apply()` persists idle before the reboot that applies the
  image; when the process dies in between, the repeated `Apply()` clears the
  directory and reports success, with nothing installed.

More histories are excluded by `mishaps`, each named where it is recorded; the
invariants fail without the exclusion:

- `torn`: `Update()` of the dual partition module changes the main partition
  before it persists its state. After a power cut in between, the new version
  runs with the module prepared, and a revert copies the new version over the
  old one.
- `killed`: `Revert()` of either module persists idle and then asks for a reboot.
  When the process dies in between, the repeated `Revert()` asks for none. That
  is also why `handler_history` has no process crash: `RevertedIsRestored` does
  not survive it.
- `failed`: after a copy of `Apply()` has failed, the handler is idle and the
  module is not. The next update is rejected, and its revert copies the half
  written partition over the good one. In `Overlay`, an apply whose state could
  not be persisted has written `do_apply` already: the CM is told that it failed,
  and the next boot applies the update all the same.
- `forgotten`: the flag by which the overlay module knows that it runs the update
  is removed once the update is verified. A process restarted after that reverts
  without a reboot, and the update keeps running.
- `wavered`: a revert after an interrupted apply, or an apply after an
  interrupted revert; the CM has its share in that.
- `blind`: a decision on a module that could not read its state in `Init()` and
  takes itself for idle. It ends the update for the handler only. In `DualPart` it
  takes a third fault for this to leave nothing bootable: an apply cut short by a
  power cut, ended by a blind one, leaves a half written partition for the next
  update to come back to.
- `astray` (`Overlay`): after one of the above the system runs another version than
  the installed one, and an update is prepared for the version installed. A boot
  that falls back then runs just that version; if the start that saw the flag
  `failed` removes it and dies, the next one finds `updated` from before, the
  fallback is verified, and whatever the image holds is merged.

What the boot controllers, the SSH module and the database do is stated by the
properties of their runs, with the exceptions in the formulas:

- `New()` of the EFI controller panics at `eficontroller.go:276` on a `BootOrder`
  that holds partitions alone and not all of them (`PanicsWithoutOthers`). One that
  is cut off between the new entry and `BootOrder` leads there, and every later
  start panics again.
- The EFI controller takes the running partition for partition 0 when the system
  was booted by an entry that is not its own (`CurrentIsBooted`).
- When `Unmount` fails because another program uses the device, `RemoveAll` of the
  mount point deletes the U-Boot environment; the next load makes up one that
  boots partition 0 (`CacheIsFile`, `ImplementsControl` with `Lose` and `Default`).
  The device then stays mounted until the next mount, as it does when the process
  ends (`EnvUnmounted` excludes `abandoned`).
- `runCommands()` of the SSH module feeds all commands to one shell and returns the
  result of the last one. When another one fails, `Update()` returns no error, the
  version is reported and persisted, and a second update to it is refused though
  the host still needs it. `TestUpdateWrongCommands` expects an error there
  (`sshmodule_test.go:246`), and its comment says that it fails. `AppliedVersion`
  and `NeverAhead` hold but for the versions reported this way (`halfDone`).
- The SSH module persists an empty version when the process was restarted since
  `Prepare()` (`AppliedVersion`); no later update of that component is accepted.
  When the version cannot be written, the former one is back after the next start.
- A crash between the creation of the config table and its row is never repaired:
  every later start ends for want of an update state (`ComesUp` excludes `torn`).
- A database is deleted on any error of its migration, which the lack of a file
  for the newest version makes certain for every older one. Versions and states
  are then back at the beginning: an update may be repeated, none that the host
  needs is kept out (`NeverAhead`).

## Plan

The plan in its order, all of it done but for the last item:

1. `UpdateEvents`, `UpdateModule`, `UpdateHandler`, `DualPart`.
2. `StatusFlow`, `UpdateCycle`, and that both views of the handler implement it.
3. `Overlay`.
4. `EfiBootOrder`, `UbootEnv`, and that both implement `BootControl`.
5. `Database`, `SSHModule`, `SystemdChecker`.
6. The theorems above, `ModuleContract` and that both modules implement it.
7. Left: that `SSHModule` implements a contract of its own. It keeps no state
   between `Prepare()` and `Apply()`, asks for no reboot and never comes back from
   an update, so it is not a module of `ModuleContract`.

## Not modelled

- `doPriorityOperations` as goroutines: `DoOperation` takes the operations of one
  priority in any order. What they share is the error, which only counts as set,
  and `rebootStatuses`, whose race is the fault `race`.
- The map of component statuses that `onStateChanged` deletes from while
  `Registered()` reads it: Go may end the process there, which is a crash at that
  point; the race itself is not singled out.
- Close of the client and of the handler, signals, the journal hook, and the
  connections the main program sets up: wiring.
- The conversions of `efi.go` (device paths, load options, attributes), bindings of
  a C library, and the D-Bus and xenstore calls of the rebooters: pure I/O; a
  reboot happens or returns an error.
- Configuration, plugin parameters, identifiers and boot parameters: sequential
  parsing without state. The test module is a stub to try the manager out.
- Download and checksum of an image are part of a `Prepare` that may fail.
