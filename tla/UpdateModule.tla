---------------------------- MODULE UpdateModule ----------------------------
(***************************************************************************)
(* The contract between the update handler and an update module: what the  *)
(* methods of interface UpdateModule (updatehandler.go) do to a component, *)
(* as far as the handler can tell.  The dual partition and the overlay     *)
(* module are the modules that implement it with a persisted state idle,   *)
(* prepared, updated; this module keeps what they have in common.          *)
(*                                                                         *)
(* Each operation is a set of outcomes [module, err, reboot]: the          *)
(* component afterwards, whether the call returned an error, whether it    *)
(* asked for a reboot.  A call that returns an error has either done       *)
(* nothing or done all it does; what really happens when power is lost     *)
(* half way through a call is the subject of DualPart.                     *)
(***************************************************************************)
EXTENDS Integers

CONSTANT MaxVersion  \* bound on the versions of a component

ASSUME MaxVersionAssumption == MaxVersion \in Nat \ {0}

\* Versions are compared, never read: semver order becomes the order of Nat.
Versions == 0 .. MaxVersion

\* The version of a component whose Init() failed: the empty string.
NoVersion == -1

InitialVersion == 0

Phases == {"idle", "prepared", "updated"}

(***************************************************************************)
(* What Init() of the running process made of the module: it went well, it *)
(* failed before the persisted state was read (the module then acts as an  *)
(* idle one), or it failed later.                                          *)
(***************************************************************************)
InitResults == {"ok", "unread", "failed"}

(***************************************************************************)
(* phase:     the persisted state of the module                            *)
(* version:   the version the component runs                               *)
(* image:     the version of the image being installed                     *)
(* previous:  the version the component comes back to when nothing is      *)
(*            being installed                                              *)
(* init:      the result of Init() in this process                         *)
(***************************************************************************)
Modules == [phase : Phases, version : Versions, image : Versions,
            previous : Versions, init : InitResults]

Factory == [phase |-> "idle", version |-> InitialVersion, image |-> InitialVersion,
            previous |-> InitialVersion, init |-> "ok"]

Outcomes == [module : Modules, err : BOOLEAN, reboot : BOOLEAN]

Done(m)       == [module |-> m, err |-> FALSE, reboot |-> FALSE]
NeedReboot(m) == [module |-> m, err |-> FALSE, reboot |-> TRUE]
Fail(m)       == [module |-> m, err |-> TRUE, reboot |-> FALSE]

\* The state the methods test.
Phase(m) == IF m.init = "unread" THEN "idle" ELSE m.phase

GetVersion(m) == IF m.init = "ok" THEN m.version ELSE NoVersion

(***************************************************************************)
(* Prepare() keeps the image; what the image really contains is only found *)
(* out when it runs, so it may carry any version.                          *)
(***************************************************************************)
Prepare(m) ==
    LET prepared == {[m EXCEPT !.phase = "prepared", !.image = v] : v \in Versions}
    IN  {Fail(m)} \cup
        (IF Phase(m) = "updated" THEN {}
         ELSE {Done(p) : p \in prepared} \cup {Fail(p) : p \in prepared})

(***************************************************************************)
(* Update() is called twice: the first call installs the image and asks    *)
(* for a reboot, the second one, after it, tells whether the component     *)
(* runs the image.                                                         *)
(***************************************************************************)
Update(m) ==
    LET installed == [m EXCEPT !.phase = "updated"]
    IN  {Fail(m)} \cup
        (IF Phase(m) = "prepared" THEN {Fail(installed), NeedReboot(installed)} ELSE {}) \cup
        (IF Phase(m) = "updated" /\ m.init = "ok" /\ m.version = m.image
         THEN {Done(m)} ELSE {})

(***************************************************************************)
(* Apply() makes the image the version to come back to.  On an idle module *)
(* it does nothing.                                                        *)
(***************************************************************************)
Apply(m) ==
    LET applied == [m EXCEPT !.phase = "idle", !.previous = m.image]
    IN  {Fail(m)} \cup
        (IF Phase(m) = "idle" THEN {Done(m)} ELSE {}) \cup
        (IF Phase(m) = "updated"
         THEN {Done(applied), NeedReboot(applied), Fail(applied)} ELSE {})

(***************************************************************************)
(* Revert() gives the image up.  It asks for a reboot when the component   *)
(* was booted with the image, which the version does not tell: an image    *)
(* may carry the version it replaces.  It never goes without the reboot    *)
(* while another version runs than the one to come back to.  On an idle    *)
(* module it does nothing.                                                 *)
(***************************************************************************)
Revert(m) ==
    LET reverted == [m EXCEPT !.phase = "idle", !.image = m.previous]
    IN  {Fail(m)} \cup
        (IF Phase(m) = "idle" THEN {Done(m)}
         ELSE {Fail(reverted), NeedReboot(reverted)} \cup
              (IF m.version = m.previous THEN {Done(reverted)} ELSE {}))

(***************************************************************************)
(* The component after a reboot: the image runs, or the boot fell back to  *)
(* the version before it.  The image may run while the state is still      *)
(* prepared: Update() changes what is booted before it saves the state.    *)
(***************************************************************************)
BootVersions(m) == {m.previous} \cup (IF m.phase # "idle" THEN {m.image} ELSE {})

=============================================================================
