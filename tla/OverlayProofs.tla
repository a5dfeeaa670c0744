--------------------------- MODULE OverlayProofs ----------------------------
(***************************************************************************)
(* Theorems about Overlay, for any number of versions and of faults.       *)
(***************************************************************************)
EXTENDS Overlay, TLAPS

Busy == pc \notin {"down", "ready"}

\* Where a method is, and what it began with.
Steps ==
    /\ op = "none" => ~Busy
    /\ pc = "down" => op = "none" /\ mem = "idle" /\ ~bootWithUpdate /\ ~bootErr
    /\ pc = "reboot" \/ (pc = "return" /\ ret.reboot) => op \in {"update", "apply", "revert"}
    /\ op = "prepare" /\ Busy => handler = "idle" /\ decided = {}
    /\ op = "prepare" /\ pc \in {"clear", "write", "save"} => mem = "prepared"
    /\ op = "prepare" /\ pc \in {"write", "save"} => flags = {}
    /\ op = "update" /\ Busy => handler = "prepared" /\ pc # "clear"
    /\ op = "update" /\ pc \in {"write", "save"} => mem = "prepared"
    /\ op = "revert" /\ Busy =>
         handler \in {"prepared", "updated", "failed"} /\ "revert" \in decided /\ pc # "write"
    /\ op = "revert" /\ pc \in {"clear", "save"} => mem # "idle"
    /\ op = "revert" /\ pc = "save" => flags = {}
    /\ op = "apply" /\ Busy => handler = "updated" /\ "apply" \in decided
    /\ op = "apply" /\ pc = "clear" => mem = "idle"
    /\ op = "apply" /\ pc \in {"write", "save"} => mem = "updated"
    /\ op = "apply" /\ pc = "save" => "do_apply" \in flags
    /\ pc = "return" /\ op = "prepare" /\ ~ret.err => flags = {} /\ disk = "prepared" /\ mem = disk
    /\ pc = "return" /\ op = "apply" /\ ~ret.err /\ ~ret.reboot => flags = {} /\ mem = "idle"
    /\ handler = "prepared" => "apply" \notin decided
    /\ handler = "prepared" /\ mem = "prepared" => disk # "idle"

AppliedMeanwhile == handler = "updated" /\ "apply" \in decided

\* When no decision has failed, the flags are about the update under way.
Flagged ==
    /\ "do_apply" \in flags => AppliedMeanwhile
    /\ handler = "idle" => flags = {} /\ disk # "updated" /\ mem # "updated"
    /\ disk = "idle" /\ ~AppliedMeanwhile => flags = {}
    /\ mem = "idle" /\ pc # "down" /\ ~AppliedMeanwhile => flags = {}
    /\ mem = "idle" /\ pc # "down" =>
         disk = "idle" \/ (op \in {"apply", "revert"} /\ pc = "return" /\ ret.err)
    /\ decided # {"apply", "revert"}
    /\ pc = "return" /\ op = "revert" /\ ~ret.err => flags = {} /\ disk = "idle" /\ mem = "idle"

\* An update prepared on top of what is installed, until it is reverted.
Prepared ==
    /\ op = "prepare" /\ Busy => version = base /\ before = base
    /\ op = "prepare" /\ pc \in {"clear", "write", "save"} => base < target
    /\ op = "prepare" /\ pc = "return" /\ ~ret.err => base < target
    /\ handler = "prepared" /\ "revert" \notin decided =>
         /\ disk # "idle" /\ (mem # "idle" \/ pc = "down")
         /\ version \in {base, overlay} /\ base < target /\ base = before
         /\ "do_apply" \notin flags
    /\ pc = "return" /\ op = "update" /\ ~ret.err /\ ~ret.reboot /\ "revert" \notin decided =>
         overlay = target /\ mem = "updated" /\ disk = "updated"
    /\ handler = "prepared" /\ "revert" \notin decided /\ mem = "updated" /\ pc = "ready" =>
         disk = "updated"
    /\ handler = "updated" /\ decided = {} =>
         disk = "updated" /\ "do_apply" \notin flags /\ base = before
    /\ handler = "updated" /\ "revert" \notin decided =>
         /\ overlay = target \/ (overlay = NoImage /\ disk = "idle" /\ "apply" \in decided)
         /\ disk # "prepared" /\ mem # "prepared"
         /\ mem = "idle" /\ (pc = "ready" \/ (op = "apply" /\ pc = "clear")) => disk = "idle"
         /\ op = "apply" /\ pc = "return" /\ ~ret.err /\ ~ret.reboot => disk = "idle"

\* An apply that was saved has been merged, unless its reboot is still to come.
Merged ==
    handler = "updated" /\ "revert" \notin decided /\ disk = "idle" =>
      \/ Installed
      \/ /\ op = "apply" /\ pc \in {"return", "reboot"} /\ ret.reboot
         /\ "do_apply" \in flags /\ overlay = target

Decisions ==
    /\ op = "apply" /\ Busy => "revert" \notin decided
    /\ AppliedIsInstalled

\* The module knows whether the system runs the update.
Running ==
    /\ version # base =>
         IF pc = "down" THEN "updated" \in flags /\ disk # "idle" ELSE bootWithUpdate
    /\ version # base /\ disk = "idle" =>
         op \in {"apply", "revert"} /\ pc \in {"return", "reboot"} /\ ret.reboot
    /\ handler # "idle" /\ "apply" \notin decided => base = before
    /\ pc = "return" /\ op = "revert" /\ ~ret.err /\ ~ret.reboot => version = base
    /\ RevertRestores

OverlayInv ==
    /\ TypeOK
    /\ Steps
    /\ Without({"failed", "wavered"}) => Flagged
    /\ Without({"astray"}) => Prepared
    /\ Without({"killed", "astray"}) => Merged
    /\ Without({"killed", "wavered", "astray"}) => Decisions
    /\ mishaps = {} => Running

-----------------------------------------------------------------------------
(***************************************************************************)
(* A method ends with a result, or goes to its next step.                  *)
(***************************************************************************)
LEMMA ReturnType ==
    ASSUME NEW e \in BOOLEAN, NEW r \in BOOLEAN, Return(e, r)
    PROVE  pc' = "return" /\ ret' \in [err : BOOLEAN, reboot : BOOLEAN]
BY DEF Return

\* The next step of a method is one of its steps.
LEMMA GoToType ==
    ASSUME TypeOK, NEW p \in {"clear", "write", "save"}, GoTo(p)
    PROVE  pc' \in {"clear", "write", "save"} /\ ret' \in [err : BOOLEAN, reboot : BOOLEAN]
BY DEF GoTo, TypeOK

(***************************************************************************)
(* The end of a process and a boot keep the types.                         *)
(***************************************************************************)
LEMMA DieType ==
    ASSUME Die
    PROVE  /\ mem' \in States /\ bootWithUpdate' \in BOOLEAN /\ bootErr' \in BOOLEAN
           /\ op' = "none" /\ pc' = "down" /\ ret' \in [err : BOOLEAN, reboot : BOOLEAN]
BY DEF Die, States

\* What the script does at a boot keeps the types.
LEMMA BootType ==
    ASSUME TypeOK, Boot
    PROVE  /\ mem' \in States /\ bootWithUpdate' \in BOOLEAN /\ bootErr' \in BOOLEAN
           /\ op' = "none" /\ pc' = "down" /\ ret' \in [err : BOOLEAN, reboot : BOOLEAN]
           /\ base' \in Versions /\ version' \in Versions /\ flags' \subseteq Flags
<1>1. Die
  BY DEF Boot
<1>2. CASE Merge
  BY <1>1, <1>2, DieType DEF Merge, TypeOK, Images
<1>3. CASE BootOverlay
  BY <1>1, <1>3, DieType DEF BootOverlay, TypeOK, Images, Flags
<1>4. CASE BootFallsBack
  BY <1>1, <1>4, DieType DEF BootFallsBack, TypeOK, Flags
<1>5. CASE BootSystem
  BY <1>1, <1>5, DieType DEF BootSystem, TypeOK
<1> QED
  BY <1>2, <1>3, <1>4, <1>5 DEF Boot

(***************************************************************************)
(* Every step keeps the types.                                             *)
(***************************************************************************)
LEMMA TypeStep ==
    ASSUME TypeOK, Steps, [Next]_vars
    PROVE  TypeOK'
<1>t. ASSUME NEW k \in FaultKinds, Fault(k) PROVE faults' \in 0 .. MaxFaults
  BY <1>t, OverlayAssumption DEF Fault, TypeOK
<1>n. NewState \in States /\ RebootRequired \in BOOLEAN /\ NotUpdated \in BOOLEAN
  BY DEF NewState, States, RebootRequired, NotUpdated, TypeOK
<1>o. Busy => op \in {"prepare", "update", "apply", "revert"}
  BY DEF Steps, TypeOK
<1>1. CASE Start
  <2>1. flags' \subseteq Flags /\ mishaps' \subseteq Mishaps
    BY <1>1 DEF Start, TypeOK, Mishaps
  <2>2. faults' \in 0 .. MaxFaults
    BY <1>1, <1>t DEF Start, TypeOK, FaultKinds
  <2>3. ("updated" \in flags) \in BOOLEAN /\ ("failed" \in flags) \in BOOLEAN
    OBVIOUS
  <2>4. bootWithUpdate' = bootWithUpdate \/ bootWithUpdate' = ("updated" \in flags)
    BY <1>1, Zenon DEF Start
  <2>5. bootErr' = bootErr \/ bootErr' = ("failed" \in flags) \/ bootErr' = TRUE
    BY <1>1, Zenon DEF Start
  <2>6. bootWithUpdate' \in BOOLEAN /\ bootErr' \in BOOLEAN
    BY <2>3, <2>4, <2>5, Zenon DEF TypeOK
  <2> QED
    BY <1>1, <2>1, <2>2, <2>6 DEF Start, TypeOK, system, update
<1>2. ASSUME NEW v \in Versions, NEW img \in Images, Prepare(v, img) PROVE TypeOK'
  <2>1. pc' \in {"return", "clear", "write", "save"} /\ ret' \in [err : BOOLEAN, reboot : BOOLEAN]
    BY <1>2, ReturnType, GoToType DEF Prepare
  <2>2. mem' \in States /\ mishaps' \subseteq Mishaps
    BY <1>2 DEF Prepare, TypeOK, States, Mishaps
  <2>3. /\ op' = "prepare" /\ target' \in Versions /\ image' \in Images /\ Error' \in BOOLEAN
        /\ before' \in Versions /\ decided' \subseteq {"apply", "revert"}
    BY <1>2 DEF Prepare, TypeOK
  <2> QED
    BY <1>2, <2>1, <2>2, <2>3 DEF Prepare, TypeOK, system, directory, boot
<1>3. CASE Update
  <2>1. pc' \in {"return", "clear", "write", "save"} /\ ret' \in [err : BOOLEAN, reboot : BOOLEAN]
    BY <1>3, <1>n, ReturnType, GoToType DEF Update
  <2>2. flags' \subseteq Flags /\ Error' \in BOOLEAN /\ op' = "update"
    BY <1>3 DEF Update, TypeOK
  <2>3. faults' \in 0 .. MaxFaults
    BY <1>3, <1>t DEF Update, TypeOK, FaultKinds
  <2> QED
    BY <1>3, <2>1, <2>2, <2>3 DEF Update, TypeOK, system, boot
<1>4. CASE Apply
  <2>1. pc' \in {"return", "clear", "write", "save"} /\ ret' \in [err : BOOLEAN, reboot : BOOLEAN]
    BY <1>4, ReturnType, GoToType DEF Apply
  <2>2. flags' \subseteq Flags /\ faults' \in 0 .. MaxFaults
    BY <1>4, <1>t DEF Apply, TypeOK, FaultKinds
  <2>3. /\ op' = "apply" /\ Error' \in BOOLEAN /\ decided' \subseteq {"apply", "revert"}
        /\ mishaps' \subseteq Mishaps
    BY <1>4 DEF Apply, Decide, TypeOK, Mishaps
  <2> QED
    BY <1>4, <2>1, <2>2, <2>3 DEF Apply, TypeOK, system, boot
<1>5. CASE Revert
  <2>1. pc' \in {"return", "clear", "write", "save"} /\ ret' \in [err : BOOLEAN, reboot : BOOLEAN]
    BY <1>5, ReturnType, GoToType DEF Revert
  <2>2. /\ op' = "revert" /\ Error' \in BOOLEAN /\ decided' \subseteq {"apply", "revert"}
        /\ mishaps' \subseteq Mishaps
    BY <1>5 DEF Revert, Decide, TypeOK, Mishaps
  <2> QED
    BY <1>5, <2>1, <2>2 DEF Revert, TypeOK, system, directory, boot
<1>6. CASE Clearing
  <2>1. overlay' \in Images /\ flags' \subseteq Flags
    BY <1>6 DEF Clearing, TypeOK, Images
  <2> QED
    BY <1>6, <2>1 DEF Clearing, TypeOK, system, boot, update, call
<1>7. CASE Cleared
  <2>1. op \in {"prepare", "revert", "apply"}
    BY <1>7, <1>o DEF Cleared, Steps, Busy
  <2>2. pc' \in {"return", "clear", "write", "save"} /\ ret' \in [err : BOOLEAN, reboot : BOOLEAN]
    BY <1>7, <2>1, ReturnType, GoToType DEF Cleared
  <2> QED
    BY <1>7, <2>2 DEF Cleared, TypeOK, system, directory, boot, update
<1>8. CASE Written
  <2>1. op \in {"prepare", "update", "apply"}
    BY <1>8, <1>o DEF Written, Steps, Busy
  <2>2. pc' \in {"clear", "write", "save"} /\ ret' \in [err : BOOLEAN, reboot : BOOLEAN]
    BY <1>8, GoToType DEF Written
  <2>3. flags' \subseteq Flags /\ overlay' \in Images
    BY <1>8, <2>1 DEF Written, TypeOK, Flags
  <2> QED
    BY <1>8, <2>2, <2>3 DEF Written, TypeOK, system, boot, update
<1>9. CASE StepFails
  <2>1. pc' = "return" /\ ret' \in [err : BOOLEAN, reboot : BOOLEAN] /\ faults' \in 0 .. MaxFaults
    BY <1>9, <1>t, ReturnType DEF StepFails, FaultKinds
  <2> QED
    BY <1>9, <2>1 DEF StepFails, TypeOK, system, directory, boot, update
<1>10. CASE SaveState
  <2>1. pc' = "return" /\ ret' \in [err : BOOLEAN, reboot : BOOLEAN]
    BY <1>10, <1>n, ReturnType DEF SaveState
  <2> QED
    BY <1>10, <1>n, <2>1 DEF SaveState, TypeOK, system, directory, boot, update
<1>11. CASE SaveStateFails
  <2>1. pc' = "return" /\ ret' \in [err : BOOLEAN, reboot : BOOLEAN] /\ faults' \in 0 .. MaxFaults
    BY <1>11, <1>t, ReturnType DEF SaveStateFails, FaultKinds
  <2> QED
    BY <1>11, <1>n, <2>1 DEF SaveStateFails, TypeOK, system, directory, boot, update
<1>12. CASE Returned
  <2>1. pc' \in {"ready", "reboot"} /\ Error' \in BOOLEAN /\ mishaps' \subseteq Mishaps
    BY <1>12 DEF Returned, TypeOK, Mishaps
  <2>2. handler' \in States \cup {"failed"}
    BY <1>12, <1>o DEF Returned, TypeOK, States, Busy
  <2> QED
    BY <1>12, <2>1, <2>2 DEF Returned, TypeOK, system, directory, boot
<1>13. CASE Reboot
  BY <1>13, BootType DEF Reboot, TypeOK, update
<1>14. CASE RebootFails
  <2>1. faults' \in 0 .. MaxFaults /\ mishaps' \subseteq Mishaps
    BY <1>14, <1>t DEF RebootFails, TypeOK, Mishaps, FaultKinds
  <2> QED
    BY <1>14, <2>1 DEF RebootFails, TypeOK, States, system, directory, boot
<1>15. CASE PowerCut
  BY <1>15, <1>t, BootType DEF PowerCut, TypeOK, FaultKinds, update
<1>16. CASE ProcessCrash
  <2>1. faults' \in 0 .. MaxFaults /\ mishaps' \subseteq Mishaps
    BY <1>16, <1>t DEF ProcessCrash, TypeOK, Mishaps, FaultKinds
  <2> QED
    BY <1>16, <2>1, DieType DEF ProcessCrash, TypeOK, system, directory, update
<1>17. CASE UNCHANGED vars
  BY <1>17 DEF vars, system, directory, boot, update, call, TypeOK
<1> QED
  BY <1>1, <1>2, <1>3, <1>4, <1>5, <1>6, <1>7, <1>8, <1>9, <1>10, <1>11, <1>12, <1>13, <1>14,
     <1>15, <1>16, <1>17 DEF Next, Command, Method

(***************************************************************************)
(* Mishaps are never forgotten.                                            *)
(***************************************************************************)
LEMMA MishapsGrow == [Next]_vars => mishaps \subseteq mishaps'
BY DEF Next, Command, Method, Start, Prepare, Update, Apply, Revert, Decide, Clearing, Cleared,
       Written, StepFails, SaveState, SaveStateFails, Returned, Reboot, RebootFails, PowerCut,
       ProcessCrash, vars

(***************************************************************************)
(* Steps is inductive, whatever goes wrong.                                *)
(***************************************************************************)
LEMMA StepsStep ==
    ASSUME TypeOK, Steps, [Next]_vars
    PROVE  Steps'
<1> USE DEF States, Flags
<1>1. CASE Start
  BY <1>1 DEF Start, Steps, Busy, TypeOK, system, update
<1>2. ASSUME NEW v \in Versions, NEW img \in Images, Prepare(v, img) PROVE Steps'
  BY <1>2 DEF Prepare, Return, GoTo, Steps, Busy, TypeOK, system, directory, boot
<1>3. CASE Update
  BY <1>3 DEF Update, Return, GoTo, NotUpdated, Steps, Busy, TypeOK, system, boot
<1>4. CASE Apply
  BY <1>4 DEF Apply, Return, GoTo, Decide, Steps, Busy, TypeOK, system, boot
<1>5. CASE Revert
  BY <1>5 DEF Revert, Return, GoTo, Decide, Steps, Busy, TypeOK, system, directory, boot
<1>6. CASE Clearing
  BY <1>6 DEF Clearing, Steps, Busy, TypeOK, system, boot, update, call
<1>7. CASE Cleared
  BY <1>7 DEF Cleared, Return, GoTo, Steps, Busy, TypeOK, system, directory, boot, update
<1>8. CASE Written
  BY <1>8 DEF Written, GoTo, Steps, Busy, TypeOK, system, boot, update
<1>9. CASE StepFails
  BY <1>9 DEF StepFails, Return, Steps, Busy, TypeOK, system, directory, boot, update
<1>10. CASE SaveState
  BY <1>10 DEF SaveState, Return, NewState, RebootRequired, Steps, Busy, TypeOK, system,
     directory, boot, update
<1>11. CASE SaveStateFails
  BY <1>11 DEF SaveStateFails, Return, NewState, Steps, Busy, TypeOK, system, directory,
     boot, update
<1>12. CASE Returned
  BY <1>12 DEF Returned, Steps, Busy, TypeOK, system, directory, boot
<1>13. CASE Reboot
  BY <1>13 DEF Reboot, Boot, Die, Merge, BootOverlay, BootFallsBack, BootSystem, Steps,
     Busy, TypeOK, update
<1>14. CASE RebootFails
  BY <1>14 DEF RebootFails, Steps, Busy, TypeOK, system, directory, boot
<1>15. CASE PowerCut
  BY <1>15 DEF PowerCut, Boot, Die, Merge, BootOverlay, BootFallsBack, BootSystem, Steps,
     Busy, TypeOK, update
<1>16. CASE ProcessCrash
  BY <1>16 DEF ProcessCrash, Die, Steps, Busy, TypeOK, system, directory, update
<1>17. CASE UNCHANGED vars
  BY <1>17 DEF vars, system, directory, boot, update, call, Steps, Busy, TypeOK
<1> QED
  BY <1>1, <1>2, <1>3, <1>4, <1>5, <1>6, <1>7, <1>8, <1>9, <1>10, <1>11, <1>12, <1>13, <1>14,
     <1>15, <1>16, <1>17 DEF Next, Command, Method

(***************************************************************************)
(* While no decision fails, do_apply is there for an apply only.           *)
(***************************************************************************)
LEMMA FlaggedStep ==
    ASSUME TypeOK, TypeOK', Steps, Steps', Without({"failed", "wavered"})', Flagged,
           [Next]_vars
    PROVE  Flagged'
<1> USE DEF States, Flags
<1>1. CASE Start
  BY <1>1 DEF Start, Steps, Busy, Flagged, AppliedMeanwhile, Without, TypeOK, system, update
<1>2. ASSUME NEW v \in Versions, NEW img \in Images, Prepare(v, img) PROVE Flagged'
  BY <1>2 DEF Prepare, Return, GoTo, Steps, Busy, Flagged, AppliedMeanwhile, Without,
     TypeOK, system, directory, boot
<1>3. CASE Update
  BY <1>3 DEF Update, Return, GoTo, NotUpdated, Steps, Busy, Flagged, AppliedMeanwhile,
     Without, TypeOK, system, boot
<1>4. CASE Apply
  BY <1>4 DEF Apply, Return, GoTo, Decide, Steps, Busy, Flagged, AppliedMeanwhile, Without,
     TypeOK, system, boot
<1>5. CASE Revert
  BY <1>5 DEF Revert, Return, GoTo, Decide, Steps, Busy, Flagged, AppliedMeanwhile, Without,
     TypeOK, system, directory, boot
<1>6. CASE Clearing
  BY <1>6 DEF Clearing, Steps, Busy, Flagged, AppliedMeanwhile, Without, TypeOK, system,
     boot, update, call
<1>7. CASE Cleared
  BY <1>7 DEF Cleared, Return, GoTo, Steps, Busy, Flagged, AppliedMeanwhile, Without,
     TypeOK, system, directory, boot, update
<1>8. CASE Written
  BY <1>8 DEF Written, GoTo, Steps, Busy, Flagged, AppliedMeanwhile, Without, TypeOK,
     system, boot, update
<1>9. CASE StepFails
  BY <1>9 DEF StepFails, Return, Steps, Busy, Flagged, AppliedMeanwhile, Without, TypeOK,
     system, directory, boot, update
<1>10. CASE SaveState
  BY <1>10 DEF SaveState, Return, NewState, RebootRequired, Steps, Busy, Flagged,
     AppliedMeanwhile, Without, TypeOK, system, directory, boot, update
<1>11. CASE SaveStateFails
  BY <1>11 DEF SaveStateFails, Return, NewState, Steps, Busy, Flagged, AppliedMeanwhile,
     Without, TypeOK, system, directory, boot, update
<1>12. CASE Returned
  BY <1>12 DEF Returned, Steps, Busy, Flagged, AppliedMeanwhile, Without, TypeOK, system,
     directory, boot
<1>13. CASE Reboot
  BY <1>13 DEF Reboot, Boot, Die, Merge, BootOverlay, BootFallsBack, BootSystem, Steps,
     Busy, Flagged, AppliedMeanwhile, Without, TypeOK, update
<1>14. CASE RebootFails
  BY <1>14 DEF RebootFails, Steps, Busy, Flagged, AppliedMeanwhile, Without, TypeOK, system,
     directory, boot
<1>15. CASE PowerCut
  BY <1>15 DEF PowerCut, Boot, Die, Merge, BootOverlay, BootFallsBack, BootSystem, Steps,
     Busy, Flagged, AppliedMeanwhile, Without, TypeOK, update
<1>16. CASE ProcessCrash
  BY <1>16 DEF ProcessCrash, Die, Steps, Busy, Flagged, AppliedMeanwhile, Without, TypeOK,
     system, directory, update
<1>17. CASE UNCHANGED vars
  BY <1>17 DEF vars, system, directory, boot, update, call, Steps, Busy, Flagged,
     AppliedMeanwhile, Without, TypeOK
<1> QED
  BY <1>1, <1>2, <1>3, <1>4, <1>5, <1>6, <1>7, <1>8, <1>9, <1>10, <1>11, <1>12, <1>13, <1>14,
     <1>15, <1>16, <1>17 DEF Next, Command, Method

(***************************************************************************)
(* What was prepared is what is verified, and what is merged later.        *)
(***************************************************************************)
LEMMA PreparedStep ==
    ASSUME TypeOK, TypeOK', Steps, Steps', Without({"astray"})', Prepared, [Next]_vars
    PROVE  Prepared'
<1> USE DEF States, Flags
<1>1. CASE Start
  BY <1>1 DEF Start, Steps, Busy, Prepared, Without, TypeOK, system, update
<1>2. ASSUME NEW v \in Versions, NEW img \in Images, Prepare(v, img) PROVE Prepared'
  BY <1>2 DEF Prepare, Return, GoTo, Steps, Busy, Prepared, Without, TypeOK, system,
     directory, boot
<1>3. CASE Update
  <2>1. ASSUME pc' = "return", ~ret'.err, "revert" \notin decided
        PROVE  overlay = target /\ mem = "updated" /\ disk = "updated"
    <3>1. mem = "updated" /\ ret'.err = NotUpdated /\ handler = "prepared" /\ pc = "ready"
      BY <1>3, <2>1 DEF Update, Return, GoTo
    <3>2. version = target
      BY <2>1, <3>1 DEF NotUpdated
    <3>3. version \in {base, overlay} /\ base < target /\ disk = "updated"
      BY <2>1, <3>1 DEF Prepared
    <3> QED
      BY <3>1, <3>2, <3>3 DEF TypeOK, Versions
  <2>2. /\ op' = "update" /\ pc' \in {"return", "write"} /\ handler = "prepared" /\ pc = "ready"
        /\ UNCHANGED <<base, version, overlay, disk, mem, handler, target, before, decided>>
        /\ "do_apply" \in flags' <=> "do_apply" \in flags
    BY <1>3 DEF Update, Return, GoTo, system
  <2> QED
    BY <2>1, <2>2 DEF Prepared, Busy
<1>4. CASE Apply
  BY <1>4 DEF Apply, Return, GoTo, Decide, Steps, Busy, Prepared, Without, TypeOK, system,
     boot
<1>5. CASE Revert
  BY <1>5 DEF Revert, Return, GoTo, Decide, Steps, Busy, Prepared, Without, TypeOK, system,
     directory, boot
<1>6. CASE Clearing
  BY <1>6 DEF Clearing, Steps, Busy, Prepared, Without, TypeOK, system, boot, update, call
<1>7. CASE Cleared
  BY <1>7 DEF Cleared, Return, GoTo, Steps, Busy, Prepared, Without, TypeOK, system,
     directory, boot, update
<1>8. CASE Written
  BY <1>8 DEF Written, GoTo, Steps, Busy, Prepared, Without, TypeOK, system, boot, update
<1>9. CASE StepFails
  BY <1>9 DEF StepFails, Return, Steps, Busy, Prepared, Without, TypeOK, system, directory,
     boot, update
<1>10. CASE SaveState
  BY <1>10 DEF SaveState, Return, NewState, RebootRequired, Steps, Busy, Prepared, Without,
     TypeOK, system, directory, boot, update
<1>11. CASE SaveStateFails
  BY <1>11 DEF SaveStateFails, Return, NewState, Steps, Busy, Prepared, Without, TypeOK,
     system, directory, boot, update
<1>12. CASE Returned
  BY <1>12 DEF Returned, Steps, Busy, Prepared, Without, TypeOK, system, directory, boot
<1>13. CASE Reboot
  BY <1>13 DEF Reboot, Boot, Die, Merge, BootOverlay, BootFallsBack, BootSystem, Steps,
     Busy, Prepared, Without, TypeOK, update
<1>14. CASE RebootFails
  BY <1>14 DEF RebootFails, Steps, Busy, Prepared, Without, TypeOK, system, directory, boot
<1>15. CASE PowerCut
  BY <1>15 DEF PowerCut, Boot, Die, Merge, BootOverlay, BootFallsBack, BootSystem, Steps,
     Busy, Prepared, Without, TypeOK, update
<1>16. CASE ProcessCrash
  BY <1>16 DEF ProcessCrash, Die, Steps, Busy, Prepared, Without, TypeOK, system, directory,
     update
<1>17. CASE UNCHANGED vars
  BY <1>17 DEF vars, system, directory, boot, update, call, Steps, Busy, Prepared, Without,
     TypeOK
<1> QED
  BY <1>1, <1>2, <1>3, <1>4, <1>5, <1>6, <1>7, <1>8, <1>9, <1>10, <1>11, <1>12, <1>13, <1>14,
     <1>15, <1>16, <1>17 DEF Next, Command, Method

(***************************************************************************)
(* A boot merges what was applied, and keeps what was merged.              *)
(***************************************************************************)
LEMMA MergedBoot ==
    ASSUME TypeOK, Prepared, Merged, Boot, UNCHANGED <<overlay, disk, update>>
    PROVE  Merged'
<1> SUFFICES ASSUME handler = "updated", "revert" \notin decided, disk = "idle"
             PROVE  Installed'
  BY DEF Merged, update
<1>1. overlay \in {target, NoImage} /\ target # NoImage
  BY DEF Prepared, TypeOK, Versions, NoImage
<1>2. Installed \/ ("do_apply" \in flags /\ overlay = target)
  BY DEF Merged
<1>3. CASE Merge
  BY <1>1, <1>2, <1>3 DEF Merge, Installed, update
<1>4. CASE BootOverlay
  BY <1>1, <1>2, <1>4 DEF BootOverlay, Installed, update
<1>5. CASE BootFallsBack
  BY <1>2, <1>5 DEF BootFallsBack, Installed, update
<1>6. CASE BootSystem
  BY <1>2, <1>6 DEF BootSystem, Installed, update
<1> QED
  BY <1>3, <1>4, <1>5, <1>6 DEF Boot

(***************************************************************************)
(* An apply reaches the script before the module clears the directory.     *)
(***************************************************************************)
LEMMA MergedStep ==
    ASSUME TypeOK, TypeOK', Steps, Steps', Without({"killed", "astray"})', Prepared,
           Prepared', Merged, [Next]_vars
    PROVE  Merged'
<1> USE DEF States, Flags
<1>1. CASE Start
  BY <1>1 DEF Start, Steps, Busy, Prepared, Merged, Installed, Without, TypeOK, system,
     update
<1>2. ASSUME NEW v \in Versions, NEW img \in Images, Prepare(v, img) PROVE Merged'
  BY <1>2 DEF Prepare, Return, GoTo, Steps, Busy, Prepared, Merged, Installed, Without,
     TypeOK, system, directory, boot
<1>3. CASE Update
  BY <1>3 DEF Update, Return, GoTo, NotUpdated, Steps, Busy, Prepared, Merged, Installed,
     Without, TypeOK, system, boot
<1>4. CASE Apply
  BY <1>4 DEF Apply, Return, GoTo, Decide, Steps, Busy, Prepared, Merged, Installed,
     Without, TypeOK, system, boot
<1>5. CASE Revert
  BY <1>5 DEF Revert, Return, GoTo, Decide, Steps, Busy, Prepared, Merged, Installed,
     Without, TypeOK, system, directory, boot
<1>6. CASE Clearing
  BY <1>6 DEF Clearing, Steps, Busy, Prepared, Merged, Installed, Without, TypeOK, system,
     boot, update, call
<1>7. CASE Cleared
  BY <1>7 DEF Cleared, Return, GoTo, Steps, Busy, Prepared, Merged, Installed, Without,
     TypeOK, system, directory, boot, update
<1>8. CASE Written
  BY <1>8 DEF Written, GoTo, Steps, Busy, Prepared, Merged, Installed, Without, TypeOK,
     system, boot, update
<1>9. CASE StepFails
  BY <1>9 DEF StepFails, Return, Steps, Busy, Prepared, Merged, Installed, Without, TypeOK,
     system, directory, boot, update
<1>10. CASE SaveState
  BY <1>10 DEF SaveState, Return, NewState, RebootRequired, Steps, Busy, Prepared, Merged,
     Installed, Without, TypeOK, system, directory, boot, update
<1>11. CASE SaveStateFails
  BY <1>11 DEF SaveStateFails, Return, NewState, Steps, Busy, Prepared, Merged, Installed,
     Without, TypeOK, system, directory, boot, update
<1>12. CASE Returned
  BY <1>12 DEF Returned, Steps, Busy, Prepared, Merged, Installed, Without, TypeOK, system,
     directory, boot
<1>13. CASE Reboot
  BY <1>13, MergedBoot DEF Reboot
<1>14. CASE RebootFails
  BY <1>14 DEF RebootFails, Steps, Busy, Prepared, Merged, Installed, Without, TypeOK,
     system, directory, boot
<1>15. CASE PowerCut
  BY <1>15, MergedBoot DEF PowerCut
<1>16. CASE ProcessCrash
  BY <1>16 DEF ProcessCrash, Die, Steps, Busy, Prepared, Merged, Installed, Without, TypeOK,
     system, directory, update
<1>17. CASE UNCHANGED vars
  BY <1>17 DEF vars, system, directory, boot, update, call, Steps, Busy, Prepared, Merged,
     Installed, Without, TypeOK
<1> QED
  BY <1>1, <1>2, <1>3, <1>4, <1>5, <1>6, <1>7, <1>8, <1>9, <1>10, <1>11, <1>12, <1>13, <1>14,
     <1>15, <1>16, <1>17 DEF Next, Command, Method

(***************************************************************************)
(* A decision to apply that ends well has been merged.                     *)
(***************************************************************************)
LEMMA AppliedStep ==
    ASSUME TypeOK, TypeOK', Steps, Steps', Without({"killed", "wavered", "astray"}),
           Without({"killed", "wavered", "astray"})', Prepared, Merged, Decisions,
           [Next]_vars
    PROVE  Decisions'
<1> USE DEF States, Flags
<1>1. CASE Start
  BY <1>1 DEF Start, Steps, Busy, Prepared, Merged, Decisions, AppliedIsInstalled, Ended,
     Installed, Without, TypeOK, system, update
<1>2. ASSUME NEW v \in Versions, NEW img \in Images, Prepare(v, img) PROVE Decisions'
  BY <1>2 DEF Prepare, Return, GoTo, Steps, Busy, Prepared, Merged, Decisions,
     AppliedIsInstalled, Ended, Installed, Without, TypeOK, system, directory, boot
<1>3. CASE Update
  BY <1>3 DEF Update, Return, GoTo, NotUpdated, Steps, Busy, Prepared, Merged, Decisions,
     AppliedIsInstalled, Ended, Installed, Without, TypeOK, system, boot
<1>4. CASE Apply
  BY <1>4 DEF Apply, Return, GoTo, Decide, Steps, Busy, Prepared, Merged, Decisions,
     AppliedIsInstalled, Ended, Installed, Without, TypeOK, system, boot
<1>5. CASE Revert
  BY <1>5 DEF Revert, Return, GoTo, Decide, Steps, Busy, Prepared, Merged, Decisions,
     AppliedIsInstalled, Ended, Installed, Without, TypeOK, system, directory, boot
<1>6. CASE Clearing
  BY <1>6 DEF Clearing, Steps, Busy, Prepared, Merged, Decisions, AppliedIsInstalled, Ended,
     Installed, Without, TypeOK, system, boot, update, call
<1>7. CASE Cleared
  BY <1>7 DEF Cleared, Return, GoTo, Steps, Busy, Prepared, Merged, Decisions,
     AppliedIsInstalled, Ended, Installed, Without, TypeOK, system, directory, boot, update
<1>8. CASE Written
  BY <1>8 DEF Written, GoTo, Steps, Busy, Prepared, Merged, Decisions, AppliedIsInstalled,
     Ended, Installed, Without, TypeOK, system, boot, update
<1>9. CASE StepFails
  BY <1>9 DEF StepFails, Return, Steps, Busy, Prepared, Merged, Decisions,
     AppliedIsInstalled, Ended, Installed, Without, TypeOK, system, directory, boot, update
<1>10. CASE SaveState
  BY <1>10 DEF SaveState, Return, NewState, RebootRequired, Steps, Busy, Prepared, Merged,
     Decisions, AppliedIsInstalled, Ended, Installed, Without, TypeOK, system, directory,
     boot, update
<1>11. CASE SaveStateFails
  BY <1>11 DEF SaveStateFails, Return, NewState, Steps, Busy, Prepared, Merged, Decisions,
     AppliedIsInstalled, Ended, Installed, Without, TypeOK, system, directory, boot, update
<1>12. CASE Returned
  BY <1>12 DEF Returned, Steps, Busy, Prepared, Merged, Decisions, AppliedIsInstalled,
     Ended, Installed, Without, TypeOK, system, directory, boot
<1>13. CASE Reboot
  BY <1>13 DEF Reboot, Boot, Die, Merge, BootOverlay, BootFallsBack, BootSystem, Steps,
     Busy, Prepared, Merged, Decisions, AppliedIsInstalled, Ended, Installed, Without,
     TypeOK, update
<1>14. CASE RebootFails
  BY <1>14 DEF RebootFails, Steps, Busy, Prepared, Merged, Decisions, AppliedIsInstalled,
     Ended, Installed, Without, TypeOK, system, directory, boot
<1>15. CASE PowerCut
  BY <1>15 DEF PowerCut, Boot, Die, Merge, BootOverlay, BootFallsBack, BootSystem, Steps,
     Busy, Prepared, Merged, Decisions, AppliedIsInstalled, Ended, Installed, Without,
     TypeOK, update
<1>16. CASE ProcessCrash
  BY <1>16 DEF ProcessCrash, Die, Steps, Busy, Prepared, Merged, Decisions,
     AppliedIsInstalled, Ended, Installed, Without, TypeOK, system, directory, update
<1>17. CASE UNCHANGED vars
  BY <1>17 DEF vars, system, directory, boot, update, call, Steps, Busy, Prepared, Merged,
     Decisions, AppliedIsInstalled, Ended, Installed, Without, TypeOK
<1> QED
  BY <1>1, <1>2, <1>3, <1>4, <1>5, <1>6, <1>7, <1>8, <1>9, <1>10, <1>11, <1>12, <1>13, <1>14,
     <1>15, <1>16, <1>17 DEF Next, Command, Method

(***************************************************************************)
(* Without mishaps the module knows whether the update runs.               *)
(***************************************************************************)
LEMMA RunningStep ==
    ASSUME TypeOK, TypeOK', Steps, Steps', mishaps = {}, mishaps' = {}, Flagged,
           Flagged', Prepared, Prepared', Merged, Merged', Running, [Next]_vars
    PROVE  Running'
<1> USE DEF States, Flags
<1>1. CASE Start
  BY <1>1 DEF Start, Steps, Busy, Flagged, AppliedMeanwhile, Prepared, Merged, Running,
     RevertRestores, Ended, Restored, Installed, TypeOK, system, update
<1>2. ASSUME NEW v \in Versions, NEW img \in Images, Prepare(v, img) PROVE Running'
  BY <1>2 DEF Prepare, Return, GoTo, Steps, Busy, Flagged, AppliedMeanwhile, Prepared,
     Merged, Running, RevertRestores, Ended, Restored, Installed, TypeOK, system, directory,
     boot
<1>3. CASE Update
  BY <1>3 DEF Update, Return, GoTo, NotUpdated, Steps, Busy, Flagged, AppliedMeanwhile,
     Prepared, Merged, Running, RevertRestores, Ended, Restored, Installed, TypeOK, system,
     boot
<1>4. CASE Apply
  BY <1>4 DEF Apply, Return, GoTo, Decide, Steps, Busy, Flagged, AppliedMeanwhile, Prepared,
     Merged, Running, RevertRestores, Ended, Restored, Installed, TypeOK, system, boot
<1>5. CASE Revert
  BY <1>5 DEF Revert, Return, GoTo, Decide, Steps, Busy, Flagged, AppliedMeanwhile,
     Prepared, Merged, Running, RevertRestores, Ended, Restored, Installed, TypeOK, system,
     directory, boot
<1>6. CASE Clearing
  BY <1>6 DEF Clearing, Steps, Busy, Flagged, AppliedMeanwhile, Prepared, Merged, Running,
     RevertRestores, Ended, Restored, Installed, TypeOK, system, boot, update, call
<1>7. CASE Cleared
  BY <1>7 DEF Cleared, Return, GoTo, Steps, Busy, Flagged, AppliedMeanwhile, Prepared,
     Merged, Running, RevertRestores, Ended, Restored, Installed, TypeOK, system, directory,
     boot, update
<1>8. CASE Written
  BY <1>8 DEF Written, GoTo, Steps, Busy, Flagged, AppliedMeanwhile, Prepared, Merged,
     Running, RevertRestores, Ended, Restored, Installed, TypeOK, system, boot, update
<1>9. CASE StepFails
  BY <1>9 DEF StepFails, Return, Steps, Busy, Flagged, AppliedMeanwhile, Prepared, Merged,
     Running, RevertRestores, Ended, Restored, Installed, TypeOK, system, directory, boot,
     update
<1>10. CASE SaveState
  BY <1>10 DEF SaveState, Return, NewState, RebootRequired, Steps, Busy, Flagged,
     AppliedMeanwhile, Prepared, Merged, Running, RevertRestores, Ended, Restored,
     Installed, TypeOK, system, directory, boot, update
<1>11. CASE SaveStateFails
  BY <1>11 DEF SaveStateFails, Return, NewState, Steps, Busy, Flagged, AppliedMeanwhile,
     Prepared, Merged, Running, RevertRestores, Ended, Restored, Installed, TypeOK, system,
     directory, boot, update
<1>12. CASE Returned
  BY <1>12 DEF Returned, Steps, Busy, Flagged, AppliedMeanwhile, Prepared, Merged, Running,
     RevertRestores, Ended, Restored, Installed, TypeOK, system, directory, boot
<1>13. CASE Reboot
  BY <1>13 DEF Reboot, Boot, Die, Merge, BootOverlay, BootFallsBack, BootSystem, Steps,
     Busy, Flagged, AppliedMeanwhile, Prepared, Merged, Running, RevertRestores, Ended,
     Restored, Installed, TypeOK, update
<1>14. CASE RebootFails
  BY <1>14 DEF RebootFails, Steps, Busy, Flagged, AppliedMeanwhile, Prepared, Merged,
     Running, RevertRestores, Ended, Restored, Installed, TypeOK, system, directory, boot
<1>15. CASE PowerCut
  BY <1>15 DEF PowerCut, Boot, Die, Merge, BootOverlay, BootFallsBack, BootSystem, Steps,
     Busy, Flagged, AppliedMeanwhile, Prepared, Merged, Running, RevertRestores, Ended,
     Restored, Installed, TypeOK, update
<1>16. CASE ProcessCrash
  BY <1>16 DEF ProcessCrash, Die, Steps, Busy, Flagged, AppliedMeanwhile, Prepared, Merged,
     Running, RevertRestores, Ended, Restored, Installed, TypeOK, system, directory, update
<1>17. CASE UNCHANGED vars
  BY <1>17 DEF vars, system, directory, boot, update, call, Steps, Busy, Flagged,
     AppliedMeanwhile, Prepared, Merged, Running, RevertRestores, Ended, Restored,
     Installed, TypeOK
<1> QED
  BY <1>1, <1>2, <1>3, <1>4, <1>5, <1>6, <1>7, <1>8, <1>9, <1>10, <1>11, <1>12, <1>13, <1>14,
     <1>15, <1>16, <1>17 DEF Next, Command, Method

-----------------------------------------------------------------------------
\* OverlayInv holds at first.
LEMMA OverlayInit == Init => OverlayInv
<1> SUFFICES ASSUME Init PROVE OverlayInv
  OBVIOUS
<1>1. TypeOK
  <2>1. 0 \in Versions /\ 0 \in 0 .. MaxFaults
    BY OverlayAssumption DEF Versions
  <2> QED
    BY <2>1 DEF Init, TypeOK, Images, States
<1>2. Steps /\ Flagged /\ Prepared
  BY DEF Init, Steps, Flagged, Prepared, Busy
<1>3. Merged /\ Decisions /\ Running
  BY DEF Init, Merged, Decisions, AppliedIsInstalled, Running, RevertRestores, Ended
<1> QED
  BY <1>1, <1>2, <1>3 DEF OverlayInv

\* Every step keeps OverlayInv: each part needs those with fewer mishaps to exclude.
LEMMA OverlayStep == OverlayInv /\ [Next]_vars => OverlayInv'
<1> SUFFICES ASSUME OverlayInv, [Next]_vars PROVE OverlayInv'
  OBVIOUS
<1> USE DEF OverlayInv
<1>1. TypeOK' /\ Steps'
  BY TypeStep, StepsStep
<1>2. mishaps \subseteq mishaps'
  BY MishapsGrow
<1>3. ASSUME Without({"failed", "wavered"})' PROVE Flagged'
  BY <1>1, <1>2, <1>3, FlaggedStep DEF Without
<1>4. ASSUME Without({"astray"})' PROVE Prepared'
  BY <1>1, <1>2, <1>4, PreparedStep DEF Without
<1>5. ASSUME Without({"killed", "astray"})' PROVE Merged'
  <2>1. Without({"astray"})' /\ Without({"astray"}) /\ Without({"killed", "astray"})
    BY <1>2, <1>5 DEF Without
  <2> QED
    BY <1>1, <1>4, <1>5, <2>1, MergedStep
<1>6. ASSUME Without({"killed", "wavered", "astray"})' PROVE Decisions'
  <2>1. /\ Without({"killed", "wavered", "astray"})
        /\ Without({"astray"}) /\ Without({"killed", "astray"})
    BY <1>2, <1>6 DEF Without
  <2> QED
    BY <1>1, <1>6, <2>1, AppliedStep
<1>7. ASSUME mishaps' = {} PROVE Running'
  <2>1. mishaps = {}
    BY <1>2, <1>7
  <2>2. Flagged /\ Prepared /\ Merged
    BY <2>1 DEF Without
  <2>3. Flagged' /\ Prepared' /\ Merged'
    BY <1>3, <1>4, <1>5, <1>7 DEF Without
  <2> QED
    BY <1>1, <1>7, <2>1, <2>2, <2>3, RunningStep
<1> QED
  BY <1>1, <1>3, <1>4, <1>5, <1>6, <1>7

\* So it is an invariant.
LEMMA OverlayInvAlways == Spec => []OverlayInv
BY OverlayInit, OverlayStep, PTL DEF Spec

(***************************************************************************)
(* Every variable has its type.                                            *)
(***************************************************************************)
THEOREM OverlayTypeCorrect == Spec => []TypeOK
<1>1. OverlayInv => TypeOK
  BY DEF OverlayInv
<1> QED
  BY <1>1, OverlayInvAlways, PTL

(***************************************************************************)
(* The script changes the installed system only after the CM has decided   *)
(* to apply, and to the version that was asked for.                        *)
(***************************************************************************)
THEOREM MergesOnlyAppliedAlways == Spec => MergesOnlyApplied
<1> DEFINE Asked == "apply" \in decided /\ base' = target
<1>1. OverlayInv /\ [Next]_vars =>
        [base' # base /\ Without({"failed", "wavered", "astray"}) => Asked]_vars
  <2> SUFFICES ASSUME OverlayInv, Next, base' # base, Without({"failed", "wavered", "astray"})
               PROVE  Asked
    BY DEF vars, system
  <2>1. Boot
    BY DEF Next, Command, Method, Start, Prepare, Update, Apply, Revert, Clearing, Cleared,
           Written, StepFails, SaveState, SaveStateFails, Returned, Reboot, RebootFails,
           PowerCut, ProcessCrash, system
  <2>2. "do_apply" \in flags /\ base' = overlay /\ overlay # NoImage
    BY <2>1 DEF Boot, Merge, BootOverlay, BootFallsBack, BootSystem
  <2>3. handler = "updated" /\ "apply" \in decided /\ "revert" \notin decided
    BY <2>2 DEF OverlayInv, Flagged, AppliedMeanwhile, Without, TypeOK
  <2> QED
    BY <2>2, <2>3 DEF OverlayInv, Prepared, Without
<1> QED
  BY <1>1, OverlayInvAlways, PTL DEF Spec, MergesOnlyApplied

(***************************************************************************)
(* A successful apply leaves the version asked for installed and running.  *)
(***************************************************************************)
THEOREM AppliedIsInstalledAlways == Spec => []AppliedIsInstalled
<1>1. OverlayInv => AppliedIsInstalled
  BY DEF OverlayInv, Decisions, AppliedIsInstalled
<1> QED
  BY <1>1, OverlayInvAlways, PTL

(***************************************************************************)
(* A successful revert, after no mishap, leaves the former version         *)
(* installed and running, and nothing for the script to do.                *)
(***************************************************************************)
THEOREM RevertRestoresAlways == Spec => []RevertRestores
<1>1. OverlayInv => RevertRestores
  BY DEF OverlayInv, Running, RevertRestores
<1> QED
  BY <1>1, OverlayInvAlways, PTL

(***************************************************************************)
(* The image of an update that was verified and not decided on is the one  *)
(* asked for, over the system as it was before.                            *)
(***************************************************************************)
THEOREM VerifiedOverBaseAlways == Spec => []VerifiedOverBase
<1>1. OverlayInv => VerifiedOverBase
  BY DEF OverlayInv, Prepared, VerifiedOverBase, Without
<1> QED
  BY <1>1, OverlayInvAlways, PTL

-----------------------------------------------------------------------------
\* From the call of Prepare() until it has failed, or the handler has taken its result.
Accepted == op = "prepare" /\ (pc \in {"clear", "write", "save"} \/ (pc = "return" /\ ~ret.err))

\* What the handler has asked the module for, and what the module knows of it.
Requests ==
    /\ handler \in {"prepared", "updated"} \/ Accepted => target > before
    /\ handler = "prepared" /\ mem = "prepared" => disk = "prepared"
    /\ handler \in {"prepared", "updated"} /\ mem = "updated" =>
         disk = "updated" \/ (op = "update" /\ pc = "return" /\ ret.err)
    /\ bootWithUpdate /\ disk = "idle" =>
         op \in {"apply", "revert"} /\ pc \in {"return", "reboot"} /\ ret.reboot
    /\ ret.reboot => ~ret.err

\* Where the image is.
ImageKept ==
    /\ handler \in {"prepared", "updated"} \/ "do_update" \in flags => overlay \in {image, NoImage}
    /\ op = "prepare" /\ (pc = "save" \/ (pc = "return" /\ ~ret.err)) => overlay = image
    /\ handler # "idle" => base \in {image, before} /\ version \in {image, before}

\* All that holds as long as no mishap has happened.
CleanInv ==
    /\ TypeOK /\ Steps /\ Flagged /\ Prepared /\ Merged /\ Decisions /\ Running
    /\ Requests /\ ImageKept

\* Without mishaps it stays known what was asked for, and where the image is.
LEMMA ImageStep ==
    ASSUME CleanInv, TypeOK', Steps', mishaps = {}, mishaps' = {}, [Next]_vars
    PROVE  Requests' /\ ImageKept'
<1> USE DEF CleanInv, States, Flags
<1>1. CASE Start
  BY <1>1 DEF Start, Steps, Busy, Requests, ImageKept, Accepted, TypeOK, system, update
<1>2. ASSUME NEW v \in Versions, NEW img \in Images, Prepare(v, img)
      PROVE  Requests' /\ ImageKept'
  BY <1>2 DEF Prepare, Return, GoTo, Steps, Busy, Flagged, Requests, ImageKept, Accepted,
     TypeOK, Versions, system, directory, boot
<1>3. CASE Update
  BY <1>3 DEF Update, Return, GoTo, NotUpdated, Steps, Busy, Requests, ImageKept, Accepted,
     TypeOK, system, boot
<1>4. CASE Apply
  BY <1>4 DEF Apply, Return, GoTo, Decide, Steps, Busy, Requests, ImageKept, Accepted,
     TypeOK, system, boot
<1>5. CASE Revert
  BY <1>5 DEF Revert, Return, GoTo, Decide, Steps, Busy, Requests, ImageKept, Accepted,
     TypeOK, system, directory, boot
<1>6. CASE Clearing
  BY <1>6 DEF Clearing, Steps, Busy, Requests, ImageKept, Accepted, TypeOK, system, boot,
     update, call
<1>7. CASE Cleared
  <2>1. op \in {"prepare", "revert", "apply"}
    BY <1>7 DEF Cleared, Steps, Busy, TypeOK
  <2>2. /\ pc = "clear"
        /\ UNCHANGED <<base, version, overlay, flags, disk, mem, bootWithUpdate, image, op,
                       handler, target, before, decided>>
    BY <1>7 DEF Cleared, system, directory, boot, update
  <2>3. pc' = IF op = "prepare" THEN "write" ELSE IF op = "revert" THEN "save" ELSE "return"
    BY <1>7, <2>1 DEF Cleared, Return, GoTo
  <2>4. ret' = ret \/ ret' = [err |-> FALSE, reboot |-> FALSE]
    BY <1>7, <2>1 DEF Cleared, Return, GoTo
  <2>5. ret'.reboot => ~ret'.err
    BY <2>4 DEF Requests
  <2> QED
    BY <2>1, <2>2, <2>3, <2>5 DEF Requests, ImageKept, Accepted
<1>8. CASE Written
  BY <1>8 DEF Written, GoTo, Steps, Busy, Requests, ImageKept, Accepted, TypeOK, system,
     boot, update
<1>9. CASE StepFails
  BY <1>9 DEF StepFails, Return, Steps, Busy, Requests, ImageKept, Accepted, TypeOK, system,
     directory, boot, update
<1>10. CASE SaveState
  BY <1>10 DEF SaveState, Return, NewState, RebootRequired, Steps, Busy, Requests,
     ImageKept, Accepted, TypeOK, system, directory, boot, update
<1>11. CASE SaveStateFails
  BY <1>11 DEF SaveStateFails, Return, NewState, Steps, Busy, Requests, ImageKept, Accepted,
     TypeOK, system, directory, boot, update
<1>12. CASE Returned
  <2>1. /\ pc = "return" /\ pc' \in {"ready", "reboot"}
        /\ pc' = "reboot" <=> ret.reboot
        /\ ret.reboot => handler' = handler
        /\ UNCHANGED <<base, version, overlay, flags, disk, mem, bootWithUpdate, image, op,
                       ret, target, before, decided>>
    BY <1>12 DEF Returned, system, directory, boot
  <2>2. CASE ret.reboot
    BY <2>1, <2>2 DEF Requests, ImageKept, Accepted
  <2>3. CASE ~ret.reboot /\ op = "prepare"
    <3>1. handler' = IF ret.err THEN "failed" ELSE "prepared"
      BY <1>12, <2>3 DEF Returned
    <3>2. version = base /\ before = base
      BY <2>1, <2>3 DEF Prepared, Busy
    <3>3. ~ret.err => disk = "prepared" /\ mem = disk /\ overlay = image /\ target > before
      BY <2>1, <2>3 DEF Steps, ImageKept, Requests, Accepted
    <3> QED
      BY <2>1, <2>3, <3>1, <3>2, <3>3 DEF Requests, ImageKept, Accepted
  <2>4. CASE ~ret.reboot /\ op = "update"
    <3>1. handler = "prepared" /\ handler' = IF ret.err THEN "failed" ELSE "updated"
      BY <1>12, <2>1, <2>4 DEF Returned, Steps, Busy
    <3> QED
      BY <2>1, <2>4, <3>1 DEF Requests, ImageKept, Accepted
  <2>5. CASE ~ret.reboot /\ op \in {"apply", "revert"}
    <3>1. handler' = "idle"
      BY <1>12, <2>5 DEF Returned
    <3> QED
      BY <2>1, <2>5, <3>1 DEF Requests, ImageKept, Accepted
  <2> QED
    BY <2>1, <2>2, <2>3, <2>4, <2>5 DEF Steps, Busy, TypeOK
<1>b. ASSUME Boot, UNCHANGED <<overlay, disk, image, update>> PROVE Requests' /\ ImageKept'
  BY <1>b DEF Boot, Die, Merge, BootOverlay, BootFallsBack, BootSystem, Steps, Busy, Flagged,
     AppliedMeanwhile, Requests, ImageKept, Accepted, TypeOK, update
<1>13. CASE Reboot
  BY <1>13, <1>b DEF Reboot
<1>14. CASE RebootFails
  BY <1>14 DEF RebootFails, Steps, Busy, Requests, ImageKept, Accepted, TypeOK, system,
     directory, boot
<1>15. CASE PowerCut
  BY <1>15, <1>b DEF PowerCut
<1>16. CASE ProcessCrash
  BY <1>16 DEF ProcessCrash, Die, Steps, Busy, Requests, ImageKept, Accepted, TypeOK,
     system, directory, update
<1>17. CASE UNCHANGED vars
  BY <1>17 DEF vars, system, directory, boot, update, call, Requests, ImageKept, Accepted
<1> QED
  BY <1>1, <1>2, <1>3, <1>4, <1>5, <1>6, <1>7, <1>8, <1>9, <1>10, <1>11, <1>12, <1>13, <1>14,
     <1>15, <1>16, <1>17 DEF Next, Command, Method

-----------------------------------------------------------------------------
\* What the handler can tell, between the calls.
LEMMA ResultIs ==
    /\ pc # "return" => Result = Contract!Nothing
    /\ pc = "return" => Result = [method |-> op, err |-> ret.err, reboot |-> ret.reboot]
BY DEF Result, Contract!Nothing

(***************************************************************************)
(* The component without mishaps is one of the modules the contract is     *)
(* about.                                                                  *)
(***************************************************************************)
LEMMA ComponentType ==
    ASSUME CleanInv
    PROVE  /\ ComesBackTo \in Versions
           /\ Component \in Contract!Modules
           /\ Component.phase = disk
           /\ Component.version = version
           /\ Component.previous = ComesBackTo
           /\ Component.image \in Versions
<1> USE DEF CleanInv
<1>1. ComesBackTo \in Versions
  BY DEF ComesBackTo, TypeOK, Images
<1>2. Component.image \in Versions
  BY <1>1 DEF Component, TypeOK, Images
<1>3. Component.phase = disk /\ Component.version = version /\ Component.previous = ComesBackTo
  BY DEF Component
<1>4. Component.init \in {"ok", "unread", "failed"}
  BY DEF Component
<1> QED
  BY <1>1, <1>2, <1>3, <1>4
     DEF Component, Contract!Modules, Contract!Versions, Contract!Phases, Contract!InitResults,
         Versions, TypeOK, States

Fields(phase, running, img, previous, init) ==
    [phase |-> phase, version |-> running, image |-> img, previous |-> previous, init |-> init]

\* The component by its fields, now and after a step.
LEMMA ComponentFields ==
    /\ Component = Fields(disk, version, Component.image, ComesBackTo, Component.init)
    /\ Component' = Fields(disk', version', Component'.image, ComesBackTo', Component'.init)
BY DEF Component, Fields

\* The changes the contract makes to the component.
LEMMA Changes ==
    ASSUME NEW x, NEW y
    PROVE  /\ [Component EXCEPT !.phase = x, !.image = y] =
                Fields(x, version, y, ComesBackTo, Component.init)
           /\ [Component EXCEPT !.phase = x, !.previous = y] =
                Fields(x, version, Component.image, y, Component.init)
           /\ [Component EXCEPT !.phase = x] =
                Fields(x, version, Component.image, ComesBackTo, Component.init)
<1>1. [Component EXCEPT !.phase = x] =
        Fields(x, version, Component.image, ComesBackTo, Component.init)
  BY DEF Component, Fields
<1>2. [Fields(x, version, Component.image, ComesBackTo, Component.init) EXCEPT !.image = y] =
        Fields(x, version, y, ComesBackTo, Component.init)
  BY DEF Fields
<1>3. [Fields(x, version, Component.image, ComesBackTo, Component.init) EXCEPT !.previous = y] =
        Fields(x, version, Component.image, y, Component.init)
  BY DEF Fields
<1> QED
  BY <1>1, <1>2, <1>3

\* The change a boot makes to it.
LEMMA BootChanges ==
    ASSUME NEW x
    PROVE  [Component EXCEPT !.version = x, !.init = "ok"] =
             Fields(disk, x, Component.image, ComesBackTo, "ok")
<1>1. [Component EXCEPT !.version = x] =
        Fields(disk, x, Component.image, ComesBackTo, Component.init)
  BY DEF Component, Fields
<1>2. [Fields(disk, x, Component.image, ComesBackTo, Component.init) EXCEPT !.init = "ok"] =
        Fields(disk, x, Component.image, ComesBackTo, "ok")
  BY DEF Fields
<1> QED
  BY <1>1, <1>2

\* A step that leaves the state, the image and what is installed changes nothing of the component.
LEMMA SameComponent ==
    ASSUME UNCHANGED <<disk, version, bootErr, image>>, ComesBackTo' = ComesBackTo
    PROVE  Component' = Component
BY DEF Component

\* A method makes one of its outcomes of the component, and returns or goes on.
LEMMA CallStep ==
    ASSUME NEW method \in Contract!Methods, NEW o \in Contract!Offered(method, Component),
           pc # "down", pc # "return", pc' # "down",
           Component' = o.module,
           pc' = "return" => op' = method /\ ret'.err = o.err /\ ret'.reboot = o.reboot
    PROVE  Contract!Call(method)
<1>1. Result = Contract!Nothing
  BY ResultIs
<1>2. Result' \in {Contract!Nothing, Contract!Result(method, o)}
  BY DEF Result, Contract!Nothing, Contract!Result
<1> QED
  BY <1>1, <1>2 DEF Contract!Call

\* A method that fails may have done nothing.
LEMMA FailStep ==
    ASSUME NEW method \in Contract!Methods, pc # "down", pc # "return", pc' = "return",
           Component' = Component, op' = method, ret' = [err |-> TRUE, reboot |-> FALSE]
    PROVE  Contract!Call(method)
<1>1. Contract!Fail(Component) \in Contract!Offered(method, Component)
  BY DEF Contract!Methods, Contract!Offered, Contract!Prepare, Contract!Update,
         Contract!Apply, Contract!Revert
<1> QED
  BY <1>1, CallStep DEF Contract!Fail

\* A decision on an idle module may do nothing.
LEMMA IdleStep ==
    ASSUME CleanInv, NEW method \in {"apply", "revert"}, disk = "idle",
           pc # "down", pc # "return", pc' = "return",
           Component' = Component, op' = method, ret' = [err |-> FALSE, reboot |-> FALSE]
    PROVE  Contract!Call(method)
<1>1. Contract!Phase(Component) = "idle" /\ method \in Contract!Methods
  BY ComponentType DEF Contract!Phase, Contract!Methods
<1>2. Contract!Done(Component) \in Contract!Offered(method, Component)
  BY <1>1 DEF Contract!Offered, Contract!Apply, Contract!Revert
<1> QED
  BY <1>1, <1>2, CallStep DEF Contract!Done

\* A step inside a method that leaves the component is none for the handler.
LEMMA StutterStep ==
    ASSUME Component' = Component, pc # "down", pc' # "down", pc # "return", pc' # "return"
    PROVE  UNCHANGED Contract!vars
BY ResultIs DEF Contract!vars, Result

\* Init() of a new process.
LEMMA StartKeeps ==
    ASSUME CleanInv, Start
    PROVE  Contract!Start
<1>1. /\ pc = "down" /\ pc' = "ready"
      /\ UNCHANGED <<base, version, overlay, disk, image, before>>
      /\ "do_apply" \in flags' <=> "do_apply" \in flags
  BY DEF Start, system, update
<1>2. ComesBackTo' = ComesBackTo
  BY <1>1 DEF ComesBackTo
<1>3. PICK r \in {"ok", "unread", "failed"} : Component' = [Component EXCEPT !.init = r]
  BY <1>1, <1>2 DEF Component
<1> QED
  BY <1>1, <1>3, ResultIs DEF Contract!Start, Contract!InitResults, Result

\* Prepare() fails, or goes on with the image.
LEMMA PrepareKeeps ==
    ASSUME CleanInv, NEW v \in Versions, NEW img \in Images, Prepare(v, img)
    PROVE  Contract!Call("prepare")
<1> USE DEF CleanInv
<1>1. /\ pc = "ready" /\ handler = "idle" /\ op' = "prepare" /\ image' = img
      /\ UNCHANGED <<base, version, overlay, flags, disk, bootErr>>
      /\ pc' = "clear" \/ (pc' = "return" /\ ret' = [err |-> TRUE, reboot |-> FALSE])
  BY DEF Prepare, Return, GoTo, system, directory, boot
<1>2. disk # "updated" /\ flags = {}
  BY <1>1 DEF Flagged
<1>3. ComesBackTo' = ComesBackTo
  BY <1>1, <1>2 DEF ComesBackTo
<1>4. ComesBackTo \in Versions /\ Component \in Contract!Modules /\ Component.phase = disk
  BY ComponentType
<1>5. \/ Component' = Component
      \/ \E i \in Versions :
            Component' = [Component EXCEPT !.phase = "prepared", !.image = i]
  <2>1. CASE disk = "idle"
    BY <1>1, <1>3, <2>1 DEF Component
  <2>2. CASE disk = "prepared"
    <3> DEFINE i == IF img = NoImage THEN ComesBackTo ELSE img
    <3>1. Component'.image = i /\ Component'.init = Component.init
      BY <1>1, <1>3, <2>2 DEF Component
    <3>2. i \in Versions
      BY <1>4 DEF Images
    <3> HIDE DEF i
    <3>3. Component' = Fields("prepared", version, i, ComesBackTo, Component.init)
      BY <1>1, <1>3, <2>2, <3>1, ComponentFields
    <3>4. [Component EXCEPT !.phase = "prepared", !.image = i] =
             Fields("prepared", version, i, ComesBackTo, Component.init)
      BY Changes
    <3> QED
      BY <3>2, <3>3, <3>4
  <2> QED
    BY <1>2, <2>1, <2>2 DEF TypeOK, States
<1>6. Contract!Fail(Component') \in Contract!Offered("prepare", Component)
  <2>1. Contract!Phase(Component) # "updated"
    BY <1>2, <1>4 DEF Contract!Phase
  <2> QED
    BY <1>5, <2>1 DEF Contract!Offered, Contract!Prepare, Contract!Versions, Versions
<1>7. /\ Contract!Fail(Component').module = Component'
      /\ Contract!Fail(Component').err = TRUE /\ Contract!Fail(Component').reboot = FALSE
  BY DEF Contract!Fail
<1>8. "prepare" \in Contract!Methods
  BY DEF Contract!Methods
<1>9. /\ pc # "down" /\ pc # "return" /\ pc' # "down"
      /\ pc' = "return" => ret'.err = TRUE /\ ret'.reboot = FALSE
  BY <1>1
<1> HIDE DEF CleanInv
<1> QED
  BY <1>1, <1>6, <1>7, <1>8, <1>9, CallStep

(***************************************************************************)
(* Update() returns without an error only when the image runs: the version *)
(* that runs is higher than the one before, so it came with the image.     *)
(***************************************************************************)
LEMMA UpdateKeeps ==
    ASSUME CleanInv, Update
    PROVE  Contract!Call("update") \/ UNCHANGED Contract!vars
<1> USE DEF CleanInv
<1>1. /\ pc = "ready" /\ handler = "prepared" /\ op' = "update"
      /\ UNCHANGED <<base, version, overlay, disk, mem, bootErr, image, before>>
      /\ "do_apply" \in flags' <=> "do_apply" \in flags
  BY DEF Update, system, boot
<1>2. Component' = Component
  BY <1>1, SameComponent DEF ComesBackTo
<1>3. CASE mem = "prepared"
  BY <1>1, <1>2, <1>3, StutterStep DEF Update, GoTo
<1>4. CASE mem = "idle"
  BY <1>1, <1>2, <1>4, FailStep DEF Update, Return, Contract!Methods
<1>5. CASE mem = "updated"
  <2>1. /\ pc' = "return"
        /\ \/ ret' = [err |-> NotUpdated, reboot |-> FALSE]
           \/ ret' = [err |-> TRUE, reboot |-> FALSE]
    BY <1>5 DEF Update, Return
  <2>2. NotUpdated \in BOOLEAN
    BY DEF NotUpdated, TypeOK
  <2>3. CASE ret' = [err |-> TRUE, reboot |-> FALSE]
    BY <1>1, <1>2, <2>1, <2>3, FailStep DEF Contract!Methods
  <2>4. CASE ret' = [err |-> NotUpdated, reboot |-> FALSE] /\ ~NotUpdated
    <3>1. ~bootErr /\ version = target /\ disk = "updated"
      BY <1>1, <1>5, <2>4 DEF NotUpdated, Requests
    <3>2. version = image
      BY <1>1, <3>1 DEF ImageKept, Requests, TypeOK, Versions
    <3>3. Component.image = version /\ Component.init = "ok" /\ Component.phase = "updated"
          /\ Component.version = version
      BY <3>1, <3>2 DEF Component, TypeOK, Versions, NoImage
    <3>4. Contract!Done(Component) \in Contract!Offered("update", Component)
      BY <3>3 DEF Contract!Offered, Contract!Update, Contract!Phase
    <3>5. ret' = [err |-> FALSE, reboot |-> FALSE]
      BY <2>2, <2>4
    <3>6. "update" \in Contract!Methods
      BY DEF Contract!Methods
    <3>7. /\ Contract!Done(Component).module = Component
          /\ Contract!Done(Component).err = FALSE /\ Contract!Done(Component).reboot = FALSE
      BY DEF Contract!Done
    <3>8. ret'.err = FALSE /\ ret'.reboot = FALSE /\ pc # "down" /\ pc # "return" /\ pc' # "down"
      BY <1>1, <2>1, <3>5
    <3> HIDE DEF CleanInv
    <3> QED
      BY <1>1, <1>2, <3>4, <3>6, <3>7, <3>8, CallStep
  <2>5. CASE ret' = [err |-> NotUpdated, reboot |-> FALSE] /\ NotUpdated
    BY <2>2, <2>3, <2>5
  <2> QED
    BY <2>1, <2>3, <2>4, <2>5
<1> QED
  BY <1>3, <1>4, <1>5 DEF TypeOK, States

\* Apply() refuses, or begins with the directory.
LEMMA ApplyKeeps ==
    ASSUME CleanInv, Apply
    PROVE  Contract!Call("apply") \/ UNCHANGED Contract!vars
<1>1. /\ pc = "ready" /\ op' = "apply"
      /\ UNCHANGED <<base, version, overlay, disk, bootErr, image, before>>
      /\ "do_apply" \in flags' <=> "do_apply" \in flags
      /\ \/ pc' = "return" /\ ret' = [err |-> TRUE, reboot |-> FALSE]
         \/ pc' \in {"clear", "write"}
  BY DEF Apply, Return, GoTo, system, boot
<1>2. Component' = Component
  BY <1>1, SameComponent DEF ComesBackTo
<1> QED
  BY <1>1, <1>2, FailStep, StutterStep DEF Contract!Methods

\* Revert() has nothing to do for an idle module, or begins to clear the directory.
LEMMA RevertKeeps ==
    ASSUME CleanInv, Revert
    PROVE  Contract!Call("revert") \/ UNCHANGED Contract!vars
<1>1. /\ pc = "ready" /\ op' = "revert"
      /\ UNCHANGED <<base, version, overlay, flags, disk, bootErr, image, before>>
      /\ \/ mem = "idle" /\ pc' = "return" /\ ret' = [err |-> FALSE, reboot |-> FALSE]
         \/ pc' = "clear"
  BY DEF Revert, Return, GoTo, system, directory, boot
<1>2. Component' = Component
  BY <1>1, SameComponent DEF ComesBackTo
<1>3. mem = "idle" => disk = "idle"
  BY <1>1 DEF CleanInv, Flagged
<1> QED
  BY <1>1, <1>2, <1>3, IdleStep, StutterStep

(***************************************************************************)
(* Clearing the directory changes nothing: it is empty of flags, or the    *)
(* update in it has not been applied, or it has been merged.               *)
(***************************************************************************)
LEMMA ClearingKeeps ==
    ASSUME CleanInv, Clearing
    PROVE  UNCHANGED Contract!vars
<1> USE DEF CleanInv
<1>1. /\ pc = "clear" /\ pc' = "clear"
      /\ UNCHANGED <<base, version, disk, bootErr, image, before, op>>
      /\ overlay' \in {overlay, NoImage} /\ flags' \subseteq flags
  BY DEF Clearing, system, boot, update, call
<1>2. disk = "idle" /\ "do_apply" \in flags => overlay \in {base, NoImage}
  <2> SUFFICES ASSUME disk = "idle", "do_apply" \in flags PROVE overlay \in {base, NoImage}
    OBVIOUS
  <2>1. handler = "updated" /\ "revert" \notin decided
    BY DEF Flagged, AppliedMeanwhile, TypeOK
  <2> QED
    BY <1>1, <2>1 DEF Merged, Prepared, Installed
<1>3. ComesBackTo' = ComesBackTo
  BY <1>1, <1>2 DEF ComesBackTo
<1>4. Component' = Component
  BY <1>1, <1>3, SameComponent
<1> QED
  BY <1>1, <1>4, StutterStep

\* An apply that finds the state idle ends with the directory cleared.
LEMMA ClearedKeeps ==
    ASSUME CleanInv, Cleared
    PROVE  Contract!Call(op) \/ UNCHANGED Contract!vars
<1> USE DEF CleanInv
<1>1. /\ pc = "clear"
      /\ UNCHANGED <<base, version, overlay, flags, disk, bootErr, image, before, op>>
  BY DEF Cleared, system, directory, boot, update
<1>2. Component' = Component
  BY <1>1, SameComponent DEF ComesBackTo
<1>3. op \in {"prepare", "revert", "apply"}
  BY <1>1 DEF Steps, Busy, TypeOK
<1>4. CASE op = "apply"
  <2>1. disk = "idle"
    BY <1>1, <1>4 DEF Steps, Flagged
  <2>2. pc' = "return" /\ ret' = [err |-> FALSE, reboot |-> FALSE]
    BY <1>4 DEF Cleared, Return
  <2> QED
    BY <1>1, <1>2, <1>4, <2>1, <2>2, IdleStep
<1>5. CASE op # "apply"
  <2>1. pc' \in {"write", "save"}
    BY <1>3, <1>5 DEF Cleared, GoTo
  <2> QED
    BY <1>1, <1>2, <2>1, StutterStep
<1> QED
  BY <1>4, <1>5

(***************************************************************************)
(* A written file changes nothing yet: the image of an update that has no  *)
(* flags, do_update, or do_apply while the state is still updated.         *)
(***************************************************************************)
LEMMA WrittenKeeps ==
    ASSUME CleanInv, Written
    PROVE  UNCHANGED Contract!vars
<1> USE DEF CleanInv
<1>1. /\ pc = "write" /\ pc' = "save"
      /\ UNCHANGED <<base, version, disk, bootErr, image, before, op>>
  BY DEF Written, GoTo, system, boot, update
<1>2. op \in {"prepare", "update", "apply"}
  BY <1>1 DEF Steps, Busy, TypeOK
<1>3. CASE op = "prepare"
  <2>1. flags = {} /\ flags' = {}
    BY <1>1, <1>3 DEF Written, Steps
  <2>2. ComesBackTo' = ComesBackTo
    BY <1>1, <2>1 DEF ComesBackTo
  <2> QED
    BY <1>1, <2>2, SameComponent, StutterStep
<1>4. CASE op = "update"
  <2>1. overlay' = overlay /\ ("do_apply" \in flags' <=> "do_apply" \in flags)
    BY <1>4 DEF Written
  <2>2. ComesBackTo' = ComesBackTo
    BY <1>1, <2>1 DEF ComesBackTo
  <2> QED
    BY <1>1, <2>2, SameComponent, StutterStep
<1>5. CASE op = "apply"
  <2>1. disk = "updated"
    BY <1>1, <1>5 DEF Steps, Busy, Requests
  <2>2. ComesBackTo' = ComesBackTo
    BY <1>1, <2>1 DEF ComesBackTo
  <2> QED
    BY <1>1, <2>2, SameComponent, StutterStep
<1> QED
  BY <1>2, <1>3, <1>4, <1>5

\* What cannot be written is an error of the method.
LEMMA FailKeeps ==
    ASSUME CleanInv, StepFails \/ SaveStateFails
    PROVE  Contract!Call(op)
<1>1. /\ pc \in {"clear", "write", "save"} /\ pc' = "return"
      /\ ret' = [err |-> TRUE, reboot |-> FALSE]
      /\ UNCHANGED <<base, version, overlay, flags, disk, bootErr, image, before, op>>
  BY DEF StepFails, SaveStateFails, Return, system, directory, boot, update
<1>2. Component' = Component
  BY <1>1, SameComponent DEF ComesBackTo
<1>3. op \in Contract!Methods
  BY <1>1 DEF CleanInv, Steps, Busy, TypeOK, Contract!Methods
<1> QED
  BY <1>1, <1>2, <1>3, FailStep

\* The state of the module becomes the next one.
LEMMA StateSaved ==
    ASSUME CleanInv, SaveState
    PROVE  /\ pc = "save" /\ pc' = "return" /\ ret' = [err |-> FALSE, reboot |-> RebootRequired]
           /\ op \in Contract!Methods
           /\ disk' = NewState
           /\ UNCHANGED <<base, version, overlay, flags, bootWithUpdate, bootErr, image, before, op>>
<1>1. pc = "save" /\ op \in Contract!Methods
  BY DEF SaveState, CleanInv, Steps, Busy, TypeOK, Contract!Methods
<1> QED
  BY <1>1 DEF SaveState, Return, system, directory, boot, update

\* Prepare() has accepted the image.
LEMMA PreparedKeeps ==
    ASSUME CleanInv, SaveState, op = "prepare"
    PROVE  Contract!Call("prepare")
<1> USE DEF CleanInv
<1> DEFINE i == IF image = NoImage THEN ComesBackTo ELSE image
           m == [Component EXCEPT !.phase = "prepared", !.image = i]
<1>1. disk' = "prepared" /\ RebootRequired = FALSE
  BY StateSaved DEF NewState, RebootRequired
<1>2. disk # "updated" /\ flags = {}
  BY StateSaved DEF Steps, Busy, Flagged
<1>3. ComesBackTo' = ComesBackTo
  BY <1>1, <1>2, StateSaved DEF ComesBackTo
<1>4. Component'.init = Component.init /\ Component'.image = i
  BY <1>1, <1>3, StateSaved DEF Component
<1>5. i \in Versions
  BY ComponentType DEF Images, TypeOK
<1> HIDE DEF i
<1>6. Component' = m
  <2>1. Component' = Fields("prepared", version, i, ComesBackTo, Component.init)
    BY <1>1, <1>3, <1>4, StateSaved, ComponentFields
  <2>2. m = Fields("prepared", version, i, ComesBackTo, Component.init)
    BY Changes
  <2> QED
    BY <2>1, <2>2
<1>7. Contract!Done(m) \in Contract!Offered("prepare", Component)
  <2>1. Contract!Phase(Component) # "updated"
    BY <1>2, ComponentType DEF Contract!Phase
  <2> QED
    BY <1>5, <2>1 DEF Contract!Offered, Contract!Prepare, Contract!Versions, Versions
<1> HIDE DEF m
<1>8. /\ Contract!Done(m).module = m
      /\ Contract!Done(m).err = FALSE /\ Contract!Done(m).reboot = FALSE
  BY DEF Contract!Done
<1>9. "prepare" \in Contract!Methods
  BY DEF Contract!Methods
<1>10. /\ pc # "down" /\ pc # "return" /\ pc' # "down" /\ op' = "prepare"
       /\ ret'.err = FALSE /\ ret'.reboot = FALSE
  BY <1>1, StateSaved
<1> HIDE DEF CleanInv
<1> QED
  BY <1>6, <1>7, <1>8, <1>9, <1>10, CallStep

\* Update() has left the flag for the script; what is installed is the version before.
LEMMA UpdatedKeeps ==
    ASSUME CleanInv, SaveState, op = "update"
    PROVE  Contract!Call("update")
<1> USE DEF CleanInv
<1> DEFINE m == [Component EXCEPT !.phase = "updated"]
<1>1. disk' = "updated" /\ RebootRequired = TRUE
  BY StateSaved DEF NewState, RebootRequired
<1>2. handler = "prepared" /\ disk = "prepared" /\ base = before
  BY StateSaved DEF Steps, Busy, Requests, Running
<1>3. ComesBackTo' = ComesBackTo
  BY <1>1, <1>2, StateSaved DEF ComesBackTo
<1>4. Component'.init = Component.init /\ Component'.image = Component.image
  BY <1>1, <1>2, <1>3, StateSaved DEF Component
<1>5. Component' = m
  <2>1. Component' = Fields("updated", version, Component.image, ComesBackTo, Component.init)
    BY <1>1, <1>3, <1>4, StateSaved, ComponentFields
  <2>2. m = Fields("updated", version, Component.image, ComesBackTo, Component.init)
    BY Changes
  <2> QED
    BY <2>1, <2>2
<1>6. Contract!Phase(Component) = "prepared"
  <2>1. Component.phase = "prepared" /\ Component.init # "unread"
    BY <1>2 DEF Component
  <2> QED
    BY <2>1 DEF Contract!Phase
<1>7. Contract!NeedReboot(m) \in Contract!Offered("update", Component)
  BY <1>6 DEF Contract!Offered, Contract!Update
<1> HIDE DEF m
<1>8. /\ Contract!NeedReboot(m).module = m
      /\ Contract!NeedReboot(m).err = FALSE /\ Contract!NeedReboot(m).reboot = TRUE
  BY DEF Contract!NeedReboot
<1>9. "update" \in Contract!Methods
  BY DEF Contract!Methods
<1>10. /\ pc # "down" /\ pc # "return" /\ pc' # "down" /\ op' = "update"
       /\ ret'.err = FALSE /\ ret'.reboot = TRUE
  <2>1. ret' = [err |-> FALSE, reboot |-> TRUE]
    BY <1>1, StateSaved, Zenon
  <2> QED
    BY <2>1, StateSaved
<1> HIDE DEF CleanInv
<1> QED
  BY <1>5, <1>7, <1>8, <1>9, <1>10, CallStep

(***************************************************************************)
(* Apply() has left the flag for the script, so that the image is what the *)
(* component comes back to after the reboot.                               *)
(***************************************************************************)
LEMMA AppliedKeeps ==
    ASSUME CleanInv, SaveState, op = "apply"
    PROVE  Contract!Call("apply")
<1> USE DEF CleanInv
<1> DEFINE m == [Component EXCEPT !.phase = "idle", !.previous = Component.image]
<1>1. disk' = "idle" /\ RebootRequired = TRUE
  BY StateSaved DEF NewState, RebootRequired
<1>2. handler = "updated" /\ disk = "updated" /\ "revert" \notin decided /\ "do_apply" \in flags
  BY StateSaved DEF Steps, Busy, Requests, Decisions
<1>3. overlay = image /\ image # NoImage
  BY <1>2 DEF Prepared, ImageKept, TypeOK, Versions, NoImage
<1>4. ComesBackTo' = image /\ Component.image = image
  BY <1>1, <1>2, <1>3, StateSaved DEF ComesBackTo, Component
<1>5. Component'.init = Component.init /\ Component'.image = Component.image
  BY <1>1, <1>4, StateSaved DEF Component
<1>6. Component' = m
  <2>1. Component' = Fields("idle", version, Component.image, Component.image, Component.init)
    BY <1>1, <1>4, <1>5, StateSaved, ComponentFields
  <2>2. m = Fields("idle", version, Component.image, Component.image, Component.init)
    BY Changes
  <2> QED
    BY <2>1, <2>2
<1>7. Contract!Phase(Component) = "updated"
  <2>1. Component.phase = "updated" /\ Component.init # "unread"
    BY <1>2 DEF Component
  <2> QED
    BY <2>1 DEF Contract!Phase
<1>8. Contract!NeedReboot(m) \in Contract!Offered("apply", Component)
  BY <1>7 DEF Contract!Offered, Contract!Apply
<1> HIDE DEF m
<1>9. /\ Contract!NeedReboot(m).module = m
      /\ Contract!NeedReboot(m).err = FALSE /\ Contract!NeedReboot(m).reboot = TRUE
  BY DEF Contract!NeedReboot
<1>10. "apply" \in Contract!Methods
  BY DEF Contract!Methods
<1>11. /\ pc # "down" /\ pc # "return" /\ pc' # "down" /\ op' = "apply"
       /\ ret'.err = FALSE /\ ret'.reboot = TRUE
  <2>1. ret' = [err |-> FALSE, reboot |-> TRUE]
    BY <1>1, StateSaved, Zenon
  <2> QED
    BY <2>1, StateSaved
<1> HIDE DEF CleanInv
<1> QED
  BY <1>6, <1>8, <1>9, <1>10, <1>11, CallStep

(***************************************************************************)
(* Revert() has cleared the directory, and asks for a reboot when the      *)
(* module was booted with the update.                                      *)
(***************************************************************************)
LEMMA RevertedKeeps ==
    ASSUME CleanInv, SaveState, op = "revert"
    PROVE  Contract!Call("revert")
<1> USE DEF CleanInv
<1> DEFINE m == [Component EXCEPT !.phase = "idle", !.image = ComesBackTo]
<1>1. disk' = "idle" /\ RebootRequired = bootWithUpdate /\ flags = {} /\ flags' = {}
  BY StateSaved DEF NewState, RebootRequired, Steps, TypeOK
<1>2. handler # "idle" /\ "apply" \notin decided
  BY StateSaved DEF Steps, Busy, Flagged, TypeOK
<1>3. base = before /\ ComesBackTo = base /\ ComesBackTo' = base
  BY <1>1, <1>2, StateSaved DEF Running, ComesBackTo
<1>4. Component'.init = Component.init /\ Component'.image = ComesBackTo
  BY <1>1, <1>3, StateSaved DEF Component
<1>5. ret' = [err |-> FALSE, reboot |-> bootWithUpdate]
  BY <1>1, StateSaved, Zenon
<1>6. CASE disk = "idle"
  <2>1. ~bootWithUpdate
    BY <1>6, StateSaved DEF Requests
  <2>2. ret' = [err |-> FALSE, reboot |-> FALSE]
    BY <1>5, <2>1 DEF TypeOK
  <2>3. Component' = Component
    BY <1>1, <1>3, <1>6, StateSaved, SameComponent
  <2> HIDE DEF m, CleanInv
  <2> QED
    BY <1>6, <2>2, <2>3, StateSaved, IdleStep
<1>7. CASE disk # "idle"
  <2>1. Component' = m
    <3>1. Component' = Fields("idle", version, ComesBackTo, ComesBackTo, Component.init)
      BY <1>1, <1>3, <1>4, StateSaved, ComponentFields
    <3>2. m = Fields("idle", version, ComesBackTo, ComesBackTo, Component.init)
      BY Changes
    <3> QED
      BY <3>1, <3>2
  <2>2. Contract!Phase(Component) # "idle" /\ Component.previous = ComesBackTo
    <3>1. Component.phase # "idle" /\ Component.init # "unread"
      BY <1>7 DEF Component
    <3> QED
      BY <3>1, ComponentType DEF Contract!Phase
  <2>3. "revert" \in Contract!Methods
    BY DEF Contract!Methods
  <2>4. pc # "down" /\ pc # "return" /\ pc' # "down" /\ op' = "revert"
    BY StateSaved
  <2>5. CASE bootWithUpdate
    <3>1. Contract!NeedReboot(m) \in Contract!Offered("revert", Component)
      BY <2>2 DEF Contract!Offered, Contract!Revert
    <3> HIDE DEF m
    <3>2. /\ Contract!NeedReboot(m).module = m
          /\ Contract!NeedReboot(m).err = FALSE /\ Contract!NeedReboot(m).reboot = TRUE
      BY DEF Contract!NeedReboot
    <3>3. ret'.err = FALSE /\ ret'.reboot = TRUE
      BY <1>5, <2>5 DEF TypeOK
    <3> HIDE DEF CleanInv
    <3> QED
      BY <2>1, <2>3, <2>4, <3>1, <3>2, <3>3, CallStep
  <2>6. CASE ~bootWithUpdate
    <3>1. Component.version = Component.previous
      BY <1>3, <2>2, <2>4, <2>6, ComponentType, StateSaved DEF Running
    <3>2. Contract!Done(m) \in Contract!Offered("revert", Component)
      BY <2>2, <3>1 DEF Contract!Offered, Contract!Revert
    <3> HIDE DEF m
    <3>3. /\ Contract!Done(m).module = m
          /\ Contract!Done(m).err = FALSE /\ Contract!Done(m).reboot = FALSE
      BY DEF Contract!Done
    <3>4. ret'.err = FALSE /\ ret'.reboot = FALSE
      BY <1>5, <2>6 DEF TypeOK
    <3> HIDE DEF CleanInv
    <3> QED
      BY <2>1, <2>3, <2>4, <3>2, <3>3, <3>4, CallStep
  <2> QED
    BY <2>5, <2>6
<1> QED
  BY <1>6, <1>7

\* The handler takes the result, and the component stays what it is.
LEMMA ReturnedKeeps ==
    ASSUME CleanInv, Returned
    PROVE  Contract!Take
<1>1. /\ pc = "return" /\ pc' \in {"ready", "reboot"}
      /\ UNCHANGED <<base, version, overlay, flags, disk, bootErr, image, before>>
  BY DEF Returned, system, directory, boot
<1>2. Component' = Component
  BY <1>1, SameComponent DEF ComesBackTo
<1>3. Result.method = op /\ op # "none"
  BY <1>1 DEF Result, CleanInv, Steps, Busy
<1>4. Result # Contract!Nothing /\ Result' = Contract!Nothing
  BY <1>1, <1>3 DEF Result, Contract!Nothing
<1> QED
  BY <1>1, <1>2, <1>4 DEF Contract!Take

\* A reboot that cannot be started changes nothing of the component.
LEMMA RebootFailsKeeps ==
    ASSUME RebootFails
    PROVE  UNCHANGED Contract!vars
<1>1. /\ pc = "reboot" /\ pc' = "ready"
      /\ UNCHANGED <<base, version, overlay, flags, disk, bootErr, image, before>>
  BY DEF RebootFails, system, directory, boot
<1>2. Component' = Component
  BY <1>1, SameComponent DEF ComesBackTo
<1> QED
  BY <1>1, <1>2, StutterStep

(***************************************************************************)
(* A boot brings up what the component comes back to, or the image when it *)
(* is installed: the script finds do_apply only for an update that was     *)
(* applied, and do_update alone only with the image it was left for.       *)
(***************************************************************************)
LEMMA BootKeeps ==
    ASSUME CleanInv, Boot, UNCHANGED <<overlay, disk, image, update>>
    PROVE  Contract!Boot
<1> USE DEF CleanInv
<1>1. pc' = "down" /\ bootErr' = FALSE /\ before' = before
  BY DEF Boot, Die, update
<1>2. "do_apply" \in flags' <=> "do_apply" \in flags
  BY DEF Boot, Merge, BootOverlay, BootFallsBack, BootSystem
<1>3. "do_apply" \in flags => handler = "updated" /\ "apply" \in decided /\ "revert" \notin decided
  BY DEF Flagged, AppliedMeanwhile, TypeOK
<1>4. disk = "prepared" => "do_apply" \notin flags
  BY <1>3 DEF Prepared
<1>5. base' # base => "do_apply" \in flags /\ overlay # NoImage /\ base' = overlay
  BY DEF Boot, Merge, BootOverlay, BootFallsBack, BootSystem
<1>6. ComesBackTo' = ComesBackTo
  BY <1>1, <1>2, <1>4, <1>5 DEF ComesBackTo, TypeOK, States
<1>7. version' \in Contract!BootVersions(Component)
  <2>1. \/ Merge /\ version' \in {base, overlay} /\ (overlay # NoImage => version' = overlay)
           /\ (overlay = NoImage => version' = base)
        \/ "do_apply" \notin flags /\ version' = base
        \/ /\ "do_apply" \notin flags /\ "do_update" \in flags
           /\ overlay # NoImage /\ version' = overlay
    BY DEF Boot, Merge, BootOverlay, BootFallsBack, BootSystem
  <2>2. ASSUME disk = "idle" PROVE version' = ComesBackTo
    <3>1. CASE Merge
      BY <2>1, <2>2, <3>1 DEF Merge, ComesBackTo
    <3>2. CASE "do_apply" \notin flags /\ version' = base
      BY <2>2, <3>2 DEF ComesBackTo
    <3>3. CASE "do_apply" \notin flags /\ "do_update" \in flags /\ overlay # NoImage /\ version' = overlay
      <4>1. handler = "updated" /\ "apply" \in decided /\ "revert" \notin decided
        BY <2>2, <3>3 DEF Flagged, AppliedMeanwhile, TypeOK
      <4>2. base = target /\ overlay = target
        BY <2>2, <3>3, <4>1 DEF Merged, Prepared, Installed
      <4> QED
        BY <2>2, <3>3, <4>2 DEF ComesBackTo
    <3> QED
      BY <2>1, <3>1, <3>2, <3>3
  <2>3. ASSUME disk # "idle" PROVE version' = ComesBackTo \/ version' = Component.image
    <3>1. image # NoImage => Component.image = image
      BY <2>3 DEF Component
    <3>2. NoImage \notin Versions
      BY DEF NoImage, Versions
    <3>3. base = ComesBackTo \/ (base = image /\ image # NoImage)
      <4>1. CASE disk = "prepared"
        BY <4>1 DEF ComesBackTo
      <4>2. CASE disk = "updated"
        BY <3>2, <4>2 DEF ComesBackTo, ImageKept, Flagged, TypeOK
      <4> QED
        BY <2>3, <4>1, <4>2 DEF TypeOK, States
    <3>4. "do_apply" \in flags \/ "do_update" \in flags => overlay \in {image, NoImage}
      BY <1>3 DEF ImageKept
    <3>5. CASE version' = base
      BY <3>1, <3>3, <3>5
    <3>6. CASE overlay # NoImage /\ version' = overlay
          /\ ("do_apply" \in flags \/ "do_update" \in flags)
      BY <3>1, <3>4, <3>6
    <3> QED
      BY <2>1, <3>5, <3>6 DEF Merge
  <2>4. Component.phase = disk /\ Component.previous = ComesBackTo
    BY ComponentType
  <2> HIDE DEF CleanInv
  <2> QED
    BY <2>2, <2>3, <2>4 DEF Contract!BootVersions
<1>8. PICK v : v = version'
  OBVIOUS
<1>9. Component' = [Component EXCEPT !.version = v, !.init = "ok"]
  <2>1. Component'.init = "ok" /\ Component'.image = Component.image
    BY <1>1, <1>6 DEF Component
  <2>2. Component' = Fields(disk, v, Component.image, ComesBackTo, "ok")
    BY <1>6, <1>8, <2>1, ComponentFields
  <2>3. [Component EXCEPT !.version = v, !.init = "ok"] =
           Fields(disk, v, Component.image, ComesBackTo, "ok")
    BY BootChanges
  <2> QED
    BY <2>2, <2>3
<1>10. Result' = Contract!Nothing
  BY <1>1 DEF Result, Contract!Nothing
<1> HIDE DEF CleanInv
<1> QED
  BY <1>1, <1>7, <1>8, <1>9, <1>10 DEF Contract!Boot

\* The death of the process only forgets the result of Init().
LEMMA CrashKeeps ==
    ASSUME ProcessCrash
    PROVE  Contract!Exit
<1>1. /\ pc' = "down" /\ bootErr' = FALSE
      /\ UNCHANGED <<base, version, overlay, flags, disk, image, before>>
  BY DEF ProcessCrash, Die, system, directory, update
<1>2. ComesBackTo' = ComesBackTo
  BY <1>1 DEF ComesBackTo
<1>3. Component' = [Component EXCEPT !.init = "ok"]
  BY <1>1, <1>2 DEF Component
<1>4. Result' = Contract!Nothing
  BY <1>1 DEF Result, Contract!Nothing
<1> QED
  BY <1>1, <1>3, <1>4 DEF Contract!Exit

-----------------------------------------------------------------------------
(***************************************************************************)
(* Every step without mishaps is a step of the contract, or one the        *)
(* handler cannot tell.                                                    *)
(***************************************************************************)
LEMMA ContractStep ==
    ASSUME CleanInv, [Next]_vars
    PROVE  [Contract!Next]_(Contract!vars)
<1> SUFFICES Contract!Next \/ UNCHANGED Contract!vars
  OBVIOUS
<1>m. \A method \in Contract!Methods : Contract!Call(method) => Contract!Next
  BY DEF Contract!Next
<1>n. {"prepare", "update", "apply", "revert"} = Contract!Methods
  BY DEF Contract!Methods
<1>o. pc \in {"clear", "write", "save"} => op \in Contract!Methods
  BY <1>n DEF CleanInv, Steps, Busy, TypeOK
<1>1. CASE Start
  BY <1>1, StartKeeps DEF Contract!Next
<1>2. ASSUME NEW v \in Versions, NEW img \in Images, Prepare(v, img) PROVE Contract!Next
  BY <1>2, <1>m, <1>n, PrepareKeeps
<1>3. CASE Update
  BY <1>3, <1>m, <1>n, UpdateKeeps
<1>4. CASE Apply
  BY <1>4, <1>m, <1>n, ApplyKeeps
<1>5. CASE Revert
  BY <1>5, <1>m, <1>n, RevertKeeps
<1>6. CASE Clearing
  BY <1>6, ClearingKeeps
<1>7. CASE Cleared
  <2>1. pc = "clear"
    BY <1>7 DEF Cleared
  <2> QED
    BY <1>7, <1>m, <1>o, <2>1, ClearedKeeps
<1>8. CASE Written
  BY <1>8, WrittenKeeps
<1>9. CASE StepFails \/ SaveStateFails
  <2>1. pc \in {"clear", "write", "save"}
    BY <1>9 DEF StepFails, SaveStateFails
  <2> QED
    BY <1>9, <1>m, <1>o, <2>1, FailKeeps
<1>10. CASE SaveState
  BY <1>10, <1>m, <1>n, StateSaved, PreparedKeeps, UpdatedKeeps, AppliedKeeps, RevertedKeeps
<1>11. CASE Returned
  BY <1>11, ReturnedKeeps DEF Contract!Next
<1>12. CASE Reboot
  BY <1>12, BootKeeps DEF Reboot, Contract!Next
<1>13. CASE RebootFails
  BY <1>13, RebootFailsKeeps
<1>14. CASE PowerCut
  BY <1>14, BootKeeps DEF PowerCut, Contract!Next
<1>15. CASE ProcessCrash
  BY <1>15, CrashKeeps DEF Contract!Next
<1>16. CASE UNCHANGED vars
  <2>1. Component' = Component /\ Result' = Result /\ pc' = pc
    BY <1>16 DEF vars, system, directory, boot, call, update, Component, ComesBackTo, Result
  <2> QED
    BY <2>1 DEF Contract!vars
<1> QED
  BY <1>1, <1>2, <1>3, <1>4, <1>5, <1>6, <1>7, <1>8, <1>9, <1>10, <1>11, <1>12, <1>13, <1>14,
     <1>15, <1>16 DEF Next, Command, Method

\* A new module is one the contract begins with.
LEMMA ContractInit == Init => Contract!Init
<1> SUFFICES ASSUME Init PROVE Contract!Init
  OBVIOUS
<1>1. disk = "idle" /\ version = 0 /\ bootErr = FALSE /\ pc = "ready" /\ base = 0 /\ flags = {}
  BY DEF Init
<1>2. Component = Contract!Factory
  BY <1>1 DEF Component, ComesBackTo, Contract!Factory, Contract!InitialVersion
<1> QED
  BY <1>1, <1>2, ResultIs DEF Contract!Init

\* What is known without mishaps is an invariant.
LEMMA CleanInvAlways == Spec => [](mishaps = {} => CleanInv)
<1>1. Init => Requests /\ ImageKept
  BY DEF Init, Requests, ImageKept, Accepted
<1>2. OverlayInv /\ (mishaps = {} => Requests /\ ImageKept) /\ OverlayInv' /\ [Next]_vars
        => (mishaps = {} => Requests /\ ImageKept)'
  <2> SUFFICES ASSUME OverlayInv, mishaps = {} => Requests /\ ImageKept, OverlayInv',
                      [Next]_vars, mishaps' = {}
               PROVE  Requests' /\ ImageKept'
    OBVIOUS
  <2>1. mishaps = {}
    BY MishapsGrow
  <2>2. CleanInv /\ TypeOK' /\ Steps'
    BY <2>1 DEF OverlayInv, CleanInv, Without
  <2> QED
    BY <2>1, <2>2, ImageStep
<1>3. OverlayInv /\ (mishaps = {} => Requests /\ ImageKept) => (mishaps = {} => CleanInv)
  BY DEF OverlayInv, CleanInv, Without
<1> QED
  BY <1>1, <1>2, <1>3, OverlayInvAlways, PTL DEF Spec

(***************************************************************************)
(* The overlay module implements the contract the update handler is        *)
(* verified against, for any number of versions and of faults: as long as  *)
(* none of the mishaps has happened, every step is one of the contract.    *)
(***************************************************************************)
THEOREM OverlayKeepsContract == Spec => KeepsContract
<1>1. (mishaps = {} => CleanInv) /\ [Next]_vars
        => [mishaps' = {} => [Contract!Next]_(Contract!vars)]_vars
  <2> SUFFICES ASSUME mishaps = {} => CleanInv, [Next]_vars, mishaps' = {}
               PROVE  [Contract!Next]_(Contract!vars)
    OBVIOUS
  <2>1. mishaps = {}
    BY MishapsGrow
  <2> QED
    BY <2>1, ContractStep
<1> QED
  BY <1>1, ContractInit, CleanInvAlways, PTL DEF Spec, KeepsContract
=============================================================================
