--------------------------- MODULE ServiceLauncher ---------------------------
(***************************************************************************)
(* The launcher that owns the production backend: it starts the Hub, polls *)
(* the restart mailbox, and for a request synchronises the dependencies,   *)
(* builds a new frontend beside the live one, stops the Hub, swaps the two *)
(* directories, and starts a new Hub.                                      *)
(*                                                                         *)
(* The launcher is one thread that SIGTERM or Ctrl+C interrupts at any     *)
(* call; the Hub is a process of its own.  A spawned process takes the     *)
(* instance lock or exits at once when another Hub holds it.               *)
(*                                                                         *)
(* Abstractions: a directory is missing, incomplete ("torn"), or holds the *)
(* frontend that was live or the next one; a poll of the health endpoint   *)
(* answers what the Hub's phase says; a deadline may pass at any poll.     *)
(***************************************************************************)
EXTENDS HubLifecycle

CONSTANT MaxSignals  \* bound: interrupts that a launcher receives

ASSUME SignalAssumption == MaxSignals \in Nat

VARIABLES
    pc,       \* where run() and what it calls stand
    child,    \* instance_id: the Hub that this launcher spawned last
    dirs,     \* dist, the build directory, the backup directory of this promotion,
              \* and what earlier promotions have left in theirs
    raised,   \* what unwinds promote_frontend: nothing, an error, a signal
    signals,  \* interrupts so far
    mishap,   \* ghost: something happened that promote_frontend cannot repair
    taken     \* ghost: the ids that requests have used, and at which instance

vars == <<op, hub, launcher, pc, child, dirs, raised, signals, mishap, taken>>
files == <<dirs, raised, mishap>>

Waiting == {"firstwait", "wait", "fallwait"}
Spawning == {"first", "start", "fallback"}
Promoting == {"aside", "swap", "tidy", "undo", "restore", "discard"}
Restarting == {"stop", "stopping", "start", "wait", "fallback", "fallwait", "done"} \cup Promoting
Preparing == {"sync", "build", "building", "begin"}
Leaving == {"leave", "leaving"}

Directories ==
    [dist : {"none", "live", "next", "torn"}, build : {"none", "next", "torn"},
     backup : {"none", "live", "next", "torn"}, stray : SUBSET {"live", "next", "torn"}]

(* Type invariant; the phase of the launcher is the one its place implies. *)
TypeOK ==
    /\ LifecycleOK
    /\ pc \in {"off", "watch"} \cup Waiting \cup Spawning \cup Restarting \cup Preparing \cup Leaving
    /\ child \in Instance
    /\ dirs \in Directories
    /\ raised \in {"none", "error", "signal"}
    /\ signals \in 0 .. MaxSignals
    /\ mishap \in BOOLEAN
    /\ taken \in SUBSET (Op \X Instance)
    /\ launcher.pc = "down" <=> pc = "off"
    /\ launcher.pc = "leaving" <=> pc \in Leaving

ChildAlive == Running /\ hub.id = child
ChildHealthy == hub.id = child /\ hub.pc = "serving"

(* update_operation() writes whatever the mailbox holds at that time. *)
Reports(status) == op' = [op EXCEPT !.status = status] /\ UNCHANGED <<hub, launcher>>
HubGoes(phase) == hub' = [hub EXCEPT !.pc = phase] /\ UNCHANGED <<op, launcher>>
LauncherGoes(phase) == launcher' = [launcher EXCEPT !.pc = phase] /\ UNCHANGED <<op, hub>>
(* Mutant: what the last launcher left under way stays so. *)
KeepsActive == op' = op

FailsIfActive == op' = [op EXCEPT !.status = IF @ \in Active THEN "failed" ELSE @]

Init ==
    /\ LInit
    /\ pc = "off" /\ child = 0
    /\ dirs = [dist |-> "live", build |-> "none", backup |-> "none", stray |-> {}]
    /\ raised = "none" /\ signals = 0 /\ mishap = FALSE /\ taken = {}

(* ------------------------------ the Hub -------------------------------- *)

(* request_restart(): only the Hub of the launcher in the mailbox, and     *)
(* only while that launcher lives; an operation that is under way answers  *)
(* every request, and a request that it was itself made by.  A page sends  *)
(* the instance that it was opened for, which must be the one that runs.   *)
RequestRestart ==
    /\ hub.pc = "serving" /\ hub.by = launcher.id /\ launcher.pc # "down"
    /\ op.status \notin Active
    /\ \E o \in Op \ {op.id}, r \in BOOLEAN :
          /\ \A i \in Instance : <<o, i>> \in taken => i = hub.id
          /\ op' = [id |-> o, from |-> hub.id, status |-> "preparing", resume |-> r]
          /\ taken' = taken \cup {<<o, hub.id>>}
    /\ UNCHANGED <<hub, launcher>>
    /\ UNCHANGED <<pc, child, files, signals>>

HubIsUp ==
    /\ hub.pc = "boot" /\ HubGoes("serving")
    /\ UNCHANGED <<pc, child, files, signals, taken>>

(* A Hub that was told to stop has done so, or was killed after 30 s. *)
HubStops ==
    /\ hub.pc = "closing" /\ HubGoes("none")
    /\ UNCHANGED <<pc, child, files, signals, taken>>

HubCrashes ==
    /\ hub.pc \in {"boot", "serving"} /\ HubGoes("none")
    /\ UNCHANGED <<pc, child, files, signals, taken>>

(* ------------------------------- run() --------------------------------- *)

(* start.sh builds the live frontend and then executes the launcher. *)
RunStarts ==
    /\ pc = "off" /\ pc' = "first"
    /\ launcher.id < MaxLaunchers
    /\ launcher' = [id |-> launcher.id + 1, pc |-> "up"]
    /\ FailsIfActive
    /\ dirs' = [dist |-> "live", build |-> "none", backup |-> "none", stray |-> {}]
    /\ child' = 0 /\ raised' = "none" /\ mishap' = FALSE
    /\ UNCHANGED <<hub, signals, taken>>

(* Mutant: the failure is only logged. *)
RaisesQuietly ==
    \/ pc \in {"first", "firstwait"} /\ LauncherGoes("leaving") /\ pc' = "leave"
    \/ pc \in Restarting \cup Preparing /\ pc' = "watch" /\ UNCHANGED <<op, hub, launcher>>

(* An exception out of the first start ends the launcher, one during a     *)
(* restart fails the operation and the launcher goes on watching.          *)
Raises ==
    \/ pc \in {"first", "firstwait"} /\ LauncherGoes("leaving") /\ pc' = "leave"
    \/ pc \in Restarting \cup Preparing /\ Reports("failed") /\ pc' = "watch"

Spawn ==
    /\ pc \in Spawning
    /\ \/ /\ ~Running /\ hub.id < MaxInstances /\ child' = hub.id + 1
          /\ hub' = [id |-> hub.id + 1, by |-> launcher.id, pc |-> "boot"]
       \/ Running /\ child' = 0 /\ UNCHANGED hub
    /\ UNCHANGED <<op, launcher>>
    /\ pc' = CASE pc = "first" -> "firstwait" [] pc = "start" -> "wait" [] OTHER -> "fallwait"
    /\ UNCHANGED <<files, signals, taken>>

SpawnFails ==
    /\ pc \in Spawning /\ Raises
    /\ UNCHANGED <<child, files, signals, taken>>

(* The Hub that comes back after a failed promotion reports that failure. *)
Healthy ==
    /\ pc \in Waiting /\ ChildHealthy
    /\ \/ pc = "firstwait" /\ pc' = "watch" /\ UNCHANGED <<op, hub, launcher>>
       \/ pc = "wait" /\ pc' = "done" /\ UNCHANGED <<op, hub, launcher>>
       \/ pc = "fallwait" /\ Raises
    /\ UNCHANGED <<child, files, signals, taken>>

(* Mutant: a child that has exited is waited for. *)
UnhealthyAlive ==
    /\ pc \in Waiting /\ ChildAlive /\ Raises
    /\ UNCHANGED <<child, files, signals, taken>>

(* The child has exited, or it is not ready in time: then it is left alone. *)
Unhealthy ==
    /\ pc \in Waiting /\ Raises
    /\ UNCHANGED <<child, files, signals, taken>>

Watch ==
    /\ pc = "watch"
    /\ \/ ChildAlive /\ op.status = "preparing" /\ pc' = "sync" /\ UNCHANGED <<op, hub, launcher>>
       \/ ~ChildAlive /\ LauncherGoes("leaving") /\ pc' = "leave"
    /\ UNCHANGED <<child, files, signals, taken>>

(* finally: stop_backend(), and what is still under way has failed. *)
LeaveStops ==
    /\ pc = "leave" /\ pc' = "leaving"
    /\ IF ChildAlive /\ hub.pc # "closing" THEN HubGoes("closing") ELSE UNCHANGED <<op, hub, launcher>>
    /\ UNCHANGED <<child, files, signals, taken>>

Left ==
    /\ pc = "leaving" /\ ~ChildAlive
    /\ FailsIfActive /\ launcher' = [launcher EXCEPT !.pc = "down"] /\ UNCHANGED hub
    /\ pc' = "off"
    /\ UNCHANGED <<child, files, signals, taken>>

(* ------------------------------ restart() ------------------------------ *)

Synchronize ==
    /\ pc = "sync"
    /\ \/ pc' = "build" /\ UNCHANGED <<op, hub, launcher>>
       \/ Raises
    /\ UNCHANGED <<child, files, signals, taken>>

StartBuild ==
    /\ pc = "build" /\ pc' = "building"
    /\ dirs' = [dirs EXCEPT !.build = "torn"]
    /\ UNCHANGED <<op, hub, launcher, child, raised, signals, mishap, taken>>

Built ==
    /\ pc = "building" /\ pc' = "begin"
    /\ dirs' = [dirs EXCEPT !.build = "next"]
    /\ UNCHANGED <<op, hub, launcher, child, raised, signals, mishap, taken>>

(* It failed or timed out: its directory is removed. *)
BuildFails ==
    /\ pc = "building" /\ Raises
    /\ dirs' = [dirs EXCEPT !.build = "none"]
    /\ UNCHANGED <<child, raised, signals, mishap, taken>>

Announce ==
    /\ pc = "begin" /\ Reports("restarting") /\ pc' = "stop"
    /\ UNCHANGED <<child, files, signals, taken>>

StopBackend ==
    /\ pc = "stop" /\ pc' = "stopping"
    /\ IF ChildAlive THEN HubGoes("closing") ELSE UNCHANGED <<op, hub, launcher>>
    /\ UNCHANGED <<child, files, signals, taken>>

(* Mutant: the swap does not wait for the Hub. *)
StoppedEarly ==
    /\ pc = "stopping" /\ pc' = "aside"
    /\ dirs' = [dirs EXCEPT !.backup = "none", !.stray = @ \cup ({dirs.backup} \ {"none"})]
    /\ UNCHANGED <<op, hub, launcher, child, raised, signals, mishap, taken>>

(* A promotion has a backup directory of its own. *)
Stopped ==
    /\ pc = "stopping" /\ ~ChildAlive /\ pc' = "aside"
    /\ dirs' = [dirs EXCEPT !.backup = "none", !.stray = @ \cup ({dirs.backup} \ {"none"})]
    /\ UNCHANGED <<op, hub, launcher, child, raised, signals, mishap, taken>>

Done ==
    /\ pc = "done" /\ Reports("succeeded") /\ pc' = "watch"
    /\ UNCHANGED <<child, files, signals, taken>>

(* -------------------------- promote_frontend() ------------------------- *)

SetAside == [dirs EXCEPT !.dist = "none", !.backup = dirs.dist]
Swapped == [dirs EXCEPT !.dist = dirs.build, !.build = "none"]

(* One of the two renames, or the error it raises with nothing moved. *)
Renames(after) ==
    \/ dirs' = after /\ raised' = "none"
    \/ dirs' = dirs /\ raised' = "error"

PutAside ==
    /\ pc = "aside" /\ Renames(SetAside)
    /\ pc' = IF raised' = "none" THEN "swap" ELSE "undo"
    /\ UNCHANGED <<op, hub, launcher, child, signals, mishap, taken>>

Swap ==
    /\ pc = "swap" /\ Renames(Swapped)
    /\ pc' = IF raised' = "none" THEN "tidy" ELSE "undo"
    /\ UNCHANGED <<op, hub, launcher, child, signals, mishap, taken>>

Tidy ==
    /\ pc = "tidy" /\ pc' = "start"
    /\ dirs' = [dirs EXCEPT !.dist = "live", !.backup = "none"]
    /\ UNCHANGED <<op, hub, launcher, child, raised, signals, mishap, taken>>

(* Mutant: what has been moved is not moved back. *)
UndoNothing ==
    /\ pc = "undo" /\ pc' = "discard"
    /\ UNCHANGED <<op, hub, launcher, child, dirs, raised, signals, mishap, taken>>

(* A backup means that the old frontend was moved: what is in its place goes. *)
Undo ==
    /\ pc = "undo"
    /\ IF dirs.backup = "none"
       THEN pc' = "discard" /\ UNCHANGED dirs
       ELSE pc' = "restore" /\ dirs' = [dirs EXCEPT !.dist = "none"]
    /\ UNCHANGED <<op, hub, launcher, child, raised, signals, mishap, taken>>

(* When even that rename fails, the backup is left where the error says. *)
Restore ==
    /\ pc = "restore" /\ pc' = "discard"
    /\ \/ /\ dirs' = [dirs EXCEPT !.dist = dirs.backup, !.backup = "none"]
          /\ UNCHANGED <<raised, mishap>>
       \/ raised' = "error" /\ mishap' = TRUE /\ UNCHANGED dirs
    /\ UNCHANGED <<op, hub, launcher, child, signals, taken>>

(* After an error the Hub is brought back before the failure is reported. *)
Discard ==
    /\ pc = "discard"
    /\ dirs' = [dirs EXCEPT !.build = "none"]
    /\ \/ raised = "error" /\ pc' = "fallback" /\ UNCHANGED <<op, hub, launcher>>
       \/ raised = "signal" /\ LauncherGoes("leaving") /\ pc' = "leave"
    /\ UNCHANGED <<child, raised, signals, mishap, taken>>

(* ------------------------------ interrupts ----------------------------- *)

(* Outside a promotion: the build directory is removed, the launcher leaves. *)
Interrupt ==
    /\ pc \in {"watch"} \cup Waiting \cup Spawning \cup Preparing
                \cup (Restarting \ Promoting)
    /\ LauncherGoes("leaving") /\ pc' = "leave"
    /\ dirs' = [dirs EXCEPT !.build = "none"]
    /\ UNCHANGED <<raised, mishap>>

(* Around a rename: it has happened or not, which the paths tell. *)
InterruptRename ==
    /\ \/ pc = "aside" /\ dirs' \in {dirs, SetAside}
       \/ pc = "swap" /\ dirs' \in {dirs, Swapped}
    /\ raised' = "signal" /\ pc' = "undo"
    /\ UNCHANGED <<op, hub, launcher, mishap>>

(* While the backup of a promoted frontend is deleted. *)
InterruptTidy ==
    /\ pc = "tidy" /\ LauncherGoes("leaving") /\ pc' = "leave"
    /\ dirs' = [dirs EXCEPT !.dist = "live", !.backup = "torn"]
    /\ UNCHANGED <<raised, mishap>>

(* While the old frontend is put back: the clean-up is abandoned. *)
InterruptUndo ==
    /\ pc \in {"undo", "restore"} /\ LauncherGoes("leaving") /\ pc' = "leave"
    /\ mishap' = TRUE
    /\ dirs' = [dirs EXCEPT !.build = "none",
                            !.dist = IF pc = "undo" /\ @ = "next" THEN "torn" ELSE @]
    /\ UNCHANGED raised

(* In the clean-up of run() itself: nothing is reported any more. *)
InterruptLeave ==
    /\ pc \in Leaving /\ LauncherGoes("down") /\ pc' = "off"
    /\ UNCHANGED files

Signal ==
    /\ signals < MaxSignals /\ signals' = signals + 1
    /\ Interrupt \/ InterruptRename \/ InterruptTidy \/ InterruptUndo \/ InterruptLeave
    /\ UNCHANGED <<child, taken>>

(* SIGKILL: the directories stay as they are, the Hub runs on. *)
Kill ==
    /\ pc # "off" /\ LauncherGoes("down") /\ pc' = "off"
    /\ mishap' = (mishap \/ pc \in Promoting)
    /\ UNCHANGED <<child, dirs, raised, signals, taken>>

Works ==
    \/ Spawn \/ SpawnFails \/ Healthy \/ Unhealthy \/ Watch \/ LeaveStops \/ Left
    \/ Synchronize \/ StartBuild \/ Built \/ BuildFails \/ Announce
    \/ StopBackend \/ Stopped \/ Done
    \/ PutAside \/ Swap \/ Tidy \/ Undo \/ Restore \/ Discard

Next ==
    \/ RequestRestart \/ HubIsUp \/ HubStops \/ HubCrashes
    \/ RunStarts \/ Works \/ Signal \/ Kill

Spec == Init /\ [][Next]_vars

(* The launcher's thread runs on, its subprocesses and waits have timeouts; *)
(* a Hub that starts becomes ready or exits, one that was told to stop is   *)
(* killed after 30 s.  Nobody has to start a launcher, or ask anything.     *)
FairSpec ==
    /\ Spec
    /\ WF_vars(Works)
    /\ WF_vars(HubIsUp \/ (hub.pc = "boot" /\ HubCrashes))
    /\ WF_vars(HubStops)

(* ------------------------------ properties ----------------------------- *)

(* The launcher keeps the promises of HubLifecycle: only the instance that *)
(* was asked is stopped, and success is reported only for another one.     *)
KeepsLifecycle == LSpec

(* What the launcher writes into the mailbox is about the request that it  *)
(* is serving: no other request takes its place before it is answered.     *)
ServedIsCurrent ==
    /\ pc \in Preparing => op.status = "preparing"
    /\ pc \in Restarting => op.status = "restarting"

(* Whatever interrupts the swap of the frontends, kills included, a        *)
(* complete frontend is left in one of the directories; and outside the    *)
(* swap it is the live one, unless the undoing of a swap was hit as well.  *)
FrontendSurvives ==
    /\ \E d \in {dirs.dist, dirs.build, dirs.backup} \cup dirs.stray : d \in {"live", "next"}
    /\ pc \notin Promoting /\ ~mishap => dirs.dist = "live"

(* A launcher changes the frontend only while no Hub runs, so that a Hub   *)
(* serves the frontend it was started with until it stops.                 *)
FrontendKeptWhileServed == [][dirs'.dist # dirs.dist /\ pc # "off" => ~Running]_vars

(* Each request for a restart is answered: it succeeds or fails, unless    *)
(* the launcher is killed before it can say so.                            *)
RequestAnswered == (op.status \in Active) ~> (op.status \notin Active \/ launcher.pc = "down")

(* A restart that took the Hub down brings one up, or the launcher leaves. *)
ServiceReturns == (op.status = "restarting") ~> (hub.pc = "serving" \/ launcher.pc = "down")
=============================================================================
