----------------------- MODULE ServiceLauncher_proofs -----------------------
(***************************************************************************)
(* Proofs about the launcher, for any number of requests, launchers, Hubs  *)
(* and signals: it implements the abstract life of the Hub.                *)
(*                                                                         *)
(* The launcher and the Hub share only the mailbox and the process table.  *)
(* Linked says what the launcher may conclude from its own place about     *)
(* both: which Hub is its child, which instance the operation is about,    *)
(* and that no Hub runs while the frontends are swapped.                   *)
(***************************************************************************)
EXTENDS ServiceLauncher, TLAPS

(* From the announcement of a restart until the next Hub is spawned. *)
Stopping == {"stop", "stopping", "start", "fallback"} \cup Promoting

(* After the old Hub has ended. *)
HubDown == {"start", "fallback"} \cup Promoting

Linked ==
    /\ hub.by <= launcher.id
    /\ Running => hub.id # 0
    /\ hub.id = child /\ child # 0 => hub.by = launcher.id
    /\ Running /\ hub.by = launcher.id /\ pc # "off" => hub.id = child
    /\ pc = "first" => hub.by # launcher.id
    /\ pc # "off" /\ op.status = "preparing" => op.from = hub.id /\ hub.by = launcher.id
    /\ pc \in Preparing \cup Stopping => child = hub.id
    /\ pc \in Stopping => op.from = hub.id
    /\ pc \in HubDown => ~Running
    /\ pc \in {"wait", "done"} => hub.id > op.from

(* The inductive invariant. *)
IInv == TypeOK /\ Linked /\ ServedIsCurrent

(* The bounds are numbers. *)
LEMMA Bounds == MaxInstances \in Nat /\ MaxLaunchers \in Nat /\ MaxSignals \in Nat
  BY LifecycleAssumption, SignalAssumption

(* No step leaves the types; the launcher's phase follows its place.       *)
LEMMA TypeStep == ASSUME TypeOK, [Next]_vars PROVE TypeOK'
  <1> USE Bounds
  <1>1. CASE RequestRestart
    BY <1>1 DEF RequestRestart, files, TypeOK, LifecycleOK, Instance,
       Launchers, Status, Active, Waiting, Spawning, Promoting, Restarting,
       Preparing, Leaving
  <1>2. CASE HubIsUp
    BY <1>2 DEF HubIsUp, HubGoes, files, TypeOK, LifecycleOK, Instance,
       Launchers, Status, Active, Waiting, Spawning, Promoting, Restarting,
       Preparing, Leaving
  <1>3. CASE HubStops
    BY <1>3 DEF HubStops, HubGoes, files, TypeOK, LifecycleOK, Instance,
       Launchers, Status, Active, Waiting, Spawning, Promoting, Restarting,
       Preparing, Leaving
  <1>4. CASE HubCrashes
    BY <1>4 DEF HubCrashes, HubGoes, files, TypeOK, LifecycleOK, Instance,
       Launchers, Status, Active, Waiting, Spawning, Promoting, Restarting,
       Preparing, Leaving
  <1>5. CASE RunStarts
    <2>1. launcher' \in [id : Launchers, pc : {"down", "up", "leaving"}] /\ launcher'.pc = "up"
      BY <1>5 DEF RunStarts, TypeOK, LifecycleOK, Launchers
    <2>2. op' \in [id : Op \cup {NoOp}, from : Instance, status : Status, resume : BOOLEAN]
      BY <1>5 DEF RunStarts, FailsIfActive, TypeOK, LifecycleOK, Status,
         Active
    <2>3. dirs' \in Directories
      BY <1>5 DEF RunStarts, Directories
    <2>4. mishap' \in BOOLEAN
      BY <1>5 DEF RunStarts
    <2>5. LifecycleOK'
      BY <1>5, <2>1, <2>2 DEF RunStarts, TypeOK, LifecycleOK
    <2> QED
      BY <1>5, <2>1, <2>3, <2>4, <2>5 DEF RunStarts, TypeOK, Instance,
         Waiting, Spawning, Promoting, Restarting, Preparing, Leaving
  <1>6. CASE Spawn
    BY <1>6 DEF Spawn, files, TypeOK, LifecycleOK, Instance, Launchers,
       Status, Active, Waiting, Spawning, Promoting, Restarting, Preparing,
       Leaving
  <1>7. CASE SpawnFails
    BY <1>7 DEF SpawnFails, Raises, Reports, LauncherGoes, files, TypeOK,
       LifecycleOK, Instance, Launchers, Status, Active, Waiting, Spawning,
       Promoting, Restarting, Preparing, Leaving
  <1>8. CASE Healthy
    BY <1>8 DEF Healthy, ChildHealthy, Raises, Reports, LauncherGoes, files,
       TypeOK, LifecycleOK, Instance, Launchers, Status, Active, Waiting,
       Spawning, Promoting, Restarting, Preparing, Leaving
  <1>9. CASE Unhealthy
    BY <1>9 DEF Unhealthy, Raises, Reports, LauncherGoes, files, TypeOK,
       LifecycleOK, Instance, Launchers, Status, Active, Waiting, Spawning,
       Promoting, Restarting, Preparing, Leaving
  <1>10. CASE Watch
    BY <1>10 DEF Watch, ChildAlive, LauncherGoes, files, TypeOK,
       LifecycleOK, Instance, Launchers, Status, Active, Waiting, Spawning,
       Promoting, Restarting, Preparing, Leaving
  <1>11. CASE LeaveStops
    BY <1>11 DEF LeaveStops, ChildAlive, HubGoes, files, TypeOK,
       LifecycleOK, Instance, Launchers, Status, Active, Waiting, Spawning,
       Promoting, Restarting, Preparing, Leaving
  <1>12. CASE Left
    BY <1>12 DEF Left, ChildAlive, FailsIfActive, files, TypeOK,
       LifecycleOK, Instance, Launchers, Status, Active, Waiting, Spawning,
       Promoting, Restarting, Preparing, Leaving
  <1>13. CASE Synchronize
    BY <1>13 DEF Synchronize, Raises, Reports, LauncherGoes, files, TypeOK,
       LifecycleOK, Instance, Launchers, Status, Active, Waiting, Spawning,
       Promoting, Restarting, Preparing, Leaving
  <1>14. CASE StartBuild
    <2>1. dirs' \in Directories
      BY <1>14 DEF StartBuild, TypeOK, Directories
    <2> QED
      BY <1>14, <2>1 DEF StartBuild, TypeOK, LifecycleOK, Instance,
         Launchers, Status, Active, Waiting, Spawning, Promoting,
         Restarting, Preparing, Leaving
  <1>15. CASE Built
    <2>1. dirs' \in Directories
      BY <1>15 DEF Built, TypeOK, Directories
    <2> QED
      BY <1>15, <2>1 DEF Built, TypeOK, LifecycleOK, Instance, Launchers,
         Status, Active, Waiting, Spawning, Promoting, Restarting,
         Preparing, Leaving
  <1>16. CASE BuildFails
    <2>1. dirs' \in Directories
      BY <1>16 DEF BuildFails, TypeOK, Directories
    <2> QED
      BY <1>16, <2>1 DEF BuildFails, Raises, Reports, LauncherGoes, TypeOK,
         LifecycleOK, Instance, Launchers, Status, Active, Waiting,
         Spawning, Promoting, Restarting, Preparing, Leaving
  <1>17. CASE Announce
    BY <1>17 DEF Announce, Reports, files, TypeOK, LifecycleOK, Instance,
       Launchers, Status, Active, Waiting, Spawning, Promoting, Restarting,
       Preparing, Leaving
  <1>18. CASE StopBackend
    BY <1>18 DEF StopBackend, ChildAlive, HubGoes, files, TypeOK,
       LifecycleOK, Instance, Launchers, Status, Active, Waiting, Spawning,
       Promoting, Restarting, Preparing, Leaving
  <1>19. CASE Stopped
    <2>1. dirs' \in Directories
      BY <1>19 DEF Stopped, TypeOK, Directories
    <2> QED
      BY <1>19, <2>1 DEF Stopped, ChildAlive, TypeOK, LifecycleOK, Instance,
         Launchers, Status, Active, Waiting, Spawning, Promoting,
         Restarting, Preparing, Leaving
  <1>20. CASE Done
    BY <1>20 DEF Done, Reports, files, TypeOK, LifecycleOK, Instance,
       Launchers, Status, Active, Waiting, Spawning, Promoting, Restarting,
       Preparing, Leaving
  <1>21. CASE PutAside
    <2>1. dirs' \in Directories
      BY <1>21 DEF PutAside, Renames, SetAside, TypeOK, Directories
    <2> QED
      BY <1>21, <2>1 DEF PutAside, Renames, SetAside, TypeOK, LifecycleOK,
         Instance, Launchers, Status, Active, Waiting, Spawning, Promoting,
         Restarting, Preparing, Leaving
  <1>22. CASE Swap
    <2>1. dirs' \in Directories
      BY <1>22 DEF Swap, Renames, Swapped, TypeOK, Directories
    <2> QED
      BY <1>22, <2>1 DEF Swap, Renames, Swapped, TypeOK, LifecycleOK,
         Instance, Launchers, Status, Active, Waiting, Spawning, Promoting,
         Restarting, Preparing, Leaving
  <1>23. CASE Tidy
    <2>1. dirs' \in Directories
      BY <1>23 DEF Tidy, TypeOK, Directories
    <2> QED
      BY <1>23, <2>1 DEF Tidy, TypeOK, LifecycleOK, Instance, Launchers,
         Status, Active, Waiting, Spawning, Promoting, Restarting,
         Preparing, Leaving
  <1>24. CASE Undo
    <2>1. dirs' \in Directories
      BY <1>24 DEF Undo, TypeOK, Directories
    <2> QED
      BY <1>24, <2>1 DEF Undo, TypeOK, LifecycleOK, Instance, Launchers,
         Status, Active, Waiting, Spawning, Promoting, Restarting,
         Preparing, Leaving
  <1>25. CASE Restore
    <2>1. dirs' \in Directories
      BY <1>25 DEF Restore, TypeOK, Directories
    <2> QED
      BY <1>25, <2>1 DEF Restore, TypeOK, LifecycleOK, Instance, Launchers,
         Status, Active, Waiting, Spawning, Promoting, Restarting,
         Preparing, Leaving
  <1>26. CASE Discard
    <2>1. dirs' \in Directories
      BY <1>26 DEF Discard, TypeOK, Directories
    <2> QED
      BY <1>26, <2>1 DEF Discard, LauncherGoes, TypeOK, LifecycleOK,
         Instance, Launchers, Status, Active, Waiting, Spawning, Promoting,
         Restarting, Preparing, Leaving
  <1>27. CASE Signal
    <2>1. CASE Interrupt
      <3>1. dirs' \in Directories
        BY <2>1 DEF Interrupt, TypeOK, Directories
      <3> QED
        BY <1>27, <2>1, <3>1 DEF Signal, Interrupt, LauncherGoes, TypeOK,
           LifecycleOK, Instance, Launchers, Status, Active, Waiting,
           Spawning, Promoting, Restarting, Preparing, Leaving
    <2>2. CASE InterruptRename
      <3>1. dirs' \in Directories
        BY <2>2 DEF InterruptRename, SetAside, Swapped, TypeOK, Directories
      <3> QED
        BY <1>27, <2>2, <3>1 DEF Signal, InterruptRename, SetAside, Swapped,
           TypeOK, LifecycleOK, Instance, Launchers, Status, Active,
           Waiting, Spawning, Promoting, Restarting, Preparing, Leaving
    <2>3. CASE InterruptTidy
      <3>1. dirs' \in Directories
        BY <2>3 DEF InterruptTidy, TypeOK, Directories
      <3> QED
        BY <1>27, <2>3, <3>1 DEF Signal, InterruptTidy, LauncherGoes,
           TypeOK, LifecycleOK, Instance, Launchers, Status, Active,
           Waiting, Spawning, Promoting, Restarting, Preparing, Leaving
    <2>4. CASE InterruptUndo
      <3>1. dirs' \in Directories
        BY <2>4 DEF InterruptUndo, TypeOK, Directories
      <3> QED
        BY <1>27, <2>4, <3>1 DEF Signal, InterruptUndo, LauncherGoes,
           TypeOK, LifecycleOK, Instance, Launchers, Status, Active,
           Waiting, Spawning, Promoting, Restarting, Preparing, Leaving
    <2>5. CASE InterruptLeave
      <3>1. dirs' \in Directories
        BY <2>5 DEF InterruptLeave, files, TypeOK, Directories
      <3> QED
        BY <1>27, <2>5, <3>1 DEF Signal, InterruptLeave, LauncherGoes,
           files, TypeOK, LifecycleOK, Instance, Launchers, Status, Active,
           Waiting, Spawning, Promoting, Restarting, Preparing, Leaving
    <2> QED
      BY <1>27, <2>1, <2>2, <2>3, <2>4, <2>5 DEF Signal
  <1>28. CASE Kill
    BY <1>28 DEF Kill, LauncherGoes, TypeOK, LifecycleOK, Instance,
       Launchers, Status, Active, Waiting, Spawning, Promoting, Restarting,
       Preparing, Leaving
  <1>29. CASE UNCHANGED vars
    BY <1>29 DEF vars, TypeOK, LifecycleOK, Instance, Launchers, Status,
       Active, Waiting, Spawning, Promoting, Restarting, Preparing, Leaving
  <1> QED
    BY <1>1, <1>2, <1>3, <1>4, <1>5, <1>6, <1>7, <1>8, <1>9, <1>10, <1>11,
       <1>12, <1>13, <1>14, <1>15, <1>16, <1>17, <1>18, <1>19, <1>20, <1>21,
       <1>22, <1>23, <1>24, <1>25, <1>26, <1>27, <1>28, <1>29 DEF Next,
       Works

(* What the launcher concludes from its place stays true, and the request  *)
(* that it serves stays the one in the mailbox.                            *)
LEMMA LinkedStep == ASSUME IInv, [Next]_vars PROVE Linked' /\ ServedIsCurrent'
  <1> USE Bounds
  <1>1. CASE RequestRestart
    BY <1>1 DEF RequestRestart, files, IInv, Linked, TypeOK, LifecycleOK,
       ServedIsCurrent, Instance, Launchers, Running, Active, Status,
       Waiting, Spawning, Promoting, Restarting, Preparing, Leaving,
       Stopping, HubDown
  <1>2. CASE HubIsUp
    BY <1>2 DEF HubIsUp, HubGoes, files, IInv, Linked, TypeOK, LifecycleOK,
       ServedIsCurrent, Instance, Launchers, Running, Active, Status,
       Waiting, Spawning, Promoting, Restarting, Preparing, Leaving,
       Stopping, HubDown
  <1>3. CASE HubStops
    BY <1>3 DEF HubStops, HubGoes, files, IInv, Linked, TypeOK, LifecycleOK,
       ServedIsCurrent, Instance, Launchers, Running, Active, Status,
       Waiting, Spawning, Promoting, Restarting, Preparing, Leaving,
       Stopping, HubDown
  <1>4. CASE HubCrashes
    BY <1>4 DEF HubCrashes, HubGoes, files, IInv, Linked, TypeOK,
       LifecycleOK, ServedIsCurrent, Instance, Launchers, Running, Active,
       Status, Waiting, Spawning, Promoting, Restarting, Preparing, Leaving,
       Stopping, HubDown
  <1>5. CASE RunStarts
    BY <1>5 DEF RunStarts, FailsIfActive, IInv, Linked, TypeOK, LifecycleOK,
       ServedIsCurrent, Instance, Launchers, Running, Active, Status,
       Waiting, Spawning, Promoting, Restarting, Preparing, Leaving,
       Stopping, HubDown
  <1>6. CASE Spawn
    BY <1>6 DEF Spawn, files, IInv, Linked, TypeOK, LifecycleOK,
       ServedIsCurrent, Instance, Launchers, Running, Active, Status,
       Waiting, Spawning, Promoting, Restarting, Preparing, Leaving,
       Stopping, HubDown
  <1>7. CASE SpawnFails
    BY <1>7 DEF SpawnFails, Raises, Reports, LauncherGoes, files, IInv,
       Linked, TypeOK, LifecycleOK, ServedIsCurrent, Instance, Launchers,
       Running, Active, Status, Waiting, Spawning, Promoting, Restarting,
       Preparing, Leaving, Stopping, HubDown
  <1>8. CASE Healthy
    BY <1>8 DEF Healthy, ChildHealthy, Raises, Reports, LauncherGoes, files,
       IInv, Linked, TypeOK, LifecycleOK, ServedIsCurrent, Instance,
       Launchers, Running, Active, Status, Waiting, Spawning, Promoting,
       Restarting, Preparing, Leaving, Stopping, HubDown
  <1>9. CASE Unhealthy
    BY <1>9 DEF Unhealthy, Raises, Reports, LauncherGoes, files, IInv,
       Linked, TypeOK, LifecycleOK, ServedIsCurrent, Instance, Launchers,
       Running, Active, Status, Waiting, Spawning, Promoting, Restarting,
       Preparing, Leaving, Stopping, HubDown
  <1>10. CASE Watch
    BY <1>10 DEF Watch, ChildAlive, LauncherGoes, files, IInv, Linked,
       TypeOK, LifecycleOK, ServedIsCurrent, Instance, Launchers, Running,
       Active, Status, Waiting, Spawning, Promoting, Restarting, Preparing,
       Leaving, Stopping, HubDown
  <1>11. CASE LeaveStops
    BY <1>11 DEF LeaveStops, ChildAlive, HubGoes, files, IInv, Linked,
       TypeOK, LifecycleOK, ServedIsCurrent, Instance, Launchers, Running,
       Active, Status, Waiting, Spawning, Promoting, Restarting, Preparing,
       Leaving, Stopping, HubDown
  <1>12. CASE Left
    BY <1>12 DEF Left, ChildAlive, FailsIfActive, files, IInv, Linked,
       TypeOK, LifecycleOK, ServedIsCurrent, Instance, Launchers, Running,
       Active, Status, Waiting, Spawning, Promoting, Restarting, Preparing,
       Leaving, Stopping, HubDown
  <1>13. CASE Synchronize
    BY <1>13 DEF Synchronize, Raises, Reports, LauncherGoes, files, IInv,
       Linked, TypeOK, LifecycleOK, ServedIsCurrent, Instance, Launchers,
       Running, Active, Status, Waiting, Spawning, Promoting, Restarting,
       Preparing, Leaving, Stopping, HubDown
  <1>14. CASE StartBuild
    BY <1>14 DEF StartBuild, IInv, Linked, TypeOK, LifecycleOK,
       ServedIsCurrent, Instance, Launchers, Running, Active, Status,
       Waiting, Spawning, Promoting, Restarting, Preparing, Leaving,
       Stopping, HubDown
  <1>15. CASE Built
    BY <1>15 DEF Built, IInv, Linked, TypeOK, LifecycleOK, ServedIsCurrent,
       Instance, Launchers, Running, Active, Status, Waiting, Spawning,
       Promoting, Restarting, Preparing, Leaving, Stopping, HubDown
  <1>16. CASE BuildFails
    BY <1>16 DEF BuildFails, Raises, Reports, LauncherGoes, IInv, Linked,
       TypeOK, LifecycleOK, ServedIsCurrent, Instance, Launchers, Running,
       Active, Status, Waiting, Spawning, Promoting, Restarting, Preparing,
       Leaving, Stopping, HubDown
  <1>17. CASE Announce
    BY <1>17 DEF Announce, Reports, files, IInv, Linked, TypeOK,
       LifecycleOK, ServedIsCurrent, Instance, Launchers, Running, Active,
       Status, Waiting, Spawning, Promoting, Restarting, Preparing, Leaving,
       Stopping, HubDown
  <1>18. CASE StopBackend
    BY <1>18 DEF StopBackend, ChildAlive, HubGoes, files, IInv, Linked,
       TypeOK, LifecycleOK, ServedIsCurrent, Instance, Launchers, Running,
       Active, Status, Waiting, Spawning, Promoting, Restarting, Preparing,
       Leaving, Stopping, HubDown
  <1>19. CASE Stopped
    BY <1>19 DEF Stopped, ChildAlive, IInv, Linked, TypeOK, LifecycleOK,
       ServedIsCurrent, Instance, Launchers, Running, Active, Status,
       Waiting, Spawning, Promoting, Restarting, Preparing, Leaving,
       Stopping, HubDown
  <1>20. CASE Done
    BY <1>20 DEF Done, Reports, files, IInv, Linked, TypeOK, LifecycleOK,
       ServedIsCurrent, Instance, Launchers, Running, Active, Status,
       Waiting, Spawning, Promoting, Restarting, Preparing, Leaving,
       Stopping, HubDown
  <1>21. CASE PutAside
    BY <1>21 DEF PutAside, Renames, SetAside, IInv, Linked, TypeOK,
       LifecycleOK, ServedIsCurrent, Instance, Launchers, Running, Active,
       Status, Waiting, Spawning, Promoting, Restarting, Preparing, Leaving,
       Stopping, HubDown
  <1>22. CASE Swap
    BY <1>22 DEF Swap, Renames, Swapped, IInv, Linked, TypeOK, LifecycleOK,
       ServedIsCurrent, Instance, Launchers, Running, Active, Status,
       Waiting, Spawning, Promoting, Restarting, Preparing, Leaving,
       Stopping, HubDown
  <1>23. CASE Tidy
    BY <1>23 DEF Tidy, IInv, Linked, TypeOK, LifecycleOK, ServedIsCurrent,
       Instance, Launchers, Running, Active, Status, Waiting, Spawning,
       Promoting, Restarting, Preparing, Leaving, Stopping, HubDown
  <1>24. CASE Undo
    BY <1>24 DEF Undo, IInv, Linked, TypeOK, LifecycleOK, ServedIsCurrent,
       Instance, Launchers, Running, Active, Status, Waiting, Spawning,
       Promoting, Restarting, Preparing, Leaving, Stopping, HubDown
  <1>25. CASE Restore
    BY <1>25 DEF Restore, IInv, Linked, TypeOK, LifecycleOK,
       ServedIsCurrent, Instance, Launchers, Running, Active, Status,
       Waiting, Spawning, Promoting, Restarting, Preparing, Leaving,
       Stopping, HubDown
  <1>26. CASE Discard
    BY <1>26 DEF Discard, LauncherGoes, IInv, Linked, TypeOK, LifecycleOK,
       ServedIsCurrent, Instance, Launchers, Running, Active, Status,
       Waiting, Spawning, Promoting, Restarting, Preparing, Leaving,
       Stopping, HubDown
  <1>27. CASE Signal
    BY <1>27 DEF Signal, Interrupt, InterruptRename, InterruptTidy,
       InterruptUndo, InterruptLeave, LauncherGoes, SetAside, Swapped,
       files, IInv, Linked, TypeOK, LifecycleOK, ServedIsCurrent, Instance,
       Launchers, Running, Active, Status, Waiting, Spawning, Promoting,
       Restarting, Preparing, Leaving, Stopping, HubDown
  <1>28. CASE Kill
    BY <1>28 DEF Kill, LauncherGoes, IInv, Linked, TypeOK, LifecycleOK,
       ServedIsCurrent, Instance, Launchers, Running, Active, Status,
       Waiting, Spawning, Promoting, Restarting, Preparing, Leaving,
       Stopping, HubDown
  <1>29. CASE UNCHANGED vars
    BY <1>29 DEF vars, IInv, Linked, TypeOK, LifecycleOK, ServedIsCurrent,
       Instance, Launchers, Running, Active, Status, Waiting, Spawning,
       Promoting, Restarting, Preparing, Leaving, Stopping, HubDown
  <1> QED
    BY <1>1, <1>2, <1>3, <1>4, <1>5, <1>6, <1>7, <1>8, <1>9, <1>10, <1>11,
       <1>12, <1>13, <1>14, <1>15, <1>16, <1>17, <1>18, <1>19, <1>20, <1>21,
       <1>22, <1>23, <1>24, <1>25, <1>26, <1>27, <1>28, <1>29 DEF Next,
       Works

(* Each step is a step in the abstract life of the Hub, or none.           *)
LEMMA LifecycleStep == ASSUME IInv, [Next]_vars PROVE [LNext]_lvars
  <1> USE Bounds
  <1>1. CASE RequestRestart
    <2>1. \E o \in Op, r \in BOOLEAN : Request(o, r)
      BY <1>1 DEF RequestRestart, files, IInv, Linked, TypeOK, LifecycleOK,
         ServedIsCurrent, Instance, Launchers, Running, Available, Active,
         lvars, Waiting, Spawning, Promoting, Restarting, Preparing,
         Leaving, Stopping, HubDown, Request
    <2> QED
      BY <2>1 DEF LNext
  <1>2. CASE HubIsUp
    <2>1. HubServes \/ UNCHANGED lvars
      BY <1>2 DEF HubIsUp, HubGoes, files, IInv, Linked, TypeOK,
         LifecycleOK, ServedIsCurrent, Instance, Launchers, Running,
         Available, Active, lvars, Waiting, Spawning, Promoting, Restarting,
         Preparing, Leaving, Stopping, HubDown, HubServes
    <2> QED
      BY <2>1 DEF LNext
  <1>3. CASE HubStops
    <2>1. HubEnds \/ UNCHANGED lvars
      BY <1>3 DEF HubStops, HubGoes, files, IInv, Linked, TypeOK,
         LifecycleOK, ServedIsCurrent, Instance, Launchers, Running,
         Available, Active, lvars, Waiting, Spawning, Promoting, Restarting,
         Preparing, Leaving, Stopping, HubDown, HubEnds
    <2> QED
      BY <2>1 DEF LNext
  <1>4. CASE HubCrashes
    <2>1. HubEnds \/ UNCHANGED lvars
      BY <1>4 DEF HubCrashes, HubGoes, files, IInv, Linked, TypeOK,
         LifecycleOK, ServedIsCurrent, Instance, Launchers, Running,
         Available, Active, lvars, Waiting, Spawning, Promoting, Restarting,
         Preparing, Leaving, Stopping, HubDown, HubEnds
    <2> QED
      BY <2>1 DEF LNext
  <1>5. CASE RunStarts
    <2>1. LauncherStarts \/ UNCHANGED lvars
      BY <1>5 DEF RunStarts, FailsIfActive, IInv, Linked, TypeOK,
         LifecycleOK, ServedIsCurrent, Instance, Launchers, Running,
         Available, Active, lvars, Waiting, Spawning, Promoting, Restarting,
         Preparing, Leaving, Stopping, HubDown, LauncherStarts
    <2> QED
      BY <2>1 DEF LNext
  <1>6. CASE Spawn
    <2>1. HubBoots \/ UNCHANGED lvars
      BY <1>6 DEF Spawn, files, IInv, Linked, TypeOK, LifecycleOK,
         ServedIsCurrent, Instance, Launchers, Running, Available, Active,
         lvars, Waiting, Spawning, Promoting, Restarting, Preparing,
         Leaving, Stopping, HubDown, HubBoots
    <2> QED
      BY <2>1 DEF LNext
  <1>7. CASE SpawnFails
    <2>1. LauncherLeaves \/ Fail \/ UNCHANGED lvars
      BY <1>7 DEF SpawnFails, Raises, Reports, LauncherGoes, files, IInv,
         Linked, TypeOK, LifecycleOK, ServedIsCurrent, Instance, Launchers,
         Running, Available, Active, lvars, Waiting, Spawning, Promoting,
         Restarting, Preparing, Leaving, Stopping, HubDown, LauncherLeaves,
         Fail
    <2> QED
      BY <2>1 DEF LNext
  <1>8. CASE Healthy
    <2>1. LauncherLeaves \/ Fail \/ UNCHANGED lvars
      BY <1>8 DEF Healthy, ChildHealthy, Raises, Reports, LauncherGoes,
         files, IInv, Linked, TypeOK, LifecycleOK, ServedIsCurrent,
         Instance, Launchers, Running, Available, Active, lvars, Waiting,
         Spawning, Promoting, Restarting, Preparing, Leaving, Stopping,
         HubDown, LauncherLeaves, Fail
    <2> QED
      BY <2>1 DEF LNext
  <1>9. CASE Unhealthy
    <2>1. LauncherLeaves \/ Fail \/ UNCHANGED lvars
      BY <1>9 DEF Unhealthy, Raises, Reports, LauncherGoes, files, IInv,
         Linked, TypeOK, LifecycleOK, ServedIsCurrent, Instance, Launchers,
         Running, Available, Active, lvars, Waiting, Spawning, Promoting,
         Restarting, Preparing, Leaving, Stopping, HubDown, LauncherLeaves,
         Fail
    <2> QED
      BY <2>1 DEF LNext
  <1>10. CASE Watch
    <2>1. LauncherLeaves \/ UNCHANGED lvars
      BY <1>10 DEF Watch, ChildAlive, LauncherGoes, files, IInv, Linked,
         TypeOK, LifecycleOK, ServedIsCurrent, Instance, Launchers, Running,
         Available, Active, lvars, Waiting, Spawning, Promoting, Restarting,
         Preparing, Leaving, Stopping, HubDown, LauncherLeaves
    <2> QED
      BY <2>1 DEF LNext
  <1>11. CASE LeaveStops
    <2>1. HubCloses \/ UNCHANGED lvars
      BY <1>11 DEF LeaveStops, ChildAlive, HubGoes, files, IInv, Linked,
         TypeOK, LifecycleOK, ServedIsCurrent, Instance, Launchers, Running,
         Available, Active, lvars, Waiting, Spawning, Promoting, Restarting,
         Preparing, Leaving, Stopping, HubDown, HubCloses
    <2> QED
      BY <2>1 DEF LNext
  <1>12. CASE Left
    <2>1. LauncherGone \/ UNCHANGED lvars
      BY <1>12 DEF Left, ChildAlive, FailsIfActive, files, IInv, Linked,
         TypeOK, LifecycleOK, ServedIsCurrent, Instance, Launchers, Running,
         Available, Active, lvars, Waiting, Spawning, Promoting, Restarting,
         Preparing, Leaving, Stopping, HubDown, LauncherGone
    <2> QED
      BY <2>1 DEF LNext
  <1>13. CASE Synchronize
    <2>1. LauncherLeaves \/ Fail \/ UNCHANGED lvars
      BY <1>13 DEF Synchronize, Raises, Reports, LauncherGoes, files, IInv,
         Linked, TypeOK, LifecycleOK, ServedIsCurrent, Instance, Launchers,
         Running, Available, Active, lvars, Waiting, Spawning, Promoting,
         Restarting, Preparing, Leaving, Stopping, HubDown, LauncherLeaves,
         Fail
    <2> QED
      BY <2>1 DEF LNext
  <1>14. CASE StartBuild
    BY <1>14 DEF StartBuild, lvars
  <1>15. CASE Built
    BY <1>15 DEF Built, lvars
  <1>16. CASE BuildFails
    <2>1. LauncherLeaves \/ Fail \/ UNCHANGED lvars
      BY <1>16 DEF BuildFails, Raises, Reports, LauncherGoes, IInv, Linked,
         TypeOK, LifecycleOK, ServedIsCurrent, Instance, Launchers, Running,
         Available, Active, lvars, Waiting, Spawning, Promoting, Restarting,
         Preparing, Leaving, Stopping, HubDown, LauncherLeaves, Fail
    <2> QED
      BY <2>1 DEF LNext
  <1>17. CASE Announce
    <2>1. Begin \/ UNCHANGED lvars
      BY <1>17 DEF Announce, Reports, files, IInv, Linked, TypeOK,
         LifecycleOK, ServedIsCurrent, Instance, Launchers, Running,
         Available, Active, lvars, Waiting, Spawning, Promoting, Restarting,
         Preparing, Leaving, Stopping, HubDown, Begin
    <2> QED
      BY <2>1 DEF LNext
  <1>18. CASE StopBackend
    <2>1. HubCloses \/ UNCHANGED lvars
      BY <1>18 DEF StopBackend, ChildAlive, HubGoes, files, IInv, Linked,
         TypeOK, LifecycleOK, ServedIsCurrent, Instance, Launchers, Running,
         Available, Active, lvars, Waiting, Spawning, Promoting, Restarting,
         Preparing, Leaving, Stopping, HubDown, HubCloses
    <2> QED
      BY <2>1 DEF LNext
  <1>19. CASE Stopped
    BY <1>19 DEF Stopped, ChildAlive, lvars
  <1>20. CASE Done
    <2>1. Succeed \/ UNCHANGED lvars
      BY <1>20 DEF Done, Reports, files, IInv, Linked, TypeOK, LifecycleOK,
         ServedIsCurrent, Instance, Launchers, Running, Available, Active,
         lvars, Waiting, Spawning, Promoting, Restarting, Preparing,
         Leaving, Stopping, HubDown, Succeed
    <2> QED
      BY <2>1 DEF LNext
  <1>21. CASE PutAside
    BY <1>21 DEF PutAside, Renames, SetAside, lvars
  <1>22. CASE Swap
    BY <1>22 DEF Swap, Renames, Swapped, lvars
  <1>23. CASE Tidy
    BY <1>23 DEF Tidy, lvars
  <1>24. CASE Undo
    BY <1>24 DEF Undo, lvars
  <1>25. CASE Restore
    BY <1>25 DEF Restore, lvars
  <1>26. CASE Discard
    <2>1. LauncherLeaves \/ UNCHANGED lvars
      BY <1>26 DEF Discard, LauncherGoes, IInv, Linked, TypeOK, LifecycleOK,
         ServedIsCurrent, Instance, Launchers, Running, Available, Active,
         lvars, Waiting, Spawning, Promoting, Restarting, Preparing,
         Leaving, Stopping, HubDown, LauncherLeaves
    <2> QED
      BY <2>1 DEF LNext
  <1>27. CASE Signal
    <2>1. LauncherLeaves \/ LauncherKilled \/ UNCHANGED lvars
      BY <1>27 DEF Signal, Interrupt, InterruptRename, InterruptTidy,
         InterruptUndo, InterruptLeave, LauncherGoes, SetAside, Swapped,
         files, IInv, Linked, TypeOK, LifecycleOK, ServedIsCurrent,
         Instance, Launchers, Running, Available, Active, lvars, Waiting,
         Spawning, Promoting, Restarting, Preparing, Leaving, Stopping,
         HubDown, LauncherLeaves, LauncherKilled
    <2> QED
      BY <2>1 DEF LNext
  <1>28. CASE Kill
    <2>1. LauncherKilled \/ UNCHANGED lvars
      BY <1>28 DEF Kill, LauncherGoes, IInv, Linked, TypeOK, LifecycleOK,
         ServedIsCurrent, Instance, Launchers, Running, Available, Active,
         lvars, Waiting, Spawning, Promoting, Restarting, Preparing,
         Leaving, Stopping, HubDown, LauncherKilled
    <2> QED
      BY <2>1 DEF LNext
  <1>29. CASE UNCHANGED vars
    BY <1>29 DEF vars, lvars
  <1> QED
    BY <1>1, <1>2, <1>3, <1>4, <1>5, <1>6, <1>7, <1>8, <1>9, <1>10, <1>11,
       <1>12, <1>13, <1>14, <1>15, <1>16, <1>17, <1>18, <1>19, <1>20, <1>21,
       <1>22, <1>23, <1>24, <1>25, <1>26, <1>27, <1>28, <1>29 DEF Next,
       Works

(* The directory of the live frontend changes only during the swap.        *)
LEMMA FrontendStep ==
    ASSUME IInv, [Next]_vars, pc # "off", dirs'.dist # dirs.dist PROVE pc \in Promoting
  <1> USE Bounds
  <1>1. CASE RequestRestart
    BY <1>1 DEF RequestRestart, files, IInv, TypeOK, Promoting, Waiting,
       Spawning, Restarting, Preparing, Leaving
  <1>2. CASE HubIsUp
    BY <1>2 DEF HubIsUp, files, IInv, TypeOK, Promoting, Waiting, Spawning,
       Restarting, Preparing, Leaving
  <1>3. CASE HubStops
    BY <1>3 DEF HubStops, files, IInv, TypeOK, Promoting, Waiting, Spawning,
       Restarting, Preparing, Leaving
  <1>4. CASE HubCrashes
    BY <1>4 DEF HubCrashes, files, IInv, TypeOK, Promoting, Waiting,
       Spawning, Restarting, Preparing, Leaving
  <1>5. CASE RunStarts
    BY <1>5 DEF RunStarts, FailsIfActive, files, IInv, TypeOK, Promoting,
       Waiting, Spawning, Restarting, Preparing, Leaving
  <1>6. CASE Spawn
    BY <1>6 DEF Spawn, files, IInv, TypeOK, Promoting, Waiting, Spawning,
       Restarting, Preparing, Leaving
  <1>7. CASE SpawnFails
    BY <1>7 DEF SpawnFails, Raises, LauncherGoes, files, IInv, TypeOK,
       Promoting, Waiting, Spawning, Restarting, Preparing, Leaving
  <1>8. CASE Healthy
    BY <1>8 DEF Healthy, ChildHealthy, Raises, LauncherGoes, files, IInv,
       TypeOK, Promoting, Waiting, Spawning, Restarting, Preparing, Leaving
  <1>9. CASE Unhealthy
    BY <1>9 DEF Unhealthy, Raises, LauncherGoes, files, IInv, TypeOK,
       Promoting, Waiting, Spawning, Restarting, Preparing, Leaving
  <1>10. CASE Watch
    BY <1>10 DEF Watch, ChildAlive, LauncherGoes, files, IInv, TypeOK,
       Promoting, Waiting, Spawning, Restarting, Preparing, Leaving
  <1>11. CASE LeaveStops
    BY <1>11 DEF LeaveStops, ChildAlive, files, IInv, TypeOK, Promoting,
       Waiting, Spawning, Restarting, Preparing, Leaving
  <1>12. CASE Left
    BY <1>12 DEF Left, ChildAlive, FailsIfActive, files, IInv, TypeOK,
       Promoting, Waiting, Spawning, Restarting, Preparing, Leaving
  <1>13. CASE Synchronize
    BY <1>13 DEF Synchronize, Raises, LauncherGoes, files, IInv, TypeOK,
       Promoting, Waiting, Spawning, Restarting, Preparing, Leaving
  <1>14. CASE StartBuild
    BY <1>14 DEF StartBuild, files, IInv, TypeOK, Promoting, Waiting,
       Spawning, Restarting, Preparing, Leaving
  <1>15. CASE Built
    BY <1>15 DEF Built, files, IInv, TypeOK, Promoting, Waiting, Spawning,
       Restarting, Preparing, Leaving
  <1>16. CASE BuildFails
    BY <1>16 DEF BuildFails, Raises, LauncherGoes, files, IInv, TypeOK,
       Promoting, Waiting, Spawning, Restarting, Preparing, Leaving
  <1>17. CASE Announce
    BY <1>17 DEF Announce, files, IInv, TypeOK, Promoting, Waiting,
       Spawning, Restarting, Preparing, Leaving
  <1>18. CASE StopBackend
    BY <1>18 DEF StopBackend, ChildAlive, files, IInv, TypeOK, Promoting,
       Waiting, Spawning, Restarting, Preparing, Leaving
  <1>19. CASE Stopped
    BY <1>19 DEF Stopped, ChildAlive, files, IInv, TypeOK, Promoting,
       Waiting, Spawning, Restarting, Preparing, Leaving
  <1>20. CASE Done
    BY <1>20 DEF Done, files, IInv, TypeOK, Promoting, Waiting, Spawning,
       Restarting, Preparing, Leaving
  <1>21. CASE PutAside
    BY <1>21 DEF PutAside, Renames, SetAside, files, IInv, TypeOK,
       Promoting, Waiting, Spawning, Restarting, Preparing, Leaving
  <1>22. CASE Swap
    BY <1>22 DEF Swap, Renames, Swapped, files, IInv, TypeOK, Promoting,
       Waiting, Spawning, Restarting, Preparing, Leaving
  <1>23. CASE Tidy
    BY <1>23 DEF Tidy, files, IInv, TypeOK, Promoting, Waiting, Spawning,
       Restarting, Preparing, Leaving
  <1>24. CASE Undo
    BY <1>24 DEF Undo, files, IInv, TypeOK, Promoting, Waiting, Spawning,
       Restarting, Preparing, Leaving
  <1>25. CASE Restore
    BY <1>25 DEF Restore, files, IInv, TypeOK, Promoting, Waiting, Spawning,
       Restarting, Preparing, Leaving
  <1>26. CASE Discard
    BY <1>26 DEF Discard, LauncherGoes, files, IInv, TypeOK, Promoting,
       Waiting, Spawning, Restarting, Preparing, Leaving
  <1>27. CASE Signal
    <2>1. CASE Interrupt
      BY <1>27, <2>1 DEF Signal, Interrupt, LauncherGoes, vars, IInv,
         TypeOK, Promoting, Waiting, Spawning, Restarting, Preparing,
         Leaving
    <2>2. CASE InterruptRename
      BY <1>27, <2>2 DEF Signal, InterruptRename, SetAside, Swapped, vars,
         IInv, TypeOK, Promoting, Waiting, Spawning, Restarting, Preparing,
         Leaving
    <2>3. CASE InterruptTidy
      BY <1>27, <2>3 DEF Signal, InterruptTidy, LauncherGoes, vars, IInv,
         TypeOK, Promoting, Waiting, Spawning, Restarting, Preparing,
         Leaving
    <2>4. CASE InterruptUndo
      BY <1>27, <2>4 DEF Signal, InterruptUndo, LauncherGoes, vars, IInv,
         TypeOK, Promoting, Waiting, Spawning, Restarting, Preparing,
         Leaving
    <2>5. CASE InterruptLeave
      BY <1>27, <2>5 DEF Signal, InterruptLeave, LauncherGoes, files, vars,
         IInv, TypeOK, Promoting, Waiting, Spawning, Restarting, Preparing,
         Leaving
    <2> QED
      BY <1>27, <2>1, <2>2, <2>3, <2>4, <2>5 DEF Signal
  <1>28. CASE Kill
    BY <1>28 DEF Kill, LauncherGoes, files, IInv, TypeOK, Promoting,
       Waiting, Spawning, Restarting, Preparing, Leaving
  <1>29. CASE UNCHANGED vars
    BY <1>29 DEF vars
  <1> QED
    BY <1>1, <1>2, <1>3, <1>4, <1>5, <1>6, <1>7, <1>8, <1>9, <1>10, <1>11,
       <1>12, <1>13, <1>14, <1>15, <1>16, <1>17, <1>18, <1>19, <1>20, <1>21,
       <1>22, <1>23, <1>24, <1>25, <1>26, <1>27, <1>28, <1>29 DEF Next,
       Works

(* The inductive invariant holds.                                          *)
THEOREM LauncherInvariant == Spec => []IInv
  <1>1. Init => IInv
    <2> SUFFICES ASSUME Init PROVE IInv
      OBVIOUS
    <2>1. dirs \in Directories
      BY DEF Init, Directories
    <2>2. LifecycleOK
      BY Bounds DEF Init, LInit, LifecycleOK, Instance, Launchers, Status, Active
    <2>3. taken \in SUBSET (Op \X Instance) /\ mishap \in BOOLEAN
      BY DEF Init
    <2>4. TypeOK
      BY Bounds, <2>1, <2>2, <2>3 DEF Init, LInit, TypeOK, Instance, Leaving
    <2>5. Linked /\ ServedIsCurrent
      BY DEF Init, LInit, Linked, ServedIsCurrent, Running, Stopping, HubDown, Promoting,
         Restarting, Preparing
    <2> QED
      BY <2>4, <2>5 DEF IInv
  <1>2. IInv /\ [Next]_vars => IInv'
    BY TypeStep, LinkedStep DEF IInv
  <1> QED
    BY <1>1, <1>2, PTL DEF Spec

(* Type correctness of the launcher.                                       *)
THEOREM TypeCorrect == Spec => []TypeOK
  <1>1. IInv => TypeOK
    BY DEF IInv
  <1> QED
    BY <1>1, LauncherInvariant, PTL

(* What the launcher reports is about the request it serves.               *)
THEOREM ServedCurrent == Spec => []ServedIsCurrent
  <1>1. IInv => ServedIsCurrent
    BY DEF IInv
  <1> QED
    BY <1>1, LauncherInvariant, PTL

(* The launcher implements the abstract life of the Hub: it stops only the *)
(* instance that was asked, and reports success only for another one.      *)
THEOREM ImplementsLifecycle == Spec => KeepsLifecycle
  <1>1. Init => LInit
    BY DEF Init
  <1>2. IInv /\ [Next]_vars => [LNext]_lvars
    BY LifecycleStep
  <1> QED
    BY <1>1, <1>2, LauncherInvariant, PTL DEF Spec, KeepsLifecycle, LSpec

(* The launcher changes the frontend only while no Hub runs.               *)
THEOREM FrontendKept == Spec => FrontendKeptWhileServed
  <1>1. IInv /\ [Next]_vars => [dirs'.dist # dirs.dist /\ pc # "off" => ~Running]_vars
    BY FrontendStep DEF IInv, Linked, HubDown
  <1> QED
    BY <1>1, LauncherInvariant, PTL DEF Spec, FrontendKeptWhileServed

(* --------------------------- the frontends ----------------------------- *)

(* A complete frontend is in one of these directories, or was left in the  *)
(* backup directory of an earlier promotion.                               *)
Complete(S) == \E d \in S \cup dirs.stray : d \in {"live", "next"}

(* Where a complete frontend is at each place of the swap.  The build      *)
(* directory is never needed: it is removed whenever something fails.      *)
(* After an error that was not a signal the launcher goes on, so what it   *)
(* leaves must be fit for the next promotion.                              *)
Files ==
    /\ pc \notin Promoting =>
          /\ Complete({dirs.dist, dirs.backup})
          /\ ~mishap => dirs.dist = "live"
          /\ pc \notin Leaving \cup {"off"} => dirs.dist \in {"live", "none"}
    /\ pc \in Promoting => dirs.backup \in {"none", "live"}
    /\ pc = "aside" =>
          /\ dirs.backup = "none" /\ dirs.dist \in {"live", "none"} /\ Complete({dirs.dist})
          /\ ~mishap => dirs.dist = "live"
    /\ pc = "swap" => dirs.dist = "none"
    /\ pc \in {"swap", "tidy", "restore"} =>
          Complete({dirs.backup}) /\ (~mishap => dirs.backup = "live")
    /\ pc = "undo" =>
          /\ Complete({IF dirs.backup = "none" THEN dirs.dist ELSE dirs.backup})
          /\ dirs.dist = "next" => Complete({dirs.backup})
          /\ ~mishap => dirs.backup = "live" \/ dirs.dist = "live"
    /\ pc = "restore" => dirs.dist = "none"
    /\ pc = "discard" =>
          Complete({dirs.dist, dirs.backup}) /\ (~mishap => dirs.dist = "live")
    /\ pc \in {"undo", "discard"} /\ raised = "error" => dirs.dist \in {"live", "none"}

(* Steps that move no directory and stay outside a promotion. *)
LEMMA FilesAside ==
  ASSUME Files, UNCHANGED files, pc \notin Promoting, pc' \notin Promoting,
         pc \in Leaving \cup {"off"} => pc' \in Leaving \cup {"off"}
  PROVE  Files'
  BY DEF Files, files, Complete, Promoting

(* No step, and no interrupt, loses the last complete frontend. *)
LEMMA FilesStep == ASSUME TypeOK, Files, [Next]_vars PROVE Files'
  <1> USE DEF Promoting, Leaving
  <1>1. CASE RequestRestart \/ HubIsUp \/ HubStops \/ HubCrashes
    BY <1>1 DEF RequestRestart, HubIsUp, HubStops, HubCrashes, files, Files, Complete
  <1>2. CASE RunStarts
    BY <1>2 DEF RunStarts, Files, Complete
  <1>3. CASE Spawn
    BY <1>3, FilesAside DEF Spawn, Spawning
  <1>4. CASE SpawnFails \/ Healthy \/ Unhealthy \/ Synchronize
    BY <1>4, FilesAside DEF SpawnFails, Healthy, Unhealthy, Synchronize, Raises, Spawning, Waiting
  <1>5. CASE Watch \/ LeaveStops \/ Left
    BY <1>5, FilesAside DEF Watch, LeaveStops, Left
  <1>6. CASE Announce \/ StopBackend \/ Done
    BY <1>6, FilesAside DEF Announce, StopBackend, Done
  <1>7. CASE StartBuild \/ Built \/ BuildFails
    BY <1>7 DEF StartBuild, Built, BuildFails, Raises, Files, Complete, TypeOK, Directories
  <1>8. CASE Stopped
    BY <1>8 DEF Stopped, Files, Complete, TypeOK, Directories
  <1>9. CASE PutAside
    BY <1>9 DEF PutAside, Renames, SetAside, Files, Complete, TypeOK, Directories
  <1>10. CASE Swap
    BY <1>10 DEF Swap, Renames, Swapped, Files, Complete, TypeOK, Directories
  <1>11. CASE Tidy
    BY <1>11 DEF Tidy, Files, Complete, TypeOK, Directories
  <1>12. CASE Undo
    BY <1>12 DEF Undo, Files, Complete, TypeOK, Directories
  <1>13. CASE Restore
    BY <1>13 DEF Restore, Files, Complete, TypeOK, Directories
  <1>14. CASE Discard
    BY <1>14 DEF Discard, Files, Complete, TypeOK, Directories
  <1>15. CASE Signal
    <2>1. CASE Interrupt
      BY <2>1 DEF Interrupt, Waiting, Spawning, Preparing, Restarting, Files, Complete, TypeOK, Directories
    <2>2. CASE InterruptRename
      BY <2>2 DEF InterruptRename, SetAside, Swapped, Files, Complete, TypeOK, Directories
    <2>3. CASE InterruptTidy
      BY <2>3 DEF InterruptTidy, Files, Complete, TypeOK, Directories
    <2>4. CASE InterruptUndo
      BY <2>4 DEF InterruptUndo, Files, Complete, TypeOK, Directories
    <2>5. CASE InterruptLeave
      BY <2>5, FilesAside DEF InterruptLeave
    <2> QED BY <1>15, <2>1, <2>2, <2>3, <2>4, <2>5 DEF Signal
  <1>16. CASE Kill
    BY <1>16 DEF Kill, Files, Complete
  <1>17. CASE UNCHANGED vars
    BY <1>17 DEF vars, files, Files, Complete
  <1> QED BY <1>1, <1>2, <1>3, <1>4, <1>5, <1>6, <1>7, <1>8, <1>9, <1>10, <1>11, <1>12, <1>13,
             <1>14, <1>15, <1>16, <1>17 DEF Next, Works

(* Whatever interrupts the swap of the frontends, a complete one is left,  *)
(* and outside the swap it is live unless its undoing was hit as well.     *)
THEOREM FrontendIsSafe == Spec => []FrontendSurvives
  <1>1. Init => Files
    BY DEF Init, Files, Complete, Promoting, Leaving
  <1>2. Files => FrontendSurvives
    BY DEF Files, FrontendSurvives, Complete, Promoting
  <1>3. TypeOK /\ TypeOK' /\ Files /\ [Next]_vars => Files'
    BY FilesStep
  <1> QED BY <1>1, <1>2, <1>3, TypeCorrect, PTL DEF Spec
=============================================================================
