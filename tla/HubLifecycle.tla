---------------------------- MODULE HubLifecycle ----------------------------
(***************************************************************************)
(* The life of the Hub process as the restart mailbox records it: what a   *)
(* supervised restart promises to those who ask for one and to the Chats   *)
(* that it interrupts.  ServiceLauncher implements it; RestartContinuation *)
(* is composed with it.                                                    *)
(*                                                                         *)
(* The mailbox (restart/state.json) holds one operation and the id of the  *)
(* launcher that owns the Hub.  Every access is one transaction under a    *)
(* file lock, so reading, deciding and writing are one step.               *)
(*                                                                         *)
(* Instances of the Hub and launchers are numbered in the order in which   *)
(* they start; the code draws random ids and only compares them.           *)
(***************************************************************************)
EXTENDS Naturals

CONSTANTS
    Op,            \* ids that requests for a restart carry
    NoOp,          \* the mailbox holds no operation
    MaxInstances,  \* bound: Hub processes that start
    MaxLaunchers   \* bound: launchers that start

ASSUME LifecycleAssumption ==
    /\ NoOp \notin Op
    /\ MaxInstances \in Nat
    /\ MaxLaunchers \in Nat

VARIABLES
    op,        \* the operation in the mailbox: who asked, and how far it is
    hub,       \* the process that holds the instance lock, or held it last
    launcher   \* the launcher named in the mailbox

lvars == <<op, hub, launcher>>

Active == {"preparing", "restarting"}
Status == Active \cup {"none", "succeeded", "failed"}
Instance == 0 .. MaxInstances
Launchers == 0 .. MaxLaunchers

(* Type invariant of the mailbox and of the two processes. *)
LifecycleOK ==
    /\ op \in [id : Op \cup {NoOp}, from : Instance, status : Status, resume : BOOLEAN]
    /\ hub \in [id : Instance, by : Launchers, pc : {"none", "boot", "serving", "closing"}]
    /\ launcher \in [id : Launchers, pc : {"down", "up", "leaving"}]

Running == hub.pc # "none"
Available == hub.by = launcher.id /\ launcher.pc # "down"

LInit ==
    /\ op = [id |-> NoOp, from |-> 0, status |-> "none", resume |-> FALSE]
    /\ hub = [id |-> 0, by |-> 0, pc |-> "none"]
    /\ launcher = [id |-> 0, pc |-> "down"]

(* A request is answered by the operation that is under way, or becomes it. *)
Request(o, resume) ==
    /\ hub.pc = "serving" /\ Available
    /\ op.status \notin Active /\ op.id # o
    /\ op' = [id |-> o, from |-> hub.id, status |-> "preparing", resume |-> resume]
    /\ UNCHANGED <<hub, launcher>>

(* The new version is ready: from here on the Hub may be stopped. *)
Begin ==
    /\ launcher.pc = "up" /\ op.status = "preparing"
    /\ op' = [op EXCEPT !.status = "restarting"]
    /\ UNCHANGED <<hub, launcher>>

Fail ==
    /\ launcher.pc = "up" /\ op.status \in Active
    /\ op' = [op EXCEPT !.status = "failed"]
    /\ UNCHANGED <<hub, launcher>>

(* A restart has succeeded only when another instance has been started. *)
Succeed ==
    /\ launcher.pc = "up" /\ op.status = "restarting" /\ hub.id > op.from
    /\ op' = [op EXCEPT !.status = "succeeded"]
    /\ UNCHANGED <<hub, launcher>>

(* A launcher starts one Hub when it comes up and one for each restart. *)
HubBoots ==
    /\ launcher.pc = "up" /\ ~Running /\ hub.id < MaxInstances
    /\ hub.by # launcher.id \/ (op.status = "restarting" /\ op.from = hub.id)
    /\ hub' = [id |-> hub.id + 1, by |-> launcher.id, pc |-> "boot"]
    /\ UNCHANGED <<op, launcher>>

HubServes ==
    /\ hub.pc = "boot"
    /\ hub' = [hub EXCEPT !.pc = "serving"]
    /\ UNCHANGED <<op, launcher>>

(* Only its own launcher stops a Hub: to restart the instance that was     *)
(* asked, or because the launcher itself leaves.                           *)
HubCloses ==
    /\ hub.pc \in {"boot", "serving"} /\ Available
    /\ \/ launcher.pc = "leaving"
       \/ op.status = "restarting" /\ op.from = hub.id
    /\ hub' = [hub EXCEPT !.pc = "closing"]
    /\ UNCHANGED <<op, launcher>>

(* It has shut down, crashed, or was killed. *)
HubEnds ==
    /\ Running
    /\ hub' = [hub EXCEPT !.pc = "none"]
    /\ UNCHANGED <<op, launcher>>

LauncherLeaves ==
    /\ launcher.pc = "up"
    /\ launcher' = [launcher EXCEPT !.pc = "leaving"]
    /\ UNCHANGED <<op, hub>>

(* It waits for its Hub to stop; what is still under way has failed. *)
LauncherGone ==
    /\ launcher.pc = "leaving" /\ ~(Running /\ Available)
    /\ launcher' = [launcher EXCEPT !.pc = "down"]
    /\ op' = [op EXCEPT !.status = IF @ \in Active THEN "failed" ELSE @]
    /\ UNCHANGED hub

(* Killed: its Hub runs on without it. *)
LauncherKilled ==
    /\ launcher.pc # "down"
    /\ launcher' = [launcher EXCEPT !.pc = "down"]
    /\ UNCHANGED <<op, hub>>

LauncherStarts ==
    /\ launcher.pc = "down" /\ launcher.id < MaxLaunchers
    /\ launcher' = [id |-> launcher.id + 1, pc |-> "up"]
    /\ op' = [op EXCEPT !.status = IF @ \in Active THEN "failed" ELSE @]
    /\ UNCHANGED hub

LNext ==
    \/ \E o \in Op, r \in BOOLEAN : Request(o, r)
    \/ Begin \/ Fail \/ Succeed
    \/ HubBoots \/ HubServes \/ HubCloses \/ HubEnds
    \/ LauncherLeaves \/ LauncherGone \/ LauncherKilled \/ LauncherStarts

LSpec == LInit /\ [][LNext]_lvars
=============================================================================
