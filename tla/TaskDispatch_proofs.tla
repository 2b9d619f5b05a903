------------------------ MODULE TaskDispatch_proofs ------------------------
(***************************************************************************)
(* Type correctness of the dispatch of Tasks, with the discipline of its   *)
(* two locks, that a Task in external hands is left alone, and that a      *)
(* prompt that was sent stays bound to its session: for any number of      *)
(* Tasks, sessions and requests, and any number of failures and restarts.  *)
(*                                                                         *)
(* The argument.  Three invariants hold together.  HubOK: the records in   *)
(* memory and in the file are well formed, and those of Tasks in external  *)
(* hands are bound to nothing, in both; so a restart changes nothing.      *)
(* ControlOK: the coroutines hold the locks that their places say.         *)
(* WorkIsOwn: whatever is being worked on belongs to the workspace.  Every *)
(* write to a Task is made by the operation that has it reserved, whence   *)
(* the Task is the workspace's, or to a queued Task, which is the          *)
(* workspace's by HubOK; and a handoff needs a Task without operations.    *)
(* The claims of dispatches have an invariant on top, ClaimInv, about what *)
(* the list of a pass still knows of the sessions that it is to visit.     *)
(***************************************************************************)
EXTENDS DispatchClaims, TLAPS

Tasks == [Task -> TaskRecord]
Sessions == [Session -> SessionRecord]

AllUnbound(records) == \A t \in Task : Unbound(records[t])

HubOK ==
    /\ tasks \in Tasks
    /\ sess \in Sessions
    /\ disk \in [tasks : Tasks, sess : Sessions]
    /\ AllUnbound(tasks)
    /\ AllUnbound(disk.tasks)
    /\ faults \in 0 .. MaxFaults

ControlOK ==
    /\ mlock \in Proc \cup {Free}
    /\ dlock \in Proc \cup {Free}
    /\ pass \in {NoPass} \cup Visiting \cup Serving
    /\ mon \in {"due", "pass", "observe", "observed", "skipped"}
    /\ req \in [Request -> {Idle} \cup Job]
    /\ asked \in 0 .. MaxRequests
    /\ LocksAreHeld

WorkIsOwn == \A t \in Task : tasks[t].control # "workspace" => ~Reserved(t)

IInv == HubOK /\ ControlOK /\ WorkIsOwn

(* No operation starts on a Task. *)
NoneReserved == \A t \in Task : Reserved(t)' => Reserved(t)

(* No Task changes hands. *)
SameHands == \A t \in Task : tasks'[t].control = tasks[t].control

ControlKept == UNCHANGED <<mlock, dlock, pass, mon, req>>

-----------------------------------------------------------------------------
(* What is written. *)

(* The invariant holds in the initial states. *)
LEMMA InitOK == Init => IInv
<1> SUFFICES ASSUME Init PROVE IInv
    OBVIOUS
<1> USE DispatchAssumption DEF Init
<1>1. HubOK
  <2>1. tasks \in Tasks
    BY DEF Tasks, TaskRecord, Status
  <2>2. sess \in Sessions
    BY DEF Sessions, SessionRecord, Standing
  <2>3. disk \in [tasks : Tasks, sess : Sessions] /\ disk.tasks = tasks
    BY <2>1, <2>2
  <2>4. AllUnbound(tasks)
    BY DEF AllUnbound, Unbound
  <2> QED
    BY <2>1, <2>2, <2>3, <2>4 DEF HubOK
<1>2. ControlOK
    BY DEF ControlOK, LocksAreHeld, Proc, NoPass, Idle, Prompted
<1>3. WorkIsOwn
    BY DEF WorkIsOwn
<1> QED
    BY <1>1, <1>2, <1>3 DEF IInv

(* The places of a pass at which it serves a Task. *)
LEMMA PassKinds ==
    ASSUME pass \in {NoPass} \cup Visiting \cup Serving
    PROVE  /\ pass = NoPass <=> pass.pc = "none"
           /\ pass \in Visiting <=> pass.pc \in {"recover", "assign"}
           /\ pass \in Serving <=>
                 pass.pc \in {"resend", "remark", "reserve", "rename", "prepare", "claim", "send", "mark"}
BY DEF NoPass, Visiting, Serving

(* The call of a Task is a call. *)
LEMMA CallType ==
    ASSUME tasks \in Tasks, NEW t \in Task
    PROVE  CallOf(t) \in Call /\ tasks[t].status \in Status
BY DEF Tasks, TaskRecord, CallOf, Call

(* A save that succeeds, or raises and leaves memory as it is. *)
LEMMA SaveOK ==
    ASSUME HubOK, tasks' \in Tasks, sess' \in Sessions, AllUnbound(tasks)',
           (Saved /\ UNCHANGED faults) \/ Unsaved
    PROVE  HubOK'
<1>1. /\ disk' \in [tasks : Tasks, sess : Sessions]
      /\ AllUnbound(disk'.tasks)
  <2>1. CASE Saved
    <3>1. disk'.tasks = tasks'
      BY <2>1 DEF Saved
    <3> QED
      BY <2>1, <3>1 DEF Saved, AllUnbound
  <2>2. CASE UNCHANGED disk
    BY <2>2 DEF HubOK
  <2> QED
    BY <2>1, <2>2 DEF Unsaved
<1>2. faults' \in 0 .. MaxFaults
  BY DispatchAssumption DEF HubOK, Unsaved, Fault
<1> QED
  BY <1>1, <1>2 DEF HubOK, AllUnbound

(* A change that is undone in memory when its save raises. *)
LEMMA CommitOK ==
    ASSUME HubOK,
           NEW newTasks \in Tasks, NEW newSess \in Sessions, AllUnbound(newTasks),
           Commits(newTasks, newSess) \/ RollsBack(newTasks, newSess)
    PROVE  HubOK'
<1>1. tasks' \in Tasks /\ sess' \in Sessions /\ AllUnbound(tasks)'
  BY DEF HubOK, Commits, RollsBack, AllUnbound
<1>2. /\ disk' \in [tasks : Tasks, sess : Sessions]
      /\ AllUnbound(disk'.tasks)
  <2>1. CASE disk' = [tasks |-> newTasks, sess |-> newSess]
    <3>1. disk'.tasks = newTasks
      BY <2>1
    <3> QED
      BY <2>1, <3>1 DEF AllUnbound
  <2>2. CASE disk' = disk
    BY <2>2 DEF HubOK
  <2> QED
    BY <2>1, <2>2 DEF Commits, RollsBack, Saved
<1>3. faults' \in 0 .. MaxFaults
  BY DispatchAssumption DEF HubOK, Commits, RollsBack, Fault
<1> QED
  BY <1>1, <1>2, <1>3 DEF HubOK, AllUnbound

(* One Task is written, and does not change hands. *)
LEMMA TaskWrite ==
    ASSUME NEW records \in Tasks, AllUnbound(records),
           NEW t \in Task, NEW record \in TaskRecord,
           record.control = records[t].control, Unbound(record)
    PROVE  LET new == [records EXCEPT ![t] = record]
           IN  /\ new \in Tasks
               /\ AllUnbound(new)
               /\ \A u \in Task : new[u].control = records[u].control
BY DEF Tasks, AllUnbound

LEMMA TaskWritten ==
    ASSUME tasks \in Tasks, AllUnbound(tasks),
           NEW t \in Task, NEW record \in TaskRecord,
           record.control = tasks[t].control, Unbound(record),
           tasks' = [tasks EXCEPT ![t] = record]
    PROVE  tasks' \in Tasks /\ AllUnbound(tasks)' /\ SameHands
BY DEF Tasks, AllUnbound, Unbound, SameHands

(* The uncertain calls of a Task change, and nothing else of it. *)
LEMMA DoubtedOK ==
    ASSUME tasks \in Tasks, sess \in Sessions, AllUnbound(tasks),
           NEW s \in Session, NEW c \in Call
    PROVE  /\ Doubted(s, c) \in Tasks
           /\ AllUnbound(Doubted(s, c))
           /\ \A t \in Task : Doubted(s, c)[t].control = tasks[t].control
BY DEF Doubted, Tasks, TaskRecord, AllUnbound, Unbound, Sessions, SessionRecord

-----------------------------------------------------------------------------
(* The locks. *)

(* A pass ends, and its owner with it. *)
LEMMA ReturnsControl ==
    ASSUME ControlOK, pass # NoPass, PassReturns, UNCHANGED asked
    PROVE  ControlOK' /\ NoneReserved
<1>1. dlock \in Proc
  BY DEF ControlOK, LocksAreHeld
<1>2. CASE dlock = Monitor
  <2>1. mon' = "observe" /\ req' = req /\ pass' = NoPass /\ dlock' = Free /\ pass'.pc = "none"
    BY <1>2 DEF PassReturns, NoPass
  <2>2. mlock' \in Proc \cup {Free} /\ (mlock' = Free \/ (mlock' = mlock /\ mlock # dlock))
    BY <1>2 DEF PassReturns, ControlOK
  <2>3. \A r \in Request : req[r].pc # "pass" /\ r # Free
    BY <1>2, DispatchAssumption DEF ControlOK, LocksAreHeld
  <2>4. mlock' # Free => /\ mlock' \in Request
                         /\ req[mlock'].kind = "abort" /\ req[mlock'].pc \in {"queue", "pass"}
    BY <2>2 DEF ControlOK, LocksAreHeld
  <2>5. LocksAreHeld'
    BY <2>1, <2>3, <2>4, DispatchAssumption DEF LocksAreHeld, Prompted
  <2>6. NoneReserved
    BY <2>1 DEF NoneReserved, Reserved
  <2> QED
    BY <2>1, <2>2, <2>5, <2>6 DEF ControlOK
<1>3. CASE dlock # Monitor
  <2>1. dlock \in Request
    BY <1>1, <1>3 DEF Proc
  <2>2. /\ mon' = mon /\ req' = [req EXCEPT ![dlock] = Idle]
        /\ pass' = NoPass /\ dlock' = Free /\ pass'.pc = "none"
    BY <1>3 DEF PassReturns, NoPass
  <2>3. mlock' \in Proc \cup {Free} /\ (mlock' = Free \/ (mlock' = mlock /\ mlock # dlock))
    BY DEF PassReturns, ControlOK
  <2>4. mon # "pass"
    BY <1>3 DEF ControlOK, LocksAreHeld
  <2>5. /\ req' \in [Request -> {Idle} \cup Job]
        /\ req'[dlock].pc = "idle"
        /\ \A r \in Request \ {dlock} : req'[r] = req[r] /\ req[r].pc # "pass"
    BY <2>1, <2>2 DEF ControlOK, LocksAreHeld, Idle
  <2>a. mlock' # Free => /\ mlock' \in Request \ {dlock}
                         /\ req[mlock'].kind = "abort" /\ req[mlock'].pc \in {"queue", "pass"}
    BY <2>3 DEF ControlOK, LocksAreHeld
  <2>b. mlock' # Free => req'[mlock'].kind = "abort" /\ req'[mlock'].pc \in {"queue", "pass"}
    BY <2>a, <2>5
  <2>6. LocksAreHeld'
    BY <2>1, <2>2, <2>4, <2>5, <2>a, <2>b, DispatchAssumption DEF LocksAreHeld, Prompted
  <2>7. NoneReserved
    BY <2>1, <2>2, <2>5 DEF NoneReserved, Reserved
  <2> QED
    BY <2>2, <2>3, <2>4, <2>5, <2>6, <2>7 DEF ControlOK
<1> QED
  BY <1>2, <1>3

(* A request answers before it has queued for the dispatch lock. *)
LEMMA FinishedControl ==
    ASSUME ControlOK, NEW r \in Request, req[r].pc = "prepare",
           Finished(r), UNCHANGED <<mlock, pass, mon, asked>>
    PROVE  ControlOK' /\ NoneReserved
<1>1. /\ req' \in [Request -> {Idle} \cup Job]
      /\ req'[r].pc = "idle"
      /\ \A o \in Request \ {r} : req'[o] = req[o]
  BY DEF ControlOK, Finished, Idle
<1>2. dlock' = dlock /\ dlock # r
  BY DEF ControlOK, LocksAreHeld, Finished
<1>3. mlock # r /\ r # Free
  BY <1>2, DispatchAssumption DEF ControlOK, LocksAreHeld
<1>4. LocksAreHeld'
  BY <1>1, <1>2, <1>3 DEF ControlOK, LocksAreHeld, Prompted
<1>5. NoneReserved
  BY <1>1 DEF NoneReserved, Reserved
<1> QED
  BY <1>1, <1>2, <1>4, <1>5 DEF ControlOK

(* A request queues for the dispatch lock; an abort keeps the mutation lock.*)
LEMMA QueuesControl ==
    ASSUME ControlOK, NEW r \in Request, req[r].pc = "prepare", Queues(r),
           \/ mlock' = mlock
           \/ mlock = Free /\ mlock' = r /\ req[r].kind = "abort",
           UNCHANGED <<dlock, pass, mon, asked>>
    PROVE  ControlOK' /\ NoneReserved
<1>1. req[r] \in Job
  BY DEF ControlOK, Idle
<1>2. /\ req' \in [Request -> {Idle} \cup Job]
      /\ req'[r].pc = "queue" /\ req'[r].kind = req[r].kind /\ req'[r].task = req[r].task
      /\ \A o \in Request \ {r} : req'[o] = req[o]
  BY <1>1 DEF ControlOK, Queues, Job
<1>3. dlock # r
  BY DEF ControlOK, LocksAreHeld
<1>4. mlock # r /\ r # Free
  BY <1>3, DispatchAssumption DEF ControlOK, LocksAreHeld
<1>a. mlock' # Free /\ ~(Prompted /\ mlock = dlock) =>
         /\ mlock' \in Request
         /\ req'[mlock'].kind = "abort" /\ req'[mlock'].pc \in {"queue", "pass"}
  <2>1. CASE mlock' = mlock
    BY <1>2, <1>4, <2>1 DEF ControlOK, LocksAreHeld
  <2>2. CASE mlock' = r /\ req[r].kind = "abort"
    BY <1>2, <2>2
  <2> QED
    BY <2>1, <2>2
<1>b. Prompted => mlock' = dlock
  BY <1>4, DispatchAssumption DEF ControlOK, LocksAreHeld, Prompted, NoPass
<1>5. LocksAreHeld'
  BY <1>2, <1>3, <1>4, <1>a, <1>b DEF ControlOK, LocksAreHeld, Prompted
<1>6. NoneReserved
  BY <1>2 DEF NoneReserved, Reserved
<1> QED
  BY <1>2, <1>5, <1>6 DEF ControlOK, Proc

(* A pass goes from one place to another without touching a lock. *)
LEMMA GoesControl ==
    ASSUME ControlOK, pass # NoPass, pass' \in Visiting \cup Serving,
           ~Prompted, pass'.pc \notin {"remark", "mark"},
           UNCHANGED <<mlock, dlock, mon, req, asked>>
    PROVE  ControlOK'
<1>1. pass' # NoPass
  BY DEF Visiting, Serving, NoPass
<1>2. LocksAreHeld'
  BY <1>1 DEF ControlOK, LocksAreHeld, Prompted
<1> QED
  BY <1>2 DEF ControlOK

(* A prompt is given: its sender takes the mutation lock, or has it. *)
LEMMA RecordsControl ==
    ASSUME ControlOK, NEW pc \in {"remark", "mark"}, Records(pc), UNCHANGED asked,
           MutexFor(dlock), pass \in Serving, pc = "mark" => pass.pc = "send"
    PROVE  ControlOK' /\ NoneReserved
<1>1. pass' \in Serving /\ pass'.pc = pc /\ pass'.task = pass.task
  BY DEF Records, Serving
<1>2. pass # NoPass /\ pass' # NoPass
  BY <1>1 DEF Serving, NoPass
<1>3. dlock # Free /\ mlock' = dlock /\ dlock' = dlock /\ mon' = mon /\ req' = req
  BY <1>2 DEF Records, ControlOK, LocksAreHeld
<1>4. LocksAreHeld'
  BY <1>1, <1>2, <1>3 DEF ControlOK, LocksAreHeld, Prompted
<1>5. NoneReserved
  BY <1>1, <1>3 DEF NoneReserved, Reserved
<1> QED
  BY <1>1, <1>3, <1>4, <1>5 DEF ControlOK

(* With the record made the lock goes back, unless it is an abort's. *)
LEMMA RecordedControl ==
    ASSUME ControlOK, Prompted, NEW phase \in {"recover", "assign"}, Recorded(phase),
           UNCHANGED asked
    PROVE  ControlOK' /\ NoneReserved
<1>1. pass \in Serving
  BY PassKinds DEF ControlOK, Prompted
<1>2. pass' \in Visiting /\ pass'.pc = phase
  BY <1>1 DEF Recorded, Returns, Serving, Visiting
<1>3. pass # NoPass /\ pass' # NoPass
  BY <1>1, <1>2 DEF Serving, Visiting, NoPass
<1>4. mlock = dlock /\ dlock \in Proc
  BY <1>3 DEF ControlOK, LocksAreHeld
<1>5. /\ mlock' \in Proc \cup {Free}
      /\ mlock' # Free => /\ mlock' = mlock /\ mlock \in Request
                          /\ req[mlock].kind = "abort" /\ req[mlock].pc = "pass"
  BY <1>4 DEF Recorded, ControlOK, LocksAreHeld, Proc
<1>6. dlock' = dlock /\ mon' = mon /\ req' = req
  BY DEF Recorded
<1>7. LocksAreHeld'
  BY <1>2, <1>3, <1>5, <1>6 DEF ControlOK, LocksAreHeld, Prompted
<1>8. NoneReserved
  BY <1>2, <1>6 DEF NoneReserved, Reserved
<1> QED
  BY <1>2, <1>5, <1>6, <1>7, <1>8 DEF ControlOK

-----------------------------------------------------------------------------
(* Requests. *)

(* Work goes on that was the workspace's, and no Task changes hands. *)
LEMMA WorkKept ==
    ASSUME WorkIsOwn, NoneReserved, SameHands
    PROVE  WorkIsOwn'
BY DEF WorkIsOwn, NoneReserved, SameHands

LEMMA SubmitOK ==
    ASSUME IInv, NEW r \in Request, NEW kind \in {"start", "abort", "edit"}, NEW t \in Task,
           Submit(r, kind, t)
    PROVE  IInv'
<1>1. HubOK'
  BY DEF IInv, HubOK, Submit, hub, AllUnbound
<1>2. PICK pc \in {"prepare", "queue"} :
        req' = [req EXCEPT ![r] = [pc |-> pc, kind |-> kind, task |-> t]]
  BY DEF Submit
<1>3. /\ req' \in [Request -> {Idle} \cup Job]
      /\ req'[r].pc = pc /\ req'[r].task = t
      /\ \A o \in Request \ {r} : req'[o] = req[o]
  BY <1>2 DEF IInv, ControlOK, Job
<1>4. /\ mlock = Free /\ mlock' = mlock /\ dlock' = dlock /\ pass' = pass /\ mon' = mon
      /\ req[r].pc = "idle" /\ tasks[t].control = "workspace" /\ tasks' = tasks
  BY DEF Submit, hub
<1>5. asked' \in 0 .. MaxRequests
  BY DispatchAssumption DEF Submit, IInv, ControlOK
<1>6. LocksAreHeld'
  BY <1>2, <1>3, <1>4 DEF IInv, ControlOK, LocksAreHeld, Prompted
<1>7. ControlOK'
  BY <1>3, <1>4, <1>5, <1>6 DEF IInv, ControlOK
<1>8. WorkIsOwn'
  BY <1>3, <1>4 DEF IInv, WorkIsOwn, Reserved
<1> QED
  BY <1>1, <1>7, <1>8 DEF IInv

(* The Task of a request is the workspace's. *)
LEMMA RequestOwn ==
    ASSUME IInv, NEW r \in Request, req[r].pc # "idle"
    PROVE  req[r].task \in Task /\ tasks[req[r].task].control = "workspace"
<1>1. req[r] \in Job
  BY DEF IInv, ControlOK, Idle
<1> QED
  BY <1>1 DEF Job, IInv, WorkIsOwn, Reserved

LEMMA StartTaskOK ==
    ASSUME IInv, NEW r \in Request, StartTask(r)
    PROVE  IInv'
<1> DEFINE t == req[r].task
<1>1. /\ req[r].pc = "prepare"
      /\ UNCHANGED <<mlock, pass, mon, asked>>
  BY DEF StartTask
<1>2. t \in Task /\ tasks[t].control = "workspace"
  BY <1>1, RequestOwn
<1>3. CASE Finished(r) /\ UNCHANGED <<hub, faults>>
  <2>1. HubOK' /\ SameHands
    BY <1>3 DEF IInv, HubOK, hub, AllUnbound, SameHands
  <2>2. ControlOK' /\ NoneReserved
    BY <1>1, <1>3, FinishedControl DEF IInv
  <2> QED
    BY <2>1, <2>2, WorkKept DEF IInv
<1>4. CASE ~(Finished(r) /\ UNCHANGED <<hub, faults>>)
  <2>1. PICK named \in BOOLEAN, s \in Session :
          /\ tasks' = [tasks EXCEPT ![t] = [@ EXCEPT !.status = "queued", !.session = s,
                                                     !.attempt = tasks[t].attempt + 1, !.pinned = named]]
          /\ tasks[t].attempt < MaxAttempt
          /\ UNCHANGED sess
          /\ \/ Saved /\ Queues(r) /\ UNCHANGED <<dlock, faults>>
             \/ Unsaved /\ Finished(r)
    BY <1>4 DEF StartTask, Targets
  <2>2. tasks[t].attempt + 1 \in 0 .. MaxAttempt
    BY <1>2, <2>1, DispatchAssumption DEF IInv, HubOK, Tasks, TaskRecord
  <2> DEFINE record == [tasks[t] EXCEPT !.status = "queued", !.session = s,
                                        !.attempt = tasks[t].attempt + 1, !.pinned = named]
  <2>3. record \in TaskRecord /\ record.control = tasks[t].control
    <3>1. tasks[t] \in TaskRecord
      BY <1>2 DEF IInv, HubOK, Tasks
    <3>2. s \in Session \cup {NoSession} /\ "queued" \in Status
      BY DEF Status
    <3> HIDE DEF t
    <3> QED
      BY <2>2, <3>1, <3>2 DEF TaskRecord
  <2>4. tasks' \in Tasks /\ SameHands /\ AllUnbound(tasks)'
    <3>1. tasks' = [tasks EXCEPT ![t] = record]
      <4> HIDE DEF t
      <4> QED
        BY <2>1, Zenon
    <3> HIDE DEF record, t
    <3> QED
      BY <1>2, <2>3, <3>1, TaskWritten DEF IInv, HubOK, Unbound
  <2>5. HubOK'
    BY <2>1, <2>4, SaveOK DEF IInv, HubOK
  <2>6. ControlOK' /\ NoneReserved
    BY <1>1, <2>1, FinishedControl, QueuesControl DEF IInv
  <2> QED
    BY <2>4, <2>5, <2>6, WorkKept DEF IInv
<1> QED
  BY <1>3, <1>4

LEMMA ReleasedType ==
    ASSUME HubOK, NEW t \in Task
    PROVE  Released(t) \in Sessions
<1> DEFINE s == tasks[t].session
           record == [sess[s] EXCEPT !.task = NoTask, !.run = "idle"]
<1>1. CASE s # NoSession
  <2>1. s \in Session
    BY <1>1 DEF HubOK, Tasks, TaskRecord
  <2>2. record \in SessionRecord
    BY <2>1 DEF HubOK, Sessions, SessionRecord
  <2>3. Released(t) \in {[sess EXCEPT ![s] = record], sess}
    BY DEF Released
  <2> QED
    BY <2>1, <2>2, <2>3 DEF HubOK, Sessions
<1>2. CASE s = NoSession
  BY <1>2 DEF HubOK, Released
<1> QED
  BY <1>1, <1>2

LEMMA AbortTaskOK ==
    ASSUME IInv, NEW r \in Request, AbortTask(r)
    PROVE  IInv'
<1> DEFINE t == req[r].task
           record == [tasks[t] EXCEPT !.status = "todo", !.session = NoSession,
                                      !.pinned = FALSE]
           aborted == [tasks EXCEPT ![t] = record]
<1>1. /\ req[r].pc = "prepare" /\ req[r].kind = "abort" /\ mlock = Free
      /\ UNCHANGED <<pass, mon, asked>>
  BY DEF AbortTask
<1>2. t \in Task /\ tasks[t].control = "workspace"
  BY <1>1, RequestOwn
<1>3. aborted \in Tasks /\ AllUnbound(aborted)
      /\ \A u \in Task : aborted[u].control = tasks[u].control
  <2>1. record \in TaskRecord /\ record.control = tasks[t].control
    <3>1. tasks[t] \in TaskRecord
      BY <1>2 DEF IInv, HubOK, Tasks
    <3> HIDE DEF t
    <3> QED
      BY <3>1 DEF TaskRecord, Status
  <2> HIDE DEF record
  <2> QED
    BY <1>2, <2>1, TaskWrite DEF IInv, HubOK, Unbound
<1>4. \/ Commits(aborted, Released(t)) \/ RollsBack(aborted, Released(t))
      \/ UNCHANGED <<hub, faults>>
  BY DEF AbortTask
<1>5. HubOK'
  <2>1. CASE UNCHANGED <<hub, faults>>
    BY <2>1 DEF IInv, HubOK, hub, AllUnbound
  <2> QED
    BY <1>2, <1>3, <1>4, <2>1, ReleasedType, CommitOK DEF IInv
<1>6. SameHands
  BY <1>3, <1>4 DEF SameHands, Commits, RollsBack, hub
<1>7. ControlOK' /\ NoneReserved
  <2>1. \/ mlock' = r /\ Queues(r) /\ UNCHANGED dlock
        \/ Finished(r) /\ UNCHANGED mlock
    BY DEF AbortTask
  <2> QED
    BY <1>1, <2>1, FinishedControl, QueuesControl DEF IInv
<1> QED
  BY <1>5, <1>6, <1>7, WorkKept DEF IInv

LEMMA EditTaskOK ==
    ASSUME IInv, NEW r \in Request, NEW to \in EditTo, EditTask(r, to)
    PROVE  IInv'
<1> DEFINE t == req[r].task
           edited == /\ tasks' = [tasks EXCEPT ![t].status = to]
                     /\ sess' = CASE to = "done" -> Released(t)
                                  [] to = "working" /\ tasks[t].session # NoSession ->
                                       [sess EXCEPT ![tasks[t].session].task = t]
                                  [] OTHER -> sess
<1>1. /\ req[r].pc = "prepare"
      /\ UNCHANGED <<mlock, pass, mon, asked>>
  BY DEF EditTask
<1>2. t \in Task /\ tasks[t].control = "workspace"
  BY <1>1, RequestOwn
<1>3. CASE Finished(r) /\ UNCHANGED hub /\ Fault
  <2>1. HubOK' /\ SameHands
    BY <1>3, DispatchAssumption DEF IInv, HubOK, hub, AllUnbound, SameHands, Fault
  <2>2. ControlOK' /\ NoneReserved
    BY <1>1, <1>3, FinishedControl DEF IInv
  <2> QED
    BY <2>1, <2>2, WorkKept DEF IInv
<1>4. CASE ~(Finished(r) /\ UNCHANGED hub /\ Fault)
  <2>1. /\ edited
        /\ \/ Saved /\ Queues(r) /\ UNCHANGED <<dlock, faults>>
           \/ Unsaved /\ Finished(r)
    BY <1>4 DEF EditTask
  <2>2. tasks' \in Tasks /\ AllUnbound(tasks)' /\ SameHands
    <3> DEFINE record == [tasks[t] EXCEPT !.status = to]
    <3>1. record \in TaskRecord /\ record.control = tasks[t].control
      <4>1. tasks[t] \in TaskRecord
        BY <1>2 DEF IInv, HubOK, Tasks
      <4>2. to \in Status
        BY DispatchAssumption
      <4> HIDE DEF t
      <4> QED
        BY <4>1, <4>2 DEF TaskRecord
    <3>2. tasks' = [tasks EXCEPT ![t] = record]
      BY <2>1
    <3> HIDE DEF record
    <3> QED
      BY <1>2, <3>1, <3>2, TaskWritten DEF IInv, HubOK, Unbound
  <2>3. sess' \in Sessions
    <3>1. sess' \in {Released(t), [sess EXCEPT ![tasks[t].session].task = t], sess}
      BY <2>1
    <3>2. tasks[t].session # NoSession => tasks[t].session \in Session
      BY <1>2 DEF IInv, HubOK, Tasks, TaskRecord
    <3>3. [sess EXCEPT ![tasks[t].session].task = t] \in Sessions
      BY <1>2, <3>2 DEF IInv, HubOK, Sessions, SessionRecord
    <3> QED
      BY <1>2, <3>1, <3>3, ReleasedType DEF IInv, HubOK
  <2>4. HubOK'
    BY <2>1, <2>2, <2>3, SaveOK DEF IInv
  <2>5. ControlOK' /\ NoneReserved
    BY <1>1, <2>1, FinishedControl, QueuesControl DEF IInv
  <2> QED
    BY <2>2, <2>4, <2>5, WorkKept DEF IInv
<1> QED
  BY <1>3, <1>4

LEMMA RequestPassOK ==
    ASSUME IInv, NEW r \in Request, RequestPass(r)
    PROVE  IInv'
<1>1. HubOK' /\ SameHands
  BY DEF RequestPass, IInv, HubOK, hub, AllUnbound, SameHands
<1>2. /\ pass' \in Visiting /\ pass'.pc = "recover" /\ pass' # NoPass
  BY DEF RequestPass, Begins, Visiting, IInv, HubOK, Sessions, NoPass
<1>3. req[r] \in Job
  BY DEF IInv, ControlOK, Idle, RequestPass
<1>4. /\ req' \in [Request -> {Idle} \cup Job]
      /\ req'[r].pc = "pass" /\ req'[r].kind = req[r].kind /\ req'[r].task = req[r].task
      /\ \A o \in Request \ {r} : req'[o] = req[o]
  BY <1>3 DEF IInv, ControlOK, RequestPass, Job
<1>5. /\ dlock = Free /\ dlock' = r /\ UNCHANGED <<mlock, mon, asked>> /\ req[r].pc = "queue"
      /\ pass = NoPass
  BY DEF RequestPass, IInv, ControlOK, LocksAreHeld
<1>6. mlock # Free => /\ mlock \in Request /\ req[mlock].kind = "abort"
                      /\ req[mlock].pc \in {"queue", "pass"}
  BY <1>5 DEF IInv, ControlOK, LocksAreHeld
<1>7. LocksAreHeld'
  BY <1>2, <1>4, <1>5, <1>6, DispatchAssumption DEF IInv, ControlOK, LocksAreHeld, Prompted
<1>8. ControlOK'
  BY <1>2, <1>4, <1>5, <1>7 DEF IInv, ControlOK, Proc
<1>9. NoneReserved
  BY <1>2, <1>4, <1>5 DEF NoneReserved, Reserved
<1> QED
  BY <1>1, <1>8, <1>9, WorkKept DEF IInv

-----------------------------------------------------------------------------
(* The pass. *)

(* What is at hand while a pass serves a Task. *)
LEMMA ServingType ==
    ASSUME IInv, pass.pc \in {"resend", "remark", "reserve", "rename", "prepare", "claim", "send", "mark"}
    PROVE  /\ pass \in Serving /\ pass # NoPass
           /\ pass.task \in Task /\ pass.at \in Session /\ pass.was \in Status /\ pass.call \in Call
           /\ pass.snap \in Sessions /\ pass.todo \in SUBSET Session
           /\ dlock \in Proc
           /\ pass.pc \in {"rename", "prepare", "claim", "send", "mark"} =>
                 tasks[pass.task].control = "workspace"
<1>1. pass \in Serving /\ pass # NoPass
  BY PassKinds DEF IInv, ControlOK, NoPass
<1>2. /\ pass.task \in Task /\ pass.at \in Session /\ pass.was \in Status /\ pass.call \in Call
      /\ pass.snap \in Sessions /\ pass.todo \in SUBSET Session
  BY <1>1 DEF Serving, Sessions
<1>3. dlock \in Proc
  BY <1>1 DEF IInv, ControlOK, LocksAreHeld
<1>4. pass.pc \in {"rename", "prepare", "claim", "send", "mark"} =>
         tasks[pass.task].control = "workspace"
  BY <1>2 DEF IInv, WorkIsOwn, Reserved
<1> QED
  BY <1>1, <1>2, <1>3, <1>4

(* What is at hand while it visits sessions. *)
LEMMA VisitingType ==
    ASSUME IInv, pass.pc \in {"recover", "assign"}
    PROVE  /\ pass \in Visiting /\ pass # NoPass /\ ~Prompted
           /\ pass.snap \in Sessions /\ pass.todo \in SUBSET Session
           /\ dlock \in Proc
<1>1. pass \in Visiting /\ pass # NoPass /\ ~Prompted
  BY PassKinds DEF IInv, ControlOK, NoPass, Prompted
<1>2. pass.snap \in Sessions /\ pass.todo \in SUBSET Session
  BY <1>1 DEF Visiting, Sessions
<1>3. dlock \in Proc
  BY <1>1 DEF IInv, ControlOK, LocksAreHeld
<1> QED
  BY <1>1, <1>2, <1>3

(* The pass goes on to another session, or to a Task. *)
LEMMA PassedOK ==
    ASSUME IInv, pass.pc \in {"recover", "assign"}, NEW s \in Session, pass' = Passed(s)
    PROVE  pass' \in Visiting /\ pass'.pc \in {"recover", "assign"}
BY VisitingType DEF Passed, Visiting

LEMMA ServesOK ==
    ASSUME IInv, pass.pc \in {"recover", "assign"}, NEW s \in Session, NEW t \in Task,
           NEW pc \in {"resend", "reserve"}, Serves(s, t, pc)
    PROVE  pass' \in Serving /\ pass'.pc = pc /\ pass'.task = t
<1>1. CallOf(t) \in Call /\ tasks[t].status \in Status
  BY CallType DEF IInv, HubOK
<1>2. pass.snap \in [Session -> SessionRecord] /\ pass.todo \in SUBSET Session
  BY VisitingType DEF Sessions
<1> QED
  BY <1>1, <1>2 DEF Serves, Serving

LEMMA RecoverVisitOK ==
    ASSUME IInv, NEW s \in Session, RecoverVisit(s)
    PROVE  IInv'
<1>1. /\ pass.pc = "recover" /\ UNCHANGED <<hub, mlock, dlock, mon, req, asked, faults>>
      /\ pass # NoPass /\ ~Prompted
  BY VisitingType DEF RecoverVisit
<1>2. HubOK' /\ SameHands
  BY <1>1 DEF IInv, HubOK, hub, AllUnbound, SameHands
<1>3. /\ pass' \in Visiting \cup Serving
      /\ pass'.pc \in {"recover", "assign", "resend"}
  <2>1. CASE CutShort(s)
    <3>1. pass.snap[s].task \in Task
      <4>1. pass.snap[s].task \in Task \cup {NoTask}
        BY <1>1, VisitingType DEF Sessions, SessionRecord
      <4> QED
        BY <2>1, <4>1 DEF CutShort
    <3> QED
      BY <1>1, <2>1, <3>1, ServesOK DEF RecoverVisit
  <2>2. CASE ~CutShort(s)
    BY <1>1, <2>2, PassedOK DEF RecoverVisit
  <2> QED
    BY <2>1, <2>2
<1>4. ControlOK'
  BY <1>1, <1>3, GoesControl DEF IInv
<1>5. NoneReserved
  BY <1>1, <1>3 DEF NoneReserved, Reserved
<1> QED
  BY <1>2, <1>4, <1>5, WorkKept DEF IInv

LEMMA RecoverEndOK ==
    ASSUME IInv, RecoverEnd
    PROVE  IInv'
<1>1. /\ pass.pc = "recover" /\ UNCHANGED <<hub, mlock, dlock, mon, req, asked, faults>>
      /\ pass # NoPass /\ ~Prompted
  BY VisitingType DEF RecoverEnd
<1>2. HubOK' /\ SameHands
  BY <1>1 DEF IInv, HubOK, hub, AllUnbound, SameHands
<1>3. pass' \in Visiting /\ pass'.pc = "assign"
  BY DEF RecoverEnd, Begins, Visiting, IInv, HubOK, Sessions
<1>4. ControlOK'
  BY <1>1, <1>3, GoesControl DEF IInv
<1>5. NoneReserved
  BY <1>1, <1>3 DEF NoneReserved, Reserved
<1> QED
  BY <1>2, <1>4, <1>5, WorkKept DEF IInv

LEMMA AssignEndOK ==
    ASSUME IInv, AssignEnd
    PROVE  IInv'
<1>1. HubOK' /\ SameHands
  BY DEF AssignEnd, IInv, HubOK, hub, AllUnbound, SameHands
<1>2. ControlOK' /\ NoneReserved
  BY ReturnsControl, VisitingType DEF AssignEnd, IInv
<1> QED
  BY <1>1, <1>2, WorkKept DEF IInv

(* A queued Task that moves to another session is the workspace's. *)
LEMMA AssignVisitOK ==
    ASSUME IInv, NEW s \in Session, AssignVisit(s)
    PROVE  IInv'
<1>1. /\ pass.pc = "assign" /\ UNCHANGED <<sess, disk, mlock, dlock, mon, req, asked, faults>>
      /\ pass # NoPass /\ ~Prompted
  BY VisitingType DEF AssignVisit
<1>2. tasks' \in Tasks /\ AllUnbound(tasks)' /\ SameHands
  <2>1. CASE UNCHANGED tasks
    BY <2>1 DEF IInv, HubOK, AllUnbound, SameHands
  <2>2. ASSUME NEW t \in Reassignable(s),
               tasks' = [tasks EXCEPT ![t] = [@ EXCEPT !.session = s, !.pinned = FALSE]]
        PROVE  tasks' \in Tasks /\ AllUnbound(tasks)' /\ SameHands
    <3> DEFINE record == [tasks[t] EXCEPT !.session = s, !.pinned = FALSE]
    <3>1. t \in Task /\ tasks[t].control = "workspace"
      BY DEF Reassignable
    <3>2. tasks[t] \in TaskRecord
      BY <3>1 DEF IInv, HubOK, Tasks
    <3>3. record \in TaskRecord /\ record.control = tasks[t].control
      BY <3>2 DEF TaskRecord
    <3>4. tasks' = [tasks EXCEPT ![t] = record]
      BY <2>2
    <3> HIDE DEF record
    <3> QED
      BY <3>1, <3>3, <3>4, TaskWritten DEF IInv, HubOK, Unbound
  <2> QED
    BY <2>1, <2>2 DEF AssignVisit
<1>3. HubOK'
  BY <1>1, <1>2 DEF IInv, HubOK, AllUnbound
<1>4. /\ pass' \in Visiting \cup Serving
      /\ pass'.pc \in {"recover", "assign", "reserve"}
  <2>1. pass' = Passed(s) \/ \E t \in Task : Serves(s, t, "reserve")
    BY DEF AssignVisit, QueuedFor
  <2> QED
    BY <1>1, <2>1, PassedOK, ServesOK
<1>5. ControlOK'
  BY <1>1, <1>4, GoesControl DEF IInv
<1>6. NoneReserved
  BY <1>1, <1>4 DEF NoneReserved, Reserved
<1> QED
  BY <1>2, <1>3, <1>5, <1>6, WorkKept DEF IInv

(* A call moves in the outbox of a session. *)
LEMMA BoxType ==
    ASSUME sess \in Sessions, NEW s \in Session, NEW c \in Call, NEW box \in Standing
    PROVE  [sess EXCEPT ![s].box[c] = box] \in Sessions
<1> DEFINE record == [sess[s] EXCEPT !.box = [@ EXCEPT ![c] = box]]
<1>1. sess[s] \in SessionRecord /\ sess[s].box \in [Call -> Standing]
  BY DEF Sessions, SessionRecord
<1>2. [sess[s].box EXCEPT ![c] = box] \in [Call -> Standing]
  BY <1>1
<1>3. record \in SessionRecord
  BY <1>1, <1>2 DEF SessionRecord
<1>4. [sess EXCEPT ![s].box[c] = box] = [sess EXCEPT ![s] = record]
  BY <1>1
<1> QED
  BY <1>3, <1>4 DEF Sessions

LEMMA SendsOK ==
    ASSUME IInv, NEW box \in Standing, NEW raises \in BOOLEAN,
           pass.pc \in {"resend", "send"}, Sends(pass.at, pass.call, box, raises)
    PROVE  HubOK' /\ SameHands /\ MutexFor(dlock)
<1>1. pass.at \in Session /\ pass.call \in Call
  BY ServingType
<1>2. sess' = [sess EXCEPT ![pass.at].box[pass.call] = box] /\ MutexFor(dlock) /\ Saved
  BY DEF Sends
<1>3. sess' \in Sessions
  BY <1>1, <1>2, BoxType DEF IInv, HubOK
<1>4. tasks' = tasks \/ tasks' = Doubted(pass.at, pass.call)
  BY DEF Sends
<1>5. tasks' \in Tasks /\ AllUnbound(tasks)' /\ SameHands
  BY <1>1, <1>4, DoubtedOK DEF IInv, HubOK, AllUnbound, Unbound, SameHands
<1>6. disk' = [tasks |-> tasks', sess |-> sess'] /\ disk'.tasks = tasks'
  BY <1>2 DEF Saved
<1>7. faults' \in 0 .. MaxFaults
  BY DispatchAssumption DEF Sends, Fault, IInv, HubOK
<1> QED
  BY <1>2, <1>3, <1>5, <1>6, <1>7 DEF HubOK, AllUnbound

LEMMA ResendOK ==
    ASSUME IInv, NEW box \in Standing, NEW raises \in BOOLEAN, Resend(box, raises)
    PROVE  IInv'
<1>1. pass.pc = "resend" /\ UNCHANGED asked /\ pass \in Serving /\ pass # NoPass /\ ~Prompted
  BY ServingType DEF Resend, Prompted
<1>2. HubOK' /\ SameHands /\ MutexFor(dlock)
  BY <1>1, SendsOK DEF Resend
<1>3. ControlOK' /\ NoneReserved
  <2>1. CASE Records("remark")
    BY <1>1, <1>2, <2>1, RecordsControl DEF IInv
  <2>2. CASE pass' = Returns("recover") /\ UNCHANGED <<mlock, dlock, mon, req>>
    <3>1. pass' \in Visiting /\ pass'.pc = "recover"
      BY <1>1, <2>2 DEF Returns, Serving, Visiting
    <3>2. ControlOK'
      BY <1>1, <2>2, <3>1, GoesControl DEF IInv
    <3> QED
      BY <2>2, <3>1, <3>2 DEF NoneReserved, Reserved
  <2>3. CASE PassReturns
    BY <1>1, <2>3, ReturnsControl DEF IInv
  <2> QED
    BY <2>1, <2>2, <2>3 DEF Resend
<1> QED
  BY <1>2, <1>3, WorkKept DEF IInv

LEMMA SendOK ==
    ASSUME IInv, NEW box \in Standing, NEW raises \in BOOLEAN, Send(box, raises)
    PROVE  IInv'
<1>1. pass.pc = "send" /\ UNCHANGED asked /\ pass \in Serving /\ pass # NoPass
  BY ServingType DEF Send
<1>2. HubOK' /\ SameHands /\ MutexFor(dlock)
  BY <1>1, SendsOK DEF Send
<1>3. ControlOK' /\ NoneReserved
  BY <1>1, <1>2, RecordsControl, ReturnsControl DEF Send, IInv
<1> QED
  BY <1>2, <1>3, WorkKept DEF IInv

(* The record of a prompt is saved, or raises. *)
LEMMA RecordOK ==
    ASSUME IInv, Prompted, NEW phase \in {"recover", "assign"}, NEW record \in TaskRecord,
           tasks[pass.task].control = "workspace",
           record.control = "workspace",
           tasks' = [tasks EXCEPT ![pass.task] = record],
           \/ Saved /\ Recorded(phase) /\ UNCHANGED faults
           \/ Unsaved /\ PassReturns,
           UNCHANGED <<sess, asked>>
    PROVE  IInv'
<1>1. pass.task \in Task /\ pass # NoPass
  BY ServingType DEF Prompted
<1>2. tasks' \in Tasks /\ AllUnbound(tasks)' /\ SameHands
  BY <1>1, TaskWritten DEF IInv, HubOK, Unbound
<1>3. HubOK'
  BY <1>2, SaveOK DEF IInv, HubOK
<1>4. ControlOK' /\ NoneReserved
  BY <1>1, RecordedControl, ReturnsControl DEF IInv
<1> QED
  BY <1>2, <1>3, <1>4, WorkKept DEF IInv

(* There is nothing to record. *)
LEMMA NoRecordOK ==
    ASSUME IInv, Prompted, NEW phase \in {"recover", "assign"}, Recorded(phase),
           UNCHANGED <<tasks, sess, disk, asked, faults>>
    PROVE  IInv'
<1>1. HubOK' /\ SameHands
  BY DEF IInv, HubOK, AllUnbound, SameHands
<1>2. ControlOK' /\ NoneReserved
  BY RecordedControl DEF IInv
<1> QED
  BY <1>1, <1>2, WorkKept DEF IInv

LEMMA RemarkOK ==
    ASSUME IInv, Remark
    PROVE  IInv'
<1> DEFINE t == pass.task
           record == [tasks[t] EXCEPT !.status = "working", !.session = pass.at]
<1>1. /\ Prompted /\ UNCHANGED <<sess, asked>>
      /\ t \in Task /\ pass.at \in Session
  BY ServingType DEF Remark, Prompted
<1>2. CASE tasks[t].status = "queued" /\ tasks[t].session \in {NoSession, pass.at}
  <2>1. tasks[t] \in TaskRecord /\ tasks[t].control = "workspace"
    BY <1>1, <1>2 DEF IInv, HubOK, Tasks, AllUnbound, Unbound
  <2>2. /\ tasks' = [tasks EXCEPT ![t] = record]
        /\ \/ Saved /\ Recorded("recover") /\ UNCHANGED faults
           \/ Unsaved /\ PassReturns
    BY <1>2 DEF Remark
  <2>3. record \in TaskRecord /\ record.control = "workspace"
    <3> HIDE DEF t
    <3> QED
      BY <1>1, <2>1 DEF TaskRecord, Status
  <2> HIDE DEF record
  <2> QED
    BY <1>1, <2>1, <2>2, <2>3, RecordOK
<1>3. CASE ~(tasks[t].status = "queued" /\ tasks[t].session \in {NoSession, pass.at})
  BY <1>1, <1>3, NoRecordOK DEF Remark
<1> QED
  BY <1>2, <1>3

LEMMA MarkOK ==
    ASSUME IInv, Mark
    PROVE  IInv'
<1> DEFINE t == pass.task
           record == [tasks[t] EXCEPT !.status = "working"]
<1>1. /\ Prompted /\ UNCHANGED <<sess, asked>>
      /\ t \in Task /\ tasks[t].control = "workspace"
  BY ServingType DEF Mark, Prompted
<1>2. CASE tasks[t].status = pass.was /\ tasks[t].session = pass.at
  <2>1. tasks[t] \in TaskRecord
    BY <1>1 DEF IInv, HubOK, Tasks
  <2>2. /\ tasks' = [tasks EXCEPT ![t] = record]
        /\ \/ Saved /\ Recorded("assign") /\ UNCHANGED faults
           \/ Unsaved /\ PassReturns
    BY <1>2 DEF Mark
  <2>3. record \in TaskRecord /\ record.control = "workspace"
    <3> HIDE DEF t
    <3> QED
      BY <1>1, <2>1 DEF TaskRecord, Status
  <2> HIDE DEF record
  <2> QED
    BY <1>1, <2>1, <2>2, <2>3, RecordOK
<1>3. CASE ~(tasks[t].status = pass.was /\ tasks[t].session = pass.at)
  BY <1>1, <1>3, NoRecordOK DEF Mark
<1> QED
  BY <1>2, <1>3

(* The Task is found to be the workspace's when it is reserved. *)
LEMMA ReserveOK ==
    ASSUME IInv, Reserve
    PROVE  IInv'
<1>1. /\ pass.pc = "reserve" /\ UNCHANGED <<hub, asked, faults>>
      /\ pass \in Serving /\ pass # NoPass /\ ~Prompted
  BY ServingType DEF Reserve, Prompted
<1>2. HubOK' /\ SameHands
  BY <1>1 DEF IInv, HubOK, hub, AllUnbound, SameHands
<1>3. CASE tasks[pass.task].control = "workspace" /\ Goes("rename") /\ UNCHANGED <<dlock, mlock, mon, req>>
  <2>1. pass' \in Serving /\ pass'.pc = "rename" /\ pass'.task = pass.task
    BY <1>1, <1>3 DEF Goes, Serving
  <2>2. ControlOK'
    BY <1>1, <1>3, <2>1, GoesControl DEF IInv
  <2>3. WorkIsOwn'
    BY <1>1, <1>2, <1>3, <2>1 DEF IInv, WorkIsOwn, Reserved, SameHands
  <2> QED
    BY <1>2, <2>2, <2>3 DEF IInv
<1>4. CASE PassReturns
  <2>1. ControlOK' /\ NoneReserved
    BY <1>1, <1>4, ReturnsControl DEF IInv
  <2> QED
    BY <1>2, <2>1, WorkKept DEF IInv
<1> QED
  BY <1>3, <1>4 DEF Reserve

LEMMA RenameOK ==
    ASSUME IInv, Rename
    PROVE  IInv'
<1>1. /\ pass.pc = "rename" /\ UNCHANGED <<tasks, disk, mlock, dlock, mon, req, asked, faults>>
      /\ pass \in Serving /\ pass # NoPass /\ ~Prompted
      /\ pass.at \in Session /\ pass.snap \in Sessions
  BY ServingType DEF Rename, Prompted
<1>2. sess' \in Sessions
  BY <1>1 DEF Rename, IInv, HubOK, Sessions
<1>3. HubOK' /\ SameHands
  BY <1>1, <1>2 DEF IInv, HubOK, AllUnbound, SameHands
<1>4. pass' \in Serving /\ pass'.pc = "prepare" /\ pass'.task = pass.task
  BY <1>1 DEF Rename, Goes, Serving
<1>5. ControlOK'
  BY <1>1, <1>4, GoesControl DEF IInv
<1>6. NoneReserved
  BY <1>1, <1>4 DEF NoneReserved, Reserved
<1> QED
  BY <1>3, <1>5, <1>6, WorkKept DEF IInv

LEMMA PrepareOK ==
    ASSUME IInv, Prepare
    PROVE  IInv'
<1>1. /\ pass.pc = "prepare" /\ UNCHANGED <<hub, asked>>
      /\ pass \in Serving /\ pass # NoPass /\ ~Prompted
  BY ServingType DEF Prepare, Prompted
<1>2. HubOK' /\ SameHands
  BY <1>1, DispatchAssumption DEF IInv, HubOK, hub, AllUnbound, SameHands, Prepare, Fault
<1>3. CASE Goes("claim") /\ UNCHANGED <<dlock, mlock, mon, req>>
  <2>1. pass' \in Serving /\ pass'.pc = "claim" /\ pass'.task = pass.task
    BY <1>1, <1>3 DEF Goes, Serving
  <2>2. ControlOK'
    BY <1>1, <1>3, <2>1, GoesControl DEF IInv
  <2>3. NoneReserved
    BY <1>1, <1>3, <2>1 DEF NoneReserved, Reserved
  <2> QED
    BY <1>2, <2>2, <2>3, WorkKept DEF IInv
<1>4. CASE PassReturns
  <2>1. ControlOK' /\ NoneReserved
    BY <1>1, <1>4, ReturnsControl DEF IInv
  <2> QED
    BY <1>2, <2>1, WorkKept DEF IInv
<1> QED
  BY <1>3, <1>4 DEF Prepare

LEMMA ClaimOK ==
    ASSUME IInv, Claim
    PROVE  IInv'
<1> DEFINE t == pass.task
           s == pass.at
           claimed == [tasks[t] EXCEPT !.session = s]
           bound == [sess[s] EXCEPT !.task = t, !.run = "working"]
<1>1. /\ pass.pc = "claim" /\ UNCHANGED asked
      /\ pass \in Serving /\ pass # NoPass /\ ~Prompted
      /\ t \in Task /\ s \in Session /\ tasks[t].control = "workspace"
  BY ServingType DEF Claim, Prompted
<1>2. tasks' \in Tasks /\ AllUnbound(tasks)' /\ SameHands
  <2>1. tasks[t] \in TaskRecord
    BY <1>1 DEF IInv, HubOK, Tasks
  <2>2. claimed \in TaskRecord /\ claimed.control = tasks[t].control
    BY <1>1, <2>1 DEF TaskRecord
  <2>3. tasks' = [tasks EXCEPT ![t] = claimed]
    BY DEF Claim
  <2> HIDE DEF claimed
  <2> QED
    BY <1>1, <2>2, <2>3, TaskWritten DEF IInv, HubOK, Unbound
<1>3. sess' \in Sessions
  <2>1. sess[s] \in SessionRecord
    BY <1>1 DEF IInv, HubOK, Sessions
  <2>2. bound \in SessionRecord
    BY <1>1, <2>1 DEF SessionRecord
  <2>3. sess' = [sess EXCEPT ![s] = bound]
    BY DEF Claim
  <2> HIDE DEF bound
  <2> QED
    BY <1>1, <2>2, <2>3 DEF IInv, HubOK, Sessions
<1>4. HubOK'
  BY <1>2, <1>3, SaveOK DEF IInv, Claim
<1>5. ControlOK' /\ NoneReserved
  <2>1. CASE PassReturns
    BY <1>1, <2>1, ReturnsControl DEF IInv
  <2>2. CASE /\ pass' = [pass EXCEPT !.pc = "send", !.was = tasks[t].status, !.call = CallOf(t)]
             /\ UNCHANGED <<mlock, dlock, mon, req, faults>>
    <3>1. CallOf(t) \in Call /\ tasks[t].status \in Status
      BY <1>1, CallType DEF IInv, HubOK
    <3>2. pass' \in Serving /\ pass'.pc = "send" /\ pass'.task = t
      BY <1>1, <2>2, <3>1 DEF Serving
    <3>3. ControlOK'
      BY <1>1, <2>2, <3>2, GoesControl DEF IInv
    <3> QED
      BY <1>1, <2>2, <3>2, <3>3 DEF NoneReserved, Reserved
  <2> QED
    BY <2>1, <2>2 DEF Claim
<1> QED
  BY <1>2, <1>4, <1>5, WorkKept DEF IInv

-----------------------------------------------------------------------------
(* The monitor. *)

LEMMA MonitorPassOK ==
    ASSUME IInv, MonitorPass
    PROVE  IInv'
<1>1. /\ UNCHANGED <<hub, mlock, req, asked, faults>>
      /\ dlock = Free /\ dlock' = Monitor /\ mon' = "pass" /\ pass = NoPass
  BY DEF MonitorPass, IInv, ControlOK, LocksAreHeld
<1>2. HubOK' /\ SameHands
  BY <1>1 DEF IInv, HubOK, hub, AllUnbound, SameHands
<1>3. pass' \in Visiting /\ pass'.pc = "recover" /\ pass' # NoPass
  BY DEF MonitorPass, Begins, Visiting, IInv, HubOK, Sessions, NoPass
<1>4. mlock # Free => /\ mlock \in Request /\ req[mlock].kind = "abort"
                      /\ req[mlock].pc \in {"queue", "pass"}
  BY <1>1 DEF IInv, ControlOK, LocksAreHeld
<1>5. \A r \in Request : req[r].pc # "pass" /\ r # Monitor
  BY <1>1, DispatchAssumption DEF IInv, ControlOK, LocksAreHeld
<1>6. LocksAreHeld'
  BY <1>1, <1>3, <1>4, <1>5, DispatchAssumption DEF LocksAreHeld, Prompted
<1>7. ControlOK'
  BY <1>1, <1>3, <1>6 DEF IInv, ControlOK, Proc
<1>8. NoneReserved
  BY <1>1, <1>3 DEF NoneReserved, Reserved
<1> QED
  BY <1>2, <1>7, <1>8, WorkKept DEF IInv

(* The monitor moves on outside its pass. *)
LEMMA MonitorMoves ==
    ASSUME IInv, mon # "pass", mon' \in {"due", "observe", "observed", "skipped"},
           UNCHANGED <<hub, mlock, dlock, pass, req, asked, faults>>
    PROVE  IInv'
<1>1. HubOK' /\ SameHands
  BY DEF IInv, HubOK, hub, AllUnbound, SameHands
<1>2. LocksAreHeld'
  BY DEF IInv, ControlOK, LocksAreHeld, Prompted
<1>3. ControlOK' /\ NoneReserved
  BY <1>2 DEF IInv, ControlOK, NoneReserved, Reserved
<1> QED
  BY <1>1, <1>3, WorkKept DEF IInv

LEMMA MonitorStepOK ==
    ASSUME IInv, MonitorStep
    PROVE  IInv'
<1>1. CASE MonitorRound
  BY <1>1, MonitorMoves DEF MonitorRound
<1>2. CASE MonitorPass
  BY <1>2, MonitorPassOK
<1>3. CASE DispatchTimeout
  <2>1. CASE mon = "due" /\ mon' = "observe" /\ UNCHANGED <<hub, mlock, dlock, pass, req, asked, faults>>
    BY <2>1, MonitorMoves
  <2>2. CASE /\ dlock = Monitor /\ PassReturns /\ UNCHANGED <<hub, asked>>
             /\ UNCHANGED faults \/ Fault
    <3>1. HubOK' /\ SameHands
      BY <2>2, DispatchAssumption DEF IInv, HubOK, hub, AllUnbound, SameHands, Fault
    <3>2. pass # NoPass
      BY <2>2, DispatchAssumption DEF IInv, ControlOK, LocksAreHeld
    <3>3. ControlOK' /\ NoneReserved
      BY <2>2, <3>2, ReturnsControl DEF IInv
    <3> QED
      BY <3>1, <3>3, WorkKept DEF IInv
  <2> QED
    BY <1>3, <2>1, <2>2 DEF DispatchTimeout
<1>4. CASE Observe
  BY <1>4, MonitorMoves DEF Observe
<1>5. CASE ObserveTimeout
  BY <1>5, MonitorMoves DEF ObserveTimeout
<1> QED
  BY <1>1, <1>2, <1>3, <1>4, <1>5 DEF MonitorStep

-----------------------------------------------------------------------------
(* Agents, executors and the process. *)

(* Locks and coroutines stay as they are. *)
LEMMA OutsideOK ==
    ASSUME IInv, HubOK', SameHands, ControlKept, asked' \in 0 .. MaxRequests
    PROVE  IInv'
<1>1. LocksAreHeld'
  BY DEF IInv, ControlOK, LocksAreHeld, Prompted, ControlKept
<1>2. ControlOK' /\ NoneReserved
  BY <1>1 DEF IInv, ControlOK, ControlKept, NoneReserved, Reserved
<1> QED
  BY <1>2, WorkKept DEF IInv

LEMMA PumpOK ==
    ASSUME IInv, NEW s \in Session, NEW c \in Call, Pump(s, c)
    PROVE  IInv'
<1>1. PICK box \in Standing : sess' = [sess EXCEPT ![s].box[c] = box]
  BY DEF Pump, Standing, InDoubt
<1>2. sess' \in Sessions
  BY <1>1, BoxType DEF IInv, HubOK
<1>3. tasks' = tasks \/ tasks' = Doubted(s, c)
  BY DEF Pump
<1>4. tasks' \in Tasks /\ AllUnbound(tasks)' /\ SameHands
  BY <1>3, DoubtedOK DEF IInv, HubOK, AllUnbound, Unbound, SameHands
<1>5. disk' = [tasks |-> tasks', sess |-> sess'] /\ disk'.tasks = tasks'
  BY DEF Pump, Saved
<1>6. faults' \in 0 .. MaxFaults
  BY DispatchAssumption DEF Pump, Fault, IInv, HubOK
<1>7. HubOK'
  BY <1>2, <1>4, <1>5, <1>6 DEF HubOK, AllUnbound
<1> QED
  BY <1>4, <1>7, OutsideOK DEF Pump, ControlKept, IInv, ControlOK

LEMMA ReportOK ==
    ASSUME IInv, NEW s \in Session, NEW t \in Task, NEW to \in {"working", "review"},
           Report(s, t, to)
    PROVE  IInv'
<1> DEFINE a == {c \in Call : c[1] = t /\ sess[s].box[c] \in {"processing", "uncertain"}}
           acked == a \cap {CallOf(t)}
           record == [tasks[t] EXCEPT !.status = to, !.doubt = tasks[t].doubt \ acked]
           reported == [tasks EXCEPT ![t] = record]
           box == [c \in Call |-> IF c \in acked THEN "delivered" ELSE sess[s].box[c]]
           owner == [task |-> t, box |-> box,
                     run  |-> IF to = "working" THEN "working" ELSE "idle"]
           bound == [sess EXCEPT ![s] = owner]
<1>1. /\ tasks[t].control = "workspace"
      /\ Commits(reported, bound) \/ RollsBack(reported, bound)
      /\ ControlKept /\ UNCHANGED asked
  BY DEF Report, ControlKept
<1>2. /\ reported \in Tasks /\ AllUnbound(reported)
      /\ \A u \in Task : reported[u].control = tasks[u].control
  <2>1. tasks[t] \in TaskRecord
    BY DEF IInv, HubOK, Tasks
  <2> HIDE DEF acked
  <2>2. record \in TaskRecord /\ record.control = tasks[t].control
    BY <2>1 DEF TaskRecord, Status
  <2> HIDE DEF record, a
  <2>3. Unbound(record) /\ tasks \in Tasks /\ AllUnbound(tasks)
    BY <1>1, <2>2 DEF IInv, HubOK, Unbound
  <2> QED
    BY <2>2, <2>3, TaskWrite
<1>3. bound \in Sessions
  <2>1. sess[s].box \in [Call -> Standing]
    BY DEF IInv, HubOK, Sessions, SessionRecord
  <2> HIDE DEF acked
  <2>2. box \in [Call -> Standing]
    BY <2>1 DEF Standing
  <2> HIDE DEF box
  <2>3. owner \in SessionRecord
    BY <2>2 DEF SessionRecord
  <2> HIDE DEF owner
  <2> QED
    BY <2>3 DEF IInv, HubOK, Sessions
<1> HIDE DEF reported, bound
<1>4. HubOK'
  BY <1>1, <1>2, <1>3, CommitOK DEF IInv
<1>5. SameHands
  BY <1>1, <1>2 DEF SameHands, Commits, RollsBack
<1> QED
  BY <1>1, <1>4, <1>5, OutsideOK DEF IInv, ControlOK

LEMMA AgentChangesOK ==
    ASSUME IInv, NEW s \in Session, NEW run \in {"idle", "stopped"}, AgentChanges(s, run)
    PROVE  IInv'
<1>1. sess' \in Sessions
  BY DEF AgentChanges, IInv, HubOK, Sessions, SessionRecord
<1>2. tasks' = tasks /\ disk' = [tasks |-> tasks', sess |-> sess'] /\ disk'.tasks = tasks'
  BY DEF AgentChanges, Saved
<1>3. faults' \in 0 .. MaxFaults
  BY DispatchAssumption DEF AgentChanges, Fault, IInv, HubOK
<1>4. HubOK' /\ SameHands
  BY <1>1, <1>2, <1>3 DEF IInv, HubOK, AllUnbound, SameHands
<1> QED
  BY <1>4, OutsideOK DEF AgentChanges, ControlKept, IInv, ControlOK

(* Only a Task that nobody works on changes hands. *)
LEMMA HandoffOK ==
    ASSUME IInv, NEW t \in Task, NEW to \in {"workspace", "initiator"}, Handoff(t, to)
    PROVE  IInv'
<1> DEFINE record == [tasks[t] EXCEPT !.control = to, !.status = "todo",
                                      !.session = NoSession, !.pinned = FALSE]
           handed == [tasks EXCEPT ![t] = record]
<1>1. /\ Commits(handed, sess) \/ RollsBack(handed, sess)
      /\ asked < MaxRequests /\ asked' = asked + 1 /\ ControlKept
      /\ tasks[t].control = "workspace" => ~Reserved(t)
  BY DEF Handoff, Quiescent, ControlKept
<1>2. record \in TaskRecord /\ Unbound(record)
  <2>1. tasks[t] \in TaskRecord
    BY DEF IInv, HubOK, Tasks
  <2> QED
    BY <2>1 DEF TaskRecord, Status, Unbound
<1>3. /\ handed \in Tasks /\ AllUnbound(handed)
      /\ \A u \in Task \ {t} : handed[u] = tasks[u]
  <2> HIDE DEF record
  <2> QED
    BY <1>2 DEF IInv, HubOK, Tasks, AllUnbound
<1> HIDE DEF record, handed
<1>4. HubOK'
  BY <1>1, <1>3, CommitOK DEF IInv, HubOK
<1>5. asked' \in 0 .. MaxRequests
  BY <1>1, DispatchAssumption DEF IInv, ControlOK
<1>6. LocksAreHeld'
  BY <1>1 DEF IInv, ControlOK, LocksAreHeld, Prompted, ControlKept
<1>7. ControlOK' /\ NoneReserved
  BY <1>1, <1>5, <1>6 DEF IInv, ControlOK, ControlKept, NoneReserved, Reserved
<1>8. tasks' = tasks \/ tasks' = handed
  BY <1>1 DEF Commits, RollsBack
<1>9. ~Reserved(t)
  BY <1>1 DEF IInv, WorkIsOwn
<1>10. WorkIsOwn'
  BY <1>3, <1>7, <1>8, <1>9 DEF IInv, WorkIsOwn, NoneReserved
<1> QED
  BY <1>4, <1>7, <1>10 DEF IInv

LEMMA InitiatorProgressOK ==
    ASSUME IInv, NEW t \in Task, InitiatorProgress(t)
    PROVE  IInv'
<1>1. tasks[t] \in TaskRecord /\ tasks[t].control = "initiator" /\ Unbound(tasks[t])
  BY DEF InitiatorProgress, IInv, HubOK, Tasks, AllUnbound
<1>2. PICK record \in TaskRecord :
        /\ record.control # "workspace" /\ Unbound(record)
        /\ \/ Commits([tasks EXCEPT ![t] = record], sess)
           \/ RollsBack([tasks EXCEPT ![t] = record], sess)
  <2>1. CASE \E to \in {"working", "done"} :
               \/ Commits([tasks EXCEPT ![t].status = to], sess)
               \/ RollsBack([tasks EXCEPT ![t].status = to], sess)
    <3>1. PICK to \in {"working", "done"} :
               \/ Commits([tasks EXCEPT ![t].status = to], sess)
               \/ RollsBack([tasks EXCEPT ![t].status = to], sess)
      BY <2>1
    <3> DEFINE record == [tasks[t] EXCEPT !.status = to]
    <3>2. record \in TaskRecord /\ record.control # "workspace" /\ Unbound(record)
      BY <1>1 DEF TaskRecord, Status, Unbound
    <3>3. [tasks EXCEPT ![t].status = to] = [tasks EXCEPT ![t] = record]
      OBVIOUS
    <3> HIDE DEF record
    <3> QED
      BY <3>1, <3>2, <3>3
  <2>2. CASE \/ Commits([tasks EXCEPT ![t].control = "released"], sess)
             \/ RollsBack([tasks EXCEPT ![t].control = "released"], sess)
    <3> DEFINE record == [tasks[t] EXCEPT !.control = "released"]
    <3>1. record \in TaskRecord /\ record.control # "workspace" /\ Unbound(record)
      BY <1>1 DEF TaskRecord, Status, Unbound
    <3>2. [tasks EXCEPT ![t].control = "released"] = [tasks EXCEPT ![t] = record]
      OBVIOUS
    <3> HIDE DEF record
    <3> QED
      BY <2>2, <3>1, <3>2
  <2> QED
    BY <2>1, <2>2 DEF InitiatorProgress
<1> DEFINE new == [tasks EXCEPT ![t] = record]
<1>3. /\ new \in Tasks /\ AllUnbound(new)
      /\ \A u \in Task : new[u].control # "workspace" <=> tasks[u].control # "workspace"
  BY <1>1, <1>2 DEF IInv, HubOK, Tasks, AllUnbound
<1>4. HubOK'
  BY <1>2, <1>3, CommitOK DEF IInv, HubOK
<1>5. ControlKept /\ UNCHANGED asked
  BY DEF InitiatorProgress, ControlKept
<1>6. LocksAreHeld'
  BY <1>5 DEF IInv, ControlOK, LocksAreHeld, Prompted, ControlKept
<1>7. ControlOK' /\ NoneReserved
  BY <1>5, <1>6 DEF IInv, ControlOK, ControlKept, NoneReserved, Reserved
<1>8. tasks' = tasks \/ tasks' = new
  BY <1>2 DEF Commits, RollsBack
<1>9. WorkIsOwn'
  BY <1>3, <1>7, <1>8 DEF IInv, WorkIsOwn, NoneReserved
<1> QED
  BY <1>4, <1>7, <1>9 DEF IInv

(* The file satisfies what memory satisfies, and nothing is in flight. *)
LEMMA RestartOK ==
    ASSUME IInv, NEW x \in {"processing", "uncertain"}, Restart(x)
    PROVE  IInv'
<1> DEFINE inFlight(t) == {c \in Call : \E s \in Session : /\ disk.sess[s].task = t
                                                      /\ disk.sess[s].box[c] = "processing"}
           doubted == [t \in Task |-> [disk.tasks[t] EXCEPT !.doubt = @ \cup inFlight(t)]]
<1>1. disk.tasks \in Tasks /\ disk.sess \in Sessions /\ AllUnbound(disk.tasks)
  BY DEF IInv, HubOK
<1>2. doubted \in Tasks /\ AllUnbound(doubted)
  <2>1. ASSUME NEW t \in Task
        PROVE  doubted[t] \in TaskRecord /\ Unbound(doubted[t])
    <3>1. disk.tasks[t] \in TaskRecord /\ Unbound(disk.tasks[t])
      BY <1>1 DEF Tasks, AllUnbound
    <3>2. inFlight(t) \in SUBSET Call
      OBVIOUS
    <3> HIDE DEF inFlight
    <3>3. doubted[t] = [disk.tasks[t] EXCEPT !.doubt = @ \cup inFlight(t)]
      OBVIOUS
    <3> HIDE DEF doubted
    <3> QED
      BY <3>1, <3>2, <3>3 DEF TaskRecord, Unbound
  <2>2. doubted = [t \in Task |-> doubted[t]]
    OBVIOUS
  <2> HIDE DEF doubted
  <2> QED
    BY <2>1, <2>2 DEF Tasks, AllUnbound
<1>3. tasks' \in {disk.tasks, doubted}
  BY DEF Restart
<1> HIDE DEF doubted
<1>4. tasks' \in Tasks /\ AllUnbound(tasks)'
  BY <1>1, <1>2, <1>3 DEF AllUnbound, Unbound
<1>5. sess' \in Sessions
  <2> DEFINE box(s) == [c \in Call |-> IF disk.sess[s].box[c] = "processing" THEN x
                                       ELSE disk.sess[s].box[c]]
  <2>1. sess' = [s \in Session |-> [disk.sess[s] EXCEPT !.box = box(s)]]
    BY DEF Restart
  <2>2. ASSUME NEW s \in Session
        PROVE  [disk.sess[s] EXCEPT !.box = box(s)] \in SessionRecord
    <3>1. disk.sess[s] \in SessionRecord /\ disk.sess[s].box \in [Call -> Standing]
      BY <1>1 DEF Sessions, SessionRecord
    <3>2. box(s) \in [Call -> Standing]
      BY <3>1 DEF Standing, InDoubt
    <3> HIDE DEF box
    <3> QED
      BY <3>1, <3>2 DEF SessionRecord
  <2> HIDE DEF box
  <2> QED
    BY <2>1, <2>2 DEF Sessions
<1>6. disk' = [tasks |-> tasks', sess |-> sess'] /\ disk'.tasks = tasks'
  BY DEF Restart, Saved
<1>7. faults' \in 0 .. MaxFaults
  BY DispatchAssumption DEF Restart, Fault, IInv, HubOK
<1>8. HubOK'
  BY <1>4, <1>5, <1>6, <1>7 DEF HubOK, AllUnbound
<1>9. /\ mlock' = Free /\ dlock' = Free /\ pass' = NoPass /\ pass'.pc = "none" /\ mon' = "observed"
      /\ req' = [r \in Request |-> Idle] /\ asked' = asked
  BY DEF Restart, NoPass
<1>10. \A r \in Request : req'[r].pc = "idle" /\ r # Free
  BY <1>9, DispatchAssumption DEF Idle
<1>11. LocksAreHeld'
  BY <1>9, <1>10, DispatchAssumption DEF LocksAreHeld, Prompted
<1>12. ControlOK'
  BY <1>9, <1>11 DEF IInv, ControlOK
<1>13. WorkIsOwn'
  BY <1>9, <1>10 DEF WorkIsOwn, Reserved
<1> QED
  BY <1>8, <1>12, <1>13 DEF IInv

-----------------------------------------------------------------------------
(* The theorems. *)

LEMMA OtherStepOK ==
    ASSUME IInv, OtherStep
    PROVE  IInv'
<1>1. CASE AroundClaim
  BY <1>1, RecoverVisitOK, AssignVisitOK, RecoverEndOK, AssignEndOK, ResendOK, SendOK, RemarkOK,
     MarkOK, ReserveOK, RenameOK, PrepareOK
  DEF AroundClaim
<1>2. CASE \E r \in Request : AroundEdit(r)
  BY <1>2, StartTaskOK, AbortTaskOK, RequestPassOK DEF AroundEdit
<1> QED
  BY <1>1, <1>2, MonitorStepOK, SubmitOK, PumpOK, AgentChangesOK, InitiatorProgressOK, HandoffOK,
     RestartOK
  DEF OtherStep

LEMMA StepOK ==
    ASSUME IInv, [Next]_vars
    PROVE  IInv'
<1>1. CASE Next
  BY <1>1, OtherStepOK, ClaimOK, EditTaskOK, ReportOK DEF Next, Reports
<1>2. CASE UNCHANGED vars
  <2>1. HubOK' /\ SameHands /\ ControlKept /\ asked' = asked
    BY <1>2 DEF vars, IInv, HubOK, AllUnbound, SameHands, ControlKept
  <2> QED
    BY <2>1, OutsideOK DEF IInv, ControlOK
<1> QED
  BY <1>1, <1>2

(* The inductive invariant: well-formed records in memory and file, locks   *)
(* held as the coroutines' places say, and work on the workspace's Tasks    *)
(* only.                                                                    *)
THEOREM DispatchInvariant == Spec => []IInv
<1>1. Init => IInv
  BY InitOK
<1>2. IInv /\ [Next]_vars => IInv'
  BY StepOK
<1> QED
  BY <1>1, <1>2, PTL DEF Spec

(* Type correctness, with the discipline of the two locks: the dispatch     *)
(* lock belongs to the coroutine whose pass runs, the mutation lock to an   *)
(* abort with its pass ahead of it or to the pass that has sent a prompt.   *)
THEOREM TypeCorrect == Spec => []TypeOK
<1>1. IInv => TypeOK
  BY DEF IInv, HubOK, ControlOK, TypeOK, Tasks, Sessions
<1> QED
  BY <1>1, DispatchInvariant, PTL

(* A Task in the hands of an external executor is bound to no session, not  *)
(* in the queue or in review, and nothing of the workspace works on it.     *)
THEOREM HandedOffAlone == Spec => []HandedOffIsLeftAlone
<1>1. IInv => HandedOffIsLeftAlone
  BY DEF IInv, HubOK, WorkIsOwn, HandedOffIsLeftAlone, AllUnbound
<1> QED
  BY <1>1, DispatchInvariant, PTL

(* The one circle of locks that there is: a pass that waits for the mutation *)
(* lock waits for an abort that has committed and waits for the dispatch     *)
(* lock, hence for this pass; no dispatch, edit or handoff blocks a pass     *)
(* (abort_task, dispatch_workspace, workspace_mutation_lock).                *)
OnlyAbortsBlock ==
    PassWaits => /\ mlock \in Request \ {dlock}
                 /\ req[mlock].kind = "abort" /\ req[mlock].pc = "queue"
THEOREM AbortsBlock == Spec => []OnlyAbortsBlock
<1>1. IInv => OnlyAbortsBlock
  <2> SUFFICES ASSUME IInv, PassWaits
               PROVE  OnlyAbortsBlock
    BY DEF OnlyAbortsBlock
  <2>1. mlock # Free /\ mlock # dlock
    BY DEF PassWaits, MutexFor
  <2>2. mlock \in Request /\ req[mlock].kind = "abort" /\ req[mlock].pc \in {"queue", "pass"}
    BY <2>1 DEF IInv, ControlOK, LocksAreHeld
  <2>3. req[mlock].pc # "pass"
    BY <2>1, <2>2 DEF IInv, ControlOK, LocksAreHeld
  <2> QED
    BY <2>1, <2>2, <2>3 DEF OnlyAbortsBlock
<1> QED
  BY <1>1, DispatchInvariant, PTL

-----------------------------------------------------------------------------
(* Claims.  The argument: that a session may be bound anew, or written back *)
(* as it was, without a look at what it holds, is harmless only because of  *)
(* what the pass saw when it made its list.  So the invariant says, for the *)
(* sessions that the pass has ahead of it, what the list still knows.       *)

Memory == [tasks |-> tasks, sess |-> sess]
Listed == [tasks |-> tasks, sess |-> pass.snap]

InBox(store, s, t) == store.sess[s].box[<<t, store.tasks[t].attempt>>] # "absent"
Queued(t) == tasks[t].status = "queued"

(* Nothing was sent for an attempt that is yet to come: the call of a new   *)
(* attempt is in no outbox.                                                 *)
NoCallAhead(store) ==
    \A s \in Session, t \in Task, n \in 0 .. MaxAttempt :
        store.sess[s].box[<<t, n>>] # "absent" => n <= store.tasks[t].attempt

(* The mutation lock can be had by the pass.  Once an abort has taken it    *)
(* the pass sends nothing any more.                                         *)
MutexOurs == mlock \in {Free, dlock}

(* Of a session to recover, and of one that a prompt is about to be sent to *)
(* (again).                                                                 *)
Recovering ==
    pass.pc \in {"recover", "resend", "remark"} /\ MutexOurs =>
        \A s \in pass.todo, t \in Task :
            pass.snap[s].task = t /\ <<s, t>> \notin lost => sess[s].task = t
Sending ==
    pass.pc \in {"resend", "send"} =>
        /\ pass.call[1] = pass.task /\ pass.call[2] <= tasks[pass.task].attempt
        /\ MutexOurs /\ <<pass.at, pass.task>> \notin lost => sess[pass.at].task = pass.task

(* Of a session that may be given a Task: whoever has a prompt there is     *)
(* its holder in the list, and of the chosen one nobody is.                 *)
HasPrompt(s, t) == Queued(t) /\ (InBox(Memory, s, t) \/ InBox(Listed, s, t))
Assigning ==
    pass.pc \in {"assign", "reserve", "rename", "prepare", "claim", "send", "mark"} =>
        \A s \in pass.todo, t \in Task :
            HasPrompt(s, t) /\ <<s, t>> \notin lost => pass.snap[s].task = t
Choosing ==
    pass.pc \in {"reserve", "rename", "prepare", "claim"} =>
        \A t \in Task : HasPrompt(pass.at, t) => <<pass.at, t>> \in lost
Passing ==
    pass.pc \in {"reserve", "rename", "prepare", "claim", "send", "mark"} => pass.at \notin pass.todo

StoresOK ==
    /\ NoCallAhead(Memory) /\ NoCallAhead(disk)
    /\ Bound(Memory) /\ Bound(disk)

ClaimInv ==
    /\ StoresOK
    /\ pass # NoPass => NoCallAhead(Listed)
    /\ Recovering /\ Sending /\ Assigning /\ Choosing /\ Passing

-----------------------------------------------------------------------------
(* Steps that leave the pass alone. *)

(* What such a step makes of a store d: attempts are only counted up, a     *)
(* Task is queued by a new attempt or by hand, nothing is put into an       *)
(* outbox, and no session is taken from a queued Task without a note in L.  *)
Calm(d, e, L) ==
    /\ \A t \in Task :
          /\ e.tasks[t].attempt >= d.tasks[t].attempt
          /\ e.tasks[t].status = "queued" =>
                \/ d.tasks[t].status = "queued" /\ e.tasks[t].attempt = d.tasks[t].attempt
                \/ e.tasks[t].attempt > d.tasks[t].attempt
                \/ \A s \in Session : <<s, t>> \in L
    /\ \A s \in Session, c \in Call : e.sess[s].box[c] # "absent" => d.sess[s].box[c] # "absent"
    /\ \A s \in Session, t \in Task :
          d.sess[s].task = t /\ e.sess[s].task # t /\ e.tasks[t].status = "queued" => <<s, t>> \in L

Stores == [tasks : Tasks, sess : Sessions]

LEMMA MemoryIsStore ==
    ASSUME HubOK
    PROVE  Memory \in Stores /\ disk \in Stores
BY DEF HubOK, Memory, Stores

LEMMA AttemptType ==
    ASSUME NEW d \in Stores, NEW t \in Task
    PROVE  /\ d.tasks[t].attempt \in 0 .. MaxAttempt
           /\ d.tasks[t].attempt \in Nat
           /\ <<t, d.tasks[t].attempt>> \in Call
<1>1. d.tasks[t] \in TaskRecord
  BY DEF Stores, Tasks
<1>2. d.tasks[t].attempt \in 0 .. MaxAttempt
  BY <1>1 DEF TaskRecord
<1> QED
  BY <1>2, DispatchAssumption DEF Call

LEMMA PassAt ==
    ASSUME IInv
    PROVE  /\ pass # NoPass => pass.todo \subseteq Session /\ pass.snap \in Sessions
           /\ pass.pc \in {"recover", "assign"} => pass # NoPass
           /\ pass.pc \in {"resend", "remark", "reserve", "rename", "prepare", "claim", "send", "mark"} =>
                 pass # NoPass /\ pass.at \in Session /\ pass.task \in Task /\ pass.call \in Call
<1>1. pass \in {NoPass} \cup Visiting \cup Serving
  BY DEF IInv, ControlOK
<1> QED
  BY <1>1 DEF NoPass, Visiting, Serving, Sessions

(* Both parts of the invariant that speak of one store. *)
LEMMA CalmStore ==
    ASSUME NEW d \in Stores, NEW e \in Stores, NEW L, lost \subseteq L, Calm(d, e, L),
           NoCallAhead(d), Bound(d)
    PROVE  /\ NoCallAhead(e)
           /\ \A s \in Session, t \in Task :
                 Prompts(e, s, t) /\ <<s, t>> \notin L => e.sess[s].task = t
<1>1. NoCallAhead(e)
  <2> SUFFICES ASSUME NEW s \in Session, NEW t \in Task, NEW n \in 0 .. MaxAttempt,
                      e.sess[s].box[<<t, n>>] # "absent"
               PROVE  n <= e.tasks[t].attempt
    BY DEF NoCallAhead
  <2>1. d.sess[s].box[<<t, n>>] # "absent"
    BY DEF Calm, Call
  <2>2. n <= d.tasks[t].attempt /\ e.tasks[t].attempt >= d.tasks[t].attempt
    BY <2>1 DEF NoCallAhead, Calm
  <2>3. d.tasks[t].attempt \in Nat /\ e.tasks[t].attempt \in Nat
    BY AttemptType
  <2>4. n \in Nat
    BY DispatchAssumption
  <2> QED
    BY <2>2, <2>3, <2>4
<1>2. ASSUME NEW s \in Session, NEW t \in Task, Prompts(e, s, t), <<s, t>> \notin L
      PROVE  e.sess[s].task = t
  <2> DEFINE n == e.tasks[t].attempt
  <2>1. e.tasks[t].status = "queued" /\ e.sess[s].box[<<t, n>>] # "absent"
    BY <1>2 DEF Prompts
  <2>2. d.sess[s].box[<<t, n>>] # "absent" /\ n \in 0 .. MaxAttempt
    BY <2>1, AttemptType DEF Calm
  <2>3. n <= d.tasks[t].attempt
    BY <2>2 DEF NoCallAhead
  <2>4. d.tasks[t].status = "queued" /\ n = d.tasks[t].attempt
    <3>1. n \in Nat /\ d.tasks[t].attempt \in Nat
      BY AttemptType
    <3>2. ~(n > d.tasks[t].attempt)
      BY <2>3, <3>1
    <3> QED
      BY <1>2, <2>1, <3>2 DEF Calm
  <2>5. d.sess[s].task = t
    BY <1>2, <2>2, <2>4 DEF Bound, Prompts
  <2> QED
    BY <1>2, <2>1, <2>5 DEF Calm
<1> QED
  BY <1>1, <1>2

(* What the pass relies on stays true, if it is not to wait from now on. *)
LEMMA KeepsClaims ==
    ASSUME IInv, IInv', ClaimInv, UNCHANGED <<pass, dlock>>, lost \subseteq lost',
           Calm(Memory, Memory', lost'),
           \/ disk' = disk \/ disk' = Memory' \/ Calm(Memory, disk', lost'),
           MutexOurs' => /\ MutexOurs
                         /\ \A s \in Session, t \in Task :
                               sess[s].task = t /\ sess'[s].task # t => <<s, t>> \in lost'
    PROVE  ClaimInv'
<1>1. /\ Memory \in Stores /\ disk \in Stores /\ Memory' \in Stores /\ disk' \in Stores
      /\ pass \in {NoPass} \cup Visiting \cup Serving
  BY MemoryIsStore DEF IInv, HubOK, ControlOK, Memory, Stores
<1>2. NoCallAhead(Memory)' /\ Bound(Memory)'
  BY <1>1, CalmStore DEF ClaimInv, StoresOK, Bound, NoCallAhead
<1>3. NoCallAhead(disk)' /\ Bound(disk)'
  <2>1. CASE disk' = disk
    BY <2>1 DEF ClaimInv, StoresOK, Bound, NoCallAhead, Prompts
  <2>2. CASE disk' = Memory'
    BY <1>2, <2>2 DEF Bound, NoCallAhead, Prompts
  <2>3. CASE Calm(Memory, disk', lost')
    BY <1>1, <2>3, CalmStore DEF ClaimInv, StoresOK, Bound, NoCallAhead
  <2> QED
    BY <2>1, <2>2, <2>3
<1>4. \A t \in Task : /\ tasks[t].attempt \in Nat /\ tasks'[t].attempt \in Nat
                      /\ tasks[t].attempt \in 0 .. MaxAttempt /\ tasks'[t].attempt \in 0 .. MaxAttempt
                      /\ tasks'[t].attempt >= tasks[t].attempt
  BY <1>1, AttemptType DEF Calm, Memory
<1>5. pass # NoPass => NoCallAhead(Listed)'
  <2> SUFFICES ASSUME pass # NoPass, NEW s \in Session, NEW t \in Task, NEW n \in 0 .. MaxAttempt,
                      pass.snap[s].box[<<t, n>>] # "absent"
               PROVE  n <= tasks'[t].attempt
    BY DEF NoCallAhead, Listed
  <2>1. n <= tasks[t].attempt
    BY DEF ClaimInv, NoCallAhead, Listed
  <2> QED
    BY <1>4, <2>1, DispatchAssumption
<1>6. Recovering'
  BY PassAt DEF ClaimInv, Recovering
<1>7. Sending'
  BY <1>1, <1>4, DispatchAssumption DEF ClaimInv, Sending, Serving, Visiting, NoPass, Call
<1>8. ASSUME pass # NoPass, NEW s \in Session, NEW t \in Task, HasPrompt(s, t)', <<s, t>> \notin lost'
      PROVE  HasPrompt(s, t) /\ <<s, t>> \notin lost
  <2> DEFINE n == tasks'[t].attempt
  <2>1. tasks'[t].status = "queued"
    BY <1>8 DEF HasPrompt, Queued
  <2>2. sess[s].box[<<t, n>>] # "absent" \/ pass.snap[s].box[<<t, n>>] # "absent"
    BY <1>1, <1>8, AttemptType DEF HasPrompt, InBox, Calm, Memory, Listed
  <2>3. n <= tasks[t].attempt
    BY <1>4, <1>8, <2>2 DEF ClaimInv, StoresOK, NoCallAhead, Memory, Listed
  <2>4. tasks[t].status = "queued" /\ n = tasks[t].attempt
    BY <1>4, <1>8, <2>1, <2>3 DEF Calm, Memory
  <2> QED
    BY <1>8, <2>2, <2>4 DEF HasPrompt, Queued, InBox, Memory, Listed
<1>9. Assigning'
  <2> SUFFICES ASSUME pass.pc \in {"assign", "reserve", "rename", "prepare", "claim", "send", "mark"},
                      NEW s \in pass.todo, NEW t \in Task, HasPrompt(s, t)', <<s, t>> \notin lost'
               PROVE  pass.snap[s].task = t
    BY DEF Assigning
  <2>1. pass # NoPass /\ s \in Session
    BY <1>1 DEF NoPass, Visiting, Serving
  <2> QED
    BY <1>8, <2>1 DEF ClaimInv, Assigning
<1>10. Choosing'
  <2> SUFFICES ASSUME pass.pc \in {"reserve", "rename", "prepare", "claim"},
                      NEW t \in Task, HasPrompt(pass.at, t)'
               PROVE  <<pass.at, t>> \in lost'
    BY DEF Choosing
  <2>1. pass # NoPass /\ pass.at \in Session
    BY <1>1 DEF NoPass, Visiting, Serving
  <2> QED
    BY <1>8, <2>1 DEF ClaimInv, Choosing
<1>11. Passing'
  BY DEF ClaimInv, Passing
<1> QED
  BY <1>2, <1>3, <1>5, <1>6, <1>7, <1>9, <1>10, <1>11 DEF ClaimInv, StoresOK

(* Nothing is written, and nobody waits less for the mutation lock. *)
LEMMA StillClaims ==
    ASSUME IInv, IInv', ClaimInv, UNCHANGED <<tasks, sess, disk, pass, dlock>>, lost \subseteq lost',
           MutexOurs' => MutexOurs
    PROVE  ClaimInv'
<1>1. \A t \in Task : tasks[t].attempt >= tasks[t].attempt
  <2>1. \A t \in Task : tasks[t].attempt \in Nat
    BY MemoryIsStore, AttemptType DEF IInv, Memory
  <2> QED
    BY <2>1
<1>2. Calm(Memory, Memory', lost')
  BY <1>1 DEF Calm, Memory
<1> QED
  BY <1>2, KeepsClaims

(* A write that is saved, or raises and stays in memory. *)
LEMMA SaveClaims ==
    ASSUME IInv, IInv', ClaimInv, UNCHANGED <<mlock, pass, dlock>>, lost \subseteq lost',
           Calm(Memory, Memory', lost'), Saved \/ UNCHANGED disk,
           \A s \in Session, t \in Task :
               sess[s].task = t /\ sess'[s].task # t => <<s, t>> \in lost'
    PROVE  ClaimInv'
<1>1. disk' = disk \/ disk' = Memory'
  BY DEF Saved, Memory
<1>2. MutexOurs' => MutexOurs
  BY DEF MutexOurs
<1> QED
  BY <1>1, <1>2, KeepsClaims

(* A change that is made, or undone in memory. *)
LEMMA CommitClaims ==
    ASSUME IInv, IInv', ClaimInv, UNCHANGED <<mlock, pass, dlock>>, lost \subseteq lost',
           NEW newTasks, NEW newSess,
           Commits(newTasks, newSess) \/ RollsBack(newTasks, newSess),
           Calm(Memory, [tasks |-> newTasks, sess |-> newSess], lost'),
           \A s \in Session, t \in Task :
               sess[s].task = t /\ newSess[s].task # t => <<s, t>> \in lost'
    PROVE  ClaimInv'
<1> DEFINE new == [tasks |-> newTasks, sess |-> newSess]
<1>1. CASE Commits(newTasks, newSess)
  <2>1. Memory' = new /\ Saved /\ sess' = newSess
    BY <1>1 DEF Commits, Memory
  <2> QED
    BY <2>1, SaveClaims
<1>2. CASE RollsBack(newTasks, newSess)
  <2>1. UNCHANGED <<tasks, sess>> /\ disk' \in {disk, new}
    BY <1>2 DEF RollsBack
  <2>2. CASE disk' = disk
    BY <2>1, <2>2, StillClaims DEF MutexOurs
  <2>3. CASE disk' = new
    <3>1. \A t \in Task : tasks[t].attempt \in Nat
      BY MemoryIsStore, AttemptType DEF IInv, Memory
    <3>2. Calm(Memory, Memory', lost')
      BY <2>1, <3>1 DEF Calm, Memory
    <3>3. Calm(Memory, disk', lost')
      BY <2>3
    <3>4. MutexOurs' => MutexOurs
      BY DEF MutexOurs
    <3> QED
      BY <2>1, <3>2, <3>3, <3>4, KeepsClaims
  <2> QED
    BY <2>1, <2>2, <2>3
<1> QED
  BY <1>1, <1>2

(* One Task is written, no attempt begins, and the Task is not queued by it.*)
LEMMA TaskCalm ==
    ASSUME IInv, NEW L, NEW u \in Task, NEW record, NEW newSess,
           record.attempt = tasks[u].attempt,
           record.status = "queued" => tasks[u].status = "queued" \/ Session \X {u} \subseteq L,
           \A s \in Session, c \in Call : newSess[s].box[c] # "absent" => sess[s].box[c] # "absent",
           \A s \in Session, t \in Task :
               /\ sess[s].task = t /\ newSess[s].task # t
               /\ IF t = u THEN record.status = "queued" ELSE tasks[t].status = "queued"
               => <<s, t>> \in L
    PROVE  Calm(Memory, [tasks |-> [tasks EXCEPT ![u] = record], sess |-> newSess], L)
<1>1. \A t \in Task : tasks[t].attempt \in Nat
  BY MemoryIsStore, AttemptType DEF IInv, Memory
<1>2. \A t \in Task : [tasks EXCEPT ![u] = record][t] = IF t = u THEN record ELSE tasks[t]
  BY DEF IInv, HubOK, Tasks
<1> QED
  BY <1>1, <1>2 DEF Calm, Memory

(* A Task that is released loses its session, and no other one does. *)
LEMMA ReleasedWhat ==
    ASSUME HubOK, NEW t \in Task, NEW s \in Session
    PROVE  /\ Released(t)[s].box = sess[s].box
           /\ \A u \in Task : sess[s].task = u /\ Released(t)[s].task # u =>
                               u = t /\ s = tasks[t].session
<1>1. sess[s] \in SessionRecord
  BY DEF HubOK, Sessions
<1>2. Released(t)[s] \in {sess[s], [sess[s] EXCEPT !.task = NoTask, !.run = "idle"]}
  BY DEF Released, HubOK, Sessions
<1>3. Released(t)[s] # sess[s] => sess[s].task = t /\ s = tasks[t].session
  BY DEF Released, HubOK, Sessions
<1> QED
  BY <1>1, <1>2, <1>3 DEF SessionRecord

LEMMA SubmitClaims ==
    ASSUME IInv, IInv', ClaimInv, lost' = lost,
           NEW r \in Request, NEW kind \in {"start", "abort", "edit"}, NEW t \in Task,
           Submit(r, kind, t)
    PROVE  ClaimInv'
BY StillClaims DEF Submit, hub, MutexOurs

(* A new attempt has no call in any outbox. *)
LEMMA StartTaskClaims ==
    ASSUME IInv, IInv', ClaimInv, lost' = lost, NEW r \in Request, StartTask(r)
    PROVE  ClaimInv'
<1> DEFINE t == req[r].task
<1>1. req[r].pc = "prepare" /\ UNCHANGED <<mlock, pass>>
  BY DEF StartTask
<1>2. t \in Task
  BY <1>1, RequestOwn
<1>3. CASE Finished(r) /\ UNCHANGED <<hub, faults>>
  BY <1>1, <1>3, StillClaims DEF Finished, hub, MutexOurs
<1>4. CASE ~(Finished(r) /\ UNCHANGED <<hub, faults>>)
  <2>1. PICK named \in BOOLEAN, s \in Session :
          /\ tasks' = [tasks EXCEPT ![t] = [@ EXCEPT !.status = "queued", !.session = s,
                                                     !.attempt = tasks[t].attempt + 1, !.pinned = named]]
          /\ UNCHANGED sess
          /\ \/ Saved /\ Queues(r) /\ UNCHANGED <<dlock, faults>>
             \/ Unsaved /\ Finished(r)
    BY <1>4 DEF StartTask, Targets
  <2>2. /\ tasks'[t].attempt = tasks[t].attempt + 1
        /\ \A u \in Task \ {t} : tasks'[u] = tasks[u]
    <3>1. tasks[t] \in TaskRecord
      BY <1>2 DEF IInv, HubOK, Tasks
    <3> HIDE DEF t
    <3> QED
      BY <1>2, <2>1, <3>1 DEF IInv, HubOK, Tasks, TaskRecord
  <2> HIDE DEF t
  <2>3. \A u \in Task : tasks[u].attempt \in Nat
    BY MemoryIsStore, AttemptType DEF IInv, Memory
  <2>4. \A u \in Task : tasks'[u].attempt >= tasks[u].attempt
    BY <1>2, <2>2, <2>3
  <2>5. tasks'[t].attempt > tasks[t].attempt
    BY <1>2, <2>2, <2>3
  <2>6. Calm(Memory, Memory', lost')
    BY <2>1, <2>2, <2>4, <2>5 DEF Calm, Memory
  <2>7. dlock' = dlock /\ (Saved \/ UNCHANGED disk)
    BY <2>1 DEF Unsaved, Finished
  <2> QED
    BY <1>1, <2>1, <2>6, <2>7, SaveClaims
<1> QED
  BY <1>3, <1>4

(* The lock of an abort that has committed keeps the pass from sending. *)
LEMMA AbortTaskClaims ==
    ASSUME IInv, IInv', ClaimInv, lost' = lost, NEW r \in Request, AbortTask(r)
    PROVE  ClaimInv'
<1> DEFINE t == req[r].task
           record == [tasks[t] EXCEPT !.status = "todo", !.session = NoSession,
                                      !.pinned = FALSE]
           aborted == [tasks EXCEPT ![t] = record]
           new == [tasks |-> aborted, sess |-> Released(t)]
<1>1. req[r].pc = "prepare" /\ mlock = Free /\ UNCHANGED pass
  BY DEF AbortTask
<1>2. t \in Task
  BY <1>1, RequestOwn
<1>3. r # dlock /\ r # Free
  BY <1>1, DispatchAssumption DEF IInv, ControlOK, LocksAreHeld
<1>4. Calm(Memory, new, lost')
  <2>1. tasks[t] \in TaskRecord
    BY <1>2 DEF IInv, HubOK, Tasks
  <2> HIDE DEF t
  <2>2. record.attempt = tasks[t].attempt /\ record.status = "todo"
    BY <2>1 DEF TaskRecord
  <2> HIDE DEF record
  <2>3. \A s \in Session, c \in Call :
           Released(t)[s].box[c] # "absent" => sess[s].box[c] # "absent"
    BY <1>2, ReleasedWhat DEF IInv
  <2>4. \A s \in Session, u \in Task :
           sess[s].task = u /\ Released(t)[s].task # u => u = t
    BY <1>2, ReleasedWhat DEF IInv
  <2> QED
    BY <1>2, <2>2, <2>3, <2>4, TaskCalm
<1>5. \/ Commits(aborted, Released(t)) /\ mlock' = r /\ UNCHANGED dlock
      \/ RollsBack(aborted, Released(t)) /\ UNCHANGED <<dlock, mlock>>
      \/ UNCHANGED <<hub, dlock, mlock>>
  BY DEF AbortTask, Finished
<1> HIDE DEF t, aborted
<1>6. CASE Commits(aborted, Released(t)) /\ mlock' = r /\ UNCHANGED dlock
  <2>1. Memory' = new /\ disk' = Memory'
    BY <1>6 DEF Commits, Memory, Saved
  <2>2. ~MutexOurs'
    BY <1>3, <1>6 DEF MutexOurs
  <2> QED
    BY <1>1, <1>4, <1>6, <2>1, <2>2, KeepsClaims
<1>7. CASE RollsBack(aborted, Released(t)) /\ UNCHANGED <<dlock, mlock>>
  <2>1. disk' \in {disk, new} /\ UNCHANGED <<tasks, sess>>
    BY <1>7 DEF RollsBack
  <2>2. \A u \in Task : tasks[u].attempt \in Nat
    BY MemoryIsStore, AttemptType DEF IInv, Memory
  <2>3. Calm(Memory, Memory', lost')
    BY <2>1, <2>2 DEF Calm, Memory
  <2>4. disk' = disk \/ Calm(Memory, disk', lost')
    BY <1>4, <2>1
  <2>5. MutexOurs' => MutexOurs
    BY <1>7 DEF MutexOurs
  <2> QED
    BY <1>1, <1>7, <2>1, <2>3, <2>4, <2>5, KeepsClaims
<1>8. CASE UNCHANGED <<hub, dlock, mlock>>
  BY <1>1, <1>8, StillClaims DEF hub, MutexOurs
<1> QED
  BY <1>5, <1>6, <1>7, <1>8

(* An edit takes the sessions that it notes. *)
LEMMA EditTaskClaims ==
    ASSUME IInv, IInv', ClaimInv, NEW r \in Request, NEW to \in EditTo, EditTask(r, to),
           lost' = lost \cup LostByEdit(req[r].task, to)
    PROVE  ClaimInv'
<1> DEFINE t == req[r].task
           record == [tasks[t] EXCEPT !.status = to]
           L == lost \cup LostByEdit(t, to)
           new == CASE to = "done" -> Released(t)
                    [] to = "working" /\ tasks[t].session # NoSession ->
                         [sess EXCEPT ![tasks[t].session].task = t]
                    [] OTHER -> sess
<1>1. req[r].pc = "prepare" /\ UNCHANGED <<mlock, pass, dlock>>
  BY DEF EditTask, Queues, Finished
<1>2. t \in Task
  BY <1>1, RequestOwn
<1>3. \/ tasks' = [tasks EXCEPT ![t] = record] /\ sess' = new /\ (Saved \/ UNCHANGED disk)
      \/ UNCHANGED hub
  BY DEF EditTask, Unsaved
<1>4. tasks[t] \in TaskRecord /\ sess \in Sessions /\ to \in Status
  BY <1>2, DispatchAssumption DEF IInv, HubOK, Tasks
<1> HIDE DEF t
<1>5. record.attempt = tasks[t].attempt /\ record.status = to
  BY <1>4 DEF TaskRecord
<1> HIDE DEF record
<1>6. ASSUME NEW s \in Session
      PROVE  /\ new[s].box = sess[s].box
             /\ \A u \in Task : sess[s].task = u /\ new[s].task # u => <<s, u>> \in L
  <2>1. CASE to = "done"
    BY <1>2, <2>1, ReleasedWhat DEF IInv, LostByEdit
  <2>2. CASE to = "working" /\ tasks[t].session # NoSession
    <3> DEFINE x == tasks[t].session
    <3>1. x \in Session /\ new = [sess EXCEPT ![x].task = t]
      BY <1>4, <2>2 DEF TaskRecord
    <3>2. LostByEdit(t, to) = LostTo(x, t)
      BY <2>2 DEF LostByEdit
    <3>3. sess[s] \in SessionRecord
      BY <1>4 DEF Sessions
    <3> HIDE DEF new, x
    <3>4. new[s].box = sess[s].box /\ new[s].task = IF s = x THEN t ELSE sess[s].task
      BY <1>2, <1>4, <3>1, <3>3 DEF Sessions, SessionRecord
    <3> QED
      BY <1>2, <3>1, <3>2, <3>4 DEF LostTo
  <2>3. CASE ~(to = "done") /\ ~(to = "working" /\ tasks[t].session # NoSession)
    BY <2>3
  <2> QED
    BY <2>1, <2>2, <2>3
<1>7. to = "queued" => Session \X {t} \subseteq L
  BY DEF LostByEdit
<1>8. lost' = L
  BY DEF t
<1> HIDE DEF new, L
<1>9. CASE tasks' = [tasks EXCEPT ![t] = record] /\ sess' = new /\ (Saved \/ UNCHANGED disk)
  <2>1. Calm(Memory, Memory', lost')
    BY <1>2, <1>5, <1>6, <1>7, <1>8, <1>9, TaskCalm DEF Memory
  <2> QED
    BY <1>1, <1>6, <1>8, <1>9, <2>1, SaveClaims DEF L
<1>10. CASE UNCHANGED hub
  BY <1>1, <1>8, <1>10, StillClaims DEF hub, MutexOurs, L
<1> QED
  BY <1>3, <1>9, <1>10

(* What is pending is sent: a Task lists a call in doubt, at most. *)
LEMMA DoubtedWhat ==
    ASSUME HubOK, NEW s \in Session, NEW c \in Call, NEW t \in Task
    PROVE  /\ Doubted(s, c)[t].attempt = tasks[t].attempt
           /\ Doubted(s, c)[t].status = tasks[t].status
           /\ Doubted(s, c)[t].session = tasks[t].session
           /\ Doubted(s, c)[t].control = tasks[t].control
BY DEF HubOK, Doubted, Tasks, TaskRecord, Sessions, SessionRecord

(* No outbox gets a call and no session a Task. *)
LEMMA BoxCalm ==
    ASSUME IInv, NEW L, NEW newTasks, NEW newSess,
           \A t \in Task : newTasks[t].attempt = tasks[t].attempt /\ newTasks[t].status = tasks[t].status,
           \A s \in Session : newSess[s].task = sess[s].task,
           \A s \in Session, c \in Call : newSess[s].box[c] # "absent" => sess[s].box[c] # "absent"
    PROVE  Calm(Memory, [tasks |-> newTasks, sess |-> newSess], L)
<1>1. \A t \in Task : tasks[t].attempt \in Nat
  BY MemoryIsStore, AttemptType DEF IInv, Memory
<1> QED
  BY <1>1 DEF Calm, Memory

LEMMA PumpClaims ==
    ASSUME IInv, IInv', ClaimInv, lost' = lost, NEW s \in Session, NEW c \in Call, Pump(s, c)
    PROVE  ClaimInv'
<1>1. /\ sess[s].box[c] = "pending" /\ UNCHANGED <<mlock, pass, dlock>> /\ Saved
      /\ tasks' \in {tasks, Doubted(s, c)}
  BY DEF Pump
<1>2. PICK box : sess' = [sess EXCEPT ![s].box[c] = box]
  BY DEF Pump
<1>3. \A t \in Task : tasks'[t].attempt = tasks[t].attempt /\ tasks'[t].status = tasks[t].status
  BY <1>1, DoubtedWhat DEF IInv
<1>4. sess \in Sessions
  BY DEF IInv, HubOK
<1>5. /\ \A o \in Session : sess'[o].task = sess[o].task
      /\ \A o \in Session, d \in Call : sess'[o].box[d] # "absent" => sess[o].box[d] # "absent"
  BY <1>1, <1>2, <1>4 DEF Sessions, SessionRecord
<1>6. Calm(Memory, Memory', lost')
  BY <1>3, <1>5, BoxCalm DEF Memory
<1> QED
  BY <1>1, <1>5, <1>6, SaveClaims

LEMMA AgentChangesClaims ==
    ASSUME IInv, IInv', ClaimInv, lost' = lost, NEW s \in Session, NEW run \in {"idle", "stopped"},
           AgentChanges(s, run)
    PROVE  ClaimInv'
<1>1. /\ UNCHANGED <<tasks, mlock, pass, dlock>> /\ Saved
      /\ sess' = [sess EXCEPT ![s].run = run]
  BY DEF AgentChanges
<1>2. \A o \in Session : sess'[o].task = sess[o].task /\ sess'[o].box = sess[o].box
  BY <1>1 DEF IInv, HubOK, Sessions, SessionRecord
<1>3. Calm(Memory, Memory', lost')
  BY <1>1, <1>2, BoxCalm DEF Memory
<1> QED
  BY <1>1, <1>2, <1>3, SaveClaims

(* A report takes the session, and notes it. *)
LEMMA ReportsClaims ==
    ASSUME IInv, IInv', ClaimInv, NEW s \in Session, NEW t \in Task, Reports(s, t),
           lost' = lost \cup LostTo(s, t)
    PROVE  ClaimInv'
<1>1. PICK to \in {"working", "review"} : Report(s, t, to)
  BY DEF Reports
<1> DEFINE a == {c \in Call : c[1] = t /\ sess[s].box[c] \in {"processing", "uncertain"}}
           acked == a \cap {CallOf(t)}
           record == [tasks[t] EXCEPT !.status = to, !.doubt = tasks[t].doubt \ acked]
           reported == [tasks EXCEPT ![t] = record]
           box == [c \in Call |-> IF c \in acked THEN "delivered" ELSE sess[s].box[c]]
           owner == [task |-> t, box |-> box,
                     run  |-> IF to = "working" THEN "working" ELSE "idle"]
           bound == [sess EXCEPT ![s] = owner]
<1>2. /\ Commits(reported, bound) \/ RollsBack(reported, bound)
      /\ UNCHANGED <<mlock, pass, dlock>>
  BY <1>1 DEF Report
<1>3. tasks[t] \in TaskRecord /\ sess \in Sessions
  BY DEF IInv, HubOK, Tasks
<1>4. \A c \in Call : box[c] # "absent" => sess[s].box[c] # "absent"
  OBVIOUS
<1> HIDE DEF box, acked
<1>5. record.attempt = tasks[t].attempt /\ record.status # "queued"
  BY <1>3 DEF TaskRecord
<1> HIDE DEF record
<1>6. /\ bound[s].task = t /\ bound[s].box = box
      /\ \A o \in Session \ {s} : bound[o] = sess[o]
  BY <1>3 DEF Sessions
<1> HIDE DEF bound
<1>7. \A o \in Session, u \in Task : sess[o].task = u /\ bound[o].task # u => <<o, u>> \in lost'
  BY <1>6 DEF LostTo
<1>8. \A o \in Session, c \in Call : bound[o].box[c] # "absent" => sess[o].box[c] # "absent"
  BY <1>4, <1>6
<1>9. Calm(Memory, [tasks |-> reported, sess |-> bound], lost')
  BY <1>5, <1>7, <1>8, TaskCalm
<1> HIDE DEF reported
<1>10. lost \subseteq lost'
  OBVIOUS
<1> QED
  BY <1>2, <1>7, <1>9, <1>10, CommitClaims

LEMMA InitiatorProgressClaims ==
    ASSUME IInv, IInv', ClaimInv, lost' = lost, NEW t \in Task, InitiatorProgress(t)
    PROVE  ClaimInv'
<1>1. tasks[t] \in TaskRecord /\ UNCHANGED <<mlock, pass, dlock>>
  BY DEF InitiatorProgress, IInv, HubOK, Tasks
<1>2. PICK record :
        /\ record.attempt = tasks[t].attempt
        /\ record.status = "queued" => tasks[t].status = "queued"
        /\ \/ Commits([tasks EXCEPT ![t] = record], sess)
           \/ RollsBack([tasks EXCEPT ![t] = record], sess)
  <2>1. CASE \E to \in {"working", "done"} :
               \/ Commits([tasks EXCEPT ![t].status = to], sess)
               \/ RollsBack([tasks EXCEPT ![t].status = to], sess)
    <3>1. PICK to \in {"working", "done"} :
               \/ Commits([tasks EXCEPT ![t].status = to], sess)
               \/ RollsBack([tasks EXCEPT ![t].status = to], sess)
      BY <2>1
    <3> DEFINE record == [tasks[t] EXCEPT !.status = to]
    <3>2. record.attempt = tasks[t].attempt /\ record.status # "queued"
      BY <1>1 DEF TaskRecord
    <3>3. [tasks EXCEPT ![t].status = to] = [tasks EXCEPT ![t] = record]
      OBVIOUS
    <3> HIDE DEF record
    <3> QED
      BY <3>1, <3>2, <3>3
  <2>2. CASE \/ Commits([tasks EXCEPT ![t].control = "released"], sess)
             \/ RollsBack([tasks EXCEPT ![t].control = "released"], sess)
    <3> DEFINE record == [tasks[t] EXCEPT !.control = "released"]
    <3>1. record.attempt = tasks[t].attempt /\ record.status = tasks[t].status
      BY <1>1 DEF TaskRecord
    <3>2. [tasks EXCEPT ![t].control = "released"] = [tasks EXCEPT ![t] = record]
      OBVIOUS
    <3> HIDE DEF record
    <3> QED
      BY <2>2, <3>1, <3>2
  <2> QED
    BY <2>1, <2>2 DEF InitiatorProgress
<1>3. Calm(Memory, [tasks |-> [tasks EXCEPT ![t] = record], sess |-> sess], lost')
  BY <1>2, TaskCalm
<1> QED
  BY <1>1, <1>2, <1>3, CommitClaims

LEMMA HandoffClaims ==
    ASSUME IInv, IInv', ClaimInv, lost' = lost, NEW t \in Task, NEW to \in {"workspace", "initiator"},
           Handoff(t, to)
    PROVE  ClaimInv'
<1> DEFINE record == [tasks[t] EXCEPT !.control = to, !.status = "todo",
                                      !.session = NoSession, !.pinned = FALSE]
           handed == [tasks EXCEPT ![t] = record]
<1>1. /\ Commits(handed, sess) \/ RollsBack(handed, sess)
      /\ UNCHANGED <<mlock, pass, dlock>>
  BY DEF Handoff
<1>2. record.attempt = tasks[t].attempt /\ record.status # "queued"
  BY DEF IInv, HubOK, Tasks, TaskRecord
<1> HIDE DEF record
<1>3. Calm(Memory, [tasks |-> handed, sess |-> sess], lost')
  BY <1>2, TaskCalm
<1> HIDE DEF handed
<1> QED
  BY <1>1, <1>3, CommitClaims

-----------------------------------------------------------------------------
(* Steps of the pass. *)

LEMMA StoresKept ==
    ASSUME StoresOK, UNCHANGED <<tasks, sess, disk>>, lost' = lost
    PROVE  StoresOK'
BY DEF StoresOK, NoCallAhead, Bound, Prompts, Memory

LEMMA StoresWritten ==
    ASSUME IInv, IInv', StoresOK, lost' = lost, Calm(Memory, Memory', lost), Saved \/ UNCHANGED disk
    PROVE  StoresOK'
<1>1. Memory \in Stores /\ Memory' \in Stores
  BY MemoryIsStore DEF IInv, HubOK, Memory, Stores
<1>2. NoCallAhead(Memory)' /\ Bound(Memory)'
  BY <1>1, CalmStore DEF StoresOK, Bound, NoCallAhead
<1>3. disk' = disk \/ disk' = Memory'
  BY DEF Saved, Memory
<1>4. NoCallAhead(disk)' /\ Bound(disk)'
  BY <1>2, <1>3 DEF StoresOK, Bound, NoCallAhead, Prompts
<1> QED
  BY <1>2, <1>4 DEF StoresOK

(* The pass ends: nothing relies on its list any more. *)
LEMMA EndClaims ==
    ASSUME StoresOK', pass' = NoPass
    PROVE  ClaimInv'
BY DEF ClaimInv, NoPass, Recovering, Sending, Assigning, Choosing, Passing

LEMMA ReturnsClaims ==
    ASSUME StoresOK', PassReturns
    PROVE  ClaimInv'
BY EndClaims DEF PassReturns

(* The list that a pass makes is what memory holds. *)
LEMMA BeginsClaims ==
    ASSUME IInv, ClaimInv, UNCHANGED hub, lost' = lost, NEW phase \in {"recover", "assign"}, Begins(phase)
    PROVE  ClaimInv'
<1>1. pass'.pc = phase /\ pass'.todo = Session /\ pass'.snap = sess
  BY DEF Begins
<1>2. StoresOK'
  BY StoresKept DEF ClaimInv, hub
<1>3. NoCallAhead(Listed)'
  BY <1>1 DEF ClaimInv, StoresOK, NoCallAhead, Listed, Memory, hub
<1>4. Recovering'
  BY <1>1 DEF Recovering, hub
<1>5. Assigning'
  BY <1>1 DEF Assigning, HasPrompt, Queued, InBox, Listed, Memory, ClaimInv, StoresOK, Bound, Prompts, hub
<1> QED
  BY <1>1, <1>2, <1>3, <1>4, <1>5 DEF ClaimInv, Sending, Choosing, Passing

(* A session that the list gives to a queued Task still holds it. *)
LEMMA RecoverVisitClaims ==
    ASSUME IInv, ClaimInv, lost' = lost, NEW s \in Session, RecoverVisit(s)
    PROVE  ClaimInv'
<1>1. /\ pass.pc = "recover" /\ s \in pass.todo /\ UNCHANGED <<tasks, sess, disk, mlock, dlock>>
      /\ pass # NoPass
  BY DEF RecoverVisit, Visits, hub, NoPass
<1>2. /\ pass'.snap = pass.snap /\ pass'.todo = pass.todo \ {s}
      /\ \/ pass'.pc = "recover"
         \/ /\ pass'.pc = "resend" /\ pass'.at = s /\ pass'.task = pass.snap[s].task
            /\ pass'.call = CallOf(pass'.task) /\ pass'.task \in Task
  <2>1. CASE CutShort(s)
    <3>1. pass.snap[s].task \in Task
      BY <1>1, <2>1, PassAt DEF CutShort, Sessions, SessionRecord
    <3> QED
      BY <2>1, <3>1 DEF RecoverVisit, Serves
  <2>2. CASE ~CutShort(s)
    BY <1>1, <2>2 DEF RecoverVisit, Passed
  <2> QED
    BY <2>1, <2>2
<1>3. StoresOK'
  BY <1>1, StoresKept DEF ClaimInv
<1>4. NoCallAhead(Listed)'
  BY <1>1, <1>2 DEF ClaimInv, NoCallAhead, Listed
<1>5. Recovering'
  BY <1>1, <1>2 DEF ClaimInv, Recovering, MutexOurs
<1>6. Sending'
  <2> SUFFICES ASSUME pass'.pc = "resend" PROVE Sending'
    BY <1>2 DEF Sending
  <2>1. pass'.call = <<pass'.task, tasks[pass'.task].attempt>> /\ pass'.task \in Task
    BY <1>2 DEF CallOf
  <2>2. tasks[pass'.task].attempt \in Nat
    BY <2>1, MemoryIsStore, AttemptType DEF IInv, Memory
  <2>3. pass'.call[1] = pass'.task /\ pass'.call[2] <= tasks[pass'.task].attempt
    BY <2>1, <2>2
  <2>4. MutexOurs /\ <<s, pass'.task>> \notin lost => sess[s].task = pass'.task
    BY <1>1, <1>2, <2>1 DEF ClaimInv, Recovering
  <2> QED
    BY <1>1, <1>2, <2>3, <2>4 DEF Sending, MutexOurs
<1> QED
  BY <1>2, <1>3, <1>4, <1>5, <1>6 DEF ClaimInv, Assigning, Choosing, Passing

(* The pass stays with its Task and its session, and writes nothing. *)
LEMMA GoesClaims ==
    ASSUME ClaimInv, UNCHANGED <<tasks, sess, disk>>, lost' = lost,
           NEW pc \in {"rename", "claim"}, Goes(pc),
           pass \in Serving, pass.pc \in {"reserve", "prepare"}
    PROVE  ClaimInv'
<1>1. /\ pass'.pc = pc /\ pass'.at = pass.at /\ pass'.todo = pass.todo /\ pass'.snap = pass.snap
      /\ pass # NoPass
  BY DEF Goes, Serving, NoPass
<1>2. StoresOK'
  BY StoresKept DEF ClaimInv
<1>3. NoCallAhead(Listed)'
  BY <1>1 DEF ClaimInv, NoCallAhead, Listed
<1>4. \A s, t : HasPrompt(s, t)' <=> HasPrompt(s, t)
  BY <1>1 DEF HasPrompt, Queued, InBox, Memory, Listed
<1>5. Assigning' /\ Choosing' /\ Passing'
  BY <1>1, <1>4 DEF ClaimInv, Assigning, Choosing, Passing
<1> QED
  BY <1>1, <1>2, <1>3, <1>5 DEF ClaimInv, Recovering, Sending

(* A prompt is sent to the session that is bound to the Task, and for an    *)
(* attempt that has begun.                                                  *)
LEMMA SendsClaims ==
    ASSUME IInv, IInv', ClaimInv, lost' = lost, NEW box, NEW raises, pass.pc \in {"resend", "send"},
           Sends(pass.at, pass.call, box, raises)
    PROVE  /\ StoresOK' /\ MutexOurs
           /\ \A s \in Session : sess'[s].task = sess[s].task
           /\ \A s \in Session \ {pass.at} : sess'[s] = sess[s]
           /\ \A t \in Task : tasks'[t].attempt = tasks[t].attempt /\ tasks'[t].status = tasks[t].status
<1>1. /\ sess' = [sess EXCEPT ![pass.at].box[pass.call] = box]
      /\ tasks' \in {tasks, Doubted(pass.at, pass.call)} /\ Saved /\ MutexOurs
  BY DEF Sends, MutexFor, MutexOurs
<1>2. pass.at \in Session /\ pass.task \in Task /\ pass.call \in Call
  BY PassAt
<1>3. \A t \in Task : tasks'[t].attempt = tasks[t].attempt /\ tasks'[t].status = tasks[t].status
  BY <1>1, <1>2, DoubtedWhat DEF IInv
<1>4. /\ \A s \in Session : sess'[s].task = sess[s].task
      /\ \A s \in Session \ {pass.at} : sess'[s] = sess[s]
      /\ \A s \in Session, c \in Call \ {pass.call} : sess'[s].box[c] = sess[s].box[c]
  BY <1>1, <1>2 DEF IInv, HubOK, Sessions, SessionRecord
<1>5. pass.call = <<pass.task, pass.call[2]>> /\ pass.call[2] <= tasks[pass.task].attempt
  BY <1>2 DEF ClaimInv, Sending, Call
<1>6. sess[pass.at].task = pass.task \/ <<pass.at, pass.task>> \in lost
  BY <1>1 DEF ClaimInv, Sending
<1>7. NoCallAhead(Memory)'
  <2> SUFFICES ASSUME NEW s \in Session, NEW t \in Task, NEW n \in 0 .. MaxAttempt,
                      sess'[s].box[<<t, n>>] # "absent"
               PROVE  n <= tasks[t].attempt
    BY <1>3 DEF NoCallAhead, Memory
  <2>1. CASE <<t, n>> = pass.call
    BY <1>5, <2>1
  <2>2. CASE <<t, n>> # pass.call
    <3>1. sess[s].box[<<t, n>>] # "absent"
      BY <1>4, <2>2 DEF Call
    <3> QED
      BY <3>1 DEF ClaimInv, StoresOK, NoCallAhead, Memory
  <2> QED
    BY <2>1, <2>2
<1>8. Bound(Memory)'
  <2> SUFFICES ASSUME NEW s \in Session, NEW t \in Task, <<s, t>> \notin lost,
                      tasks[t].status = "queued", sess'[s].box[<<t, tasks[t].attempt>>] # "absent"
               PROVE  sess[s].task = t
    BY <1>3, <1>4 DEF Bound, Prompts, Memory
  <2>1. CASE s = pass.at /\ <<t, tasks[t].attempt>> = pass.call
    BY <1>5, <1>6, <2>1
  <2>2. CASE ~(s = pass.at /\ <<t, tasks[t].attempt>> = pass.call)
    <3>1. <<t, tasks[t].attempt>> \in Call
      BY MemoryIsStore, AttemptType DEF IInv, Memory
    <3>2. sess[s].box[<<t, tasks[t].attempt>>] # "absent"
      BY <1>4, <2>2, <3>1
    <3> QED
      BY <3>2 DEF ClaimInv, StoresOK, Bound, Prompts, Memory
  <2> QED
    BY <2>1, <2>2
<1>9. disk' = Memory'
  BY <1>1 DEF Saved, Memory
<1>10. StoresOK'
  BY <1>7, <1>8, <1>9 DEF StoresOK, NoCallAhead, Bound, Prompts
<1> QED
  BY <1>1, <1>3, <1>4, <1>10

(* The list is as good for the sessions ahead as it was. *)
LEMMA ResendClaims ==
    ASSUME IInv, IInv', ClaimInv, lost' = lost, NEW box \in Standing, NEW raises \in BOOLEAN,
           Resend(box, raises)
    PROVE  ClaimInv'
<1>1. pass.pc = "resend" /\ pass # NoPass
  BY DEF Resend, NoPass
<1>2. /\ StoresOK' /\ MutexOurs
      /\ \A s \in Session : sess'[s].task = sess[s].task
      /\ \A t \in Task : tasks'[t].attempt = tasks[t].attempt
  BY <1>1, SendsClaims DEF Resend
<1>3. CASE PassReturns
  BY <1>2, <1>3, ReturnsClaims
<1>4. CASE ~PassReturns
  <2>1. pass'.pc \in {"remark", "recover"} /\ pass'.todo = pass.todo /\ pass'.snap = pass.snap
    <3>1. pass \in Serving
      BY <1>1, PassKinds DEF IInv, ControlOK
    <3> QED
      BY <1>4, <3>1 DEF Resend, Records, Returns, Serving
  <2>2. NoCallAhead(Listed)'
    BY <1>1, <1>2, <2>1 DEF ClaimInv, NoCallAhead, Listed
  <2>3. Recovering'
    BY <1>1, <1>2, <2>1, PassAt DEF ClaimInv, Recovering
  <2> QED
    BY <1>2, <2>1, <2>2, <2>3 DEF ClaimInv, Sending, Assigning, Choosing, Passing
<1> QED
  BY <1>3, <1>4

(* The Task is at work: nothing is claimed by its prompt any more. *)
LEMMA AtWorkCalm ==
    ASSUME IInv, NEW t \in Task, NEW session,
           tasks' = [tasks EXCEPT ![t] = [@ EXCEPT !.status = "working", !.session = session]],
           UNCHANGED sess
    PROVE  /\ Calm(Memory, Memory', lost)
           /\ \A u \in Task : /\ tasks'[u].attempt = tasks[u].attempt
                              /\ tasks'[u].status = "queued" => tasks[u].status = "queued"
<1> DEFINE record == [tasks[t] EXCEPT !.status = "working", !.session = session]
<1>1. record.attempt = tasks[t].attempt /\ record.status = "working"
  BY DEF IInv, HubOK, Tasks, TaskRecord
<1>2. tasks' = [tasks EXCEPT ![t] = record]
  BY Zenon
<1> HIDE DEF record
<1>3. Calm(Memory, [tasks |-> tasks', sess |-> sess'], lost)
  BY <1>1, <1>2, TaskCalm
<1> QED
  BY <1>1, <1>2, <1>3 DEF Memory, IInv, HubOK, Tasks

LEMMA RemarkClaims ==
    ASSUME IInv, IInv', ClaimInv, lost' = lost, Remark
    PROVE  ClaimInv'
<1> DEFINE t == pass.task
<1>1. pass.pc = "remark" /\ pass # NoPass /\ t \in Task /\ UNCHANGED sess
  BY PassAt DEF Remark, NoPass
<1>2. /\ StoresOK'
      /\ \A u \in Task : tasks'[u].attempt = tasks[u].attempt
  <2>1. CASE UNCHANGED <<tasks, disk>>
    BY <1>1, <2>1, StoresKept DEF ClaimInv
  <2>2. CASE /\ tasks' = [tasks EXCEPT ![t] = [@ EXCEPT !.status = "working", !.session = pass.at]]
             /\ Saved \/ UNCHANGED disk
    BY <1>1, <2>2, AtWorkCalm, StoresWritten DEF ClaimInv
  <2> QED
    BY <2>1, <2>2 DEF Remark, Unsaved
<1>3. CASE PassReturns
  BY <1>2, <1>3, ReturnsClaims
<1>4. CASE Recorded("recover")
  <2>1. pass'.pc = "recover" /\ pass'.todo = pass.todo /\ pass'.snap = pass.snap
    BY <1>4 DEF Recorded, Returns
  <2>2. NoCallAhead(Listed)'
    BY <1>1, <1>2, <2>1 DEF ClaimInv, NoCallAhead, Listed
  <2>3. MutexOurs
    BY <1>1 DEF MutexOurs, IInv, ControlOK, LocksAreHeld, Prompted
  <2>4. Recovering'
    BY <1>1, <2>1, <2>3 DEF ClaimInv, Recovering
  <2> QED
    BY <1>2, <2>1, <2>2, <2>4 DEF ClaimInv, Sending, Assigning, Choosing, Passing
<1> QED
  BY <1>3, <1>4 DEF Remark

(* Nobody has a prompt at a session that is free in the list. *)
LEMMA AssignVisitClaims ==
    ASSUME IInv, IInv', ClaimInv, lost' = lost, NEW s \in Session, AssignVisit(s)
    PROVE  ClaimInv'
<1>1. pass.pc = "assign" /\ pass # NoPass /\ s \in pass.todo /\ UNCHANGED <<sess, disk, mlock, dlock>>
  BY VisitingType DEF AssignVisit, Visits
<1>2. /\ pass'.snap = pass.snap /\ pass'.todo = pass.todo \ {s}
      /\ \/ pass'.pc = "assign"
         \/ pass'.pc = "reserve" /\ pass'.at = s /\ CanDispatch(pass.snap[s])
  <2>1. \/ pass' = Passed(s)
        \/ CanDispatch(pass.snap[s]) /\ \E t \in Task : Serves(s, t, "reserve")
    BY DEF AssignVisit, QueuedFor
  <2> QED
    BY <1>1, <2>1 DEF Serves, Passed
<1>3. \A t \in Task : tasks'[t].attempt = tasks[t].attempt /\ tasks'[t].status = tasks[t].status
  <2>1. CASE tasks' = tasks
    BY <2>1
  <2>2. CASE \E t \in Task : tasks' = [tasks EXCEPT ![t] = [@ EXCEPT !.session = s, !.pinned = FALSE]]
    BY <2>2 DEF IInv, HubOK, Tasks, TaskRecord
  <2> QED
    BY <2>1, <2>2 DEF AssignVisit, Reassignable
<1>4. StoresOK'
  <2>1. Calm(Memory, [tasks |-> tasks', sess |-> sess'], lost)
    BY <1>1, <1>3, BoxCalm
  <2> QED
    BY <1>1, <2>1, StoresWritten DEF ClaimInv, Memory
<1>5. NoCallAhead(Listed)'
  BY <1>1, <1>2, <1>3 DEF ClaimInv, NoCallAhead, Listed
<1>6. \A o \in Session, t \in Task : HasPrompt(o, t)' <=> HasPrompt(o, t)
  BY <1>1, <1>2, <1>3 DEF HasPrompt, Queued, InBox, Memory, Listed
<1>7. Assigning'
  BY <1>1, <1>2, <1>6, PassAt DEF ClaimInv, Assigning
<1>8. Choosing'
  <2> SUFFICES ASSUME pass'.pc = "reserve", NEW t \in Task, HasPrompt(s, t), <<s, t>> \notin lost
               PROVE  FALSE
    BY <1>2, <1>6 DEF Choosing
  <2>1. pass.snap[s].task = t /\ tasks[t].status = "queued"
    BY <1>1 DEF ClaimInv, Assigning, HasPrompt, Queued
  <2>2. CanDispatch(pass.snap[s])
    BY <1>2
  <2> QED
    BY <2>1, <2>2, DispatchAssumption DEF CanDispatch
<1> QED
  BY <1>2, <1>4, <1>5, <1>7, <1>8 DEF ClaimInv, Recovering, Sending, Passing

(* The record of the list is as good as the one in memory: what the session *)
(* was to others is lost, or was never there.                               *)
LEMMA RenameClaims ==
    ASSUME IInv, ClaimInv, lost' = lost, Rename
    PROVE  ClaimInv'
<1>1. pass.pc = "rename" /\ pass # NoPass /\ pass.at \in Session /\ UNCHANGED <<tasks, disk>>
  BY PassAt DEF Rename, NoPass
<1>2. /\ pass'.pc = "prepare" /\ pass'.at = pass.at
      /\ pass'.todo = pass.todo /\ pass'.snap = pass.snap
  <2>1. pass \in Serving
    BY <1>1, PassKinds DEF IInv, ControlOK
  <2> QED
    BY <2>1 DEF Rename, Goes, Serving
<1>3. /\ sess'[pass.at] \in {sess[pass.at], pass.snap[pass.at]}
      /\ \A s \in Session \ {pass.at} : sess'[s] = sess[s]
  BY <1>1 DEF Rename, IInv, HubOK, Sessions
<1>4. NoCallAhead(Memory)' /\ NoCallAhead(Listed)'
  BY <1>1, <1>2, <1>3 DEF ClaimInv, StoresOK, NoCallAhead, Memory, Listed
<1>5. \A s \in Session, t \in Task : HasPrompt(s, t)' => HasPrompt(s, t)
  BY <1>1, <1>2, <1>3 DEF HasPrompt, Queued, InBox, Memory, Listed
<1>6. Bound(Memory)'
  <2> SUFFICES ASSUME NEW s \in Session, NEW t \in Task, Prompts(Memory, s, t)', <<s, t>> \notin lost
               PROVE  sess'[s].task = t
    BY DEF Bound, Memory
  <2>1. HasPrompt(s, t)
    BY <1>5 DEF HasPrompt, Prompts, Queued, InBox, Memory
  <2>2. s # pass.at
    BY <1>1, <2>1 DEF ClaimInv, Choosing
  <2>3. sess'[s] = sess[s]
    BY <1>3, <2>2
  <2> QED
    BY <1>1, <2>3 DEF ClaimInv, StoresOK, Bound, Prompts, Memory
<1>7. StoresOK'
  BY <1>1, <1>4, <1>6 DEF ClaimInv, StoresOK, NoCallAhead, Bound, Prompts
<1>8. Assigning' /\ Choosing' /\ Passing'
  BY <1>1, <1>2, <1>5, PassAt DEF ClaimInv, Assigning, Choosing, Passing
<1> QED
  BY <1>2, <1>4, <1>7, <1>8 DEF ClaimInv, Recovering, Sending

(* The claim: nobody else has a prompt there, so nobody loses one. *)
LEMMA ClaimClaims ==
    ASSUME IInv, ClaimInv, Claim,
           lost' = IF pass'.pc = "send" THEN lost \ {<<pass.at, pass.task>>} ELSE lost
    PROVE  ClaimInv'
<1>1. pass.pc = "claim" /\ pass # NoPass /\ pass.at \in Session /\ pass.task \in Task /\ pass \in Serving
  BY PassAt, PassKinds DEF Claim, NoPass, IInv, ControlOK
<1>2. /\ sess'[pass.at].task = pass.task /\ sess'[pass.at].box = sess[pass.at].box
      /\ \A s \in Session \ {pass.at} : sess'[s] = sess[s]
  BY <1>1 DEF Claim, IInv, HubOK, Sessions, SessionRecord
<1>3. \A t \in Task : tasks'[t].attempt = tasks[t].attempt /\ tasks'[t].status = tasks[t].status
  BY <1>1 DEF Claim, IInv, HubOK, Tasks, TaskRecord
<1>4. NoCallAhead(Memory)'
  BY <1>2, <1>3 DEF ClaimInv, StoresOK, NoCallAhead, Memory
<1>5. \A s \in Session, t \in Task : Prompts(Memory, s, t)' => HasPrompt(s, t) /\ Prompts(Memory, s, t)
  BY <1>2, <1>3 DEF HasPrompt, Prompts, Queued, InBox, Memory
<1>6. Bound(Memory)'
  <2> SUFFICES ASSUME NEW s \in Session, NEW t \in Task, Prompts(Memory, s, t)', <<s, t>> \notin lost'
               PROVE  sess'[s].task = t
    BY DEF Bound, Memory
  <2>1. CASE s = pass.at /\ t = pass.task
    BY <1>2, <2>1
  <2>2. CASE ~(s = pass.at /\ t = pass.task)
    <3>1. <<s, t>> \notin lost
      BY <2>2
    <3>2. s # pass.at
      BY <1>1, <1>5, <3>1 DEF ClaimInv, Choosing
    <3> QED
      BY <1>2, <1>5, <3>1, <3>2 DEF ClaimInv, StoresOK, Bound, Memory
  <2> QED
    BY <2>1, <2>2
<1>7. CASE Saved /\ pass' = [pass EXCEPT !.pc = "send", !.was = tasks[pass.task].status,
                                         !.call = CallOf(pass.task)]
  <2>1. /\ pass'.pc = "send" /\ pass'.at = pass.at /\ pass'.task = pass.task
        /\ pass'.call = <<pass.task, tasks[pass.task].attempt>>
        /\ pass'.todo = pass.todo /\ pass'.snap = pass.snap
    BY <1>1, <1>7 DEF CallOf, Serving
  <2>2. disk' = Memory'
    BY <1>7 DEF Saved, Memory
  <2>3. StoresOK'
    BY <1>4, <1>6, <2>2 DEF StoresOK, NoCallAhead, Bound, Prompts
  <2>4. NoCallAhead(Listed)'
    BY <1>1, <1>3, <2>1 DEF ClaimInv, NoCallAhead, Listed
  <2>5. Sending'
    <3>1. tasks[pass.task].attempt \in Nat
      BY <1>1, MemoryIsStore, AttemptType DEF IInv, Memory
    <3>2. pass'.call[1] = pass.task /\ pass'.call[2] = tasks[pass.task].attempt
      BY <2>1
    <3> QED
      BY <1>1, <1>2, <1>3, <2>1, <3>1, <3>2 DEF Sending
  <2>6. Assigning'
    <3> SUFFICES ASSUME NEW s \in pass.todo, NEW t \in Task, HasPrompt(s, t)', <<s, t>> \notin lost'
                 PROVE  pass.snap[s].task = t
      BY <2>1 DEF Assigning
    <3>1. s # pass.at /\ s \in Session
      BY <1>1, PassAt DEF ClaimInv, Passing
    <3>2. <<s, t>> \notin lost
      BY <3>1
    <3>3. HasPrompt(s, t)
      BY <1>2, <1>3, <2>1, <3>1 DEF HasPrompt, Queued, InBox, Memory, Listed
    <3> QED
      BY <1>1, <3>2, <3>3 DEF ClaimInv, Assigning
  <2>7. Passing'
    BY <1>1, <2>1 DEF ClaimInv, Passing
  <2> QED
    BY <2>1, <2>3, <2>4, <2>5, <2>6, <2>7 DEF ClaimInv, Recovering, Choosing
<1>8. CASE Unsaved /\ PassReturns
  <2>1. pass' = NoPass /\ lost' = lost
    BY <1>8 DEF PassReturns, NoPass
  <2>2. disk' = Memory' \/ disk' = disk
    BY <1>8 DEF Unsaved, Saved, Memory
  <2>3. StoresOK'
    BY <1>4, <1>6, <2>1, <2>2 DEF ClaimInv, StoresOK, NoCallAhead, Bound, Prompts
  <2> QED
    BY <2>1, <2>3, EndClaims
<1> QED
  BY <1>7, <1>8 DEF Claim

(* Only the session served gets a prompt, and the pass is past it. *)
LEMMA SendClaims ==
    ASSUME IInv, IInv', ClaimInv, lost' = lost, NEW box \in Standing, NEW raises \in BOOLEAN,
           Send(box, raises)
    PROVE  ClaimInv'
<1>1. pass.pc = "send" /\ pass # NoPass /\ pass.at \in Session /\ pass \in Serving
  BY PassAt, PassKinds DEF Send, NoPass, IInv, ControlOK
<1>2. /\ StoresOK'
      /\ \A s \in Session \ {pass.at} : sess'[s] = sess[s]
      /\ \A t \in Task : tasks'[t].attempt = tasks[t].attempt /\ tasks'[t].status = tasks[t].status
  BY <1>1, SendsClaims DEF Send
<1>3. CASE PassReturns
  BY <1>2, <1>3, ReturnsClaims
<1>4. CASE Records("mark")
  <2>1. pass'.pc = "mark" /\ pass'.at = pass.at /\ pass'.todo = pass.todo /\ pass'.snap = pass.snap
    BY <1>1, <1>4 DEF Records, Serving
  <2>2. NoCallAhead(Listed)'
    BY <1>1, <1>2, <2>1 DEF ClaimInv, NoCallAhead, Listed
  <2>3. Passing'
    BY <1>1, <2>1 DEF ClaimInv, Passing
  <2>4. Assigning'
    <3> SUFFICES ASSUME NEW s \in pass.todo, NEW t \in Task, HasPrompt(s, t)', <<s, t>> \notin lost
                 PROVE  pass.snap[s].task = t
      BY <2>1 DEF Assigning
    <3>1. s # pass.at /\ s \in Session
      BY <1>1, PassAt DEF ClaimInv, Passing
    <3>2. HasPrompt(s, t)
      BY <1>2, <2>1, <3>1 DEF HasPrompt, Queued, InBox, Memory, Listed
    <3> QED
      BY <1>1, <3>2 DEF ClaimInv, Assigning
  <2> QED
    BY <1>2, <2>1, <2>2, <2>3, <2>4 DEF ClaimInv, Recovering, Sending, Choosing
<1> QED
  BY <1>3, <1>4 DEF Send

LEMMA MarkClaims ==
    ASSUME IInv, IInv', ClaimInv, lost' = lost, Mark
    PROVE  ClaimInv'
<1> DEFINE t == pass.task
<1>1. pass.pc = "mark" /\ pass # NoPass /\ t \in Task /\ UNCHANGED sess
  BY PassAt DEF Mark, NoPass
<1>2. /\ StoresOK'
      /\ \A u \in Task : /\ tasks'[u].attempt = tasks[u].attempt
                         /\ tasks'[u].status = "queued" => tasks[u].status = "queued"
  <2>1. CASE UNCHANGED <<tasks, disk>>
    BY <1>1, <2>1, StoresKept DEF ClaimInv
  <2>2. CASE tasks' = [tasks EXCEPT ![t].status = "working"] /\ (Saved \/ UNCHANGED disk)
    <3>1. [tasks EXCEPT ![t].status = "working"] =
             [tasks EXCEPT ![t] = [@ EXCEPT !.status = "working", !.session = tasks[t].session]]
      BY <1>1 DEF IInv, HubOK, Tasks, TaskRecord
    <3> QED
      BY <1>1, <2>2, <3>1, AtWorkCalm, StoresWritten DEF ClaimInv
  <2> QED
    BY <2>1, <2>2 DEF Mark, Unsaved
<1>3. CASE PassReturns
  BY <1>2, <1>3, ReturnsClaims
<1>4. CASE Recorded("assign")
  <2>1. pass'.pc = "assign" /\ pass'.todo = pass.todo /\ pass'.snap = pass.snap
    BY <1>4 DEF Recorded, Returns
  <2>2. NoCallAhead(Listed)'
    BY <1>1, <1>2, <2>1 DEF ClaimInv, NoCallAhead, Listed
  <2>3. \A s \in Session, u \in Task : HasPrompt(s, u)' => HasPrompt(s, u)
    BY <1>1, <1>2, <2>1 DEF HasPrompt, Queued, InBox, Memory, Listed
  <2>4. Assigning'
    BY <1>1, <2>1, <2>3, PassAt DEF ClaimInv, Assigning
  <2> QED
    BY <1>2, <2>1, <2>2, <2>4 DEF ClaimInv, Recovering, Sending, Choosing, Passing
<1> QED
  BY <1>3, <1>4 DEF Mark

LEMMA AroundClaimClaims ==
    ASSUME IInv, IInv', ClaimInv, lost' = lost, AroundClaim
    PROVE  ClaimInv'
<1>1. CASE RecoverEnd
  BY <1>1, BeginsClaims DEF RecoverEnd
<1>2. CASE AssignEnd
  BY <1>2, StoresKept, ReturnsClaims DEF AssignEnd, ClaimInv, hub
<1>3. CASE Reserve
  <2>1. pass \in Serving /\ pass.pc = "reserve"
    BY <1>3, PassKinds DEF Reserve, IInv, ControlOK
  <2> QED
    BY <1>3, <2>1, StoresKept, ReturnsClaims, GoesClaims DEF Reserve, ClaimInv, hub
<1>4. CASE Prepare
  <2>1. pass \in Serving /\ pass.pc = "prepare"
    BY <1>4, PassKinds DEF Prepare, IInv, ControlOK
  <2> QED
    BY <1>4, <2>1, StoresKept, ReturnsClaims, GoesClaims DEF Prepare, ClaimInv, hub
<1> QED
  BY <1>1, <1>2, <1>3, <1>4, RecoverVisitClaims, AssignVisitClaims, ResendClaims, SendClaims,
     RemarkClaims, MarkClaims, RenameClaims
  DEF AroundClaim

LEMMA MonitorStepClaims ==
    ASSUME IInv, IInv', ClaimInv, lost' = lost, MonitorStep
    PROVE  ClaimInv'
<1>1. CASE MonitorPass
  BY <1>1, BeginsClaims DEF MonitorPass
<1>2. CASE UNCHANGED <<hub, mlock, dlock, pass>>
  BY <1>2, StillClaims DEF hub, MutexOurs
<1>3. CASE UNCHANGED hub /\ PassReturns
  BY <1>3, StoresKept, ReturnsClaims DEF ClaimInv, hub
<1> QED
  BY <1>1, <1>2, <1>3 DEF MonitorStep, MonitorRound, DispatchTimeout, Observe, ObserveTimeout

(* What was saved is what the process starts again from. *)
LEMMA RestartClaims ==
    ASSUME IInv, ClaimInv, lost' = lost, NEW x \in {"processing", "uncertain"}, Restart(x)
    PROVE  ClaimInv'
<1> DEFINE inFlight(t) == {c \in Call : \E s \in Session : /\ disk.sess[s].task = t
                                                      /\ disk.sess[s].box[c] = "processing"}
           doubted == [t \in Task |-> [disk.tasks[t] EXCEPT !.doubt = @ \cup inFlight(t)]]
           box(s) == [c \in Call |-> IF disk.sess[s].box[c] = "processing" THEN x
                                     ELSE disk.sess[s].box[c]]
<1>1. disk.tasks \in Tasks /\ disk.sess \in Sessions
  BY DEF IInv, HubOK
<1>2. \A t \in Task : /\ doubted[t].attempt = disk.tasks[t].attempt
                      /\ doubted[t].status = disk.tasks[t].status
  <2> HIDE DEF inFlight
  <2> QED
    BY <1>1 DEF Tasks, TaskRecord
<1>3. tasks' \in {disk.tasks, doubted}
  BY DEF Restart
<1> HIDE DEF doubted
<1>4. \A t \in Task : /\ tasks'[t].attempt = disk.tasks[t].attempt
                      /\ tasks'[t].status = disk.tasks[t].status
  BY <1>2, <1>3
<1>5. sess' = [s \in Session |-> [disk.sess[s] EXCEPT !.box = box(s)]]
  BY DEF Restart
<1>6. \A s \in Session, c \in Call : box(s)[c] # "absent" => disk.sess[s].box[c] # "absent"
  OBVIOUS
<1> HIDE DEF box
<1>7. \A s \in Session : sess'[s].task = disk.sess[s].task /\ sess'[s].box = box(s)
  BY <1>1, <1>5 DEF Sessions, SessionRecord
<1>8. \A s \in Session, c \in Call : sess'[s].box[c] # "absent" => disk.sess[s].box[c] # "absent"
  BY <1>6, <1>7
<1>9. NoCallAhead(Memory)'
  BY <1>4, <1>8 DEF ClaimInv, StoresOK, NoCallAhead, Memory, Call
<1>10. Bound(Memory)'
  <2>1. \A t \in Task : <<t, disk.tasks[t].attempt>> \in Call
    BY MemoryIsStore, AttemptType DEF IInv
  <2>2. \A s \in Session, t \in Task : Prompts(Memory, s, t)' => Prompts(disk, s, t)
    BY <1>4, <1>8, <2>1 DEF Prompts, Memory
  <2> QED
    BY <1>7, <2>2 DEF ClaimInv, StoresOK, Bound, Memory
<1>11. disk' = Memory' /\ pass' = NoPass
  BY DEF Restart, Saved, Memory
<1>12. StoresOK'
  BY <1>9, <1>10, <1>11 DEF StoresOK, NoCallAhead, Bound, Prompts
<1> QED
  BY <1>11, <1>12, EndClaims

-----------------------------------------------------------------------------
(* The claims hold. *)

LEMMA ClaimInitOK ==
    ASSUME ClaimInit
    PROVE  ClaimInv
<1>1. /\ disk.tasks = tasks /\ disk.sess = sess /\ pass = NoPass /\ pass.pc = "none"
      /\ \A s \in Session, c \in Call : sess[s].box[c] = "absent"
  BY DEF ClaimInit, Init, NoPass
<1>2. \A s \in Session, t \in Task, n \in 0 .. MaxAttempt : sess[s].box[<<t, n>>] = "absent"
  BY <1>1 DEF Call
<1>3. \A t \in Task : tasks[t].attempt = 0 /\ tasks[t].status = "todo"
  BY DEF ClaimInit, Init
<1>4. StoresOK
  BY <1>1, <1>2, <1>3 DEF StoresOK, NoCallAhead, Bound, Prompts, Memory
<1> QED
  BY <1>1, <1>4 DEF ClaimInv, Recovering, Sending, Assigning, Choosing, Passing

LEMMA ClaimStepOK ==
    ASSUME IInv, ClaimInv, [ClaimNext]_claimVars
    PROVE  IInv' /\ ClaimInv'
<1>1. IInv'
  BY StepOK DEF ClaimNext, claimVars, Next
<1>2. CASE OtherStep /\ lost' = lost
  <2>1. CASE \E r \in Request : AroundEdit(r)
    BY <1>1, <1>2, <2>1, StartTaskClaims, AbortTaskClaims, BeginsClaims DEF AroundEdit, RequestPass
  <2> QED
    BY <1>1, <1>2, <2>1, AroundClaimClaims, MonitorStepClaims, SubmitClaims, PumpClaims,
       AgentChangesClaims, InitiatorProgressClaims, HandoffClaims, RestartClaims
    DEF OtherStep
<1>3. CASE UNCHANGED claimVars
  BY <1>1, <1>3, StillClaims DEF claimVars, vars, MutexOurs
<1> QED
  BY <1>1, <1>2, <1>3, ClaimClaims, EditTaskClaims, ReportsClaims DEF ClaimNext

(* The behaviours are those of the dispatch: the history says what was, and *)
(* keeps nothing from happening.                                            *)
THEOREM ClaimSpecIsSpec == ClaimSpec => Spec
<1>1. ClaimInit => Init
  BY DEF ClaimInit
<1>2. [ClaimNext]_claimVars => [Next]_vars
  BY DEF ClaimNext, Next, claimVars
<1> QED
  BY <1>1, <1>2, PTL DEF ClaimSpec, Spec

(* The inductive invariant of the claims. *)
THEOREM ClaimInvariant == ClaimSpec => [](IInv /\ ClaimInv)
<1>1. ClaimInit => IInv /\ ClaimInv
  BY InitOK, ClaimInitOK DEF ClaimInit
<1>2. IInv /\ ClaimInv /\ [ClaimNext]_claimVars => IInv' /\ ClaimInv'
  BY ClaimStepOK
<1> QED
  BY <1>1, <1>2, PTL DEF ClaimSpec

(* A prompt that was sent is bound in the file and stays bound, as long as  *)
(* its Task is queued, unless another Task takes the session or a user      *)
(* edits the Task: whatever saves fail, however often the process dies, and *)
(* for any number of Tasks, sessions and requests.                          *)
THEOREM ClaimHolds == ClaimSpec => []ClaimSurvives
<1>1. ClaimInv => ClaimSurvives
  BY DEF ClaimInv, StoresOK, ClaimSurvives
<1> QED
  BY <1>1, ClaimInvariant, PTL
=============================================================================
