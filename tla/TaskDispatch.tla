---------------------------- MODULE TaskDispatch ----------------------------
(* Admission and dispatch of Tasks to the agents of one workspace.          *)
(*                                                                          *)
(* The hub is one asyncio process, so code between two awaits is one step.  *)
(* Two locks order the coroutines: the dispatch lock, held for a whole      *)
(* dispatch pass, and the mutation lock of the workspace, which is          *)
(* re-entrant for its owner.  Only an abort holds the mutation lock beyond  *)
(* one step of this model: it commits, and runs a pass before it lets go;   *)
(* and a dispatch, from the sending of its prompt to the record of it.      *)
(* The coroutines are the background monitor and the requests of users:     *)
(* start, abort and edit of a Task.  Each of them ends with a pass.         *)
(*                                                                          *)
(* The outbox of a session is the abstraction of module DeliveryState that  *)
(* a dispatch sees: where the call "dispatch:<task>:<attempt>" stands.      *)

EXTENDS Naturals, FiniteSets

CONSTANTS
    Task, Session,
    Request,      \* the requests that may be in flight together
    Monitor,      \* the background monitor, the other coroutine
    Free,         \* the owner of a lock that nobody holds
    NoTask, NoSession,
    EditTo,       \* the statuses to which a user drags a Task
    MaxAttempt,   \* bound on the attempts of a Task
    MaxRequests,  \* bound on the requests made
    MaxFaults     \* bound on failures, crashes and stopped sessions

Status == {"todo", "queued", "working", "review", "done"}

ASSUME DispatchAssumption ==
    /\ NoTask \notin Task
    /\ NoSession \notin Session
    /\ Monitor \notin Request
    /\ Free \notin Request \cup {Monitor}
    /\ EditTo \subseteq Status \ {"review"}
    /\ MaxAttempt \in Nat /\ MaxRequests \in Nat /\ MaxFaults \in Nat

VARIABLES
    tasks,     \* the Task records in memory
    sess,      \* the session records in memory, each with its outbox
    disk,      \* both as they were last saved
    mlock,     \* the owner of the mutation lock
    dlock,     \* the owner of the dispatch lock, who runs the pass
    pass,      \* the local state of that pass
    mon,       \* where the monitor's round is
    req,       \* where each request is
    asked,     \* requests made
    faults     \* things gone wrong

hub == <<tasks, sess, disk>>
vars == <<tasks, sess, disk, mlock, dlock, pass, mon, req, asked, faults>>

Proc == Request \cup {Monitor}
Call == Task \X (0 .. MaxAttempt)
InDoubt == {"pending", "processing", "uncertain"}
Standing == InDoubt \cup {"absent", "delivered"}

(* doubt: the uncertain calls that the Task itself lists.  They are those   *)
(* that became uncertain at a session bound to it.                          *)
TaskRecord == [status  : Status,
               session : Session \cup {NoSession},
               attempt : 0 .. MaxAttempt,
               pinned  : BOOLEAN,
               control : {"workspace", "initiator", "released"},
               doubt   : SUBSET Call]

SessionRecord == [task : Task \cup {NoTask},
                  run  : {"idle", "working", "stopped"},
                  box  : [Call -> Standing]]

NoPass == [pc |-> "none"]

(* The pass visits the sessions of a list made when its phase began. *)
Visiting == [pc   : {"recover", "assign"},
             todo : SUBSET Session,
             snap : [Session -> SessionRecord]]

(* It waits at a session: to send again, or on its way through the steps of *)
(* _dispatch_task_to_session.  was, call: the Task's status and its call at *)
(* the claim.                                                               *)
Serving == [pc   : {"resend", "remark", "reserve", "rename", "prepare", "claim", "send", "mark"},
            todo : SUBSET Session,
            snap : [Session -> SessionRecord],
            task : Task,
            at   : Session,
            was  : Status,
            call : Call]

Idle == [pc |-> "idle"]
Job == [pc   : {"prepare", "queue", "pass"},
        kind : {"start", "abort", "edit"},
        task : Task]

(* Who holds the locks: the dispatch lock the coroutine whose pass it is,   *)
(* the mutation lock an abort that has its pass ahead of it, or a dispatch  *)
(* that has sent its prompt.                                                *)
Prompted == pass.pc \in {"remark", "mark"}
LocksAreHeld ==
    /\ dlock = Free <=> pass = NoPass
    /\ dlock = Monitor <=> mon = "pass"
    /\ \A r \in Request : dlock = r <=> req[r].pc = "pass"
    /\ mlock # Free => \/ Prompted /\ mlock = dlock
                       \/ /\ mlock \in Request
                          /\ req[mlock].kind = "abort" /\ req[mlock].pc \in {"queue", "pass"}
    /\ Prompted => mlock = dlock

(* The type invariant. *)
TypeOK ==
    /\ tasks \in [Task -> TaskRecord]
    /\ sess \in [Session -> SessionRecord]
    /\ disk \in [tasks : [Task -> TaskRecord], sess : [Session -> SessionRecord]]
    /\ mlock \in Proc \cup {Free}
    /\ dlock \in Proc \cup {Free}
    /\ pass \in {NoPass} \cup Visiting \cup Serving
    /\ mon \in {"due", "pass", "observe", "observed", "skipped"}
    /\ req \in [Request -> {Idle} \cup Job]
    /\ asked \in 0 .. MaxRequests
    /\ faults \in 0 .. MaxFaults
    /\ LocksAreHeld

Init ==
    /\ tasks = [t \in Task |-> [status |-> "todo", session |-> NoSession, attempt |-> 0,
                                pinned |-> FALSE, control |-> "workspace",
                                doubt |-> {}]]
    /\ sess = [s \in Session |-> [task |-> NoTask, run |-> "idle",
                                  box |-> [c \in Call |-> "absent"]]]
    /\ disk = [tasks |-> tasks, sess |-> sess]
    /\ mlock = Free
    /\ dlock = Free
    /\ pass = NoPass
    /\ mon = "observed"
    /\ req = [r \in Request |-> Idle]
    /\ asked = 0
    /\ faults = 0

-----------------------------------------------------------------------------
(* What the code asks about Tasks and sessions. *)

(* The mutation lock can be had, or is held already. *)
MutexFor(p) == mlock \in {Free, p}

(* Something goes wrong. *)
Fault == faults < MaxFaults /\ faults' = faults + 1

(* _save_state writes every record of the workspace.  It may raise, before  *)
(* or after the file was replaced.                                          *)
Saved == disk' = [tasks |-> tasks', sess |-> sess']
Unsaved == Fault /\ (Saved \/ UNCHANGED disk)

(* A change that is undone in memory when its save raises: it is made, or   *)
(* it fails and may be in the file all the same.                            *)
Commits(newTasks, newSess) ==
    /\ tasks' = newTasks
    /\ sess' = newSess
    /\ Saved
    /\ UNCHANGED faults
RollsBack(newTasks, newSess) ==
    /\ UNCHANGED <<tasks, sess>>
    /\ disk' \in {disk, [tasks |-> newTasks, sess |-> newSess]}
    /\ Fault

(* _can_dispatch_to, of a session record that may be an old one. *)
CanDispatch(record) ==
    /\ record.run = "idle"
    /\ record.task = NoTask \/ tasks[record.task].status = "done"

(* _can_assign_or_queue_to *)
CanAssign(record) ==
    \/ record.run = "working"
    \/ record.run # "stopped" /\ record.task # NoTask /\ tasks[record.task].status = "review"
    \/ CanDispatch(record)

(* The sessions that _choose_dispatch_target may take when the user names   *)
(* none: the one of the last assignment, else a free one, else a busy one.  *)
Targets(t) ==
    LET last == {s \in Session : s = tasks[t].session /\ CanAssign(sess[s])}
        free == {s \in Session : CanDispatch(sess[s])}
    IN  IF last # {} THEN last
        ELSE IF free # {} THEN free
        ELSE {s \in Session : CanAssign(sess[s])}

(* _next_queued_task *)
QueuedFor(s) ==
    {t \in Task : tasks[t].control = "workspace" /\ tasks[t].status = "queued" /\ tasks[t].session = s}

(* _next_reassignable_queued_task: queued for a session that cannot take it. *)
Reassignable(s) ==
    {t \in Task : /\ tasks[t].control = "workspace"
                  /\ tasks[t].status = "queued"
                  /\ ~tasks[t].pinned
                  /\ tasks[t].session \notin {s, NoSession}
                  /\ ~CanDispatch(sess[tasks[t].session])}

(* _task_execution_operations: a request keeps its Task reserved from its   *)
(* first step to its end, a dispatch from the reservation to its end.       *)
Reserved(t) ==
    \/ \E r \in Request : req[r].pc # "idle" /\ req[r].task = t
    \/ pass.pc \in {"rename", "prepare", "claim", "send", "mark"} /\ pass.task = t

CallOf(t) == <<t, tasks[t].attempt>>

(* _release_task_session *)
Released(t) ==
    LET s == tasks[t].session
    IN  IF s # NoSession /\ sess[s].task = t
        THEN [sess EXCEPT ![s] = [@ EXCEPT !.task = NoTask, !.run = "idle"]]
        ELSE sess

-----------------------------------------------------------------------------
(* Requests.  Each one reserves its Task under the mutation lock, then      *)
(* works in steps, and queues for the dispatch lock at last.                *)

Finished(r) ==
    /\ req' = [req EXCEPT ![r] = Idle]
    /\ UNCHANGED dlock

Queues(r) == req' = [req EXCEPT ![r].pc = "queue"]

(* start_task of a Task that is queued or at work only runs a pass, if the  *)
(* Task has a session.                                                      *)
Submit(r, kind, t) ==
    /\ req[r].pc = "idle"
    /\ asked < MaxRequests
    /\ mlock = Free
    /\ tasks[t].control = "workspace"
    /\ kind = "start" => /\ tasks[t].status # "done"
                         /\ tasks[t].status \in {"queued", "working"} => tasks[t].session # NoSession
    /\ req' = [req EXCEPT ![r] =
                 [pc   |-> IF kind = "start" /\ tasks[t].status \in {"queued", "working"}
                           THEN "queue" ELSE "prepare",
                  kind |-> kind, task |-> t]]
    /\ asked' = asked + 1
    /\ UNCHANGED <<hub, mlock, dlock, pass, mon, faults>>

(* The Task is read again after the awaits of the preparation.  A user may  *)
(* name the session; with none named and none fit the start is refused.     *)
(* When the save raises memory keeps what it could not save.                *)
StartTask(r) ==
    LET t == req[r].task
    IN  /\ req[r].pc = "prepare" /\ req[r].kind = "start"
        /\ \/ /\ tasks[t].status \notin {"done", "queued", "working"}
              /\ tasks[t].attempt < MaxAttempt
              /\ \E named \in BOOLEAN :
                 \E s \in IF named THEN {x \in Session : CanAssign(sess[x])} ELSE Targets(t) :
                    tasks' = [tasks EXCEPT ![t] = [@ EXCEPT !.status = "queued",
                                                            !.session = s,
                                                            !.attempt = tasks[t].attempt + 1,
                                                            !.pinned = named]]
              /\ UNCHANGED sess
              /\ \/ Saved /\ Queues(r) /\ UNCHANGED <<dlock, faults>>
                 \/ Unsaved /\ Finished(r)
           \/ /\ \/ tasks[t].status \in {"done", "queued", "working"}
                 \/ Targets(t) = {}
              /\ Finished(r)
              /\ UNCHANGED <<hub, faults>>
        /\ UNCHANGED <<mlock, pass, mon, asked>>

(* abort_task commits under the mutation lock and keeps it for its pass.    *)
AbortTask(r) ==
    LET t == req[r].task
        aborted == [tasks EXCEPT ![t] = [@ EXCEPT !.status = "todo",
                                                  !.session = NoSession,
                                                  !.pinned = FALSE]]
    IN  /\ req[r].pc = "prepare" /\ req[r].kind = "abort"
        /\ mlock = Free
        /\ IF tasks[t].status \in {"queued", "working", "review"}
           THEN \/ Commits(aborted, Released(t)) /\ mlock' = r /\ Queues(r) /\ UNCHANGED dlock
                \/ RollsBack(aborted, Released(t)) /\ Finished(r) /\ UNCHANGED mlock
           ELSE Finished(r) /\ UNCHANGED <<hub, mlock, faults>>
        /\ UNCHANGED <<pass, mon, asked>>

(* update_task with a status.  It lets the mutation lock go before its      *)
(* pass.  When the save raises, the file is read back: the edit is undone   *)
(* if it is not in there, and kept if that cannot be told.                  *)
EditTask(r, to) ==
    LET t == req[r].task
        s == tasks[t].session
        edited == /\ tasks' = [tasks EXCEPT ![t].status = to]
                  /\ sess' = CASE to = "done" -> Released(t)
                               [] to = "working" /\ s # NoSession -> [sess EXCEPT ![s].task = t]
                               [] OTHER -> sess
    IN  /\ req[r].pc = "prepare" /\ req[r].kind = "edit"
        /\ mlock = Free
        /\ \/ edited /\ Saved /\ Queues(r) /\ UNCHANGED <<dlock, faults>>
           \/ edited /\ Unsaved /\ Finished(r)
           \/ Fault /\ Finished(r) /\ UNCHANGED hub
        /\ UNCHANGED <<mlock, pass, mon, asked>>

-----------------------------------------------------------------------------
(* The dispatch pass of whoever holds the dispatch lock. *)

Begins(phase) == pass' = [pc |-> phase, todo |-> Session, snap |-> sess]

(* The pass ends, by an exception too, and lets its locks go: a request     *)
(* answers, the monitor goes on with its round.                             *)
PassReturns ==
    /\ pass' = NoPass
    /\ dlock' = Free
    /\ mlock' = IF mlock = dlock THEN Free ELSE mlock
    /\ mon' = IF dlock = Monitor THEN "observe" ELSE mon
    /\ req' = IF dlock = Monitor THEN req ELSE [req EXCEPT ![dlock] = Idle]

RequestPass(r) ==
    /\ req[r].pc = "queue"
    /\ dlock = Free
    /\ dlock' = r
    /\ req' = [req EXCEPT ![r].pc = "pass"]
    /\ Begins("recover")
    /\ UNCHANGED <<hub, mlock, mon, asked, faults>>

MonitorPass ==
    /\ mon = "due"
    /\ dlock = Free
    /\ dlock' = Monitor
    /\ mon' = "pass"
    /\ Begins("recover")
    /\ UNCHANGED <<hub, mlock, req, asked, faults>>

(* The next session of the list is s. *)
Visits(s) == s \in pass.todo
Passed(s) == [pc |-> pass.pc, todo |-> pass.todo \ {s}, snap |-> pass.snap]
Serves(s, t, pc) ==
    pass' = [pc |-> pc, todo |-> pass.todo \ {s}, snap |-> pass.snap,
             task |-> t, at |-> s, was |-> tasks[t].status, call |-> CallOf(t)]
Goes(pc) == pass' = [pass EXCEPT !.pc = pc]
Returns(phase) == [pc |-> phase, todo |-> pass.todo, snap |-> pass.snap]

(* _recover_queued_task_ownership: is this a session whose dispatch may     *)
(* have been cut short?                                                     *)
CutShort(s) ==
    LET old == pass.snap[s]
    IN  /\ old.run # "stopped"
        /\ old.task # NoTask
        /\ tasks[old.task].control = "workspace"
        /\ tasks[old.task].status = "queued"

RecoverVisit(s) ==
    /\ pass.pc = "recover"
    /\ Visits(s)
    /\ IF CutShort(s) THEN Serves(s, pass.snap[s].task, "resend") ELSE pass' = Passed(s)
    /\ UNCHANGED <<hub, mlock, dlock, mon, req, asked, faults>>

RecoverEnd ==
    /\ pass.pc = "recover"
    /\ pass.todo = {}
    /\ Begins("assign")
    /\ UNCHANGED <<hub, mlock, dlock, mon, req, asked, faults>>

(* _mark_processing_as_uncertain also lists the call on the Task to which   *)
(* the session is bound, be it another one's.                               *)
Doubted(s, c) ==
    LET bound == sess[s].task
    IN  IF bound = NoTask THEN tasks ELSE [tasks EXCEPT ![bound].doubt = @ \cup {c}]

(* _send_dispatch_message, holding the mutation lock: a call that is absent *)
(* is put into the outbox, and what is not sent is sent.  It may have to    *)
(* wait there; a failure to send raises, or leaves the call in doubt.       *)
Sends(s, c, box, raises) ==
    LET before == sess[s].box[c]
    IN  /\ MutexFor(dlock)
        /\ sess' = [sess EXCEPT ![s].box[c] = box]
        /\ tasks' = IF box # before /\ box = "uncertain" THEN Doubted(s, c) ELSE tasks
        /\ Saved
        /\ IF before \in {"absent", "pending"}
           THEN \/ box \in {"pending", "processing"} /\ ~raises /\ UNCHANGED faults
                \/ box \in {"pending", "uncertain"} /\ raises /\ Fault
           ELSE box = before /\ raises = (before = "uncertain") /\ UNCHANGED faults

(* With the prompt given, its sender goes on to record it.  The lock goes   *)
(* back unless the sender is an abort, who had it before.                   *)
Records(pc) ==
    /\ pass' = [pass EXCEPT !.pc = pc]
    /\ mlock' = dlock
    /\ UNCHANGED <<dlock, mon, req>>
Recorded(phase) ==
    /\ pass' = Returns(phase)
    /\ mlock' = IF dlock # Monitor /\ req[dlock].kind = "abort" THEN mlock ELSE Free
    /\ UNCHANGED <<dlock, mon, req>>

(* The session takes the call again, or takes it up for the first time;     *)
(* the system does not try one again that is in doubt.                      *)
Resend(box, raises) ==
    /\ pass.pc = "resend"
    /\ Sends(pass.at, pass.call, box, raises)
    /\ \/ ~raises /\ Records("remark")
       \/ raises /\ box = "uncertain" /\ pass' = Returns("recover") /\ UNCHANGED <<mlock, dlock, mon, req>>
       \/ raises /\ box # "uncertain" /\ PassReturns
    /\ UNCHANGED asked

(* The Task is at work now, unless it is no longer queued for the session.  *)
Remark ==
    LET t == pass.task
    IN  /\ pass.pc = "remark"
        /\ UNCHANGED <<sess, asked>>
        /\ IF tasks[t].status = "queued" /\ tasks[t].session \in {NoSession, pass.at}
           THEN /\ tasks' = [tasks EXCEPT ![t] = [@ EXCEPT !.status = "working",
                                                           !.session = pass.at]]
                /\ \/ Saved /\ Recorded("recover") /\ UNCHANGED faults
                   \/ Unsaved /\ PassReturns
           ELSE Recorded("recover") /\ UNCHANGED <<tasks, disk, faults>>

(* Mutant: queued Tasks do not migrate. *)
AssignVisitOwnOnly(s) ==
    /\ pass.pc = "assign"
    /\ Visits(s)
    /\ IF CanDispatch(pass.snap[s])
       THEN \/ \E t \in QueuedFor(s) : Serves(s, t, "reserve")
            \/ QueuedFor(s) = {} /\ pass' = Passed(s)
       ELSE pass' = Passed(s)
    /\ UNCHANGED <<hub, mlock, dlock, mon, req, asked, faults>>

(* _dispatch_workspace_locked: a free session takes over a Task that waits  *)
(* for a session which cannot take it, then the next Task queued for it.    *)
(* The session is judged by the list, the owner of the other Task live.     *)
AssignVisit(s) ==
    /\ pass.pc = "assign"
    /\ Visits(s)
    /\ IF CanDispatch(pass.snap[s])
       THEN LET moves == Reassignable(s)
            IN  /\ \/ \E t \in moves :
                          tasks' = [tasks EXCEPT ![t] = [@ EXCEPT !.session = s, !.pinned = FALSE]]
                   \/ moves = {} /\ UNCHANGED tasks
                /\ \/ \E t \in QueuedFor(s)' : Serves(s, t, "reserve")
                   \/ QueuedFor(s)' = {} /\ pass' = Passed(s)
       ELSE pass' = Passed(s) /\ UNCHANGED tasks
    /\ UNCHANGED <<sess, disk, mlock, dlock, mon, req, asked, faults>>

AssignEnd ==
    /\ pass.pc = "assign"
    /\ pass.todo = {}
    /\ PassReturns
    /\ UNCHANGED <<hub, asked, faults>>

(* _workspace_execution_operation: a Task that was handed off is refused.   *)
Reserve ==
    /\ pass.pc = "reserve"
    /\ MutexFor(dlock)
    /\ IF tasks[pass.task].control = "workspace"
       THEN Goes("rename") /\ UNCHANGED <<dlock, mlock, mon, req>>
       ELSE PassReturns
    /\ UNCHANGED <<hub, asked, faults>>

(* _rename_session_for_task awaits the tab, then writes the session record  *)
(* of the list back under its new title, unless the title is right already. *)
Rename ==
    /\ pass.pc = "rename"
    /\ \/ sess' = [sess EXCEPT ![pass.at] = pass.snap[pass.at]]
       \/ UNCHANGED sess
    /\ Goes("prepare")
    /\ UNCHANGED <<tasks, disk, mlock, dlock, mon, req, asked, faults>>

(* _resume_chat_session and _reset_session_context take the mutation lock,  *)
(* and may raise.                                                           *)
Prepare ==
    /\ pass.pc = "prepare"
    /\ MutexFor(dlock)
    /\ \/ Goes("claim") /\ UNCHANGED <<dlock, mlock, mon, req, faults>>
       \/ Fault /\ PassReturns
    /\ UNCHANGED <<hub, asked>>

(* Mutant: only the Task is bound before its prompt is sent. *)
ClaimTaskOnly ==
    /\ pass.pc = "claim"
    /\ tasks' = [tasks EXCEPT ![pass.task].session = pass.at]
    /\ pass' = [pass EXCEPT !.pc = "send", !.was = tasks[pass.task].status,
                                           !.call = CallOf(pass.task)]
    /\ UNCHANGED <<sess, mlock, dlock, mon, req, asked, faults>>
    /\ Saved

(* The session is bound to the Task, whatever its status is now, and the    *)
(* binding is saved before the prompt is sent.                              *)
Claim ==
    /\ pass.pc = "claim"
    /\ sess' = [sess EXCEPT ![pass.at] = [@ EXCEPT !.task = pass.task, !.run = "working"]]
    /\ tasks' = [tasks EXCEPT ![pass.task].session = pass.at]
    /\ \/ /\ Saved
          /\ pass' = [pass EXCEPT !.pc = "send", !.was = tasks[pass.task].status,
                                                 !.call = CallOf(pass.task)]
          /\ UNCHANGED <<mlock, dlock, mon, req, faults>>
       \/ Unsaved /\ PassReturns
    /\ UNCHANGED asked

Send(box, raises) ==
    /\ pass.pc = "send"
    /\ Sends(pass.at, pass.call, box, raises)
    /\ \/ ~raises /\ Records("mark")
       \/ raises /\ PassReturns
    /\ UNCHANGED asked

(* The Task is marked as being worked on, unless its status or its session  *)
(* changed since the claim.                                                 *)
Mark ==
    LET t == pass.task
    IN  /\ pass.pc = "mark"
        /\ UNCHANGED <<sess, asked>>
        /\ IF tasks[t].status = pass.was /\ tasks[t].session = pass.at
           THEN /\ tasks' = [tasks EXCEPT ![t].status = "working"]
                /\ \/ Saved /\ Recorded("assign") /\ UNCHANGED faults
                   \/ Unsaved /\ PassReturns
           ELSE Recorded("assign") /\ UNCHANGED <<tasks, disk, faults>>

-----------------------------------------------------------------------------
(* The monitor: each step of a round is bounded by a timeout of its own.    *)

MonitorRound ==
    /\ mon \in {"observed", "skipped"}
    /\ mon' = "due"
    /\ UNCHANGED <<hub, mlock, dlock, pass, req, asked, faults>>

(* The pass of the holder of the dispatch lock waits for the mutation lock. *)
PassWaits ==
    /\ pass.pc \in {"resend", "reserve", "prepare", "send"}
    /\ ~MutexFor(dlock)

(* Mutant: the cancelled pass does not let the dispatch lock go. *)
DispatchTimeoutKeepsLock ==
    /\ dlock = Monitor
    /\ mon' = "observe"
    /\ pass' = NoPass
    /\ UNCHANGED <<hub, mlock, dlock, req, asked, faults>>

(* Mutant: nor the mutation lock, if it was sending a prompt. *)
DispatchTimeoutKeepsMutex ==
    \/ /\ mon = "due"
       /\ dlock # Free
       /\ mon' = "observe"
       /\ UNCHANGED <<hub, mlock, dlock, pass, req, asked, faults>>
    \/ /\ dlock = Monitor
       /\ \/ PassWaits /\ UNCHANGED faults
          \/ Fault
       /\ pass' = NoPass
       /\ dlock' = Free
       /\ mon' = "observe"
       /\ UNCHANGED <<hub, mlock, req, asked>>

(* A dispatch that waits for a lock is cancelled; any other one may be too  *)
(* slow. *)
DispatchTimeout ==
    \/ /\ mon = "due"
       /\ dlock # Free
       /\ mon' = "observe"
       /\ UNCHANGED <<hub, mlock, dlock, pass, req, asked, faults>>
    \/ /\ dlock = Monitor
       /\ \/ PassWaits /\ UNCHANGED faults
          \/ Fault
       /\ PassReturns
       /\ UNCHANGED <<hub, asked>>

(* _tick_task_lifecycles observes the Tasks under the mutation lock. *)
Observe ==
    /\ mon = "observe"
    /\ mlock = Free
    /\ mon' = "observed"
    /\ UNCHANGED <<hub, mlock, dlock, pass, req, asked, faults>>

ObserveTimeout ==
    /\ mon = "observe"
    /\ mlock # Free
    /\ mon' = "skipped"
    /\ UNCHANGED <<hub, mlock, dlock, pass, req, asked, faults>>

(* _pump_session_messages sends what is pending. *)
Pump(s, c) ==
    /\ mlock = Free
    /\ sess[s].box[c] = "pending"
    /\ sess[s].run # "stopped"
    /\ \/ sess' = [sess EXCEPT ![s].box[c] = "processing"] /\ UNCHANGED <<tasks, faults>>
       \/ sess' = [sess EXCEPT ![s].box[c] = "uncertain"] /\ tasks' = Doubted(s, c) /\ Fault
    /\ UNCHANGED <<mlock, dlock, pass, mon, req, asked>>
    /\ Saved

-----------------------------------------------------------------------------
(* Agents, executors and the process. *)

(* create_report: the agent to which a Task is bound answers its prompt,    *)
(* which acknowledges the call: it is at work, or hands the Task in for     *)
(* review.  The session is bound to the Task again.                         *)
Report(s, t, to) ==
    LET a == {c \in Call : c[1] = t /\ sess[s].box[c] \in {"processing", "uncertain"}}
        acked == a \cap {CallOf(t)}
        reported == [tasks EXCEPT ![t] = [@ EXCEPT !.status = to, !.doubt = tasks[t].doubt \ acked]]
        box == [c \in Call |-> IF c \in acked THEN "delivered" ELSE sess[s].box[c]]
        bound == [sess EXCEPT ![s] = [task |-> t, box |-> box,
                                      run  |-> IF to = "working" THEN "working" ELSE "idle"]]
    IN  /\ mlock = Free
        /\ a # {}
        /\ tasks[t].control = "workspace"
        /\ tasks[t].session = s
        /\ tasks[t].status \in {"queued", "working"}
        /\ Commits(reported, bound) \/ RollsBack(reported, bound)
        /\ UNCHANGED <<mlock, dlock, pass, mon, req, asked>>

(* The monitor finds an agent at its prompt, gone, or back. *)
AgentChanges(s, run) ==
    /\ sess' = [sess EXCEPT ![s].run = run]
    /\ \/ sess[s].run = "working" /\ run = "idle" /\ UNCHANGED faults
       \/ sess[s].run = "stopped" /\ run = "idle" /\ UNCHANGED faults
       \/ sess[s].run # "stopped" /\ run = "stopped" /\ Fault
    /\ UNCHANGED <<tasks, mlock, dlock, pass, mon, req, asked>>
    /\ Saved

(* Mutant: operations in flight do not keep a Task from being handed off. *)
QuiescentUnreserved(t) ==
    /\ tasks[t].status \notin {"queued", "working", "review"}
    /\ tasks[t].doubt = {}
    /\ \A s \in Session : sess[s].task # t

(* _require_quiescent_workspace_task.  Of the calls that stand in outboxes  *)
(* a Task lists the uncertain ones only.                                    *)
Quiescent(t) ==
    /\ ~Reserved(t)
    /\ tasks[t].status \notin {"queued", "working", "review"}
    /\ tasks[t].doubt = {}
    /\ \A s \in Session : sess[s].task # t

(* handoff_task_execution: from the workspace to an external executor, and  *)
(* from one that has released the Task to another or back.                  *)
Handoff(t, to) ==
    LET handed == [tasks EXCEPT ![t] = [@ EXCEPT !.control = to, !.status = "todo",
                                                 !.session = NoSession, !.pinned = FALSE]]
    IN  /\ mlock = Free
        /\ asked < MaxRequests
        /\ asked' = asked + 1
        /\ \/ tasks[t].control = "workspace" /\ to = "initiator" /\ Quiescent(t)
           \/ tasks[t].control = "released"
        /\ Commits(handed, sess) \/ RollsBack(handed, sess)
        /\ UNCHANGED <<mlock, dlock, pass, mon, req>>

(* The progress of the external executor, who may give the Task back.  A    *)
(* Task that failed is done with as well.                                   *)
InitiatorProgress(t) ==
    LET reports(new) == Commits(new, sess) \/ RollsBack(new, sess)
    IN  /\ mlock = Free
        /\ tasks[t].control = "initiator"
        /\ \/ /\ tasks[t].status # "done"
              /\ \E to \in {"working", "done"} : reports([tasks EXCEPT ![t].status = to])
           \/ reports([tasks EXCEPT ![t].control = "released"])
        /\ UNCHANGED <<mlock, dlock, pass, mon, req, asked>>

(* The process dies and starts again from disk.  What was in flight is in   *)
(* doubt on a Terminal without a receipt, and in flight with one.           *)
Restart(x) ==
    LET inFlight(t) == {c \in Call : \E s \in Session : /\ disk.sess[s].task = t
                                                        /\ disk.sess[s].box[c] = "processing"}
    IN
    /\ Fault
    /\ tasks' = IF x = "processing" THEN disk.tasks
                ELSE [t \in Task |-> [disk.tasks[t] EXCEPT !.doubt = @ \cup inFlight(t)]]
    /\ sess' = [s \in Session |-> [disk.sess[s] EXCEPT !.box =
                  [c \in Call |-> IF @[c] = "processing" THEN x ELSE @[c]]]]
    /\ Saved
    /\ mlock' = Free
    /\ dlock' = Free
    /\ pass' = NoPass
    /\ mon' = "observed"
    /\ req' = [r \in Request |-> Idle]
    /\ UNCHANGED asked

-----------------------------------------------------------------------------
(* The steps of a pass, of the monitor and of requests; a claim and an edit *)
(* stand apart, because they and reports are how sessions change hands.     *)
AroundClaim ==
    \/ \E s \in Session : RecoverVisit(s) \/ AssignVisit(s)
    \/ RecoverEnd
    \/ AssignEnd
    \/ \E box \in Standing, raises \in BOOLEAN : Resend(box, raises) \/ Send(box, raises)
    \/ Remark
    \/ Mark
    \/ Reserve
    \/ Rename
    \/ Prepare
PassStep == AroundClaim \/ Claim

AroundEdit(r) ==
    \/ StartTask(r)
    \/ AbortTask(r)
    \/ RequestPass(r)
RequestStep(r) == AroundEdit(r) \/ \E to \in EditTo : EditTask(r, to)

MonitorStep ==
    \/ MonitorRound
    \/ MonitorPass
    \/ DispatchTimeout
    \/ Observe
    \/ ObserveTimeout

Reports(s, t) == \E to \in {"working", "review"} : Report(s, t, to)

OtherStep ==
    \/ AroundClaim
    \/ MonitorStep
    \/ \E r \in Request : AroundEdit(r)
    \/ \E r \in Request, kind \in {"start", "abort", "edit"}, t \in Task : Submit(r, kind, t)
    \/ \E s \in Session, c \in Call : Pump(s, c)
    \/ \E s \in Session, run \in {"idle", "stopped"} : AgentChanges(s, run)
    \/ \E t \in Task : InitiatorProgress(t) \/ \E to \in {"workspace", "initiator"} : Handoff(t, to)
    \/ \E x \in {"processing", "uncertain"} : Restart(x)

Next ==
    \/ OtherStep
    \/ Claim
    \/ \E r \in Request, to \in EditTo : EditTask(r, to)
    \/ \E s \in Session, t \in Task : Reports(s, t)

Spec == Init /\ [][Next]_vars

(* The event loop runs every coroutine that is ready.  The locks are given  *)
(* out in the order of asking, so whoever asks again and again gets them.   *)
Fairness ==
    /\ WF_vars(PassStep)
    /\ WF_vars(MonitorStep)
    /\ SF_vars(Observe)
    /\ SF_vars(MonitorPass)
    /\ \A r \in Request : SF_vars(RequestStep(r))

FairSpec == Spec /\ Fairness

-----------------------------------------------------------------------------
(* Properties. *)

(* While an external executor has a Task, the workspace has no hand in it:  *)
(* it is bound to no session, it is not in the queue or in review, and no   *)
(* dispatch and no request that began before works on it still, in memory   *)
(* and after a restart (_require_quiescent_workspace_task,                  *)
(* _workspace_execution_operation).                                         *)
Unbound(record) ==
    record.control # "workspace" => /\ record.session = NoSession
                                    /\ record.status \notin {"queued", "review"}
HandedOffIsLeftAlone ==
    \A t \in Task : /\ Unbound(tasks[t]) /\ Unbound(disk.tasks[t])
                    /\ tasks[t].control # "workspace" => ~Reserved(t)

(* _workspaces.py: "a failing dispatch for one workspace must skip neither  *)
(* its lifecycle observation nor any other workspace".                      *)
LifecyclesAreObserved == []<>(mon = "observed")

(* A Task that waits for a session which cannot take it, and that may move, *)
(* or for one that can, does not wait for ever (the pass after a request or *)
(* in a round of the monitor, and the reassignment of queued Tasks).        *)
Stranded(t) == \E s \in Session : CanDispatch(sess[s]) /\ t \in Reassignable(s) \cup QueuedFor(s)
QueuedIsTakenUp == \A t \in Task : []<>~Stranded(t)

(* queue.py: "the system MUST NOT auto-retry an uncertain dispatch": while  *)
(* a dispatch is uncertain at one session no other one is sent it.          *)
UncertainStaysPut ==
    [][\A s, o \in Session, c \in Call :
          sess[s].box[c] = "uncertain" /\ sess[o].box[c] = "absent" => sess'[o].box[c] = "absent"]_vars
=============================================================================
