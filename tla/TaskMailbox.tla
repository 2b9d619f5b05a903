----------------------------- MODULE TaskMailbox -----------------------------
(***************************************************************************)
(* The TaskMailbox of one workspace: a durable stream of Task events with  *)
(* workspace-wide sequence numbers, one acknowledgement cursor per Task,   *)
(* and the directed long-poll by which a Task (its supervisor agent) waits *)
(* for what is addressed to it or happens in its subtree.                  *)
(*                                                                         *)
(* Everything runs on one asyncio loop.  Appending, acknowledging and      *)
(* deleting do not yield, so each of them is one action, its save and its  *)
(* roll-back included; a long-poll yields between its polls.  A save that  *)
(* raises either left state.json as it was or raised after it had been     *)
(* replaced.                                                               *)
(*                                                                         *)
(* Abstractions: the body of an event is its addressee; the call index is  *)
(* not a variable, it has one entry per call_id in the stream.  The Task   *)
(* tree is fixed.                                                          *)
(***************************************************************************)
EXTENDS Naturals, FiniteSetsExt

CONSTANTS
    Task,         \* Tasks of the workspace
    NoTask,       \* parent of a root Task
    Parent,       \* Task -> its parent
    Above,        \* Task -> its proper ancestors (the Task's path)
    Deletable,    \* Tasks that no other Task depends on
    Call,         \* call_ids of events
    Waiter,       \* concurrent long-polls
    WaitSpawns,   \* TRUE: asyncio.wait_for runs Event.wait in a task of its
                  \* own (CPython 3.11); FALSE: it awaits it directly (3.12)
    MaxSeq,       \* bound: sequence numbers that are assigned
    MaxFaults     \* bound: saves that raise, restarts

ASSUME ParentAssumption == Parent \in [Task -> Task \cup {NoTask}] /\ NoTask \notin Task
ASSUME AboveAssumption ==
    Above = [t \in Task |-> IF Parent[t] = NoTask THEN {} ELSE {Parent[t]} \cup Above[Parent[t]]]
ASSUME BoundsAssumption == WaitSpawns \in BOOLEAN /\ MaxSeq \in Nat /\ MaxFaults \in Nat

VARIABLES
    mem,       \* the stream, the cursors and the Tasks in memory
    next,      \* _next_seq: the next sequence number in memory
    disk,      \* what state.json holds
    waiter,    \* the long-polls
    flag,      \* the asyncio.Event of each consumer
    answered,  \* ghost: events whose append was answered with success
    rung,      \* ghost: events whose waiters were woken since the start
    faults     \* faults so far

vars == <<mem, next, disk, waiter, flag, answered, rung, faults>>
stream == <<mem, next, disk>>
polls == <<waiter, flag>>

Event == [seq : 1 .. MaxSeq, call : Call, task : Task, to : Task]
Store == [events : SUBSET Event, cursor : [Task -> 0 .. MaxSeq], live : SUBSET Task]
Poll == [key : Task, since : 0 .. MaxSeq, sub : BOOLEAN]

NoPoll == [pc |-> "idle"]

(* Type invariant. *)
TypeOK ==
    /\ mem \in Store
    /\ disk \in Store
    /\ next \in 1 .. MaxSeq + 1
    /\ waiter \in [Waiter -> {NoPoll} \cup
                             [pc : {"spawned", "asleep", "woken"}, poll : Poll]]
    /\ flag \in [Task -> BOOLEAN]
    /\ answered \subseteq Event
    /\ rung \subseteq Event
    /\ faults \in 0 .. MaxFaults

Init ==
    /\ mem = [events |-> {}, cursor |-> [t \in Task |-> 0], live |-> Task]
    /\ disk = mem
    /\ next = 1
    /\ waiter = [w \in Waiter |-> NoPoll]
    /\ flag = [t \in Task |-> FALSE]
    /\ answered = {}
    /\ rung = {}
    /\ faults = 0

-----------------------------------------------------------------------------
(* Helpers. *)

Calls(events) == {e.call : e \in events}

(* _workspace_max_sequence *)
MaxSequence == Max({e.seq : e \in mem.events} \cup {next - 1})

(* An event goes to its own Task's inbox or to the Task's supervisor. *)
Addressees(t) == IF Parent[t] = NoTask THEN {t} ELSE {t, Parent[t]}

(* A save of m succeeds, or raises: then the file is either one of the two.*)
Saved(m) == disk' = m /\ UNCHANGED faults

SaveRaises(m) == faults < MaxFaults /\ faults' = faults + 1 /\ disk' \in {disk, m}

(* Events that a poll returns: above the durable cursor and the caller's   *)
(* floor, addressed to the consumer or, on request, of its subtree.        *)
Visible(p) ==
    {e \in mem.events : /\ e.seq > mem.cursor[p.key]
                        /\ e.seq > p.since
                        /\ \/ e.to = p.key
                           \/ p.sub /\ p.key \in Above[e.task] \cup {e.task}}

Polling(w) == waiter[w].pc # "idle"

(* Mutant: only the supervisor's subtree waiters are woken. *)
AudienceParentOnly(e) ==
    {e.to} \cup {k \in {Parent[e.task]} :
                    \E w \in Waiter : Polling(w) /\ waiter[w].poll.key = k /\ waiter[w].poll.sub}

(* The consumers an event wakes: its addressee, and the ancestors of its   *)
(* Task that have a subtree waiter.                                        *)
Audience(e) ==
    {e.to} \cup {k \in Above[e.task] :
                    \E w \in Waiter : Polling(w) /\ waiter[w].poll.key = k /\ waiter[w].poll.sub}

(* Set the Event of every consumer in the audience. *)
Ring(e) ==
    /\ rung' = rung \cup {e}
    /\ flag' = [k \in Task |-> flag[k] \/ k \in Audience(e)]
    /\ waiter' = [w \in Waiter |->
                    IF waiter[w].pc = "asleep" /\ waiter[w].poll.key \in Audience(e)
                    THEN [waiter[w] EXCEPT !.pc = "woken"]
                    ELSE waiter[w]]

Silent == UNCHANGED <<polls, rung>>

-----------------------------------------------------------------------------
(* The stream. *)

Staged(e) == [mem EXCEPT !.events = @ \cup {e}]

New(c, t, to) == [seq |-> MaxSequence + 1, call |-> c, task |-> t, to |-> to]

(* Mutant: a call_id that is already in the stream is not looked up. *)
MayAppendAnyCall(c, t, to) ==
    /\ t \in mem.live
    /\ to \in Addressees(t)
    /\ c \in Call
    /\ MaxSequence < MaxSeq

MayAppend(c, t, to) ==
    /\ t \in mem.live
    /\ to \in Addressees(t)
    /\ c \notin Calls(mem.events)
    /\ MaxSequence < MaxSeq

(* Mutant: the append is answered although the save raised. *)
AppendSwallows(c, t, to, wake) ==
    /\ MayAppend(c, t, to)
    /\ LET e == New(c, t, to)
       IN  /\ mem' = Staged(e)
           /\ next' = e.seq + 1
           /\ answered' = answered \cup {e}
           /\ Saved(Staged(e)) \/ SaveRaises(Staged(e))
           /\ IF wake THEN Ring(e) ELSE Silent

(* append_event of a new call_id, saved by the call or by the caller's     *)
(* transaction; when the save raises the event is taken back, its sequence *)
(* number with it.  delivery:uncertain events wake nobody.                 *)
AppendEvent(c, t, to, wake) ==
    /\ MayAppend(c, t, to)
    /\ LET e == New(c, t, to)
       IN  \/ /\ mem' = Staged(e)
              /\ next' = e.seq + 1
              /\ Saved(Staged(e))
              /\ answered' = answered \cup {e}
              /\ IF wake THEN Ring(e) ELSE Silent
           \/ /\ SaveRaises(Staged(e))
              /\ next' = e.seq
              /\ Silent
              /\ UNCHANGED <<mem, answered>>

(* The lifecycle observer stages its event, saves and wakes; when the save *)
(* raises the event stays in memory and nobody is woken.                   *)
Observe(c, t) ==
    /\ \E to \in Task : to = (IF Parent[t] = NoTask THEN t ELSE Parent[t]) /\ MayAppend(c, t, to)
    /\ LET e == New(c, t, IF Parent[t] = NoTask THEN t ELSE Parent[t])
       IN  /\ mem' = Staged(e)
           /\ next' = e.seq + 1
           /\ \/ Saved(Staged(e)) /\ Ring(e) /\ answered' = answered \cup {e}
              \/ SaveRaises(Staged(e)) /\ Silent /\ UNCHANGED answered

(* A repeated append of a known call_id saves again and wakes as the first *)
(* one did.  With another body it is rejected and changes nothing.         *)
Replay(e) ==
    /\ e \in mem.events
    /\ e.task \in mem.live
    /\ UNCHANGED <<mem, next>>
    /\ \/ Saved(mem) /\ (Ring(e) \/ Silent) /\ answered' = answered \cup {e}
       \/ SaveRaises(mem) /\ Silent /\ UNCHANGED answered

(* Mutant: no upper bound on what may be acknowledged. *)
AckUnbounded(k, n) ==
    LET m == [mem EXCEPT !.cursor[k] = n]
    IN  /\ k \in mem.live
        /\ n >= mem.cursor[k]
        /\ \/ Saved(m) /\ mem' = m
           \/ SaveRaises(m) /\ UNCHANGED mem
        /\ Silent
        /\ UNCHANGED <<next, answered>>

(* Mutant: the cursor of a failed acknowledgement is kept. *)
AckKeepsFailed(k, n) ==
    LET m == [mem EXCEPT !.cursor[k] = n]
    IN  /\ k \in mem.live
        /\ n \in mem.cursor[k] .. MaxSequence
        /\ Saved(m) \/ SaveRaises(m)
        /\ mem' = m
        /\ Silent
        /\ UNCHANGED <<next, answered>>

(* A consumer acknowledges up to n; a failed save restores the cursor. *)
Ack(k, n) ==
    LET m == [mem EXCEPT !.cursor[k] = n]
    IN  /\ k \in mem.live
        /\ n \in mem.cursor[k] .. MaxSequence
        /\ \/ Saved(m) /\ mem' = m
           \/ SaveRaises(m) /\ UNCHANGED mem
        /\ Silent
        /\ UNCHANGED <<next, answered>>

(* delete_task of a Task without descendants purges its events and its     *)
(* cursor.  A failed save restores everything.                             *)
DeleteTask(t) ==
    LET m == [events |-> {e \in mem.events : e.task # t},
              cursor |-> [mem.cursor EXCEPT ![t] = 0],
              live   |-> mem.live \ {t}]
    IN  /\ t \in mem.live \cap Deletable
        /\ \A u \in mem.live : t \notin Above[u]
        /\ \/ Saved(m) /\ mem' = m
           \/ SaveRaises(m) /\ UNCHANGED mem
        /\ Silent
        /\ UNCHANGED <<next, answered>>

(* Mutant: the newest sequence number is taken for the next one. *)
RestartOffByOne ==
    /\ faults < MaxFaults
    /\ faults' = faults + 1
    /\ mem' = disk
    /\ next' = Max({e.seq : e \in disk.events} \cup {0})
    /\ waiter' = [w \in Waiter |-> NoPoll]
    /\ flag' = [t \in Task |-> FALSE]
    /\ rung' = {}
    /\ UNCHANGED <<disk, answered>>

(* The process dies and loads state.json again: _next_seq is not stored,   *)
(* it is recomputed from the events that were.                             *)
Restart ==
    /\ faults < MaxFaults
    /\ faults' = faults + 1
    /\ mem' = disk
    /\ next' = Max({e.seq : e \in disk.events} \cup {0}) + 1
    /\ waiter' = [w \in Waiter |-> NoPoll]
    /\ flag' = [t \in Task |-> FALSE]
    /\ rung' = {}
    /\ UNCHANGED <<disk, answered>>

-----------------------------------------------------------------------------
(* The directed long-poll.  The lock of DirectedWaitCoordinator is never   *)
(* held across a yield, so a poll with its Event.clear is one step.        *)

(* Poll once: return what is visible, else clear the Event and wait. *)
PollOnce(w, p) ==
    IF Visible(p) # {}
    THEN waiter' = [waiter EXCEPT ![w] = NoPoll] /\ UNCHANGED flag
    ELSE /\ flag' = [flag EXCEPT ![p.key] = FALSE]
         /\ waiter' = [waiter EXCEPT ![w] =
                         [pc |-> IF WaitSpawns THEN "spawned" ELSE "asleep", poll |-> p]]

(* The caller asks for everything unacknowledged, or only for what comes   *)
(* after the newest event.                                                 *)
WaitStart(w, p) ==
    /\ ~Polling(w)
    /\ p.key \in mem.live
    /\ p.since \in {0, MaxSequence}
    /\ PollOnce(w, p)
    /\ UNCHANGED <<stream, answered, rung, faults>>

(* The task that wait_for created starts: Event.wait looks at the Event. *)
InnerWait(w) ==
    /\ waiter[w].pc = "spawned"
    /\ waiter' = [waiter EXCEPT ![w].pc = IF flag[waiter[w].poll.key] THEN "woken" ELSE "asleep"]
    /\ UNCHANGED <<stream, flag, answered, rung, faults>>

(* Woken: poll again.  The consumer may have been deleted meanwhile. *)
WaitResume(w) ==
    /\ waiter[w].pc = "woken"
    /\ IF waiter[w].poll.key \in mem.live
       THEN PollOnce(w, waiter[w].poll)
       ELSE waiter' = [waiter EXCEPT ![w] = NoPoll] /\ UNCHANGED flag
    /\ UNCHANGED <<stream, answered, rung, faults>>

(* The deadline passes (or the client disconnects): nothing is returned. *)
WaitTimeout(w) ==
    /\ Polling(w)
    /\ waiter' = [waiter EXCEPT ![w] = NoPoll]
    /\ UNCHANGED <<stream, flag, answered, rung, faults>>

-----------------------------------------------------------------------------
Next ==
    \/ \E c \in Call, t \in Task : \/ \E to \in Task, wake \in BOOLEAN : AppendEvent(c, t, to, wake)
                                   \/ Observe(c, t)
    \/ \E e \in mem.events : Replay(e)
    \/ \E k \in Task, n \in 0 .. MaxSeq : Ack(k, n)
    \/ \E t \in Task : DeleteTask(t)
    \/ Restart
    \/ \E w \in Waiter : \/ \E p \in Poll : WaitStart(w, p)
                         \/ InnerWait(w)
                         \/ WaitResume(w)
                         \/ WaitTimeout(w)

Spec == Init /\ [][Next]_vars

-----------------------------------------------------------------------------
(* Properties. *)

(* A sequence number and a call_id each name one event of the stream, in   *)
(* memory and on disk, whatever saves raised, Tasks were deleted and       *)
(* restarts happened in between (_next_sequence, _record_call, the         *)
(* roll-back of append_event, load_from_dict).                             *)
StreamIsKeyed ==
    \A events \in {mem.events, disk.events} :
        \A e, f \in events : e.seq = f.seq \/ e.call = f.call => e = f

(* An event whose append was answered with success is neither lost from    *)
(* memory nor from disk as long as its Task exists there.                  *)
AnsweredIsRecoverable ==
    \A e \in answered : \A store \in {mem, disk} :
        e.task \in store.live => e \in store.events

(* No lost wake-up: a waiter that sleeps has nothing to return of what was *)
(* announced to it (directed_wait.py: "an append between the empty check   *)
(* and Event.wait cannot be lost").                                        *)
NoLostWake ==
    \A w \in Waiter : waiter[w].pc = "asleep" =>
        \A e \in Visible(waiter[w].poll) \cap rung :
            /\ e.to # waiter[w].poll.key
            /\ waiter[w].poll.key \notin Above[e.task]

(* The new events lie above the cursor of everybody who can see them. *)
BornUnread ==
    \A e \in mem'.events \ mem.events : \A k \in mem'.live \cap ({e.to, e.task} \cup Above[e.task]) :
        e.seq > mem'.cursor[k]

(* What appears in the stream lies above the cursor of every consumer that *)
(* can see it: no event is born acknowledged, across failed saves and      *)
(* restarts (_next_sequence, ack's upper bound, load_from_dict), as long   *)
(* as no Task was deleted with its events.                                 *)
KeptEventsAreUnread == [][mem'.live = Task => BornUnread]_vars

(* The cursor of an existing consumer never moves backwards, not even      *)
(* across a restart: an acknowledgement that was answered is durable.      *)
CursorNeverRewinds ==
    [][\A k \in mem.live \cap mem'.live : mem'.cursor[k] >= mem.cursor[k]]_vars

-----------------------------------------------------------------------------
(* What is inductive: both stores are well formed, what was answered is in *)
(* both, and disk is never behind memory's cursors.                        *)

Stored(store) ==
    /\ DOMAIN store = {"events", "cursor", "live"}
    /\ store.cursor \in [Task -> Nat]
    /\ store.live \subseteq Task

DurableStream ==
    /\ Stored(mem)
    /\ Stored(disk)
    /\ AnsweredIsRecoverable
    /\ \A k \in mem.live \cap disk.live : mem.cursor[k] <= disk.cursor[k]

=============================================================================
