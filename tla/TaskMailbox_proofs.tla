------------------------- MODULE TaskMailbox_proofs -------------------------
(***************************************************************************)
(* Proofs about the TaskMailbox, for any number of Tasks, call_ids,        *)
(* long-polls, sequence numbers and faults.                                *)
(*                                                                         *)
(* Both stores are written only by installing one new version of the       *)
(* memory: a save installs it in both, a save that raises in the file at   *)
(* most.  So it is enough that each new version keeps what was answered    *)
(* and moves no cursor back (Extends below).                               *)
(***************************************************************************)
EXTENDS TaskMailbox, WellFoundedInduction, TLAPS

(* m is a legal successor of the memory as far as durability goes. *)
Extends(m) ==
    /\ Stored(m)
    /\ m.live \subseteq mem.live
    /\ \A k \in m.live : m.cursor[k] >= mem.cursor[k]
    /\ \A e \in mem.events : e.task \in m.live => e \in m.events

(* Staging an event, acknowledging and deleting yield legal successors     *)
(* (append_event, ack, delete_task).                                       *)
LEMMA StagedExtends ==
    ASSUME Stored(mem), NEW e
    PROVE  Extends(Staged(e))
  BY DEF Stored, Extends, Staged

LEMMA AckExtends ==
    ASSUME Stored(mem), NEW k \in mem.live, NEW n \in Nat, n >= mem.cursor[k]
    PROVE  Extends([mem EXCEPT !.cursor[k] = n])
  BY DEF Stored, Extends

LEMMA DeleteExtends ==
    ASSUME Stored(mem), NEW t \in Task
    PROVE  Extends([events |-> {e \in mem.events : e.task # t},
                    cursor |-> [mem.cursor EXCEPT ![t] = 0],
                    live   |-> mem.live \ {t}])
  BY DEF Stored, Extends

(* A step that installs a legal successor, and answers only what it holds. *)
Installs(m) ==
    /\ mem' \in {mem, m}
    /\ disk' \in {disk, m}
    /\ mem' = mem \/ disk' = m \/ m.cursor = mem.cursor
    /\ \A e \in answered' \ answered : e \in m.events /\ mem' = m /\ disk' = m

(* Such a step preserves the invariant and moves no cursor back. *)
LEMMA InstallPreserves ==
    ASSUME DurableStream, NEW m, Extends(m), Installs(m), answered \subseteq answered'
    PROVE  DurableStream'
  <1>1. Stored(mem)' /\ Stored(disk)'
    BY DEF DurableStream, Extends, Installs, Stored
  <1>2. AnsweredIsRecoverable'
    <2> SUFFICES ASSUME NEW e \in answered', NEW store \in {mem', disk'}, e.task \in store.live
                 PROVE  e \in store.events
      BY DEF AnsweredIsRecoverable
    <2>1. CASE e \in answered
      BY <2>1 DEF DurableStream, AnsweredIsRecoverable, Extends, Installs
    <2>2. CASE e \notin answered
      BY <2>2 DEF Installs
    <2> QED
      BY <2>1, <2>2
  <1>3. \A k \in mem'.live \cap disk'.live : mem'.cursor[k] <= disk'.cursor[k]
    BY DEF DurableStream, Extends, Installs, Stored
  <1> QED
    BY <1>1, <1>2, <1>3 DEF DurableStream

-----------------------------------------------------------------------------
(* Every step of the stream installs a legal successor. *)

LEMMA SameExtends ==
    ASSUME Stored(mem)
    PROVE  Extends(mem)
  BY DEF Stored, Extends

LEMMA AppendInstalls ==
    ASSUME DurableStream, NEW c \in Call, NEW t \in Task, NEW to \in Task, NEW wake \in BOOLEAN,
           AppendEvent(c, t, to, wake)
    PROVE  DurableStream'
  <1> DEFINE e == New(c, t, to)
  <1>1. Extends(Staged(e))
    BY StagedExtends DEF DurableStream
  <1>2. e \in Staged(e).events
    BY DEF Staged, DurableStream, Stored
  <1>3. Installs(Staged(e)) /\ answered \subseteq answered'
    <2>1. CASE /\ mem' = Staged(e)
               /\ disk' = Staged(e)
               /\ answered' = answered \cup {e}
      BY <1>2, <2>1 DEF Installs
    <2>2. CASE /\ mem' = mem
               /\ disk' \in {disk, Staged(e)}
               /\ answered' = answered
      BY <2>2 DEF Installs
    <2> QED
      BY <2>1, <2>2 DEF AppendEvent, Saved, SaveRaises
  <1> QED
    BY <1>1, <1>3, InstallPreserves

LEMMA ObserveInstalls ==
    ASSUME DurableStream, NEW c \in Call, NEW t \in Task, Observe(c, t)
    PROVE  DurableStream'
  <1> DEFINE e == New(c, t, IF Parent[t] = NoTask THEN t ELSE Parent[t])
  <1>1. Extends(Staged(e))
    BY StagedExtends DEF DurableStream
  <1>2. e \in Staged(e).events /\ Staged(e).cursor = mem.cursor
    BY DEF Staged, DurableStream, Stored
  <1>3. Installs(Staged(e)) /\ answered \subseteq answered'
    <2>1. CASE /\ mem' = Staged(e)
               /\ disk' = Staged(e)
               /\ answered' = answered \cup {e}
      BY <1>2, <2>1 DEF Installs
    <2>2. CASE /\ mem' = Staged(e)
               /\ disk' \in {disk, Staged(e)}
               /\ answered' = answered
      BY <1>2, <2>2 DEF Installs
    <2> QED
      BY <2>1, <2>2 DEF Observe, Saved, SaveRaises
  <1> QED
    BY <1>1, <1>3, InstallPreserves

LEMMA ReplayInstalls ==
    ASSUME DurableStream, NEW e \in mem.events, Replay(e)
    PROVE  DurableStream'
  <1>1. Extends(mem)
    BY SameExtends DEF DurableStream
  <1>2. Installs(mem) /\ answered \subseteq answered'
    BY DEF Replay, Saved, SaveRaises, Installs
  <1> QED
    BY <1>1, <1>2, InstallPreserves

LEMMA AckInstalls ==
    ASSUME DurableStream, NEW k \in Task, NEW n \in 0 .. MaxSeq, Ack(k, n)
    PROVE  DurableStream'
  <1> DEFINE m == [mem EXCEPT !.cursor[k] = n]
  <1>1. n \in Nat /\ k \in mem.live /\ n >= mem.cursor[k]
    BY BoundsAssumption DEF Ack
  <1>2. Extends(m)
    BY <1>1, AckExtends DEF DurableStream
  <1>3. Installs(m) /\ answered \subseteq answered'
    BY DEF Ack, Saved, SaveRaises, Installs
  <1> HIDE DEF m
  <1> QED
    BY <1>2, <1>3, InstallPreserves

LEMMA DeleteInstalls ==
    ASSUME DurableStream, NEW t \in Task, DeleteTask(t)
    PROVE  DurableStream'
  <1> DEFINE m == [events |-> {e \in mem.events : e.task # t},
                   cursor |-> [mem.cursor EXCEPT ![t] = 0],
                   live   |-> mem.live \ {t}]
  <1>1. Extends(m)
    BY DeleteExtends DEF DurableStream
  <1>2. Installs(m) /\ answered \subseteq answered'
    <2> HIDE DEF m
    <2> QED
      BY DEF DeleteTask, Saved, SaveRaises, Installs, m
  <1> HIDE DEF m
  <1> QED
    BY <1>1, <1>2, InstallPreserves

-----------------------------------------------------------------------------
(* The invariance proof. *)

LEMMA DurableInit == Init => DurableStream
  BY DEF Init, DurableStream, Stored, AnsweredIsRecoverable

LEMMA DurableNext == DurableStream /\ [Next]_vars => DurableStream'
  <1> SUFFICES ASSUME DurableStream, [Next]_vars
               PROVE  DurableStream'
    OBVIOUS
  <1>1. ASSUME NEW c \in Call, NEW t \in Task, NEW to \in Task, NEW wake \in BOOLEAN,
               AppendEvent(c, t, to, wake)
        PROVE  DurableStream'
    BY <1>1, AppendInstalls
  <1>2. ASSUME NEW c \in Call, NEW t \in Task, Observe(c, t)
        PROVE  DurableStream'
    BY <1>2, ObserveInstalls
  <1>3. ASSUME NEW e \in mem.events, Replay(e)
        PROVE  DurableStream'
    BY <1>3, ReplayInstalls
  <1>4. ASSUME NEW k \in Task, NEW n \in 0 .. MaxSeq, Ack(k, n)
        PROVE  DurableStream'
    BY <1>4, AckInstalls
  <1>5. ASSUME NEW t \in Task, DeleteTask(t)
        PROVE  DurableStream'
    BY <1>5, DeleteInstalls
  <1>6. CASE Restart
    BY <1>6 DEF Restart, DurableStream, AnsweredIsRecoverable, Stored
  <1>7. CASE UNCHANGED <<stream, answered>>
    BY <1>7 DEF stream, DurableStream, AnsweredIsRecoverable, Stored
  <1>8. ASSUME NEW w \in Waiter, NEW p \in Poll, WaitStart(w, p)
        PROVE  UNCHANGED <<stream, answered>>
    BY <1>8 DEF WaitStart
  <1>9. ASSUME NEW w \in Waiter, InnerWait(w) \/ WaitResume(w) \/ WaitTimeout(w)
        PROVE  UNCHANGED <<stream, answered>>
    BY <1>9 DEF InnerWait, WaitResume, WaitTimeout
  <1>10. CASE UNCHANGED vars
    BY <1>10, <1>7 DEF vars, stream
  <1> QED
    BY <1>1, <1>2, <1>3, <1>4, <1>5, <1>6, <1>7, <1>8, <1>9, <1>10 DEF Next

(* The strengthened invariant holds in every reachable state. *)
THEOREM DurableStreamInvariant == Spec => []DurableStream
  BY DurableInit, DurableNext, PTL DEF Spec

(* An answered append is never lost: not by saves that raise, other        *)
(* appends, acknowledgements, deletions of other Tasks or restarts         *)
(* (append_event, _save_workspace_state, load_from_dict).                  *)
THEOREM AnsweredRecoverable == Spec => []AnsweredIsRecoverable
  <1>1. DurableStream => AnsweredIsRecoverable
    BY DEF DurableStream
  <1> QED
    BY <1>1, DurableStreamInvariant, PTL

-----------------------------------------------------------------------------
(* Cursors. *)

(* A step that installs a legal successor moves no cursor back. *)
LEMMA InstallKeepsCursors ==
    ASSUME Stored(mem), NEW m, Extends(m), mem' \in {mem, m}
    PROVE  \A k \in mem.live \cap mem'.live : mem'.cursor[k] >= mem.cursor[k]
  BY DEF Stored, Extends

LEMMA CursorStep ==
    ASSUME DurableStream, [Next]_vars
    PROVE  \A k \in mem.live \cap mem'.live : mem'.cursor[k] >= mem.cursor[k]
  <1> DEFINE Kept == \A k \in mem.live \cap mem'.live : mem'.cursor[k] >= mem.cursor[k]
  <1>0. Stored(mem)
    BY DEF DurableStream
  <1>1. ASSUME NEW c \in Call, NEW t \in Task, NEW to \in Task, NEW wake \in BOOLEAN,
               AppendEvent(c, t, to, wake)
        PROVE  Kept
    <2>1. mem' \in {mem, Staged(New(c, t, to))}
      BY <1>1 DEF AppendEvent
    <2> QED
      BY <1>0, <2>1, StagedExtends, InstallKeepsCursors
  <1>2. ASSUME NEW c \in Call, NEW t \in Task, Observe(c, t)
        PROVE  Kept
    <2>1. mem' = Staged(New(c, t, IF Parent[t] = NoTask THEN t ELSE Parent[t]))
      BY <1>2 DEF Observe
    <2> QED
      BY <1>0, <2>1, StagedExtends, InstallKeepsCursors
  <1>3. CASE mem' = mem
    BY <1>0, <1>3 DEF Stored
  <1>4. ASSUME NEW k \in Task, NEW n \in 0 .. MaxSeq, Ack(k, n)
        PROVE  Kept
    <2>1. n \in Nat /\ k \in mem.live /\ n >= mem.cursor[k]
      BY <1>4, BoundsAssumption DEF Ack
    <2>2. mem' \in {mem, [mem EXCEPT !.cursor[k] = n]}
      BY <1>4 DEF Ack
    <2> QED
      BY <1>0, <2>1, <2>2, AckExtends, InstallKeepsCursors
  <1>5. ASSUME NEW t \in Task, DeleteTask(t)
        PROVE  Kept
    <2> DEFINE m == [events |-> {e \in mem.events : e.task # t},
                     cursor |-> [mem.cursor EXCEPT ![t] = 0],
                     live   |-> mem.live \ {t}]
    <2>1. mem' \in {mem, m}
      BY <1>5 DEF DeleteTask
    <2>2. Extends(m)
      BY <1>0, DeleteExtends
    <2> HIDE DEF m
    <2> QED
      BY <1>0, <2>1, <2>2, InstallKeepsCursors
  <1>6. CASE Restart
    BY <1>6 DEF Restart, DurableStream, Stored
  <1>7. ASSUME NEW e \in mem.events, Replay(e)
        PROVE  mem' = mem
    BY <1>7 DEF Replay
  <1>8. ASSUME NEW w \in Waiter, NEW p \in Poll, WaitStart(w, p)
        PROVE  mem' = mem
    BY <1>8 DEF WaitStart, stream
  <1>9. ASSUME NEW w \in Waiter, InnerWait(w) \/ WaitResume(w) \/ WaitTimeout(w)
        PROVE  mem' = mem
    BY <1>9 DEF InnerWait, WaitResume, WaitTimeout, stream
  <1>10. CASE UNCHANGED vars
    BY <1>10, <1>3 DEF vars
  <1> QED
    BY <1>1, <1>2, <1>3, <1>4, <1>5, <1>6, <1>7, <1>8, <1>9, <1>10 DEF Next

(* An answered acknowledgement is never taken back, across failed saves    *)
(* and restarts (ack, _set_consumer_cursor).                               *)
THEOREM CursorsKept == Spec => CursorNeverRewinds
  BY CursorStep, DurableStreamInvariant, PTL DEF Spec, CursorNeverRewinds

-----------------------------------------------------------------------------
(* What the numbering of the stream rests on.                              *)

(* A sequence number and a call_id each name one event.                    *)
Keyed(events) == \A e, f \in events : e.seq = f.seq \/ e.call = f.call => e = f

(* Events are of Tasks that exist, and go to the Task or its supervisor.   *)
OfLiveTasks(store) == \A e \in store.events : e.task \in store.live /\ e.to \in Addressees(e.task)

(* Until a Task is deleted with its events, no cursor is above them.       *)
CursorsBacked(store) ==
    store.live = Task =>
        \A k \in Task : store.cursor[k] = 0 \/ \E e \in store.events : store.cursor[k] <= e.seq

WellKept(store) ==
    /\ store \in Store
    /\ Keyed(store.events)
    /\ OfLiveTasks(store)
    /\ CursorsBacked(store)

(* Nor is the sequence number that was assigned last.                      *)
NextBacked == mem.live = Task => next = 1 \/ \E e \in mem.events : next - 1 <= e.seq

(* An event that only the file has, since its append was taken back after  *)
(* the rename, is unread there: a restart may bring it back.               *)
UnseenIsUnread ==
    disk.live = Task => \A e \in disk.events \ mem.events : \A k \in Task : e.seq > disk.cursor[k]

(* What was announced is in the stream or went with its Task.              *)
RungIsKnown == \A e \in rung : e \in mem.events \/ e.task \notin mem.live

StreamInv ==
    /\ TypeOK
    /\ WellKept(mem) /\ WellKept(disk)
    /\ NextBacked
    /\ UnseenIsUnread
    /\ RungIsKnown

(* An announced event that the waiter would return and that wakes it.      *)
Announced(w) ==
    \E e \in Visible(waiter[w].poll) \cap rung :
        e.to = waiter[w].poll.key \/ waiter[w].poll.key \in Above[e.task]

(* Nobody sleeps on what was announced; a waiter whose inner task has not  *)
(* run yet will find the Event set.                                        *)
Awake ==
    \A w \in Waiter :
        /\ waiter[w].pc = "asleep" => ~Announced(w)
        /\ waiter[w].pc = "spawned" => WaitSpawns /\ (Announced(w) => flag[waiter[w].poll.key])

-----------------------------------------------------------------------------
(* Max is defined by CHOOSE: a bounded set of naturals that is not empty   *)
(* has a maximum, since < is well founded.                                 *)
LEMMA LeastExists ==
    ASSUME NEW T, T \subseteq Nat, T # {}
    PROVE  \E x \in T : \A y \in T : x <= y
  <1> DEFINE R == {p \in Nat \X Nat : p[1] < p[2]}
  <1>1. IsWellFoundedOn(R, Nat)
    BY NatLessThanWellFounded DEF OpToRel
  <1>2. \E x \in T : \A y \in T : ~(<<y, x>> \in R)
    <2> HIDE DEF R
    <2> QED
      BY <1>1, WFMin, Zenon
  <1>3. \A x \in T, y \in T : ~(<<y, x>> \in R) => x <= y
    OBVIOUS
  <1> QED
    BY <1>2, <1>3, Zenon

LEMMA MaxExists ==
    ASSUME NEW S, NEW N \in Nat, S \subseteq 0 .. N, S # {}
    PROVE  Max(S) \in S /\ \A y \in S : Max(S) >= y
  <1> DEFINE T == {n \in 0 .. N : \A y \in S : y <= n}
  <1>1. T \subseteq Nat /\ N \in T
    OBVIOUS
  <1>2. PICK b \in T : \A n \in T : b <= n
    BY <1>1, LeastExists
  <1>3. b \in S
    <2> SUFFICES ASSUME b \notin S PROVE FALSE
      OBVIOUS
    <2>1. PICK y \in S : TRUE
      OBVIOUS
    <2>2. b > 0 /\ b - 1 \in 0 .. N
      BY <2>1
    <2>3. b - 1 \in T
      BY <2>2
    <2> QED
      BY <1>2, <2>3
  <1>4. \A y \in S : b >= y
    OBVIOUS
  <1> QED
    BY <1>3, <1>4 DEF Max

(* The highest sequence number in use: of an event or the one before next. *)
LEMMA MaxSequenceIs ==
    ASSUME TypeOK
    PROVE  /\ MaxSequence \in 0 .. MaxSeq
           /\ \A e \in mem.events : e.seq \in 1 .. MaxSeq /\ e.seq <= MaxSequence
           /\ next - 1 <= MaxSequence
           /\ MaxSequence = next - 1 \/ \E e \in mem.events : MaxSequence = e.seq
  <1> DEFINE S == {e.seq : e \in mem.events} \cup {next - 1}
  <1>1. next \in 1 .. MaxSeq + 1 /\ MaxSeq \in Nat
    BY BoundsAssumption DEF TypeOK
  <1>2. \A e \in mem.events : e.seq \in 1 .. MaxSeq
    BY DEF TypeOK, Store, Event
  <1>3. S \subseteq 0 .. MaxSeq /\ S # {}
    BY <1>1, <1>2
  <1>4. Max(S) \in S /\ \A y \in S : Max(S) >= y
    BY <1>1, <1>3, MaxExists
  <1>5. MaxSequence = Max(S)
    BY DEF MaxSequence
  <1>6. Max(S) \in 0 .. MaxSeq
    BY <1>3, <1>4
  <1> QED
    BY <1>1, <1>2, <1>4, <1>5, <1>6

(* The number that a restart continues with. *)
LEMMA RecomputedNext ==
    ASSUME NEW store \in Store
    PROVE  LET n == Max({e.seq : e \in store.events} \cup {0})
           IN  n \in 0 .. MaxSeq /\ (n = 0 \/ \E e \in store.events : n = e.seq)
  <1> DEFINE S == {e.seq : e \in store.events} \cup {0}
  <1>1. MaxSeq \in Nat
    BY BoundsAssumption
  <1>2. \A e \in store.events : e.seq \in 1 .. MaxSeq
    BY DEF Store, Event
  <1>3. S \subseteq 0 .. MaxSeq /\ S # {}
    BY <1>1, <1>2
  <1>4. Max(S) \in S
    BY <1>1, <1>3, MaxExists
  <1> QED
    BY <1>3, <1>4

-----------------------------------------------------------------------------
(* Each new version of the memory is well kept. *)

LEMMA AddresseesType ==
    ASSUME NEW t \in Task
    PROVE  Addressees(t) \subseteq Task /\ t \in Addressees(t)
  BY ParentAssumption DEF Addressees

LEMMA StagedKept ==
    ASSUME StreamInv, NEW c \in Call, NEW t \in Task, NEW to \in Task, MayAppend(c, t, to)
    PROVE  LET e == New(c, t, to)
           IN  /\ e \in Event /\ e.seq = MaxSequence + 1 /\ e.task = t /\ e.to = to
               /\ e \notin mem.events
               /\ WellKept(Staged(e))
               /\ Staged(e).events = mem.events \cup {e}
               /\ Staged(e).cursor = mem.cursor /\ Staged(e).live = mem.live
  <1> DEFINE e == New(c, t, to)
             m == Staged(e)
  <1>1. /\ MaxSequence \in 0 .. MaxSeq /\ MaxSequence < MaxSeq
        /\ \A f \in mem.events : f.seq \in 1 .. MaxSeq /\ f.seq <= MaxSequence
        /\ t \in mem.live /\ to \in Addressees(t)
        /\ \A f \in mem.events : f.call # c
    BY MaxSequenceIs DEF StreamInv, MayAppend, Calls
  <1>2. e \in Event /\ e.seq = MaxSequence + 1 /\ e.task = t /\ e.to = to /\ e.call = c
    BY <1>1, BoundsAssumption DEF New, Event
  <1>3. mem \in Store
    BY DEF StreamInv, TypeOK
  <1> HIDE DEF e
  <1>4. m = [mem EXCEPT !.events = mem.events \cup {e}]
    BY <1>3 DEF Staged, Store
  <1>5. m \in Store /\ m.events = mem.events \cup {e} /\ m.cursor = mem.cursor /\ m.live = mem.live
    BY <1>2, <1>3, <1>4 DEF Store
  <1>6. e \notin mem.events
    BY <1>1, <1>2
  <1> HIDE DEF m
  <1>7. Keyed(m.events)
    <2> SUFFICES ASSUME NEW f \in m.events, NEW g \in m.events, f.seq = g.seq \/ f.call = g.call
                 PROVE  f = g
      BY DEF Keyed
    <2>1. CASE f \in mem.events /\ g \in mem.events
      BY <2>1 DEF StreamInv, WellKept, Keyed
    <2>2. CASE f = e /\ g \in mem.events
      BY <1>1, <1>2, <2>2
    <2>3. CASE f \in mem.events /\ g = e
      BY <1>1, <1>2, <2>3
    <2> QED
      BY <1>5, <2>1, <2>2, <2>3
  <1>8. OfLiveTasks(m)
    BY <1>1, <1>2, <1>5 DEF OfLiveTasks, StreamInv, WellKept
  <1>9. CursorsBacked(m)
    BY <1>5 DEF CursorsBacked, StreamInv, WellKept
  <1> QED
    BY <1>2, <1>5, <1>6, <1>7, <1>8, <1>9 DEF WellKept, m, e

LEMMA AckKept ==
    ASSUME StreamInv, NEW k \in mem.live, NEW n \in 0 .. MaxSequence
    PROVE  LET m == [mem EXCEPT !.cursor[k] = n]
           IN  WellKept(m) /\ m.events = mem.events /\ m.live = mem.live
  <1> DEFINE m == [mem EXCEPT !.cursor[k] = n]
  <1>1. mem \in Store /\ k \in Task
    BY DEF StreamInv, TypeOK, Store
  <1>2. n \in 0 .. MaxSeq /\ n \in Nat
    <2>1. MaxSequence \in 0 .. MaxSeq
      BY MaxSequenceIs DEF StreamInv
    <2> QED
      BY <2>1, BoundsAssumption
  <1>3. /\ m \in Store /\ m.events = mem.events /\ m.live = mem.live
        /\ m.cursor = [mem.cursor EXCEPT ![k] = n]
    BY <1>1, <1>2 DEF Store
  <1>4. mem.live = Task => n = 0 \/ \E e \in mem.events : n <= e.seq
    <2>1. CASE MaxSequence = next - 1
      <3>1. next \in Nat /\ \A e \in mem.events : e.seq \in Nat
        BY MaxSequenceIs, BoundsAssumption DEF StreamInv, TypeOK
      <3> QED
        BY <1>2, <2>1, <3>1 DEF StreamInv, NextBacked
    <2>2. CASE \E e \in mem.events : MaxSequence = e.seq
      BY <1>2, <2>2
    <2> QED
      BY <2>1, <2>2, MaxSequenceIs DEF StreamInv
  <1> HIDE DEF m
  <1>5. CursorsBacked(m)
    BY <1>1, <1>3, <1>4 DEF CursorsBacked, StreamInv, WellKept, Store
  <1>6. Keyed(m.events) /\ OfLiveTasks(m)
    BY <1>3 DEF StreamInv, WellKept, OfLiveTasks
  <1> QED
    BY <1>3, <1>5, <1>6 DEF WellKept, m

LEMMA DeleteKept ==
    ASSUME StreamInv, NEW t \in Task
    PROVE  LET m == [events |-> {e \in mem.events : e.task # t},
                     cursor |-> [mem.cursor EXCEPT ![t] = 0],
                     live   |-> mem.live \ {t}]
           IN  WellKept(m) /\ m.live # Task
  <1> DEFINE m == [events |-> {e \in mem.events : e.task # t},
                   cursor |-> [mem.cursor EXCEPT ![t] = 0],
                   live   |-> mem.live \ {t}]
  <1>1. mem \in Store /\ 0 \in 0 .. MaxSeq
    BY BoundsAssumption DEF StreamInv, TypeOK
  <1>2. m \in Store
    BY <1>1 DEF Store
  <1>3. m.live # Task /\ CursorsBacked(m)
    BY DEF CursorsBacked
  <1>4. Keyed(m.events) /\ OfLiveTasks(m)
    BY DEF StreamInv, WellKept, Keyed, OfLiveTasks
  <1> QED
    BY <1>2, <1>3, <1>4 DEF WellKept

-----------------------------------------------------------------------------
(* The invariant of the stream, action by action. *)

WaiterType == {NoPoll} \cup [pc : {"spawned", "asleep", "woken"}, poll : Poll]

(* Waking moves waiters between well-typed states. *)
LEMMA RingTypes ==
    ASSUME TypeOK, NEW e \in Event, Ring(e)
    PROVE  waiter' \in [Waiter -> WaiterType] /\ flag' \in [Task -> BOOLEAN]
           /\ rung' = rung \cup {e}
  <1>1. \A w \in Waiter : waiter[w] \in WaiterType
    BY DEF TypeOK, WaiterType
  <1>2. ASSUME NEW w \in Waiter, waiter[w].pc = "asleep"
        PROVE  [waiter[w] EXCEPT !.pc = "woken"] \in WaiterType
    <2>1. waiter[w] \in [pc : {"spawned", "asleep", "woken"}, poll : Poll]
      BY <1>1, <1>2 DEF WaiterType, NoPoll
    <2> QED
      BY <2>1 DEF WaiterType
  <1>3. waiter' \in [Waiter -> WaiterType]
    BY <1>1, <1>2, Zenon DEF Ring
  <1> QED
    BY <1>3 DEF Ring, TypeOK

LEMMA FaultType ==
    ASSUME TypeOK, faults' = faults \/ (faults < MaxFaults /\ faults' = faults + 1)
    PROVE  faults' \in 0 .. MaxFaults
  BY BoundsAssumption DEF TypeOK

(* Either nobody is woken, or those that the event e is for. *)
Wakes(e) == Ring(e) \/ Silent

LEMMA WakesTypes ==
    ASSUME TypeOK, NEW e \in Event, Wakes(e)
    PROVE  /\ waiter' \in [Waiter -> WaiterType] /\ flag' \in [Task -> BOOLEAN]
           /\ rung' \subseteq rung \cup {e} /\ rung' \subseteq Event
  <1>1. CASE Ring(e)
    BY <1>1, RingTypes DEF TypeOK
  <1>2. CASE Silent
    BY <1>2 DEF Silent, polls, TypeOK, WaiterType
  <1> QED
    BY <1>1, <1>2 DEF Wakes

(* What is below is the same for an append and for the observer: the event *)
(* is staged, or taken back, and the file may have it or not.              *)
LEMMA StagingKeeps ==
    ASSUME StreamInv, NEW c \in Call, NEW t \in Task, NEW to \in Task, MayAppend(c, t, to),
           NEW e, e = New(c, t, to),
           \/ mem' = Staged(e) /\ next' = e.seq + 1 /\ Wakes(e)
           \/ mem' = mem /\ next' = e.seq /\ Silent,
           disk' \in {disk, Staged(e)},
           answered' \subseteq answered \cup {e},
           faults' = faults \/ (faults < MaxFaults /\ faults' = faults + 1)
    PROVE  StreamInv'
  <1> DEFINE m == Staged(e)
  <1>1. /\ e \in Event /\ e.seq = MaxSequence + 1 /\ e.task = t
        /\ e \notin mem.events
        /\ WellKept(m)
        /\ m.events = mem.events \cup {e} /\ m.cursor = mem.cursor /\ m.live = mem.live
    BY StagedKept
  <1>2. /\ MaxSequence \in Nat /\ MaxSequence < MaxSeq
        /\ \A f \in mem.events : f.seq \in Nat /\ f.seq <= MaxSequence
        /\ next - 1 <= MaxSequence
        /\ MaxSequence = next - 1 \/ \E f \in mem.events : MaxSequence = f.seq
    BY MaxSequenceIs, BoundsAssumption DEF StreamInv, MayAppend
  <1>3. mem \in Store /\ disk \in Store /\ next \in 1 .. MaxSeq + 1 /\ TypeOK
    BY DEF StreamInv, TypeOK
  <1> HIDE DEF m
  <1>4. WellKept(mem') /\ WellKept(disk')
    BY <1>1 DEF StreamInv, m
  <1>5. next' \in 1 .. MaxSeq + 1
    BY <1>1, <1>2, BoundsAssumption
  <1>6. /\ waiter' \in [Waiter -> WaiterType] /\ flag' \in [Task -> BOOLEAN]
        /\ rung' \subseteq rung \cup {e} /\ rung' \subseteq Event
    BY <1>1, <1>3, WakesTypes DEF Wakes
  <1>7. TypeOK'
    <2>1. answered' \subseteq Event /\ faults' \in 0 .. MaxFaults
      BY <1>1, <1>3, FaultType DEF TypeOK
    <2> QED
      BY <1>4, <1>5, <1>6, <2>1 DEF TypeOK, WellKept, WaiterType
  <1>8. NextBacked'
    <2>1. CASE mem' = m /\ next' = e.seq + 1
      <3>1. e \in mem'.events /\ next' - 1 <= e.seq
        BY <1>1, <1>2, <2>1
      <3> QED
        BY <3>1 DEF NextBacked
    <2>2. CASE mem' = mem /\ next' = e.seq
      <3>1. CASE MaxSequence = next - 1
        BY <1>1, <1>3, <2>2, <3>1 DEF NextBacked, StreamInv
      <3>2. CASE \E f \in mem.events : MaxSequence = f.seq
        BY <1>1, <1>2, <2>2, <3>2 DEF NextBacked
      <3> QED
        BY <1>2, <3>1, <3>2
    <2> QED
      BY <2>1, <2>2 DEF m
  <1>9. UnseenIsUnread'
    <2>1. CASE disk' = disk
      <3>1. mem.events \subseteq mem'.events
        BY <1>1 DEF m
      <3> QED
        BY <2>1, <3>1 DEF UnseenIsUnread, StreamInv
    <2>2. CASE disk' = m
      <3> SUFFICES ASSUME m.live = Task, NEW f \in m.events \ mem'.events, NEW k \in Task
                   PROVE  f.seq > m.cursor[k]
        BY <2>2 DEF UnseenIsUnread
      <3>1. f = e
        BY <1>1 DEF m
      <3>2. mem.cursor[k] = 0 \/ \E g \in mem.events : mem.cursor[k] <= g.seq
        BY <1>1 DEF StreamInv, WellKept, CursorsBacked
      <3>3. mem.cursor[k] \in Nat
        BY <1>3, BoundsAssumption DEF Store
      <3>4. mem.cursor[k] <= MaxSequence
        BY <1>2, <3>2, <3>3
      <3> QED
        BY <1>1, <1>2, <3>1, <3>3, <3>4
    <2> QED
      BY <2>1, <2>2 DEF m
  <1>10. RungIsKnown'
    <2>1. mem'.live = mem.live /\ mem.events \subseteq mem'.events
      BY <1>1 DEF m
    <2>2. \A f \in rung : f \in mem.events \/ f.task \notin mem.live
      BY DEF StreamInv, RungIsKnown
    <2>3. CASE mem' = m
      BY <1>1, <1>6, <2>1, <2>2, <2>3 DEF RungIsKnown
    <2>4. CASE rung' = rung
      BY <2>1, <2>2, <2>4 DEF RungIsKnown
    <2> QED
      BY <2>3, <2>4 DEF m, Silent
  <1> QED
    BY <1>4, <1>7, <1>8, <1>9, <1>10 DEF StreamInv

LEMMA AppendKeeps ==
    ASSUME StreamInv, NEW c \in Call, NEW t \in Task, NEW to \in Task, NEW wake \in BOOLEAN,
           AppendEvent(c, t, to, wake)
    PROVE  StreamInv'
  <1> DEFINE e == New(c, t, to)
  <1>1. MayAppend(c, t, to)
    BY DEF AppendEvent
  <1>2. /\ \/ mem' = Staged(e) /\ next' = e.seq + 1 /\ Wakes(e)
           \/ mem' = mem /\ next' = e.seq /\ Silent
        /\ disk' \in {disk, Staged(e)}
        /\ answered' \subseteq answered \cup {e}
        /\ faults' = faults \/ (faults < MaxFaults /\ faults' = faults + 1)
    BY DEF AppendEvent, Saved, SaveRaises, Wakes
  <1> HIDE DEF e
  <1>3. e = New(c, t, to)
    BY DEF e
  <1> QED
    BY <1>1, <1>2, <1>3, StagingKeeps

LEMMA ObserveKeeps ==
    ASSUME StreamInv, NEW c \in Call, NEW t \in Task, Observe(c, t)
    PROVE  StreamInv'
  <1> DEFINE to == IF Parent[t] = NoTask THEN t ELSE Parent[t]
             e == New(c, t, to)
  <1>1. MayAppend(c, t, to) /\ to \in Task
    BY ParentAssumption DEF Observe
  <1>2. /\ mem' = Staged(e) /\ next' = e.seq + 1 /\ Wakes(e)
        /\ disk' \in {disk, Staged(e)}
        /\ answered' \subseteq answered \cup {e}
        /\ faults' = faults \/ (faults < MaxFaults /\ faults' = faults + 1)
    BY DEF Observe, Saved, SaveRaises, Wakes
  <1>3. e = New(c, t, to)
    OBVIOUS
  <1> HIDE DEF e, to
  <1> QED
    BY <1>1, <1>2, <1>3, StagingKeeps

LEMMA ReplayKeeps ==
    ASSUME StreamInv, NEW e \in mem.events, Replay(e)
    PROVE  StreamInv'
  <1>1. e \in Event /\ TypeOK
    BY DEF StreamInv, TypeOK, Store
  <1>2. /\ mem' = mem /\ next' = next /\ disk' \in {disk, mem}
        /\ Wakes(e)
        /\ answered' \subseteq answered \cup {e}
        /\ faults' = faults \/ (faults < MaxFaults /\ faults' = faults + 1)
    BY DEF Replay, Saved, SaveRaises, Wakes
  <1>3. /\ waiter' \in [Waiter -> WaiterType] /\ flag' \in [Task -> BOOLEAN]
        /\ rung' \subseteq rung \cup {e} /\ rung' \subseteq Event
    BY <1>1, <1>2, WakesTypes
  <1>4. TypeOK'
    <2>1. answered' \subseteq Event /\ faults' \in 0 .. MaxFaults
      BY <1>1, <1>2, FaultType DEF TypeOK
    <2> QED
      BY <1>1, <1>2, <1>3, <2>1 DEF TypeOK, WaiterType
  <1>5. WellKept(mem') /\ WellKept(disk') /\ NextBacked'
    BY <1>2 DEF StreamInv, NextBacked
  <1>6. UnseenIsUnread'
    BY <1>2 DEF StreamInv, UnseenIsUnread
  <1>7. RungIsKnown'
    BY <1>2, <1>3 DEF StreamInv, RungIsKnown
  <1> QED
    BY <1>4, <1>5, <1>6, <1>7 DEF StreamInv

LEMMA AckKeeps ==
    ASSUME StreamInv, NEW k \in Task, NEW n \in 0 .. MaxSeq, Ack(k, n)
    PROVE  StreamInv'
  <1> DEFINE m == [mem EXCEPT !.cursor[k] = n]
  <1>1. k \in mem.live /\ n \in 0 .. MaxSequence
    BY MaxSequenceIs DEF Ack, StreamInv, TypeOK, Store
  <1>2. WellKept(m) /\ m.events = mem.events /\ m.live = mem.live
    BY <1>1, AckKept
  <1>3. /\ mem' \in {mem, m} /\ disk' \in {disk, m} /\ (mem' = mem \/ disk' = m)
        /\ UNCHANGED <<next, answered, waiter, flag, rung>>
        /\ faults' = faults \/ (faults < MaxFaults /\ faults' = faults + 1)
    <2> HIDE DEF m
    <2> QED
      BY DEF Ack, Saved, SaveRaises, Silent, polls, m
  <1> HIDE DEF m
  <1>4. WellKept(mem') /\ WellKept(disk')
    BY <1>2, <1>3 DEF StreamInv
  <1>5. TypeOK'
    <2>1. faults' \in 0 .. MaxFaults
      BY <1>3, FaultType DEF StreamInv
    <2> QED
      BY <1>3, <1>4, <2>1 DEF StreamInv, TypeOK, WellKept
  <1>6. NextBacked' /\ RungIsKnown'
    BY <1>2, <1>3 DEF StreamInv, NextBacked, RungIsKnown
  <1>7. UnseenIsUnread'
    BY <1>2, <1>3 DEF StreamInv, UnseenIsUnread
  <1> QED
    BY <1>4, <1>5, <1>6, <1>7 DEF StreamInv

LEMMA DeleteKeeps ==
    ASSUME StreamInv, NEW t \in Task, DeleteTask(t)
    PROVE  StreamInv'
  <1> DEFINE m == [events |-> {e \in mem.events : e.task # t},
                   cursor |-> [mem.cursor EXCEPT ![t] = 0],
                   live   |-> mem.live \ {t}]
  <1>1. WellKept(m) /\ m.live # Task
    BY DeleteKept
  <1>2. m.live = mem.live \ {t} /\ \A e \in mem.events : e \in m.events \/ e.task = t
    OBVIOUS
  <1>3. /\ mem' \in {mem, m} /\ disk' \in {disk, m} /\ (mem' = mem \/ disk' = m)
        /\ UNCHANGED <<next, answered, waiter, flag, rung>>
        /\ faults' = faults \/ (faults < MaxFaults /\ faults' = faults + 1)
    <2> HIDE DEF m
    <2> QED
      BY DEF DeleteTask, Saved, SaveRaises, Silent, polls, m
  <1> HIDE DEF m
  <1>4. WellKept(mem') /\ WellKept(disk')
    BY <1>1, <1>3 DEF StreamInv
  <1>5. TypeOK'
    <2>1. faults' \in 0 .. MaxFaults
      BY <1>3, FaultType DEF StreamInv
    <2> QED
      BY <1>3, <1>4, <2>1 DEF StreamInv, TypeOK, WellKept
  <1>6. NextBacked' /\ RungIsKnown'
    BY <1>1, <1>2, <1>3 DEF StreamInv, NextBacked, RungIsKnown
  <1>7. UnseenIsUnread'
    BY <1>1, <1>3 DEF StreamInv, UnseenIsUnread
  <1> QED
    BY <1>4, <1>5, <1>6, <1>7 DEF StreamInv

LEMMA RestartKeeps == ASSUME StreamInv, Restart PROVE StreamInv'
  <1> DEFINE n == Max({e.seq : e \in disk.events} \cup {0})
  <1>1. n \in 0 .. MaxSeq /\ (n = 0 \/ \E e \in disk.events : n = e.seq)
    BY RecomputedNext DEF StreamInv, WellKept
  <1>2. mem' = disk /\ disk' = disk /\ next' = n + 1
    BY DEF Restart
  <1> HIDE DEF n
  <1>3. next' \in 1 .. MaxSeq + 1
    BY <1>1, <1>2, BoundsAssumption
  <1>4. TypeOK'
    <2>1. faults' \in 0 .. MaxFaults
      BY FaultType DEF StreamInv, Restart
    <2> QED
      BY <1>2, <1>3, <2>1 DEF StreamInv, TypeOK, Restart
  <1>5. NextBacked'
    BY <1>1, <1>2 DEF NextBacked, StreamInv, WellKept, Store, Event
  <1>6. UnseenIsUnread' /\ RungIsKnown'
    BY <1>2 DEF UnseenIsUnread, RungIsKnown, Restart
  <1> QED
    BY <1>2, <1>4, <1>5, <1>6 DEF StreamInv

(* The long-polls read the stream only. *)
LEMMA PollTypes ==
    ASSUME TypeOK, NEW w \in Waiter, NEW p \in Poll, PollOnce(w, p)
    PROVE  waiter' \in [Waiter -> WaiterType] /\ flag' \in [Task -> BOOLEAN]
  <1>1. CASE waiter' = [waiter EXCEPT ![w] = NoPoll] /\ UNCHANGED flag
    BY <1>1 DEF TypeOK, WaiterType
  <1>2. CASE /\ flag' = [flag EXCEPT ![p.key] = FALSE]
             /\ waiter' = [waiter EXCEPT ![w] =
                             [pc |-> IF WaitSpawns THEN "spawned" ELSE "asleep", poll |-> p]]
    <2>1. [pc |-> IF WaitSpawns THEN "spawned" ELSE "asleep", poll |-> p] \in WaiterType
      BY DEF WaiterType
    <2> QED
      BY <1>2, <2>1 DEF TypeOK, WaiterType
  <1> QED
    BY <1>1, <1>2 DEF PollOnce

LEMMA WaitsKeep ==
    ASSUME StreamInv, UNCHANGED <<stream, answered, rung, faults>>,
           waiter' \in [Waiter -> WaiterType], flag' \in [Task -> BOOLEAN]
    PROVE  StreamInv'
  <1>1. UNCHANGED <<mem, next, disk, answered, rung, faults>>
    BY DEF stream
  <1>2. TypeOK'
    BY <1>1 DEF StreamInv, TypeOK, WaiterType
  <1> QED
    BY <1>1, <1>2 DEF StreamInv, NextBacked, UnseenIsUnread, RungIsKnown

(* Who polls has a poll. *)
LEMMA PollOf ==
    ASSUME TypeOK, NEW w \in Waiter, waiter[w].pc # "idle"
    PROVE  /\ waiter[w] \in [pc : {"spawned", "asleep", "woken"}, poll : Poll]
           /\ waiter[w].poll \in Poll /\ waiter[w].poll.key \in Task
  BY DEF TypeOK, NoPoll, Poll

LEMMA WaitKeeps ==
    ASSUME StreamInv, NEW w \in Waiter,
           \/ \E p \in Poll : WaitStart(w, p)
           \/ InnerWait(w) \/ WaitResume(w) \/ WaitTimeout(w)
    PROVE  StreamInv'
  <1>0. TypeOK
    BY DEF StreamInv
  <1>1. CASE \E p \in Poll : WaitStart(w, p)
    BY <1>0, <1>1, PollTypes, WaitsKeep DEF WaitStart
  <1>2. CASE InnerWait(w)
    <2>1. waiter[w].poll \in Poll /\ waiter[w] \in [pc : {"spawned", "asleep", "woken"}, poll : Poll]
      BY <1>0, <1>2, PollOf DEF InnerWait
    <2>2. [waiter[w] EXCEPT !.pc = IF flag[waiter[w].poll.key] THEN "woken" ELSE "asleep"]
             \in WaiterType
      BY <2>1 DEF WaiterType
    <2>3. waiter' = [waiter EXCEPT ![w] =
             [waiter[w] EXCEPT !.pc = IF flag[waiter[w].poll.key] THEN "woken" ELSE "asleep"]]
      BY <1>2 DEF InnerWait
    <2>4. waiter' \in [Waiter -> WaiterType]
      BY <1>0, <2>2, <2>3 DEF TypeOK, WaiterType
    <2> QED
      BY <1>0, <1>2, <2>4, WaitsKeep DEF InnerWait, TypeOK
  <1>3. CASE WaitResume(w)
    <2>1. waiter[w].poll \in Poll
      BY <1>0, <1>3, PollOf DEF WaitResume
    <2>2. waiter' \in [Waiter -> WaiterType] /\ flag' \in [Task -> BOOLEAN]
      <3>1. CASE PollOnce(w, waiter[w].poll)
        BY <1>0, <2>1, <3>1, PollTypes
      <3>2. CASE waiter' = [waiter EXCEPT ![w] = NoPoll] /\ UNCHANGED flag
        BY <1>0, <3>2 DEF TypeOK, WaiterType
      <3> QED
        BY <1>3, <3>1, <3>2 DEF WaitResume
    <2> QED
      BY <1>3, <2>2, WaitsKeep DEF WaitResume
  <1>4. CASE WaitTimeout(w)
    <2>1. waiter' \in [Waiter -> WaiterType] /\ flag' \in [Task -> BOOLEAN]
      BY <1>0, <1>4 DEF WaitTimeout, TypeOK, WaiterType
    <2> QED
      BY <1>4, <2>1, WaitsKeep DEF WaitTimeout
  <1> QED
    BY <1>1, <1>2, <1>3, <1>4

LEMMA StreamInit == Init => StreamInv
  <1> SUFFICES ASSUME Init PROVE StreamInv
    OBVIOUS
  <1>1. mem \in Store /\ disk = mem
    BY BoundsAssumption DEF Init, Store
  <1>2. TypeOK
    BY <1>1, BoundsAssumption DEF Init, TypeOK
  <1>3. WellKept(mem)
    BY <1>1 DEF Init, WellKept, Keyed, OfLiveTasks, CursorsBacked
  <1> QED
    BY <1>1, <1>2, <1>3 DEF Init, StreamInv, NextBacked, UnseenIsUnread, RungIsKnown

LEMMA StreamNext == StreamInv /\ [Next]_vars => StreamInv'
  <1> SUFFICES ASSUME StreamInv, [Next]_vars PROVE StreamInv'
    OBVIOUS
  <1>1. CASE UNCHANGED vars
    BY <1>1, WaitsKeep DEF vars, stream, StreamInv, TypeOK, WaiterType
  <1> QED
    BY <1>1, AppendKeeps, ObserveKeeps, ReplayKeeps, AckKeeps, DeleteKeeps, RestartKeeps, WaitKeeps
    DEF Next

(* The inductive invariant of the numbering.                               *)
THEOREM StreamInvariant == Spec => []StreamInv
  BY StreamInit, StreamNext, PTL DEF Spec

(* Type correctness of the stream, its cursors and the long-polls: the     *)
(* numbers that a failed append gives back and that a restart recomputes   *)
(* stay in range.                                                          *)
THEOREM TypeCorrect == Spec => []TypeOK
  <1>1. StreamInv => TypeOK
    BY DEF StreamInv
  <1> QED
    BY <1>1, StreamInvariant, PTL

(* A sequence number and a call_id name one event, in memory and on disk,  *)
(* although a failed append gives its number back and a restart recomputes *)
(* the next one (_next_sequence, load_from_dict).                          *)
THEOREM StreamKeyed == Spec => []StreamIsKeyed
  <1>1. StreamInv => StreamIsKeyed
    BY DEF StreamInv, WellKept, Keyed, StreamIsKeyed
  <1> QED
    BY <1>1, StreamInvariant, PTL

-----------------------------------------------------------------------------
(* Nothing is born acknowledged. *)

(* As long as all Tasks exist, no cursor is above the newest event. *)
LEMMA CursorsBelow ==
    ASSUME StreamInv, mem.live = Task, NEW k \in Task
    PROVE  mem.cursor[k] \in Nat /\ mem.cursor[k] <= MaxSequence
  <1>1. mem.cursor[k] \in Nat
    BY BoundsAssumption DEF StreamInv, TypeOK, Store
  <1>2. mem.cursor[k] = 0 \/ \E e \in mem.events : mem.cursor[k] <= e.seq
    BY DEF StreamInv, WellKept, CursorsBacked
  <1>3. MaxSequence \in Nat /\ \A e \in mem.events : e.seq \in Nat /\ e.seq <= MaxSequence
    BY MaxSequenceIs, BoundsAssumption DEF StreamInv
  <1> QED
    BY <1>1, <1>2, <1>3

LEMMA StagedUnread ==
    ASSUME StreamInv, NEW c \in Call, NEW t \in Task, NEW to \in Task, MayAppend(c, t, to),
           mem' = Staged(New(c, t, to)), mem'.live = Task
    PROVE  BornUnread
  <1> DEFINE e == New(c, t, to)
  <1>1. /\ e.seq = MaxSequence + 1
        /\ mem'.events = mem.events \cup {e} /\ mem'.cursor = mem.cursor /\ mem'.live = mem.live
    BY StagedKept
  <1> HIDE DEF e
  <1>2. MaxSequence \in Nat
    BY MaxSequenceIs, BoundsAssumption DEF StreamInv
  <1>3. \A k \in Task : e.seq > mem'.cursor[k]
    BY <1>1, <1>2, CursorsBelow
  <1> QED
    BY <1>1, <1>3 DEF BornUnread

LEMMA UnreadStep == StreamInv /\ [Next]_vars => (mem'.live = Task => BornUnread)
  <1> SUFFICES ASSUME StreamInv, [Next]_vars, mem'.live = Task PROVE BornUnread
    OBVIOUS
  <1>1. CASE mem'.events \subseteq mem.events
    BY <1>1 DEF BornUnread
  <1>2. ASSUME NEW c \in Call, NEW t \in Task, NEW to \in Task, NEW wake \in BOOLEAN,
               AppendEvent(c, t, to, wake)
        PROVE  BornUnread
    <2>1. MayAppend(c, t, to) /\ mem' \in {mem, Staged(New(c, t, to))}
      BY <1>2 DEF AppendEvent
    <2> QED
      BY <1>1, <2>1, StagedUnread
  <1>3. ASSUME NEW c \in Call, NEW t \in Task, Observe(c, t)
        PROVE  BornUnread
    <2> DEFINE to == IF Parent[t] = NoTask THEN t ELSE Parent[t]
    <2>1. MayAppend(c, t, to) /\ to \in Task /\ mem' = Staged(New(c, t, to))
      BY <1>3, ParentAssumption DEF Observe
    <2> HIDE DEF to
    <2> QED
      BY <2>1, StagedUnread
  <1>4. ASSUME NEW k \in Task, NEW n \in 0 .. MaxSeq, Ack(k, n)
        PROVE  mem'.events = mem.events
    BY <1>4 DEF Ack, StreamInv, TypeOK, Store
  <1>5. ASSUME NEW t \in Task, DeleteTask(t)
        PROVE  mem'.events \subseteq mem.events
    BY <1>5 DEF DeleteTask
  <1>6. CASE Restart
    BY <1>6 DEF Restart, StreamInv, UnseenIsUnread, BornUnread
  <1>7. ASSUME NEW e \in mem.events, Replay(e)
        PROVE  mem' = mem
    BY <1>7 DEF Replay
  <1>8. ASSUME NEW w \in Waiter, NEW p \in Poll, WaitStart(w, p)
        PROVE  mem' = mem
    BY <1>8 DEF WaitStart, stream
  <1>9. ASSUME NEW w \in Waiter, InnerWait(w) \/ WaitResume(w) \/ WaitTimeout(w)
        PROVE  mem' = mem
    BY <1>9 DEF InnerWait, WaitResume, WaitTimeout, stream
  <1>10. CASE UNCHANGED vars
    BY <1>1, <1>10 DEF vars
  <1> QED
    BY <1>1, <1>2, <1>3, <1>4, <1>5, <1>6, <1>7, <1>8, <1>9, <1>10 DEF Next

(* As long as no Task is deleted with its events, what appears in the      *)
(* stream is unread, an event that a restart brings back too.              *)
THEOREM AppearsUnread == Spec => KeptEventsAreUnread
  BY UnreadStep, StreamInvariant, PTL DEF Spec, KeptEventsAreUnread

-----------------------------------------------------------------------------
(* Wake-ups. *)

(* A waiter's coroutine is not torn between its poll and its wait by       *)
(* another waiter of the same consumer: Event.wait is awaited directly     *)
(* (CPython 3.12), or there is one long-poll at a time.                    *)
NoRival == WaitSpawns => \A v, w \in Waiter : v = w

(* A step that neither moves a waiter nor announces it anything.           *)
LEMMA NothingNew ==
    ASSUME Awake, UNCHANGED <<waiter, flag>>,
           \A w \in Waiter : waiter[w].pc # "idle" /\ Announced(w)' => Announced(w)
    PROVE  Awake'
  BY DEF Awake

(* What e announces to a waiter reaches the waiter's consumer.             *)
LEMMA AudienceHas ==
    ASSUME TypeOK, NEW w \in Waiter, waiter[w].pc # "idle", NEW e \in Event,
           \/ e.to = waiter[w].poll.key
           \/ waiter[w].poll.sub /\ waiter[w].poll.key \in Above[e.task]
    PROVE  waiter[w].poll.key \in Audience(e)
  BY DEF Audience, Polling

LEMMA RingAwake ==
    ASSUME TypeOK, Awake, NEW e \in Event, Ring(e),
           mem'.cursor = mem.cursor, mem'.events \subseteq mem.events \cup {e}
    PROVE  Awake'
  <1> SUFFICES ASSUME NEW w \in Waiter
               PROVE  /\ waiter'[w].pc = "asleep" => ~Announced(w)'
                      /\ waiter'[w].pc = "spawned" =>
                            WaitSpawns /\ (Announced(w)' => flag'[waiter'[w].poll.key])
    BY DEF Awake
  <1> DEFINE key == waiter[w].poll.key
  <1>1. CASE waiter[w].pc = "asleep" /\ key \in Audience(e)
    <2>1. waiter[w] \in [pc : {"spawned", "asleep", "woken"}, poll : Poll]
      BY <1>1, PollOf
    <2>2. waiter'[w] = [waiter[w] EXCEPT !.pc = "woken"]
      BY <1>1 DEF Ring
    <2>3. waiter'[w].pc = "woken"
      BY <2>1, <2>2
    <2> QED
      BY <2>3
  <1>2. CASE ~(waiter[w].pc = "asleep" /\ key \in Audience(e))
    <2>1. waiter'[w] = waiter[w]
      BY <1>2 DEF Ring
    <2>2. ASSUME waiter[w].pc # "idle", Announced(w)'
          PROVE  Announced(w) \/ key \in Audience(e)
      <3>1. PICK g \in rung \cup {e} :
               /\ g \in mem'.events
               /\ g.seq > mem.cursor[key] /\ g.seq > waiter[w].poll.since
               /\ g.to = key \/ waiter[w].poll.sub
               /\ g.to = key \/ key \in Above[g.task]
        BY <2>1, <2>2 DEF Announced, Visible, Ring
      <3>2. CASE g = e
        BY <2>2, <3>1, <3>2, AudienceHas
      <3>3. CASE g \in rung /\ g # e
        BY <3>1, <3>3 DEF Announced, Visible
      <3> QED
        BY <3>1, <3>2, <3>3
    <2>3. waiter[w].pc = "asleep" => ~Announced(w)'
      BY <1>2, <2>2 DEF Awake
    <2>4. waiter[w].pc = "spawned" => WaitSpawns /\ (Announced(w)' => flag'[key])
      <3> SUFFICES ASSUME waiter[w].pc = "spawned"
                   PROVE  WaitSpawns /\ (Announced(w)' => flag'[key])
        OBVIOUS
      <3>1. key \in Task
        BY PollOf
      <3>2. flag'[key] = (flag[key] \/ key \in Audience(e))
        BY <3>1 DEF Ring
      <3> QED
        BY <2>2, <3>2 DEF Awake
    <2> QED
      BY <2>1, <2>3, <2>4
  <1> QED
    BY <1>1, <1>2

(* An event that is staged silently was not announced before.              *)
LEMMA StagingAwake ==
    ASSUME StreamInv, Awake, NEW c \in Call, NEW t \in Task, NEW to \in Task, MayAppend(c, t, to),
           NEW e, e = New(c, t, to),
           mem' = Staged(e), Wakes(e)
    PROVE  Awake'
  <1>1. /\ e \in Event /\ e.task = t /\ e \notin mem.events
        /\ mem'.events = mem.events \cup {e} /\ mem'.cursor = mem.cursor
    BY StagedKept
  <1>2. CASE Ring(e)
    BY <1>1, <1>2, RingAwake DEF StreamInv
  <1>3. CASE Silent
    <2>1. e \notin rung
      BY <1>1 DEF StreamInv, RungIsKnown, MayAppend
    <2>2. \A w \in Waiter : Announced(w)' => Announced(w)
      BY <1>1, <1>3, <2>1 DEF Announced, Visible, Silent, polls
    <2> QED
      BY <1>3, <2>2, NothingNew DEF Silent, polls
  <1> QED
    BY <1>2, <1>3 DEF Wakes

(* A consumer that is deleted with its cursor has nothing left to see.     *)
LEMMA DeleteAwake ==
    ASSUME StreamInv, Awake, NEW t \in Task, DeleteTask(t)
    PROVE  Awake'
  <1>1. /\ UNCHANGED <<waiter, flag, rung>>
        /\ \/ mem' = mem
           \/ mem' = [events |-> {e \in mem.events : e.task # t},
                      cursor |-> [mem.cursor EXCEPT ![t] = 0],
                      live   |-> mem.live \ {t}]
    BY DEF DeleteTask, Silent, polls
  <1>2. \A u \in mem.live : t \notin Above[u]
    BY DEF DeleteTask
  <1>3. \A e \in mem.events : e.task \in mem.live /\ e.task \in Task /\ e.to \in Addressees(e.task)
    BY DEF StreamInv, WellKept, OfLiveTasks, Store, Event
  <1>4. \A u \in Task : Parent[u] # NoTask => Parent[u] \in Above[u]
    BY AboveAssumption
  <1>5. \A e \in mem.events : e.task # t => e.to # t /\ t \notin Above[e.task]
    BY <1>2, <1>3, <1>4 DEF Addressees
  <1>6. ASSUME NEW w \in Waiter, waiter[w].pc # "idle", Announced(w)'
        PROVE  Announced(w)
    <2>1. CASE mem' = mem
      BY <1>1, <1>6, <2>1 DEF Announced, Visible
    <2>2. CASE mem' = [events |-> {e \in mem.events : e.task # t},
                       cursor |-> [mem.cursor EXCEPT ![t] = 0],
                       live   |-> mem.live \ {t}]
      <3>1. mem'.events = {e \in mem.events : e.task # t}
            /\ mem'.cursor = [mem.cursor EXCEPT ![t] = 0]
        BY <2>2
      <3>2. PICK g \in rung :
               /\ g \in mem.events /\ g.task # t
               /\ g.seq > mem'.cursor[waiter[w].poll.key] /\ g.seq > waiter[w].poll.since
               /\ \/ g.to = waiter[w].poll.key
                  \/ /\ waiter[w].poll.sub
                     /\ waiter[w].poll.key \in Above[g.task] \cup {g.task}
               /\ g.to = waiter[w].poll.key \/ waiter[w].poll.key \in Above[g.task]
        BY <1>1, <1>6, <3>1 DEF Announced, Visible
      <3>3. waiter[w].poll.key # t
        BY <1>5, <3>2
      <3>4. mem'.cursor[waiter[w].poll.key] = mem.cursor[waiter[w].poll.key]
        BY <1>6, <3>1, <3>3, PollOf DEF StreamInv, TypeOK, Store
      <3> QED
        BY <3>2, <3>4 DEF Announced, Visible
    <2> QED
      BY <1>1, <2>1, <2>2
  <1> QED
    BY <1>1, <1>6, NothingNew

LEMMA AckAwake ==
    ASSUME StreamInv, Awake, NEW k \in Task, NEW n \in 0 .. MaxSeq, Ack(k, n)
    PROVE  Awake'
  <1>1. UNCHANGED <<waiter, flag, rung>>
    BY DEF Ack, Silent, polls
  <1>2. mem \in Store /\ n \in Nat /\ n >= mem.cursor[k]
    BY BoundsAssumption, MaxSequenceIs DEF Ack, StreamInv, TypeOK, Store
  <1>3. mem' = mem \/ mem' = [mem EXCEPT !.cursor[k] = n]
    BY DEF Ack
  <1>4. /\ mem'.events = mem.events
        /\ \A u \in Task : mem.cursor[u] \in Nat /\ mem'.cursor[u] \in Nat
                           /\ mem'.cursor[u] >= mem.cursor[u]
    BY <1>2, <1>3, BoundsAssumption DEF Store
  <1>5. ASSUME NEW w \in Waiter, waiter[w].pc # "idle", Announced(w)'
        PROVE  Announced(w)
    <2>1. waiter[w].poll.key \in Task
      BY <1>5, PollOf DEF StreamInv
    <2>2. \A e \in mem.events : e.seq \in Nat
      BY MaxSequenceIs, BoundsAssumption DEF StreamInv
    <2>3. \A e \in mem.events : e.seq > mem'.cursor[waiter[w].poll.key]
                                   => e.seq > mem.cursor[waiter[w].poll.key]
      BY <1>4, <2>1, <2>2
    <2> QED
      BY <1>1, <1>4, <1>5, <2>3 DEF Announced, Visible
  <1> QED
    BY <1>1, <1>5, NothingNew

(* The steps of the waiters themselves. *)
LEMMA PollAwake ==
    ASSUME NoRival, TypeOK, Awake, NEW w \in Waiter, NEW p \in Poll, PollOnce(w, p),
           UNCHANGED <<mem, rung>>
    PROVE  Awake'
  <1> SUFFICES ASSUME NEW v \in Waiter
               PROVE  /\ waiter'[v].pc = "asleep" => ~Announced(v)'
                      /\ waiter'[v].pc = "spawned" =>
                            WaitSpawns /\ (Announced(v)' => flag'[waiter'[v].poll.key])
    BY DEF Awake
  <1>1. CASE v = w /\ waiter' = [waiter EXCEPT ![w] = NoPoll]
    BY <1>1 DEF TypeOK, NoPoll
  <1>2. CASE /\ v = w /\ Visible(p) = {}
             /\ waiter' = [waiter EXCEPT ![w] =
                             [pc |-> IF WaitSpawns THEN "spawned" ELSE "asleep", poll |-> p]]
    <2>1. waiter'[v].poll = p /\ waiter'[v].pc = IF WaitSpawns THEN "spawned" ELSE "asleep"
      BY <1>2 DEF TypeOK
    <2>2. Visible(p)' = Visible(p)
      BY DEF Visible
    <2>3. ~Announced(v)'
      BY <1>2, <2>1, <2>2 DEF Announced
    <2> QED
      BY <2>1, <2>3
  <1>3. CASE v # w
    <2>1. waiter'[v] = waiter[v]
      BY <1>3 DEF PollOnce, TypeOK
    <2>2. Announced(v)' => Announced(v)
      BY <2>1 DEF Announced, Visible
    <2>3. waiter[v].pc # "spawned"
      BY <1>3 DEF Awake, NoRival
    <2> QED
      BY <2>1, <2>2, <2>3 DEF Awake
  <1> QED
    BY <1>1, <1>2, <1>3 DEF PollOnce

(* A waiter that stops polling, or whose inner task starts, takes nothing  *)
(* from the others.                                                        *)
LEMMA OwnStepAwake ==
    ASSUME TypeOK, Awake, NEW w \in Waiter, NEW x, waiter' = [waiter EXCEPT ![w] = x],
           UNCHANGED <<mem, rung, flag>>,
           \/ x.pc \notin {"asleep", "spawned"}
           \/ x.poll = waiter[w].poll /\ ~Announced(w) /\ x.pc = "asleep"
    PROVE  Awake'
  <1> SUFFICES ASSUME NEW v \in Waiter
               PROVE  /\ waiter'[v].pc = "asleep" => ~Announced(v)'
                      /\ waiter'[v].pc = "spawned" =>
                            WaitSpawns /\ (Announced(v)' => flag'[waiter'[v].poll.key])
    BY DEF Awake
  <1>0. mem' = mem /\ rung' = rung /\ flag' = flag
    OBVIOUS
  <1>1. CASE v = w
    <2>1. waiter'[v] = x
      BY <1>1 DEF TypeOK
    <2>2. x.poll = waiter[w].poll => (Announced(v)' => Announced(w))
      BY <1>0, <1>1, <2>1 DEF Announced, Visible
    <2> QED
      BY <1>1, <2>1, <2>2
  <1>2. CASE v # w
    <2>1. waiter'[v] = waiter[v]
      BY <1>2 DEF TypeOK
    <2>2. Announced(v)' => Announced(v)
      BY <1>0, <2>1 DEF Announced, Visible
    <2> QED
      BY <1>0, <2>1, <2>2 DEF Awake
  <1> QED
    BY <1>1, <1>2

LEMMA WaitAwake ==
    ASSUME NoRival, TypeOK, Awake, NEW w \in Waiter,
           \/ \E p \in Poll : WaitStart(w, p)
           \/ InnerWait(w) \/ WaitResume(w) \/ WaitTimeout(w)
    PROVE  Awake'
  <1>1. UNCHANGED <<mem, rung>>
    BY DEF WaitStart, InnerWait, WaitResume, WaitTimeout, stream
  <1>2. CASE \E p \in Poll : WaitStart(w, p)
    BY <1>1, <1>2, PollAwake DEF WaitStart
  <1>3. CASE InnerWait(w)
    <2> DEFINE x == [waiter[w] EXCEPT !.pc = IF flag[waiter[w].poll.key] THEN "woken" ELSE "asleep"]
    <2>1. waiter[w] \in [pc : {"spawned", "asleep", "woken"}, poll : Poll]
      BY <1>3, PollOf DEF InnerWait
    <2>2. x.poll = waiter[w].poll /\ x.pc = IF flag[waiter[w].poll.key] THEN "woken" ELSE "asleep"
      BY <2>1
    <2>3. ~flag[waiter[w].poll.key] => ~Announced(w)
      BY <1>3 DEF InnerWait, Awake
    <2>4. waiter' = [waiter EXCEPT ![w] = x] /\ UNCHANGED flag
      BY <1>3 DEF InnerWait
    <2> HIDE DEF x
    <2> QED
      BY <1>1, <2>2, <2>3, <2>4, OwnStepAwake
  <1>4. CASE WaitResume(w)
    <2>1. waiter[w].poll \in Poll
      BY <1>4, PollOf DEF WaitResume
    <2>2. CASE PollOnce(w, waiter[w].poll)
      BY <1>1, <2>1, <2>2, PollAwake
    <2>3. CASE waiter' = [waiter EXCEPT ![w] = NoPoll] /\ UNCHANGED flag
      BY <1>1, <2>3, OwnStepAwake DEF NoPoll
    <2> QED
      BY <1>4, <2>2, <2>3 DEF WaitResume
  <1>5. CASE WaitTimeout(w)
    BY <1>1, <1>5, OwnStepAwake DEF WaitTimeout, NoPoll
  <1> QED
    BY <1>2, <1>3, <1>4, <1>5

LEMMA AwakeNext == ASSUME NoRival, StreamInv, Awake, [Next]_vars PROVE Awake'
  <1>0. TypeOK
    BY DEF StreamInv
  <1>1. ASSUME NEW c \in Call, NEW t \in Task, NEW to \in Task, NEW wake \in BOOLEAN,
               AppendEvent(c, t, to, wake)
        PROVE  Awake'
    <2> DEFINE e == New(c, t, to)
    <2>1. CASE mem' = Staged(e) /\ Wakes(e)
      <3>1. MayAppend(c, t, to) /\ e = New(c, t, to)
        BY <1>1 DEF AppendEvent
      <3> HIDE DEF e
      <3> QED
        BY <2>1, <3>1, StagingAwake
    <2>2. CASE mem' = mem /\ Silent
      BY <2>2, NothingNew DEF Silent, polls, Announced, Visible
    <2> QED
      BY <1>1, <2>1, <2>2 DEF AppendEvent, Wakes
  <1>2. ASSUME NEW c \in Call, NEW t \in Task, Observe(c, t)
        PROVE  Awake'
    <2> DEFINE to == IF Parent[t] = NoTask THEN t ELSE Parent[t]
               e == New(c, t, to)
    <2>1. MayAppend(c, t, to) /\ to \in Task /\ mem' = Staged(e) /\ Wakes(e) /\ e = New(c, t, to)
      BY <1>2, ParentAssumption DEF Observe, Wakes
    <2> HIDE DEF e, to
    <2> QED
      BY <2>1, StagingAwake
  <1>3. ASSUME NEW e \in mem.events, Replay(e)
        PROVE  Awake'
    <2>1. mem' = mem /\ e \in Event
      BY <1>0, <1>3 DEF Replay, TypeOK, Store
    <2>2. CASE Ring(e)
      BY <1>0, <2>1, <2>2, RingAwake
    <2>3. CASE Silent
      BY <2>1, <2>3, NothingNew DEF Silent, polls, Announced, Visible
    <2> QED
      BY <1>3, <2>2, <2>3 DEF Replay
  <1>4. ASSUME NEW k \in Task, NEW n \in 0 .. MaxSeq, Ack(k, n)
        PROVE  Awake'
    BY <1>4, AckAwake
  <1>5. ASSUME NEW t \in Task, DeleteTask(t)
        PROVE  Awake'
    BY <1>5, DeleteAwake
  <1>6. CASE Restart
    BY <1>6 DEF Restart, Awake, NoPoll
  <1>7. ASSUME NEW w \in Waiter,
               \/ \E p \in Poll : WaitStart(w, p)
               \/ InnerWait(w) \/ WaitResume(w) \/ WaitTimeout(w)
        PROVE  Awake'
    BY <1>0, <1>7, WaitAwake
  <1>8. CASE UNCHANGED vars
    BY <1>8, NothingNew DEF vars, Announced, Visible
  <1> QED
    BY <1>1, <1>2, <1>3, <1>4, <1>5, <1>6, <1>7, <1>8 DEF Next

(* No wake-up is lost when Event.wait is awaited directly, for any number  *)
(* of waiters, and also when it runs in a task of its own as long as there *)
(* is one waiter (directed_wait.py, wait, wake and wake_if_subtree).       *)
THEOREM NoWakeLost == ASSUME NoRival PROVE Spec => []NoLostWake
  <1>1. Init => Awake
    BY DEF Init, Awake, NoPoll
  <1>2. StreamInv /\ Awake /\ [Next]_vars => Awake'
    BY AwakeNext
  <1>3. Awake => NoLostWake
    BY DEF Awake, Announced, NoLostWake
  <1> QED
    BY <1>1, <1>2, <1>3, StreamInvariant, PTL DEF Spec
=============================================================================
