------------------------------ MODULE ChatInbox ------------------------------
(***************************************************************************)
(* The durable inbox of one native Chat tab (chat_message_inbox.py): users *)
(* and the scheduler queue messages; one pump at a time hands the head to  *)
(* the provider; reconciliation decides from the stream's evidence what    *)
(* became of a message nobody watches any more.                            *)
(*                                                                         *)
(* An action is what happens between two awaits that can suspend; the pump *)
(* and the reconciliation are coroutines with a program counter.  The      *)
(* inbox lock is never held across such an await, so it needs no variable. *)
(***************************************************************************)
EXTENDS Integers, FiniteSets

CONSTANTS
    Message,        \* the message_ids users and schedules may bring
    Scheduled,      \* those admitted for an occurrence of a schedule
    MaxAttempts,    \* failed attempts after which a message is given up (12)
    NoMessage,
    HumanTurn,      \* a turn typed into the Chat, past the inbox
    Budget          \* bound: failures, crashes, holds and human turns

ASSUME InboxAssumption ==
    /\ Scheduled \subseteq Message
    /\ NoMessage \notin Message /\ HumanTurn \notin Message
    /\ NoMessage # HumanTurn
    /\ MaxAttempts \in Nat \ {0} /\ Budget \in Nat

VARIABLES
    mem,        \* the inbox in memory ...
    disk,       \* ... and in chat_messages.json
    phase,      \* "starting" until start() returns; "closing" after a failed save or stop()
    todo,       \* what start()'s reconciliation still has to look at
    recov,      \* _restart_recovery
    active,     \* scheduled messages whose run is active in the scheduler's records
    pump,       \* the pump of the tab: where it stands, with what, and why it raised
    probe,      \* what reconcile() read of a message before it takes the lock
    target,     \* the tab's incarnation, and what keeps it from taking input
    turn,       \* the turn the provider runs
    log,        \* whether the event store knows the turn of a message, and as open
    ends,       \* <<message, result>>: the ends of turns that the store holds
    notes,      \* the ends not yet reported to completed()
    given,      \* history: how often the provider was handed each message
    answered,   \* history: messages whose receipt was returned
    budget

vars == <<mem, disk, phase, todo, recov, active, pump, probe, target, turn,
          log, ends, notes, given, answered, budget>>
provider == <<turn, log, ends, notes, given>>

Terminal == {"completed", "failed", "cancelled"}
InFlight == {"dispatching", "accepted", "uncertain"}
State == {"none", "queued", "waiting"} \cup InFlight \cup Terminal
Hold == {"no", "archived", "goal", "gone"}
Why == {"none", "forbidden", "busy", "cold", "error"}
PumpPoint == {"idle", "submit", "begun", "sending", "took", "raised"}
LogState == {"absent", "open", "closed"}

(* The rows of the store.  `ahead' stands for the sequence number: the      *)
(* messages that had been admitted, with smaller numbers, before this one.  *)
Box == [state: [Message -> State], started: [Message -> BOOLEAN],
        attempts: [Message -> Nat], inc: [Message -> Nat],
        ahead: [Message -> SUBSET Message]]

EmptyBox == [state |-> [m \in Message |-> "none"],
             started |-> [m \in Message |-> FALSE],
             attempts |-> [m \in Message |-> 0],
             inc |-> [m \in Message |-> 0],
             ahead |-> [m \in Message |-> {}]]

IdlePump == [pc |-> "idle", m |-> NoMessage, why |-> "none"]
NoProbe == [m |-> NoMessage, proof |-> "absent", dead |-> FALSE, fresh |-> FALSE]

Admitted(b) == {m \in Message : b.state[m] # "none"}

(* blocks_queue: an uncertain occurrence is history, an uncertain direct    *)
(* message keeps the conversation.                                          *)
Blocks(b, m) ==
    /\ b.state[m] \notin Terminal \cup {"none"}
    /\ ~(m \in Scheduled /\ b.state[m] = "uncertain")

(* Mutants: any message may go next; a message that had to wait is never    *)
(* looked at again.                                                         *)
IsHeadUnordered(b, m) ==
    /\ Blocks(b, m)
    /\ \A a \in Message : Blocks(b, a) => b.state[a] \notin InFlight

IsHeadQueued(b, m) ==
    /\ b.state[m] = "queued"
    /\ \A e \in b.ahead[m] : ~Blocks(b, e)
    /\ \A a \in Message : Blocks(b, a) => b.state[a] \notin InFlight

(* What the pump of the tab may take up next.                               *)
IsHead(b, m) ==
    /\ Blocks(b, m)
    /\ \A e \in b.ahead[m] : ~Blocks(b, e)
    /\ \A a \in Message : Blocks(b, a) => b.state[a] \notin InFlight

(* The scheduler's projection of a row on its run.                          *)
RunActive(m, s) == active \ (IF s \in Terminal \cup {"uncertain"} THEN {m} ELSE {})

Observed(m) == IF probe.m = m THEN [probe EXCEPT !.fresh = FALSE] ELSE probe

-----------------------------------------------------------------------------
(* Persistence: a failing save restores memory to what was last committed   *)
(* and closes the inbox; the file may hold either version.                  *)

Save(new) ==
    /\ mem' = new
    /\ disk' = new
    /\ UNCHANGED <<phase, budget>>

SaveFails(new) ==
    /\ budget > 0
    /\ budget' = budget - 1
    /\ mem' = mem
    /\ disk' \in {disk, new}
    /\ phase' = "closing"

Moved(b, m, s) == [b EXCEPT !.state[m] = s]

(* _change: refused while closing; the run follows a saved row only, and    *)
(* what a reconciliation has read of the row is stale from here on.         *)
SaveRow(new, m) ==
    /\ phase # "closing"
    /\ \/ Save(new) /\ active' = RunActive(m, new.state[m])
       \/ SaveFails(new) /\ UNCHANGED active

Change(new, m) == SaveRow(new, m) /\ probe' = Observed(m)

Init ==
    /\ mem = EmptyBox /\ disk = EmptyBox
    /\ phase = "starting" /\ todo = {} /\ recov = {} /\ active = {}
    /\ pump = IdlePump /\ probe = NoProbe
    /\ target = [inc |-> 1, hold |-> "no"]
    /\ turn = NoMessage
    /\ log = [m \in Message |-> "absent"]
    /\ ends = {} /\ notes = {}
    /\ given = [m \in Message |-> 0]
    /\ answered = {}
    /\ budget = Budget

-----------------------------------------------------------------------------
(* Callers *)

Row(b, m) == [b EXCEPT !.state[m] = "queued", !.inc[m] = target.inc,
                       !.ahead[m] = Admitted(b)]

(* Mutant: the receipt does not wait for the save. *)
EnqueueUnsaved(m) ==
    /\ phase = "running"
    /\ m \in Message \ Scheduled
    /\ mem.state[m] = "none"
    /\ target.hold \notin {"archived", "gone"}
    /\ Save(Row(mem, m)) \/ SaveFails(Row(mem, m))
    /\ answered' = answered \cup {m}
    /\ UNCHANGED <<todo, recov, active, pump, probe, target, provider>>

(* enqueue: the receipt leaves only after the save.                         *)
Enqueue(m) ==
    /\ phase = "running"
    /\ m \in Message \ Scheduled
    /\ mem.state[m] = "none"
    /\ target.hold \notin {"archived", "gone"}
    /\ \/ Save(Row(mem, m)) /\ answered' = answered \cup {m}
       \/ SaveFails(Row(mem, m)) /\ UNCHANGED answered
    /\ UNCHANGED <<todo, recov, active, pump, probe, target, provider>>

(* admit_scheduled, for a run that the scheduler has recorded as active.    *)
AdmitScheduled(m) ==
    /\ phase # "closing"
    /\ m \in Scheduled
    /\ mem.state[m] = "none"
    /\ \/ Save(Row(mem, m)) /\ active' = active \cup {m}
       \/ SaveFails(Row(mem, m)) /\ active' = active \cup {m}
    /\ UNCHANGED <<todo, recov, pump, probe, target, provider, answered>>

(* cancel: only what was not taken up.                                      *)
Cancel(m) ==
    /\ m \in Message \ Scheduled
    /\ mem.state[m] \in {"queued", "waiting"}
    /\ Change(Moved(mem, m, "cancelled"), m)
    /\ UNCHANGED <<todo, recov, pump, target, provider, answered>>

(* _cancel_scheduled_task_runs releases the slot of an active run, whatever *)
(* became of it.  It takes no lock.                                         *)
CancelScheduled(m) ==
    /\ m \in active
    /\ Blocks(mem, m)
    /\ Change(Moved(mem, m, "cancelled"), m)
    /\ UNCHANGED <<todo, recov, pump, target, provider, answered>>

-----------------------------------------------------------------------------
(* The pump of the tab *)

Matches(m) == mem.inc[m] = target.inc

(* What pump() makes of the head.  For a scheduled message the scheduler's  *)
(* _prepare_scheduled_intent is asked first.                                *)
Verdict(m) ==
    IF m \in Scheduled /\ (m \notin active \/ target.hold = "gone") THEN {"cancelled"}
    ELSE IF m \in Scheduled /\ target.hold \in {"archived", "goal"} THEN {"waiting"}
    ELSE IF target.hold = "gone" THEN {"cancelled", "failed"}
    ELSE IF ~Matches(m) THEN {"failed"}
    ELSE IF target.hold = "archived" THEN {"waiting"}
    ELSE {"dispatching"}

PumpTakes(m) ==
    /\ pump = IdlePump
    /\ phase = "running"
    /\ IsHead(mem, m)
    /\ \E s \in Verdict(m) :
         LET taken == s = "dispatching"
             new == IF taken THEN [Moved(mem, m, s) EXCEPT !.attempts[m] = @ + 1]
                    ELSE Moved(mem, m, s)
         IN  /\ Change(new, m)
             /\ pump' = IF taken /\ phase' # "closing"
                        THEN [pc |-> "submit", m |-> m, why |-> "none"] ELSE IdlePump
    /\ UNCHANGED <<todo, recov, target, provider, answered>>

PumpAt(pc) == pump.pc = pc

Raise(why) == pump' = [pump EXCEPT !.pc = "raised", !.why = why]

Busy(m) == turn # NoMessage \/ target.hold # "no" \/ ~Matches(m)

(* _submit gives up before it has published anything.                       *)
SubmitRefuses(why) ==
    /\ PumpAt("submit")
    /\ \/ why = "busy" /\ Busy(pump.m) /\ UNCHANGED budget
       \/ why = "forbidden" /\ target.hold = "gone" /\ UNCHANGED budget
       \/ why \in {"forbidden", "cold", "error"} /\ budget > 0 /\ budget' = budget - 1
    /\ Raise(why)
    /\ UNCHANGED <<mem, disk, phase, todo, recov, active, probe, target, provider, answered>>

(* The stream owns the turn: TURN_STARTED is durable before the fence.      *)
SubmitBegins ==
    /\ PumpAt("submit")
    /\ ~Busy(pump.m)
    /\ turn' = pump.m
    /\ log' = [log EXCEPT ![pump.m] = "open"]
    /\ pump' = [pump EXCEPT !.pc = "begun"]
    /\ UNCHANGED <<mem, disk, phase, todo, recov, active, probe, target, ends,
                   notes, given, answered, budget>>

(* The synthetic completion of a rejected delivery is no proof of anything. *)
RejectTurn ==
    /\ turn' = NoMessage
    /\ log' = [log EXCEPT ![pump.m] = "closed"]

FenceHolds(m) ==
    /\ mem.state[m] = "dispatching"
    /\ Matches(m)
    /\ target.hold \notin {"archived", "gone"}

FenceErrors(m) ==
    IF phase = "closing" THEN {"cold"}
    ELSE IF mem.state[m] = "dispatching" /\ target.hold = "gone" THEN {"forbidden", "busy"}
    ELSE {"busy"}

(* _before_delivery: the last check, and the durable mark of a submission.  *)
BeforeDelivery ==
    /\ PumpAt("begun")
    /\ LET m == pump.m
           new == [mem EXCEPT !.started[m] = TRUE]
       IN  \/ /\ phase # "closing" /\ FenceHolds(m)
              /\ Save(new)
              /\ pump' = [pump EXCEPT !.pc = "sending"]
              /\ UNCHANGED <<turn, log>>
           \/ /\ phase # "closing" /\ FenceHolds(m)
              /\ SaveFails(new)
              /\ Raise("error") /\ RejectTurn
           \/ /\ phase = "closing" \/ ~FenceHolds(m)
              /\ \E why \in FenceErrors(m) : Raise(why)
              /\ RejectTurn
              /\ UNCHANGED <<mem, disk, phase, budget>>
    /\ UNCHANGED <<todo, recov, active, probe, target, ends, notes, given, answered>>

(* The provider is handed the message: it takes it; it refuses it, though   *)
(* part of it may have been written; or nobody can tell and it runs.        *)
ProviderTakes ==
    /\ PumpAt("sending")
    /\ given' = [given EXCEPT ![pump.m] = @ + 1]
    /\ \/ pump' = [pump EXCEPT !.pc = "took"] /\ UNCHANGED budget
       \/ Raise("error") /\ budget > 0 /\ budget' = budget - 1
    /\ UNCHANGED <<mem, disk, phase, todo, recov, active, probe, target, turn, log,
                   ends, notes, answered>>

ProviderRefuses ==
    /\ PumpAt("sending")
    /\ budget > 0 /\ budget' = budget - 1
    /\ given' \in {given, [given EXCEPT ![pump.m] = @ + 1]}
    /\ Raise("error") /\ RejectTurn
    /\ UNCHANGED <<mem, disk, phase, todo, recov, active, probe, target, ends, notes,
                   answered>>

(* Mutant: an accepted submission counts as a completed turn. *)
SubmitReturnedDone ==
    /\ PumpAt("took")
    /\ mem.state[pump.m] = "dispatching"
    /\ Change(Moved(mem, pump.m, "completed"), pump.m)
    /\ pump' = IdlePump
    /\ UNCHANGED <<todo, recov, target, provider, answered>>

(* submit returned: a turn that ended meanwhile keeps its result.           *)
SubmitReturned ==
    /\ PumpAt("took")
    /\ \/ /\ mem.state[pump.m] = "dispatching"
          /\ Change(Moved(mem, pump.m, "accepted"), pump.m)
       \/ /\ mem.state[pump.m] # "dispatching" \/ phase = "closing"
          /\ UNCHANGED <<mem, disk, phase, active, probe, budget>>
    /\ pump' = IdlePump
    /\ UNCHANGED <<todo, recov, target, provider, answered>>

Patience(m) == IF m \in Scheduled THEN MaxAttempts + 1 ELSE MaxAttempts

(* What the handler of an exception out of submit makes of the message.     *)
Deferred(m, why) ==
    CASE mem.started[m] -> Moved(mem, m, "uncertain")
      [] ~mem.started[m] /\ why = "busy" ->
           [Moved(mem, m, "waiting") EXCEPT
              !.attempts[m] = IF m \in Scheduled /\ @ > 0 THEN @ - 1 ELSE 0]
      [] ~mem.started[m] /\ why # "busy" ->
           Moved(mem, m, IF \/ why = "forbidden"
                            \/ why = "error" /\ m \in Scheduled
                            \/ mem.attempts[m] >= Patience(m)
                         THEN "failed" ELSE "waiting")

SubmitRaised ==
    /\ PumpAt("raised")
    /\ \/ /\ mem.state[pump.m] \notin Terminal
          /\ Change(Deferred(pump.m, pump.why), pump.m)
       \/ /\ mem.state[pump.m] \in Terminal \/ phase = "closing"
          /\ UNCHANGED <<mem, disk, phase, active, probe, budget>>
    /\ pump' = IdlePump
    /\ UNCHANGED <<todo, recov, target, provider, answered>>

-----------------------------------------------------------------------------
(* Turns and their end *)

EndOfTurn(m, status) ==
    /\ log' = [log EXCEPT ![m] = "closed"]
    /\ ends' = ends \cup {<<m, status>>}
    /\ notes' = notes \cup {<<m, status>>}

TurnEnds(m, status) ==
    /\ turn = m
    /\ ~(pump.m = m /\ pump.pc \in {"begun", "sending"})
    /\ turn' = NoMessage
    /\ EndOfTurn(m, status)
    /\ UNCHANGED <<mem, disk, phase, todo, recov, active, pump, probe, target,
                   given, answered, budget>>

(* The runtime is lost and nothing is written about the end of the turn.    *)
TurnLost ==
    /\ turn \in Message
    /\ ~(pump.m = turn /\ pump.pc \in {"begun", "sending"})
    /\ budget > 0 /\ budget' = budget - 1
    /\ turn' = NoMessage
    /\ UNCHANGED <<mem, disk, phase, todo, recov, active, pump, probe, target, log,
                   ends, notes, given, answered>>

(* completed, called by the observer of the event stream.                   *)
Completed(m, status) ==
    /\ <<m, status>> \in notes
    /\ notes' = notes \ {<<m, status>>}
    /\ \/ Blocks(mem, m) /\ Change(Moved(mem, m, status), m)
       \/ /\ ~Blocks(mem, m) \/ phase = "closing"
          /\ UNCHANGED <<mem, disk, phase, active, probe, budget>>
    /\ UNCHANGED <<todo, recov, pump, target, turn, log, ends, given, answered>>

-----------------------------------------------------------------------------
(* Reconciliation *)

(* inspect_chat_delivery; should one turn have several ends, any may come   *)
(* first.  A rejected turn counts as started.                               *)
Evidence(m) ==
    IF \E status \in Terminal : <<m, status>> \in ends
    THEN {status \in Terminal : <<m, status>> \in ends}
    ELSE {IF turn = m THEN "live" ELSE IF log[m] = "absent" THEN "absent" ELSE "started"}

(* Mutant: an accepted message waits for its end for ever. *)
ResolvedByEndOnly(m, proof, dead, restarting) ==
    IF proof \in Terminal THEN proof
    ELSE IF restarting THEN "uncertain" ELSE mem.state[m]

(* What reconcile makes of a message, given its proof.                      *)
Resolved(m, proof, dead, restarting) ==
    LET s == mem.state[m]
        unsent == proof = "absent" /\ ~mem.started[m]
    IN  CASE proof \in Terminal -> proof
          [] proof \notin Terminal /\ m \in Scheduled ->
               IF ~dead THEN s ELSE IF unsent THEN "queued" ELSE "uncertain"
          [] proof \notin Terminal /\ m \notin Scheduled /\ restarting ->
               IF proof = "live" THEN s
               ELSE IF unsent /\ s = "dispatching" THEN "queued" ELSE "uncertain"
          [] proof \notin Terminal /\ m \notin Scheduled /\ ~restarting ->
               IF s = "accepted" /\ proof # "live" THEN "uncertain" ELSE s

InDoubt(m) == mem.state[m] \in InFlight /\ Blocks(mem, m)

(* scheduled_chat_turn_liveness: idle provider, and no other open turn.     *)
Dead(m) ==
    \/ m \in recov
    \/ target.hold = "gone"
    \/ turn = NoMessage /\ \A o \in Message : log[o] # "open"

(* A pass reads the evidence of a message with no lock held.  An unreadable *)
(* store counts as a started turn, or ends the pass for an occurrence.      *)
ReadEvidence(m) ==
    /\ phase = "running"
    /\ probe = NoProbe
    /\ InDoubt(m)
    /\ \/ /\ \E proof \in Evidence(m) :
               probe' = [m |-> m, proof |-> proof, dead |-> Dead(m), fresh |-> TRUE]
          /\ UNCHANGED budget
       \/ /\ m \notin Scheduled
          /\ budget > 0 /\ budget' = budget - 1
          /\ probe' = [m |-> m, proof |-> "started", dead |-> FALSE, fresh |-> TRUE]
    /\ UNCHANGED <<mem, disk, phase, todo, recov, active, pump, target, provider, answered>>

(* The liveness probe closes the orphaned turn of an occurrence itself.     *)
CloseOrphan(m) ==
    /\ phase = "running"
    /\ m \in Scheduled \ recov
    /\ InDoubt(m)
    /\ turn = NoMessage
    /\ log[m] = "open"
    /\ EndOfTurn(m, "cancelled")
    /\ UNCHANGED <<mem, disk, phase, todo, recov, active, pump, probe, target, turn,
                   given, answered, budget>>

StillAsRead == probe.fresh

Reconcile ==
    /\ probe # NoProbe
    /\ LET m == probe.m
           s == Resolved(m, probe.proof, probe.dead, FALSE)
       IN  \/ /\ StillAsRead /\ s # mem.state[m]
              /\ SaveRow(Moved(mem, m, s), m)
              /\ recov' = recov \ {m}
           \/ /\ ~StillAsRead \/ s = mem.state[m] \/ phase = "closing"
              /\ recov' = IF StillAsRead THEN recov \ {m} ELSE recov
              /\ UNCHANGED <<mem, disk, phase, active, budget>>
    /\ probe' = NoProbe
    /\ UNCHANGED <<todo, pump, target, provider, answered>>

(* reconcile(restarting=True), message by message, before anything runs.    *)
Recover(m) ==
    /\ phase = "starting"
    /\ m \in todo
    /\ todo' = todo \ {m}
    /\ \/ /\ InDoubt(m)
          /\ \E proof \in Evidence(m) \cup (IF m \in Scheduled THEN {} ELSE {"started"}) :
               Change(Moved(mem, m, Resolved(m, proof, TRUE, TRUE)), m)
          /\ recov' = recov \ {m}
       \/ /\ InDoubt(m) /\ m \in Scheduled      \* its evidence is unreadable
          /\ budget > 0 /\ budget' = budget - 1
          /\ UNCHANGED <<mem, disk, phase, active, probe, recov>>
       \/ /\ ~InDoubt(m)
          /\ UNCHANGED <<mem, disk, phase, active, probe, recov, budget>>
    /\ UNCHANGED <<pump, target, provider, answered>>

Start ==
    /\ phase = "starting" /\ todo = {}
    /\ phase' = "running"
    /\ UNCHANGED <<mem, disk, todo, recov, active, pump, probe, target, provider,
                   answered, budget>>

-----------------------------------------------------------------------------
(* The tab, the human and the process *)

SetHold(h) ==
    /\ target.hold # "gone" /\ target.hold # h
    /\ target' = [target EXCEPT !.hold = h]
    /\ \/ h = "no" /\ UNCHANGED budget
       \/ h # "no" /\ budget > 0 /\ budget' = budget - 1
    /\ UNCHANGED <<mem, disk, phase, todo, recov, active, pump, probe, provider, answered>>

(* The conversation is reset, or the tab gets another configuration.        *)
Retarget ==
    /\ budget > 0 /\ budget' = budget - 1
    /\ target' = [target EXCEPT !.inc = @ + 1]
    /\ UNCHANGED <<mem, disk, phase, todo, recov, active, pump, probe, provider, answered>>

HumanTypes ==
    /\ turn = NoMessage
    /\ budget > 0 /\ budget' = budget - 1
    /\ turn' = HumanTurn
    /\ UNCHANGED <<mem, disk, phase, todo, recov, active, pump, probe, target, log,
                   ends, notes, given, answered>>

HumanTurnEnds ==
    /\ turn = HumanTurn
    /\ turn' = NoMessage
    /\ UNCHANGED <<mem, disk, phase, todo, recov, active, pump, probe, target, log,
                   ends, notes, given, answered, budget>>

Stop ==
    /\ phase = "running"
    /\ budget > 0 /\ budget' = budget - 1
    /\ phase' = "closing"
    /\ UNCHANGED <<mem, disk, todo, recov, active, pump, probe, target, provider, answered>>

(* The observer of question events saves without asking whether the inbox   *)
(* is closing: what a failed save may have left in the file is taken back.  *)
ObserverSaves ==
    /\ phase = "closing"
    /\ disk # mem
    /\ disk' = mem
    /\ UNCHANGED <<mem, phase, todo, recov, active, pump, probe, target, provider,
                   answered, budget>>

(* A new process loads the file; the scheduler projects what it finds there *)
(* on its runs; the turn of the dead process is gone.                       *)
Restart ==
    /\ \/ phase = "closing" /\ UNCHANGED budget
       \/ phase # "closing" /\ budget > 0 /\ budget' = budget - 1
    /\ mem' = disk
    /\ phase' = "starting"
    /\ todo' = {m \in Message : Blocks(disk, m) /\ disk.state[m] \in InFlight}
    /\ recov' = {m \in Scheduled : disk.state[m] \in {"dispatching", "accepted"}}
    /\ active' = {m \in active : disk.state[m] = "none" \/ Blocks(disk, m)}
    /\ pump' = IdlePump /\ probe' = NoProbe
    /\ turn' = NoMessage /\ notes' = {}
    /\ UNCHANGED <<disk, target, log, ends, given, answered>>

Pump ==
    \/ \E m \in Message : PumpTakes(m)
    \/ \E why \in Why : SubmitRefuses(why)
    \/ SubmitBegins \/ BeforeDelivery \/ ProviderTakes \/ ProviderRefuses
    \/ SubmitReturned \/ SubmitRaised

Next ==
    \/ Pump \/ Reconcile \/ Start \/ TurnLost
    \/ \E m \in Message :
         \/ Enqueue(m) \/ AdmitScheduled(m) \/ Cancel(m) \/ CancelScheduled(m)
         \/ ReadEvidence(m) \/ CloseOrphan(m) \/ Recover(m)
         \/ \E status \in Terminal : TurnEnds(m, status) \/ Completed(m, status)
    \/ \E h \in Hold : SetHold(h)
    \/ Retarget \/ HumanTypes \/ HumanTurnEnds
    \/ Stop \/ ObserverSaves \/ Restart

Spec == Init /\ [][Next]_vars

(* The coordinator runs every few seconds, and looks at every message in    *)
(* doubt; coroutines that can run do; turns end; start() finishes.          *)
Fairness ==
    /\ WF_vars(Pump)
    /\ WF_vars(Reconcile)
    /\ WF_vars(Start)
    /\ WF_vars(HumanTurnEnds)
    /\ \A m \in Message :
         /\ SF_vars(ReadEvidence(m))
         /\ WF_vars(CloseOrphan(m))
         /\ WF_vars(Recover(m))
         /\ WF_vars(\E status \in Terminal : Completed(m, status))
         /\ WF_vars(\E status \in Terminal : TurnEnds(m, status))

FairSpec == Spec /\ Fairness

-----------------------------------------------------------------------------
(* Properties *)

TypeOK ==
    /\ mem \in Box /\ disk \in Box
    /\ phase \in {"starting", "running", "closing"}
    /\ todo \subseteq Message
    /\ recov \subseteq Scheduled /\ active \subseteq Scheduled
    /\ pump \in [pc : PumpPoint, m : Message \cup {NoMessage}, why : Why]
    /\ probe \in [m : Message \cup {NoMessage},
                  proof : {"absent", "started", "live"} \cup Terminal,
                  dead : BOOLEAN, fresh : BOOLEAN]
    /\ target \in [inc : Nat, hold : Hold]
    /\ turn \in Message \cup {NoMessage, HumanTurn}
    /\ log \in [Message -> LogState]
    /\ ends \subseteq Message \X Terminal /\ notes \subseteq ends
    /\ given \in [Message -> Nat]
    /\ answered \subseteq Message
    /\ budget \in 0 .. Budget

(* What the inbox is done with: it is settled, or it is an occurrence whose *)
(* run the scheduler has closed.                                            *)
Stopped(m) == mem.state[m] # "none" /\ (~Blocks(mem, m) \/ m \in Scheduled \ active)

(* A message reaches the provider at most once, whatever fails, however     *)
(* often the hub restarts and whatever the evidence says.                   *)
GivenAtMostOnce == \A m \in Message : given[m] <= 1

(* The pump may take up again only what was never submitted: nothing that   *)
(* is queued or waiting carries the mark of a submission, in memory or in   *)
(* the file (_before_delivery marks it before the provider is touched).     *)
QueuedIsUnsubmitted ==
    \A m \in Message :
        /\ mem.state[m] \in {"queued", "waiting"} => ~mem.started[m] /\ given[m] = 0
        /\ disk.state[m] \in {"queued", "waiting"} => given[m] = 0

(* A returned receipt names a message that the file holds and keeps, also   *)
(* while the inbox is closing after a save that failed halfway.             *)
AnsweredIsDurable == \A m \in answered : disk.state[m] # "none"

(* The inbox reports a turn as completed only when the provider's stream    *)
(* says so: an accepted submission, a lost runtime or a restart never do.   *)
CompletedIsProven ==
    \A m \in Message : mem.state[m] = "completed" => <<m, "completed">> \in ends

(* The promise to those who queue: one message at a time, in the order of  *)
(* admission, each submitted at most once (_before_delivery) and never once *)
(* the inbox is done with it, not even by a submission already under way    *)
(* when it was cancelled; and a restart of the hub breaks none of it.       *)
Contract == INSTANCE InboxContract WITH
    fate <- [m \in Message |-> IF mem.state[m] = "none" THEN "absent"
                               ELSE IF Stopped(m) THEN "closed" ELSE "open"],
    before <- mem.ahead,
    handed <- {m \in Message : mem.started[m]}

KeepsContract == Contract!FSpec

(* A settled message keeps its result.                                      *)
SettledIsFinal ==
    [][\A m \in Message : mem.state[m] \in Terminal => mem'.state[m] = mem.state[m]]_vars

(* What the pump may have to wait for.                                      *)
Blocked(m) ==
    \E o \in Message \ {m} : Blocks(mem, o) /\ mem.state[o] \in InFlight

Undisturbed == phase = "running" /\ target.hold = "no"

(* As long as the inbox runs and the Chat takes input, a queued or waiting  *)
(* message is taken up, unless one before it is unsettled.                  *)
QueueAdvances ==
    <>[]Undisturbed =>
        \A m \in Message :
            mem.state[m] \in {"queued", "waiting"} ~>
                (mem.state[m] \notin {"queued", "waiting"} \/ Blocked(m))

(* Nothing stays half delivered: what was dispatched or accepted when the   *)
(* process died or lost its runtime is settled, or declared uncertain.      *)
InDoubtSettles ==
    <>[]Undisturbed =>
        \A m \in Message :
            mem.state[m] \in {"dispatching", "accepted"} ~>
                mem.state[m] \notin {"dispatching", "accepted"}
=============================================================================
