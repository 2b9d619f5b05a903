-------------------------- MODULE TerminalDelivery --------------------------
(***************************************************************************)
(* Message delivery to one managed Terminal session: an agent in a tmux    *)
(* session, bound to one Task.                                             *)
(*                                                                         *)
(* The pump pastes a message into tmux with one atomic tmux command list   *)
(* that also sets a receipt; the receipt lives as long as the tmux         *)
(* session.  A paste, a report and an operator retry run under the         *)
(* session's pump lock (op is its holder).  The monitor's reconciliation   *)
(* of in-flight call_ids against the receipts (mon) does not: it takes a   *)
(* snapshot, awaits one tmux query per call_id and then applies what it    *)
(* concluded to whatever the session has become.                           *)
(*                                                                         *)
(* Coroutines switch only at an await.  op.pc = "next" and "audit" are     *)
(* points inside the pump and the retry where nothing is awaited: no other *)
(* coroutine runs there (Yielded), but the process can die.                *)
(***************************************************************************)
EXTENDS DeliveryState

CONSTANTS
    NoCall,     \* no call_id
    Budget      \* bound on disturbances: crashes, failures, tmux sessions
                \* that die, operator actions

ASSUME TerminalAssumption == NoCall \notin CallId /\ Budget \in Nat

VARIABLES
    mail,       \* ManagedSession outbox and its Task mirror, in memory
    stopped,    \* the hub believes that the tmux session is gone (STOPPED)
    dmail,      \* the durable copy of mail
    dstopped,   \* the durable copy of stopped
    op,         \* holder of the pump lock: program counter, call_id and the
                \* call_ids its pump loop has still to visit
    snap,       \* the session and Task records a retry read before its await
    mon,        \* the monitor's reconciliation
    alive,      \* the tmux session exists
    receipts,   \* call_ids with a receipt in the tmux session
    seen,       \* call_ids pasted into some tmux session of this agent
    retry,      \* "none", "moved" or "audited", as for Chat sessions
    budget      \* disturbances left

hub == <<mail, stopped>>
disk == <<dmail, dstopped>>
tmux == <<alive, receipts, seen>>
vars == <<mail, stopped, dmail, dstopped, op, snap, mon, alive, receipts, seen, retry, budget>>

Points == {"idle", "next", "ready", "paste", "submit", "query", "audit", "nudge"}

Idle == [pc |-> "idle", call |-> NoCall, todo |-> {}]
At(pc, c, todo) == [pc |-> pc, call |-> c, todo |-> todo]

MonIdle == [busy |-> FALSE, todo |-> {}, toPending |-> {}, toUncertain |-> {}]

(* Type invariant. *)
TypeOK ==
    /\ mail \in Mail /\ dmail \in Mail /\ snap \in Mail
    /\ stopped \in BOOLEAN /\ dstopped \in BOOLEAN
    /\ op \in [pc : Points, call : CallId \cup {NoCall}, todo : SUBSET CallId]
    /\ mon \in [busy : BOOLEAN, todo : SUBSET CallId,
                toPending : SUBSET CallId, toUncertain : SUBSET CallId]
    /\ alive \in BOOLEAN
    /\ receipts \subseteq seen
    /\ seen \subseteq CallId
    /\ retry \in [CallId -> {"none", "moved", "audited"}]
    /\ budget \in 0 .. Budget

Init ==
    /\ mail = EmptyMail /\ dmail = EmptyMail /\ snap = EmptyMail
    /\ stopped = FALSE /\ dstopped = FALSE
    /\ op = Idle
    /\ mon = MonIdle
    /\ alive = TRUE
    /\ receipts = {}
    /\ seen = {}
    /\ retry = [c \in CallId |-> "none"]
    /\ budget = Budget

-----------------------------------------------------------------------------
(* Helpers. *)

LockFree == op = Idle

Yielded == op.pc \notin {"next", "audit"}

Disturb == budget > 0 /\ budget' = budget - 1

Save == dmail' = mail' /\ dstopped' = stopped'

SaveOrFail == \/ Save /\ UNCHANGED budget
              \/ Disturb /\ UNCHANGED disk

(* A transaction that restores memory when its save raises. *)
Commit(m) == mail' = m /\ UNCHANGED stopped /\ Save /\ UNCHANGED budget

Torn(m) == Disturb /\ dmail' = m /\ dstopped' = stopped /\ UNCHANGED hub

Undecided(C) == retry' = [c \in CallId |-> IF c \in C THEN "none" ELSE retry[c]]

-----------------------------------------------------------------------------
(* Producers. *)

StageFollowup(c) ==
    /\ LockFree
    /\ c \in Followup
    /\ c \notin Listed(mail.t)
    /\ Commit(Staged(mail, c)) \/ Torn(Staged(mail, c))
    /\ UNCHANGED <<op, snap, mon, tmux, retry>>

(* First send of a call_id; a replay is no step of its own. *)
SendMessage(c, p) ==
    /\ LockFree
    /\ c \in Followup => c \in mail.t.pending
    /\ mail.fp[c] = NoPayload
    /\ mail' = Admitted(mail, c, p)
    /\ UNCHANGED stopped
    /\ SaveOrFail
    /\ UNCHANGED <<op, snap, mon, tmux, retry>>

-----------------------------------------------------------------------------
(* The pump: it walks a snapshot of the pending call_ids. *)

(* Mutant: a Terminal session, too, takes no input while one is uncertain. *)
PumpStartWhenCertain ==
    /\ LockFree
    /\ mail.s.pending # {}
    /\ mail.s.uncertain = {}
    /\ op' = At("next", NoCall, mail.s.pending)
    /\ UNCHANGED <<hub, disk, snap, mon, tmux, retry, budget>>

PumpStart ==
    /\ LockFree
    /\ mail.s.pending # {}
    /\ op' = At("next", NoCall, mail.s.pending)
    /\ UNCHANGED <<hub, disk, snap, mon, tmux, retry, budget>>

(* Persist the intent.  Unlike Chat, a save that raises leaves the intent  *)
(* in memory.                                                              *)
Claim(c) ==
    /\ op.pc = "next"
    /\ c \in op.todo \cap mail.s.pending
    /\ mail' = Claimed(mail, c)
    /\ UNCHANGED stopped
    /\ \/ /\ Save
          /\ op' = At("ready", c, op.todo \ {c})
          /\ UNCHANGED budget
       \/ /\ Disturb
          /\ UNCHANGED disk
          /\ op' = Idle
    /\ UNCHANGED <<snap, mon, tmux, retry>>

(* The rest of the snapshot is no longer pending. *)
PumpEnds ==
    /\ op.pc = "next"
    /\ op.todo \cap mail.s.pending = {}
    /\ op' = Idle
    /\ UNCHANGED <<hub, disk, snap, mon, tmux, retry, budget>>

(* Fail closed and go on with the next call_id, or leave the pump when the *)
(* save raises.  A send to a session that is gone fails by itself.         *)
Uncertain(c) ==
    /\ mail' = MarkedUncertain(mail, {c})
    /\ UNCHANGED stopped
    /\ Undecided({c})
    /\ \/ /\ Save
          /\ op' = At("next", NoCall, op.todo)
          /\ IF alive THEN Disturb ELSE UNCHANGED budget
       \/ /\ UNCHANGED disk
          /\ op' = Idle
          /\ Disturb

(* The seat is gone, or the seat check fails for another reason. *)
SeatMismatch ==
    /\ op.pc = "ready"
    /\ Uncertain(op.call)
    /\ UNCHANGED <<snap, mon, tmux>>

(* The rollback is not saved by itself. *)
PreSendFails ==
    /\ op.pc = "ready"
    /\ mail' = RolledBack(mail, {op.call})
    /\ op' = At("next", NoCall, op.todo)
    /\ Disturb
    /\ UNCHANGED <<stopped, disk, snap, mon, tmux, retry>>

SeatReady ==
    /\ op.pc = "ready"
    /\ alive
    /\ op' = [op EXCEPT !.pc = "paste"]
    /\ UNCHANGED <<hub, disk, snap, mon, tmux, retry, budget>>

(* Mutant: the receipt is set by a command of its own, before the paste. *)
PasteReceiptOnly ==
    /\ op.pc = "paste"
    /\ alive
    /\ receipts' = receipts \cup {op.call}
    /\ op' = [op EXCEPT !.pc = "submit"]
    /\ UNCHANGED <<hub, disk, snap, mon, alive, seen, retry, budget>>

(* One atomic tmux command list: nothing when the receipt is set, paste    *)
(* and receipt otherwise.                                                  *)
Paste ==
    /\ op.pc = "paste"
    /\ alive
    /\ receipts' = receipts \cup {op.call}
    /\ seen' = seen \cup {op.call}
    /\ op' = [op EXCEPT !.pc = "submit"]
    /\ UNCHANGED <<hub, disk, snap, mon, alive, retry, budget>>

SubmitVerified ==
    /\ op.pc = "submit"
    /\ alive
    /\ op' = At("next", NoCall, op.todo)
    /\ UNCHANGED <<hub, disk, snap, mon, tmux, retry, budget>>

(* Anything that raises after the message left for tmux is ambiguous. *)
SendRaises ==
    /\ op.pc \in {"paste", "submit"}
    /\ Uncertain(op.call)
    /\ UNCHANGED <<snap, mon, tmux>>

Pump == \/ \E c \in CallId : Claim(c)
        \/ PumpEnds \/ SeatMismatch \/ PreSendFails \/ SeatReady
        \/ Paste \/ SubmitVerified \/ SendRaises

-----------------------------------------------------------------------------
(* The monitor: status refresh, lease expiry and receipt reconciliation    *)
(* run one after the other, without the pump lock.                         *)

RefreshStatus ==
    /\ Yielded
    /\ ~mon.busy
    /\ stopped' = ~alive
    /\ stopped' # stopped
    /\ UNCHANGED mail
    /\ Save
    /\ UNCHANGED <<op, snap, mon, tmux, retry, budget>>

(* Mutant: only what the Task mirrors is expired. *)
ExpireLeasesOfTask(C) ==
    /\ Yielded
    /\ ~mon.busy
    /\ stopped
    /\ C # {}
    /\ C \subseteq mail.s.processing \cap mail.t.processing
    /\ mail' = MarkedUncertain(mail, C)
    /\ UNCHANGED stopped
    /\ Save
    /\ Undecided(C)
    /\ UNCHANGED <<op, snap, mon, tmux, budget>>

(* C: the in-flight call_ids whose lease is too old. *)
ExpireLeases(C) ==
    /\ Yielded
    /\ ~mon.busy
    /\ stopped
    /\ C # {}
    /\ C \subseteq mail.s.processing
    /\ mail' = MarkedUncertain(mail, C)
    /\ UNCHANGED stopped
    /\ SaveOrFail
    /\ Undecided(C)
    /\ UNCHANGED <<op, snap, mon, tmux>>

ReconcileStart ==
    /\ Yielded
    /\ ~mon.busy
    /\ ~stopped
    /\ mail.s.processing # {}
    /\ mon' = [MonIdle EXCEPT !.busy = TRUE, !.todo = mail.s.processing]
    /\ UNCHANGED <<hub, disk, op, snap, tmux, retry, budget>>

(* Receipt present: nudge Enter and keep waiting.  Absent: never pasted.   *)
(* Session gone, query or nudge failed: cannot tell.                       *)
Query(c) ==
    /\ mon.busy
    /\ c \in mon.todo
    /\ \/ /\ alive
          /\ mon' = [mon EXCEPT !.todo = @ \ {c},
                                !.toPending = IF c \in receipts THEN @ ELSE @ \cup {c}]
          /\ UNCHANGED budget
       \/ /\ mon' = [mon EXCEPT !.todo = @ \ {c}, !.toUncertain = @ \cup {c}]
          /\ IF alive THEN Disturb ELSE UNCHANGED budget
    /\ UNCHANGED <<hub, disk, op, snap, tmux, retry>>

(* Only the second half saves. *)
ReconcileApply ==
    /\ Yielded
    /\ mon.busy
    /\ mon.todo = {}
    /\ LET m == RolledBack(mail, mon.toPending)
       IN  IF mon.toUncertain = {}
           THEN mail' = m /\ UNCHANGED <<stopped, disk, budget>>
           ELSE mail' = MarkedUncertain(m, mon.toUncertain) /\ UNCHANGED stopped /\ SaveOrFail
    /\ Undecided(mon.toUncertain)
    /\ mon' = MonIdle
    /\ UNCHANGED <<op, snap, tmux>>

-----------------------------------------------------------------------------
(* The worker. *)

(* Mutant: the report does not wait for the pump lock. *)
ReportUnlocked(C) ==
    LET acked == Acked(mail, C \cup (CallId \ Followup))
    IN  /\ Yielded
        /\ seen # {}
        /\ C \subseteq Followup \cap seen
        /\ acked # mail
        /\ Commit(acked) \/ Torn(acked)
        /\ UNCHANGED <<op, snap, mon, tmux, retry>>

(* A report acknowledges followups the agent was given, and implicitly     *)
(* every open dispatch call_id.                                            *)
Report(C) ==
    LET acked == Acked(mail, C \cup (CallId \ Followup))
    IN  /\ LockFree
        /\ seen # {}
        /\ C \subseteq Followup \cap seen
        /\ acked # mail
        /\ Commit(acked) \/ Torn(acked)
        /\ UNCHANGED <<op, snap, mon, tmux, retry>>

-----------------------------------------------------------------------------
(* The operator's retry. *)

(* The records are read, then the receipt query is awaited. *)
RetryStart(c) ==
    /\ LockFree
    /\ MayRetry(mail, c)
    /\ snap' = mail
    /\ op' = At("query", c, {})
    /\ Disturb
    /\ UNCHANGED <<hub, disk, mon, tmux, retry>>

(* The new records are built from the ones read before the await. *)
RetryMove ==
    LET c == op.call
    IN  /\ op.pc = "query"
        /\ alive
        /\ mail' = IF c \in receipts THEN RetriedAccepted(snap, c) ELSE RetriedUnsent(snap, c)
        /\ UNCHANGED stopped
        /\ \/ Save /\ op' = At("audit", c, {}) /\ snap' = mail' /\ UNCHANGED budget
           \/ Disturb /\ UNCHANGED disk /\ op' = Idle /\ snap' = EmptyMail
        /\ retry' = [retry EXCEPT ![c] = "moved"]
        /\ UNCHANGED <<mon, tmux>>

(* The session is gone: the retry is refused. *)
RetryRefused ==
    /\ op.pc = "query"
    /\ ~alive
    /\ op' = Idle
    /\ snap' = EmptyMail
    /\ UNCHANGED <<hub, disk, mon, tmux, retry, budget>>

(* The audit event is durable: nudge what was pasted, pump what was not. *)
RetryAudited ==
    LET c == op.call
    IN  /\ op.pc = "audit"
        /\ IF c \in mail.s.processing
           THEN op' = At("nudge", c, {}) /\ UNCHANGED snap
           ELSE op' = At("next", NoCall, mail.s.pending) /\ snap' = EmptyMail
        /\ retry' = [retry EXCEPT ![c] = "audited"]
        /\ UNCHANGED <<hub, disk, mon, tmux, budget>>

(* The records go back to uncertain, again from the copy the retry holds. *)
Compensate ==
    /\ mail' = Compensated(snap, op.call)
    /\ UNCHANGED stopped
    /\ Save
    /\ op' = Idle
    /\ snap' = EmptyMail
    /\ Undecided({op.call})

RetryAuditFails ==
    /\ op.pc = "audit"
    /\ Compensate
    /\ Disturb
    /\ UNCHANGED <<mon, tmux>>

NudgeFails ==
    /\ op.pc = "nudge"
    /\ Compensate
    /\ IF alive THEN Disturb ELSE UNCHANGED budget
    /\ UNCHANGED <<mon, tmux>>

Nudged ==
    /\ op.pc = "nudge"
    /\ alive
    /\ op' = Idle
    /\ snap' = EmptyMail
    /\ UNCHANGED <<hub, disk, mon, tmux, retry, budget>>

RetryGoesOn == \/ RetryMove \/ RetryRefused \/ RetryAudited \/ RetryAuditFails
               \/ NudgeFails \/ Nudged

-----------------------------------------------------------------------------
(* The environment. *)

(* With the tmux session go its receipts and what was typed into it. *)
TmuxDies ==
    /\ alive
    /\ alive' = FALSE
    /\ receipts' = {}
    /\ Disturb
    /\ UNCHANGED <<hub, disk, op, snap, mon, seen, retry>>

TmuxRecreated ==
    /\ ~alive
    /\ alive' = TRUE
    /\ UNCHANGED <<hub, disk, op, snap, mon, receipts, seen, retry, budget>>

(* The hub dies and starts again; tmux lives on.  Only a session known to  *)
(* be stopped has its in-flight call_ids moved at once.                    *)
Crash ==
    LET lost == IF dstopped THEN dmail.s.processing ELSE {}
    IN  /\ Disturb
        /\ mail' = IF lost = {} THEN dmail ELSE MarkedUncertain(dmail, lost)
        /\ stopped' = dstopped
        /\ Save
        /\ Undecided(lost)
        /\ op' = Idle
        /\ snap' = EmptyMail
        /\ mon' = MonIdle
        /\ UNCHANGED tmux

Monitor == \/ RefreshStatus
           \/ \E C \in SUBSET CallId : ExpireLeases(C)
           \/ ReconcileStart
           \/ \E c \in CallId : Query(c)
           \/ ReconcileApply

Next ==
    \/ \E c \in CallId : StageFollowup(c) \/ RetryStart(c)
    \/ \E c \in CallId, p \in Payload : SendMessage(c, p)
    \/ PumpStart \/ Pump
    \/ Monitor
    \/ \E C \in SUBSET CallId : Report(C)
    \/ RetryGoesOn
    \/ TmuxDies \/ TmuxRecreated
    \/ Crash

Spec == Init /\ [][Next]_vars

(* The monitor ticks, and a coroutine that was resumed goes on. *)
Fairness ==
    /\ WF_vars(PumpStart)
    /\ WF_vars(Pump)
    /\ WF_vars(Monitor)
    /\ WF_vars(RetryGoesOn)

FairSpec == Spec /\ Fairness

-----------------------------------------------------------------------------
(* Correctness. *)

(* "A call_id is always in exactly one of four states" (_messaging.py),    *)
(* whichever of pump, report, retry and reconciliation moved it.           *)
ExactlyOneState == Disjoint(mail.s)

(* A call_id the session has ever admitted stays in one of its lists, in   *)
(* memory and in the state file, and nothing else is in them; and what can *)
(* still be sent or retried keeps the envelope it was admitted with        *)
(* (pending_messages, pending_attachments), which the pump and the retry   *)
(* look up after others have moved the call_id about.                      *)
NeverForgotten ==
    /\ \A m \in {mail, dmail} : Listed(m.s) = {c \in CallId : m.fp[c] # NoPayload}
    /\ \A c \in Open(mail.s) \ mail.s.delivered : mail.body[c] = mail.fp[c]

(* Every uncertain call_id passes the Task gate of the operator's retry,   *)
(* although Task and session are moved by separate conditional updates: no *)
(* call_id is stuck in uncertain.                                          *)
UncertainIsMirrored == mail.s.uncertain \subseteq mail.t.uncertain

(* Delivered is final while the hub runs, in spite of records that are     *)
(* written back after an await.                                            *)
DeliveredIsFinal ==
    [][mail.s.delivered \subseteq mail'.s.delivered]_vars

(* Nothing the worker has acknowledged is pasted again: the acknowledgement*)
(* waits for the pump lock that the paste is made under.                   *)
NoPasteAfterDelivered ==
    [][receipts' # receipts /\ op.pc = "paste" => op.call \notin mail.s.delivered]_vars

(* Pending input does not stay pending for ever: the monitor pumps what an *)
(* earlier pump call left behind.                                          *)
PendingTakenUp ==
    \A c \in CallId : (c \in mail.s.pending) ~> (c \notin mail.s.pending)

(* A stopped session's in-flight call_ids end up visible as uncertain,     *)
(* unless the session comes back or the worker acknowledges.               *)
StoppedInFlightSettles ==
    \A c \in CallId :
        (stopped /\ c \in mail.s.processing) ~> (~stopped \/ c \notin mail.s.processing)
=============================================================================
