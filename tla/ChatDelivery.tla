---------------------------- MODULE ChatDelivery ----------------------------
(***************************************************************************)
(* Message delivery to one managed Chat session (a native provider         *)
(* process), bound to one Task.                                            *)
(*                                                                         *)
(* Actors: producers that send messages, the monitor that pumps and        *)
(* reconciles, the provider that takes turns, the agent that acknowledges  *)
(* call_ids in its reports, the operator that retries, pauses and          *)
(* archives, a human who types into the same conversation, and crashes of  *)
(* the hub process.                                                        *)
(*                                                                         *)
(* mail and mode are the hub's memory, dmail and dmode the state file that *)
(* _save_state writes.  evidence is the delivery sidecar of managed_chat   *)
(* (a file of its own).  op is the coroutine that holds the session's pump *)
(* lock: every await at which another coroutine can run is a value of      *)
(* op.pc, and everything between two awaits is one action.                 *)
(***************************************************************************)
EXTENDS DeliveryState

CONSTANTS
    NoCall,     \* no call_id
    HumanTurn,  \* a turn the human started outside the mailbox
    Budget      \* bound on disturbances: crashes, failures, operator and
                \* human actions

ASSUME ChatAssumption == /\ NoCall \notin CallId
                         /\ HumanTurn \notin CallId
                         /\ NoCall # HumanTurn
                         /\ Budget \in Nat

VARIABLES
    mail,       \* ManagedSession outbox and its Task mirror, in memory
    mode,       \* "live", "paused" (chat_paused) or "archived"
    dmail,      \* the durable copy of mail
    dmode,      \* the durable copy of mode
    evidence,   \* provider handoff evidence per call_id (durable)
    op,         \* holder of the pump lock: its await point and its call_id
    turn,       \* the turn the provider is running
    given,      \* how often the provider took each call_id as a turn
    retry,      \* per call_id since it last became uncertain: "none", "moved"
                \* by an operator retry, "audited" when that is on record
    budget      \* disturbances left

hub == <<mail, mode>>
disk == <<dmail, dmode>>
vars == <<mail, mode, dmail, dmode, evidence, op, turn, given, retry, budget>>

Mode == {"live", "paused", "archived"}

(* "orphaned" is a "sending" record written by an earlier hub process. *)
Evidence == {"none", "sending", "orphaned", "accepted", "uncertain"}

AwaitPoint == {"ready", "sending", "taken", "unsent", "ambiguous", "audit"}

Idle == [pc |-> "idle", call |-> NoCall]
At(pc, c) == [pc |-> pc, call |-> c]

(* Type invariant. *)
TypeOK ==
    /\ mail \in Mail
    /\ mode \in Mode
    /\ dmail \in Mail
    /\ dmode \in Mode
    /\ evidence \in [CallId -> Evidence]
    /\ op \in {Idle} \cup [pc : AwaitPoint, call : CallId]
    /\ turn \in CallId \cup {NoCall, HumanTurn}
    /\ given \in [CallId -> Nat]
    /\ retry \in [CallId -> {"none", "moved", "audited"}]
    /\ budget \in 0 .. Budget

Init ==
    /\ mail = EmptyMail
    /\ mode = "live"
    /\ dmail = EmptyMail
    /\ dmode = "live"
    /\ evidence = [c \in CallId |-> "none"]
    /\ op = Idle
    /\ turn = NoCall
    /\ given = [c \in CallId |-> 0]
    /\ retry = [c \in CallId |-> "none"]
    /\ budget = Budget

-----------------------------------------------------------------------------
(* Helpers. *)

LockFree == op = Idle

(* Between a retry and its audit event nothing is awaited. *)
Yielded == op.pc # "audit"

Disturb == budget > 0 /\ budget' = budget - 1

(* _save_state after memory was replaced.  A save that raises either left  *)
(* the state file as it was or raised after the file was replaced.         *)
Save == dmail' = mail' /\ dmode' = mode'

SaveOrFail == \/ Save /\ UNCHANGED budget
              \/ Disturb /\ UNCHANGED disk

(* A transaction that installs m: committed, or (memory restored by the    *)
(* caller) raised after the state file was replaced.                       *)
Commit(m) == mail' = m /\ UNCHANGED mode /\ Save /\ UNCHANGED budget

Torn(m) == Disturb /\ dmail' = m /\ dmode' = mode /\ UNCHANGED hub

(* A call_id that becomes uncertain (again) awaits a new operator decision. *)
Undecided(C) == retry' = [c \in CallId |-> IF c \in C THEN "none" ELSE retry[c]]

(* Mutants: an interrupted handoff counts as proof that nothing was sent;  *)
(* the gate ignores uncertain input; the gate waits for acknowledgements.  *)
DeliveryStateOfTrusting(c) ==
    IF c \in mail.s.delivered THEN "accepted"
    ELSE IF evidence[c] \in {"none", "orphaned"} THEN "not_sent" ELSE evidence[c]

MayPumpPastUncertain == mode = "live" /\ turn = NoCall

MayPumpAfterAck == /\ mode = "live"
                   /\ mail.s.uncertain \cup mail.s.processing = {}
                   /\ turn = NoCall

(* delivery_state: what the sidecar says of a call_id. *)
DeliveryStateOf(c) ==
    IF c \in mail.s.delivered THEN "accepted"
    ELSE CASE evidence[c] = "none"     -> "not_sent"
           [] evidence[c] = "orphaned" -> "uncertain"
           [] OTHER                    -> evidence[c]

(* The gate of the pump for Chat sessions. *)
MayPump == /\ mode = "live"
           /\ mail.s.uncertain = {}
           /\ turn = NoCall

-----------------------------------------------------------------------------
(* Producers. *)

(* A followup is committed to the Task's outbox first. *)
StageFollowup(c) ==
    /\ LockFree
    /\ c \in Followup
    /\ c \notin Listed(mail.t)
    /\ Commit(Staged(mail, c)) \/ Torn(Staged(mail, c))
    /\ UNCHANGED <<evidence, op, turn, given, retry>>

(* First send of a call_id: envelope, fingerprint and pending entry are    *)
(* persisted together.  A repeated send of the same payload changes        *)
(* nothing (it pumps what is pending), one with another payload is         *)
(* rejected, so neither is a step of its own.                              *)
SendMessage(c, p) ==
    /\ LockFree
    /\ c \in Followup => c \in mail.t.pending
    /\ mail.fp[c] = NoPayload
    /\ mail' = Admitted(mail, c, p)
    /\ UNCHANGED mode
    /\ SaveOrFail
    /\ UNCHANGED <<evidence, op, turn, given, retry>>

-----------------------------------------------------------------------------
(* The pump, one message per call. *)

(* Persist the intent before the side effect.  When the save raises, Chat  *)
(* restores the memory it had and nothing is sent.                         *)
Claim(c) ==
    /\ LockFree
    /\ MayPump
    /\ c \in mail.s.pending
    /\ mail.body[c] # NoPayload
    /\ \/ Commit(Claimed(mail, c)) /\ op' = At("ready", c)
       \/ Torn(Claimed(mail, c)) /\ UNCHANGED op
    /\ UNCHANGED <<evidence, turn, given, retry>>

(* The seat check fails: the session is not the one the message is for. *)
SeatMismatch ==
    /\ op.pc = "ready"
    /\ mail' = MarkedUncertain(mail, {op.call})
    /\ UNCHANGED mode
    /\ Save \/ UNCHANGED disk
    /\ op' = Idle
    /\ Undecided({op.call})
    /\ Disturb
    /\ UNCHANGED <<evidence, turn, given>>

(* Anything else raises before the sidecar is written. *)
PreSendFails ==
    /\ op.pc = "ready"
    /\ op' = At("unsent", op.call)
    /\ Disturb
    /\ UNCHANGED <<hub, disk, evidence, turn, given, retry>>

(* managed_chat.send_message records the attempt before it hands the turn  *)
(* to the provider.  (A call_id with an attempt on record is answered from *)
(* that record; by InFlight no such call_id gets here.)                    *)
BeginHandoff ==
    /\ op.pc = "ready"
    /\ evidence[op.call] = "none"
    /\ evidence' = [evidence EXCEPT ![op.call] = "sending"]
    /\ op' = At("sending", op.call)
    /\ UNCHANGED <<hub, disk, turn, given, retry, budget>>

(* The provider takes the turn; the hub does not know yet. *)
ProviderTakes ==
    /\ op.pc = "sending"
    /\ turn = NoCall
    /\ turn' = op.call
    /\ given' = [given EXCEPT ![op.call] = @ + 1]
    /\ op' = At("taken", op.call)
    /\ UNCHANGED <<hub, disk, evidence, retry, budget>>

(* The provider proves it never got the input (NativeInputNotSubmitted). *)
NotSubmitted ==
    /\ op.pc = "sending"
    /\ evidence' = [evidence EXCEPT ![op.call] = "none"]
    /\ op' = At("unsent", op.call)
    /\ Disturb
    /\ UNCHANGED <<hub, disk, turn, given, retry>>

(* Mutant: every exception of the provider counts as proof. *)
HandoffRaisesAsUnsent ==
    /\ op.pc \in {"sending", "taken"}
    /\ evidence' = [evidence EXCEPT ![op.call] = "none"]
    /\ op' = At("unsent", op.call)
    /\ Disturb
    /\ UNCHANGED <<hub, disk, turn, given, retry>>

(* Any other exception, before or after the provider took the turn; a turn *)
(* that was already in flight is one of them.  The record stays "sending"  *)
(* when it cannot be rewritten.                                            *)
HandoffRaises ==
    /\ op.pc \in {"sending", "taken"}
    /\ \/ /\ evidence' = [evidence EXCEPT ![op.call] = "uncertain"]
          /\ IF op.pc = "sending" /\ turn # NoCall THEN UNCHANGED budget ELSE Disturb
       \/ UNCHANGED evidence /\ Disturb
    /\ op' = At("ambiguous", op.call)
    /\ UNCHANGED <<hub, disk, turn, given, retry>>

(* The provider's acceptance is recorded: the handoff is over. *)
Accepted ==
    /\ op.pc = "taken"
    /\ evidence' = [evidence EXCEPT ![op.call] = "accepted"]
    /\ op' = Idle
    /\ UNCHANGED <<hub, disk, turn, given, retry, budget>>

(* Proven unsent: back to pending. *)
RollBack ==
    /\ op.pc = "unsent"
    /\ mail' = RolledBack(mail, {op.call} \cap mail.s.processing)
    /\ UNCHANGED mode
    /\ SaveOrFail
    /\ op' = Idle
    /\ UNCHANGED <<evidence, turn, given, retry>>

(* Neither accepted nor proven unsent: fail closed.  The code checks that  *)
(* the call_id is still in flight; the pump lock makes sure that it is.    *)
FailClosed ==
    /\ op.pc = "ambiguous"
    /\ op.call \in mail.s.processing
    /\ mail' = MarkedUncertain(mail, {op.call})
    /\ UNCHANGED mode
    /\ SaveOrFail
    /\ op' = Idle
    /\ Undecided({op.call})
    /\ UNCHANGED <<evidence, turn, given>>

-----------------------------------------------------------------------------
(* The monitor. *)

(* Mutant: only what is proven unsent is reconciled. *)
ReconcileUnsentOnly(readable) ==
    LET unsent == {c \in mail.s.processing : readable /\ DeliveryStateOf(c) = "not_sent"}
    IN  /\ LockFree
        /\ mode # "archived"
        /\ unsent # {}
        /\ mail' = RolledBack(mail, unsent)
        /\ UNCHANGED mode
        /\ Save
        /\ UNCHANGED <<evidence, op, turn, given, retry, budget>>

(* Reconcile what is in flight against the sidecar, under the pump lock:   *)
(* first what was not sent, then what is unknown, each with a save; one    *)
(* that raises ends the step with memory ahead of the file.  readable is   *)
(* FALSE when the sidecar cannot be read: everything is then ambiguous.    *)
Reconcile(readable) ==
    LET verdict(c) == IF readable THEN DeliveryStateOf(c) ELSE "uncertain"
        unsent     == {c \in mail.s.processing : verdict(c) = "not_sent"}
        unknown    == {c \in mail.s.processing : verdict(c) \notin {"not_sent", "accepted"}}
        first      == RolledBack(mail, unsent)
        second     == IF unknown = {} THEN first ELSE MarkedUncertain(first, unknown)
    IN  /\ LockFree
        /\ mode # "archived"
        /\ unsent \cup unknown # {}
        /\ UNCHANGED mode
        /\ \/ /\ mail' = second
              /\ Undecided(unknown)
              /\ \/ Save /\ (IF readable THEN UNCHANGED budget ELSE Disturb)
                 \/ /\ dmail' = (IF unsent = {} THEN dmail ELSE first)
                    /\ dmode' = (IF unsent = {} THEN dmode ELSE mode)
                    /\ Disturb
           \/ /\ unsent # {}
              /\ mail' = first
              /\ UNCHANGED <<disk, retry>>
              /\ Disturb
        /\ UNCHANGED <<evidence, op, turn, given>>

(* A stopped (archived) session: leases that are too old, C, are uncertain. *)
ExpireLeases(C) ==
    /\ Yielded
    /\ mode = "archived"
    /\ C # {}
    /\ C \subseteq mail.s.processing
    /\ mail' = MarkedUncertain(mail, C)
    /\ UNCHANGED mode
    /\ SaveOrFail
    /\ Undecided(C)
    /\ UNCHANGED <<evidence, op, turn, given>>

-----------------------------------------------------------------------------
(* The agent and the provider. *)

(* A report acknowledges followups the agent was given, and implicitly     *)
(* every open dispatch call_id.  It holds the workspace lock and the pump  *)
(* lock, and restores its snapshot when the save raises.                   *)
Report(C) ==
    LET acked == Acked(mail, C \cup (CallId \ Followup))
    IN  /\ LockFree
        /\ mode # "archived"
        /\ \E c \in CallId : given[c] > 0
        /\ \A c \in C : c \in Followup /\ given[c] > 0
        /\ acked # mail
        /\ Commit(acked) \/ Torn(acked)
        /\ UNCHANGED <<evidence, op, turn, given, retry>>

TurnEnds ==
    /\ turn # NoCall
    /\ turn' = NoCall
    /\ UNCHANGED <<hub, disk, evidence, op, given, retry, budget>>

(* The human's own message bypasses the mailbox and its locks. *)
HumanStartsTurn ==
    /\ turn = NoCall
    /\ mode # "archived"
    /\ turn' = HumanTurn
    /\ Disturb
    /\ UNCHANGED <<hub, disk, evidence, op, given, retry>>

-----------------------------------------------------------------------------
(* The operator. *)

(* Mutant: a retry that does not ask for evidence. *)
RetryFailOpen(c) ==
    /\ LockFree
    /\ MayRetry(mail, c)
    /\ mail' = RetriedUnsent(mail, c)
    /\ UNCHANGED mode
    /\ Disturb
    /\ Save
    /\ op' = At("audit", c)
    /\ retry' = [retry EXCEPT ![c] = "moved"]
    /\ UNCHANGED <<evidence, turn, given>>

(* retry_uncertain_delivery: only proven evidence decides where to.  The   *)
(* move is saved first and its audit event is written next.                *)
Retry(c) ==
    LET state == DeliveryStateOf(c)
    IN  /\ LockFree
        /\ MayRetry(mail, c)
        /\ \/ state = "not_sent" /\ mail' = RetriedUnsent(mail, c)
           \/ state = "accepted" /\ mail' = RetriedAccepted(mail, c)
        /\ UNCHANGED mode
        /\ Disturb
        /\ \/ Save /\ op' = At("audit", c)
           \/ UNCHANGED disk /\ op' = Idle
        /\ retry' = [retry EXCEPT ![c] = "moved"]
        /\ UNCHANGED <<evidence, turn, given>>

RetryAudited ==
    /\ op.pc = "audit"
    /\ op' = Idle
    /\ retry' = [retry EXCEPT ![op.call] = "audited"]
    /\ UNCHANGED <<hub, disk, evidence, turn, given, budget>>

RetryAuditFails ==
    /\ op.pc = "audit"
    /\ mail' = Compensated(mail, op.call)
    /\ UNCHANGED mode
    /\ Save
    /\ op' = Idle
    /\ retry' = [retry EXCEPT ![op.call] = "none"]
    /\ Disturb
    /\ UNCHANGED <<evidence, turn, given>>

(* Stop the running turn and pause automatic delivery. *)
Pause ==
    /\ LockFree
    /\ mode = "live"
    /\ turn # NoCall
    /\ turn' = NoCall
    /\ mode' = "paused"
    /\ UNCHANGED mail
    /\ Save
    /\ Disturb
    /\ UNCHANGED <<evidence, op, given, retry>>

(* Resuming is refused while a delivery is uncertain. *)
Resume ==
    /\ LockFree
    /\ mode = "paused"
    /\ mail.s.uncertain = {}
    /\ mode' = "live"
    /\ UNCHANGED mail
    /\ Save
    /\ UNCHANGED <<evidence, op, turn, given, retry, budget>>

Archive ==
    /\ LockFree
    /\ mode # "archived"
    /\ mode' = "archived"
    /\ turn' = NoCall
    /\ UNCHANGED mail
    /\ Save
    /\ Disturb
    /\ UNCHANGED <<evidence, op, given, retry>>

Unarchive ==
    /\ LockFree
    /\ mode = "archived"
    /\ mode' = "live"
    /\ UNCHANGED mail
    /\ Save
    /\ UNCHANGED <<evidence, op, turn, given, retry, budget>>

-----------------------------------------------------------------------------
(* The hub dies and starts again: memory is reloaded, the sidecar's        *)
(* "sending" records belong to a dead process, and what an archived        *)
(* session had in flight becomes uncertain.                                *)
Crash ==
    /\ Disturb
    /\ mail' = IF dmode = "archived"
               THEN MarkedUncertain(dmail, dmail.s.processing) ELSE dmail
    /\ mode' = dmode
    /\ Undecided(IF dmode = "archived" THEN dmail.s.processing ELSE {})
    /\ Save
    /\ evidence' = [c \in CallId |->
                       IF evidence[c] = "sending" THEN "orphaned" ELSE evidence[c]]
    /\ op' = Idle
    /\ UNCHANGED <<turn, given>>

-----------------------------------------------------------------------------
Handoff == \/ SeatMismatch \/ PreSendFails \/ BeginHandoff \/ ProviderTakes
           \/ NotSubmitted \/ HandoffRaises \/ Accepted \/ RollBack \/ FailClosed

Next ==
    \/ \E c \in CallId : StageFollowup(c) \/ Claim(c) \/ Retry(c)
    \/ \E c \in CallId, p \in Payload : SendMessage(c, p)
    \/ Handoff
    \/ \E readable \in BOOLEAN : Reconcile(readable)
    \/ \E C \in SUBSET CallId : ExpireLeases(C) \/ Report(C)
    \/ TurnEnds
    \/ HumanStartsTurn
    \/ RetryAudited \/ RetryAuditFails
    \/ Pause \/ Resume \/ Archive \/ Unarchive
    \/ Crash

Spec == Init /\ [][Next]_vars

(* The monitor pumps, reconciles and expires leases on every tick (the     *)
(* pump lock is a fair asyncio.Lock), a coroutine that holds the lock goes *)
(* on, and a provider's turn ends.                                         *)
Fairness ==
    /\ WF_vars(\E c \in CallId : Claim(c))
    /\ WF_vars(Handoff)
    /\ WF_vars(Reconcile(TRUE))
    /\ WF_vars(ExpireLeases(mail.s.processing))
    /\ WF_vars(TurnEnds)
    /\ WF_vars(RetryAudited)

FairSpec == Spec /\ Fairness

-----------------------------------------------------------------------------
(* Correctness. *)

(* "A call_id is always in exactly one of four states": no two lists of    *)
(* the session share a call_id, in memory and in the state file, although  *)
(* pump, reconciliation, lease expiry, reports and retries all move them.  *)
ExactlyOneState == Disjoint(mail.s) /\ Disjoint(dmail.s)

(* What may be sent again was never sent: a pending call_id (in memory or  *)
(* in the state file a crash would reload) has no handoff evidence and was *)
(* not taken by the provider.  This is what makes the pump's resend safe   *)
(* after rollbacks, reconciliation, crashes and operator retries.          *)
PendingIsUnsent ==
    \A c \in mail.s.pending \cup dmail.s.pending :
        evidence[c] = "none" /\ given[c] = 0

(* An undelivered call_id keeps the envelope it was admitted with, so that *)
(* a resend delivers the original payload.                                 *)
EnvelopeKept ==
    \A c \in Open(mail.s) : mail.body[c] = mail.fp[c] /\ mail.fp[c] # NoPayload

(* The Task mirror never lags behind on uncertain call_ids: otherwise the  *)
(* gate of retry_uncertain_delivery would refuse every retry and the       *)
(* session, which takes no input while uncertain, could never be unblocked. *)
UncertainIsMirrored == mail.s.uncertain \subseteq mail.t.uncertain

(* The provider takes mailbox input only in a live conversation without    *)
(* uncertain input and without a running turn, although the gate is read   *)
(* several awaits earlier.                                                 *)
HandoffOnlyWhenClear ==
    [][given' # given => mode = "live" /\ mail.s.uncertain = {} /\ turn = NoCall]_vars

(* The state of a call_id, for the refinement. *)
StateOf(L, c) ==
    CASE c \in L.delivered  -> "delivered"
      [] c \in L.uncertain  -> "uncertain"
      [] c \in L.processing -> "processing"
      [] c \in L.pending    -> "pending"
      [] OTHER              -> "absent"

Contract == INSTANCE DeliveryContract WITH
                st         <- [c \in CallId |-> StateOf(mail.s, c)],
                handed     <- {c \in CallId : given[c] > 0},
                authorised <- {c \in CallId : retry[c] # "none"}

(* The outbox keeps the contract of DeliveryContract. *)
ImplementsContract == Contract!CSpec

(* The handover count itself: the contract's HandOver is not repeated. *)
GivenAtMostOnce == \A c \in CallId : given[c] <= 1

(* A handoff that nobody is working on any more (the hub died, or a report *)
(* or a retry left it behind) and that the provider did not accept does    *)
(* not stay in flight: it ends up pending, uncertain or delivered.         *)
InterruptedHandoffSettles ==
    \A c \in CallId :
        (c \in mail.s.processing /\ evidence[c] # "accepted" /\ op.call # c)
            ~> (c \notin mail.s.processing)

(* Pending input of a live session is eventually taken up, unless          *)
(* something uncertain blocks the conversation or it stops being live.     *)
PendingTakenUp ==
    \A c \in CallId :
        (c \in mail.s.pending) ~>
            \/ c \notin mail.s.pending
            \/ mail.s.uncertain # {}
            \/ mode # "live"

-----------------------------------------------------------------------------
(* The inductive invariant behind ExactlyOneState, PendingIsUnsent,        *)
(* EnvelopeKept, UncertainIsMirrored, GivenAtMostOnce and                  *)
(* HandoffOnlyWhenClear.                                                   *)

Sent == {c \in CallId : evidence[c] # "none"}

(* One copy of the bookkeeping, in memory or on disk, when the call_ids of *)
(* sent have handoff evidence.                                             *)
Consistent(m, sent) ==
    /\ Disjoint(m.s)
    /\ m.s.uncertain \subseteq m.t.uncertain
    /\ \A c \in Listed(m.s) : m.fp[c] # NoPayload
    /\ \A c \in Open(m.s) : m.body[c] = m.fp[c]
    /\ sent \subseteq Listed(m.s)
    /\ sent \cap m.s.pending = {}

(* What the holder of the pump lock may rely on at its await points. *)
InFlight ==
    /\ op.pc \in {"ready", "sending", "taken", "unsent", "ambiguous"} =>
          /\ op.call \in mail.s.processing \cap dmail.s.processing
          /\ mode = "live"
          /\ mail.s.uncertain = {}
    /\ op.pc \in {"ready", "unsent"} => evidence[op.call] = "none"
    /\ op.pc \in {"sending", "taken"} => evidence[op.call] # "none"
    /\ op.pc = "sending" => given[op.call] = 0
    /\ op.pc = "audit" =>
          /\ op.call \in mail.s.pending \cup mail.s.processing
          /\ retry[op.call] # "none"

(* Both copies are consistent with the evidence, which outlives the hub;   *)
(* a taken call_id has evidence; the lock holder's view is still true.     *)
SafeState ==
    /\ TypeOK
    /\ Consistent(mail, Sent)
    /\ Consistent(dmail, Sent)
    /\ \A c \in CallId : given[c] <= 1 /\ (evidence[c] = "none" => given[c] = 0)
    /\ InFlight
=============================================================================
