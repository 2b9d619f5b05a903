----------------------- MODULE TerminalDelivery_proofs -----------------------
(***************************************************************************)
(* Machine-checked proofs about TerminalDelivery, for every set of         *)
(* call_ids, payloads and every Budget.                                    *)
(*                                                                         *)
(* A call_id may sit in two lists here (ExactlyOneState is refuted by TLC),*)
(* since the monitor applies what it concluded before its awaits.  What    *)
(* holds nevertheless is Sound, of the records in memory, of those in the  *)
(* state file, and of the copy that a retry holds across its awaits; and   *)
(* Held says what the three actors may still rely on when they go on.      *)
(***************************************************************************)
EXTENDS TerminalDelivery, TLAPS

(* The call_ids that were ever admitted. *)
Known(m) == {c \in CallId : m.fp[c] # NoPayload}

(* A delivered call_id has lost its envelope, so that no retry takes it up *)
(* again, and it is not on its way to the agent; it may be in uncertain.   *)
Sound(m) ==
    /\ Listed(m.s) = Known(m)
    /\ \A c \in Open(m.s) \ m.s.delivered : m.body[c] = m.fp[c]
    /\ \A c \in m.s.delivered : m.body[c] = NoPayload
    /\ m.s.delivered \cap (m.s.pending \cup m.s.processing) = {}
    /\ m.s.uncertain \subseteq m.t.uncertain

(* The pump works on an admitted call_id, undelivered until it is pasted.  *)
PumpHolds ==
    /\ op.pc \in {"ready", "paste", "submit"} => op.call \in Known(mail)
    /\ op.pc \in {"ready", "paste"} => op.call \notin mail.s.delivered

(* The copy a retry writes back has missed nothing but what the monitor    *)
(* moved in between: no admission and no delivery.                         *)
RetryHolds ==
    op.pc \in {"query", "audit", "nudge"} =>
        /\ Sound(snap)
        /\ snap.fp = mail.fp
        /\ snap.s.delivered = mail.s.delivered
        /\ op.call \in Open(snap.s) \ snap.s.delivered
        /\ op.pc = "query" => op.call \in snap.s.uncertain

(* The monitor's conclusions are about admitted call_ids. *)
MonitorHolds == mon.todo \cup mon.toPending \cup mon.toUncertain \subseteq Known(mail)

IInv ==
    /\ TypeOK
    /\ Sound(mail) /\ Sound(dmail)
    /\ mail.s.delivered \subseteq dmail.s.delivered
    /\ PumpHolds /\ RetryHolds /\ MonitorHolds

-----------------------------------------------------------------------------
(* What each function of DeliveryState does to one copy of the records:    *)
(* it keeps it well typed and Sound, and says what becomes of the          *)
(* fingerprints and of the delivered call_ids.                             *)

(* The state of a new outbox is sound. *)
LEMMA EmptySound == EmptyMail \in Mail /\ Sound(EmptyMail)
<1>1. EmptyMail \in Mail
  BY DEF EmptyMail, EmptyLists, Mail, Lists
<1>2. Sound(EmptyMail)
  BY DEF EmptyMail, EmptyLists, Sound, Known, Listed, Open
<1>. QED
  BY <1>1, <1>2

(* A call_id is admitted once: the fingerprint check of send_message. *)
LEMMA AdmittedSound ==
    ASSUME NEW m \in Mail, Sound(m), NEW c \in CallId, NEW p \in Payload,
           m.fp[c] = NoPayload
    PROVE  LET n == Admitted(m, c, p)
           IN  /\ n \in Mail /\ Sound(n)
               /\ Known(m) \subseteq Known(n)
               /\ n.s.delivered = m.s.delivered
<1>. DEFINE n == Admitted(m, c, p)
<1>1. n \in Mail
  BY DEF Admitted, Mail, Lists
<1>2. c \notin Listed(m.s)
  BY DEF Sound, Known
<1>3. /\ n.s = [m.s EXCEPT !.pending = @ \cup {c}]
      /\ n.t = m.t
      /\ n.body = [m.body EXCEPT ![c] = p]
      /\ n.fp = [m.fp EXCEPT ![c] = p]
  BY DEF Admitted, Mail, Lists
<1>4. Known(n) = Known(m) \cup {c}
  BY <1>3, NoPayloadAssumption DEF Known, Mail
<1>. HIDE DEF n
<1>5. Sound(n)
  BY <1>2, <1>3, <1>4 DEF Sound, Mail, Lists, Open, Listed
<1>. QED
  BY <1>1, <1>3, <1>4, <1>5 DEF n, Mail, Lists

(* Staging a followup touches the Task's pending list alone. *)
LEMMA StagedSound ==
    ASSUME NEW m \in Mail, Sound(m), NEW c \in CallId
    PROVE  LET n == Staged(m, c)
           IN  n \in Mail /\ Sound(n) /\ n.fp = m.fp /\ n.s.delivered = m.s.delivered
<1>. DEFINE n == Staged(m, c)
<1>1. n \in Mail
  BY DEF Staged, Mail, Lists
<1>2. /\ n.s = m.s /\ n.body = m.body /\ n.fp = m.fp
      /\ n.t.uncertain = m.t.uncertain
  BY DEF Staged, Mail, Lists
<1>3. Sound(n)
  BY <1>2 DEF Sound, Known
<1>. QED
  BY <1>1, <1>2, <1>3

(* The pump claims what is pending. *)
LEMMA ClaimedSound ==
    ASSUME NEW m \in Mail, Sound(m), NEW c \in m.s.pending
    PROVE  LET n == Claimed(m, c)
           IN  n \in Mail /\ Sound(n) /\ n.fp = m.fp /\ n.s.delivered = m.s.delivered
<1>. DEFINE n == Claimed(m, c)
            s == [m.s EXCEPT !.pending = @ \ {c}, !.processing = @ \cup {c}]
            t == [m.t EXCEPT !.pending = @ \ {c},
                           !.processing = @ \cup ({c} \cap m.t.pending)]
<1>0. c \in CallId
  BY DEF Mail, Lists, Known
<1>1. s \in Lists /\ t \in Lists
  BY <1>0 DEF Mail, Lists
<1>2. n = [m EXCEPT !.s = s, !.t = t]
  BY DEF Claimed, Mail, Lists
<1>3. n \in Mail /\ n.s = s /\ n.t.uncertain = t.uncertain /\ n.body = m.body /\ n.fp = m.fp
  <2>. HIDE DEF s, t, n
  <2>. QED
    BY <1>1, <1>2 DEF Mail
<1>4. s.delivered = m.s.delivered /\ t.uncertain = m.t.uncertain
  BY DEF Mail, Lists
<1>5. Sound(n)
  BY <1>0, <1>3, <1>4 DEF Sound, Known, Mail, Lists, Open, Listed
<1>. QED
  BY <1>3, <1>4, <1>5

(* The rollback moves only what is in flight, whatever it is given. *)
LEMMA RolledBackSound ==
    ASSUME NEW m \in Mail, Sound(m), NEW C \in SUBSET CallId
    PROVE  LET n == RolledBack(m, C)
           IN  n \in Mail /\ Sound(n) /\ n.fp = m.fp /\ n.s.delivered = m.s.delivered
<1>. DEFINE n == RolledBack(m, C)
            s == [m.s EXCEPT !.processing = @ \ C,
                           !.pending = @ \cup (C \cap m.s.processing)]
            t == [m.t EXCEPT !.processing = @ \ C,
                           !.pending = @ \cup (C \cap m.t.processing)]
<1>0. C \subseteq CallId
  BY DEF Mail, Lists, Known
<1>1. s \in Lists /\ t \in Lists
  BY <1>0 DEF Mail, Lists
<1>2. n = [m EXCEPT !.s = s, !.t = t]
  BY DEF RolledBack, Mail, Lists
<1>3. n \in Mail /\ n.s = s /\ n.t.uncertain = t.uncertain /\ n.body = m.body /\ n.fp = m.fp
  <2>. HIDE DEF s, t, n
  <2>. QED
    BY <1>1, <1>2 DEF Mail
<1>4. s.delivered = m.s.delivered /\ t.uncertain = m.t.uncertain
  BY DEF Mail, Lists
<1>5. Sound(n)
  BY <1>0, <1>3, <1>4 DEF Sound, Known, Mail, Lists, Open, Listed
<1>. QED
  BY <1>3, <1>4, <1>5

(* MarkedUncertain adds whatever it is given, delivered call_ids too: its  *)
(* callers owe it only that the call_ids were admitted.                    *)
LEMMA MarkedUncertainSound ==
    ASSUME NEW m \in Mail, Sound(m), NEW C \in SUBSET Known(m)
    PROVE  LET n == MarkedUncertain(m, C)
           IN  n \in Mail /\ Sound(n) /\ n.fp = m.fp /\ n.s.delivered = m.s.delivered
<1>. DEFINE n == MarkedUncertain(m, C)
            s == [m.s EXCEPT !.processing = @ \ C, !.uncertain = @ \cup C]
            t == [m.t EXCEPT !.processing = @ \ C, !.uncertain = @ \cup C]
<1>0. C \subseteq CallId
  BY DEF Mail, Lists, Known
<1>1. s \in Lists /\ t \in Lists
  BY <1>0 DEF Mail, Lists
<1>2. n = [m EXCEPT !.s = s, !.t = t]
  BY DEF MarkedUncertain, Mail, Lists
<1>3. n \in Mail /\ n.s = s /\ n.t.uncertain = t.uncertain /\ n.body = m.body /\ n.fp = m.fp
  <2>. HIDE DEF s, t, n
  <2>. QED
    BY <1>1, <1>2 DEF Mail
<1>4. s.delivered = m.s.delivered /\ t.uncertain = m.t.uncertain \cup C
  BY DEF Mail, Lists
<1>5. Sound(n)
  BY <1>0, <1>3, <1>4 DEF Sound, Known, Mail, Lists, Open, Listed
<1>. QED
  BY <1>3, <1>4, <1>5

(* A retry that makes the call_id pending again needs it undelivered. *)
LEMMA RetriedUnsentSound ==
    ASSUME NEW m \in Mail, Sound(m), NEW c \in m.s.uncertain, c \notin m.s.delivered
    PROVE  LET n == RetriedUnsent(m, c)
           IN  n \in Mail /\ Sound(n) /\ n.fp = m.fp /\ n.s.delivered = m.s.delivered
<1>. DEFINE n == RetriedUnsent(m, c)
            s == [m.s EXCEPT !.uncertain = @ \ {c}, !.pending = @ \cup {c}]
            t == [m.t EXCEPT !.uncertain = @ \ {c}, !.pending = @ \cup {c}]
<1>0. c \in CallId
  BY DEF Mail, Lists, Known
<1>1. s \in Lists /\ t \in Lists
  BY <1>0 DEF Mail, Lists
<1>2. n = [m EXCEPT !.s = s, !.t = t]
  BY DEF RetriedUnsent, Mail, Lists
<1>3. n \in Mail /\ n.s = s /\ n.t.uncertain = t.uncertain /\ n.body = m.body /\ n.fp = m.fp
  <2>. HIDE DEF s, t, n
  <2>. QED
    BY <1>1, <1>2 DEF Mail
<1>4. s.delivered = m.s.delivered /\ t.uncertain = m.t.uncertain \ {c}
  BY DEF Mail, Lists
<1>5. Sound(n)
  BY <1>0, <1>3, <1>4 DEF Sound, Known, Mail, Lists, Open, Listed
<1>. QED
  BY <1>3, <1>4, <1>5

(* So does one that waits for the agent's acknowledgement again. *)
LEMMA RetriedAcceptedSound ==
    ASSUME NEW m \in Mail, Sound(m), NEW c \in m.s.uncertain, c \notin m.s.delivered
    PROVE  LET n == RetriedAccepted(m, c)
           IN  n \in Mail /\ Sound(n) /\ n.fp = m.fp /\ n.s.delivered = m.s.delivered
<1>. DEFINE n == RetriedAccepted(m, c)
            s == [m.s EXCEPT !.uncertain = @ \ {c}, !.processing = @ \cup {c}]
            t == [m.t EXCEPT !.uncertain = @ \ {c}, !.processing = @ \cup {c}]
<1>0. c \in CallId
  BY DEF Mail, Lists, Known
<1>1. s \in Lists /\ t \in Lists
  BY <1>0 DEF Mail, Lists
<1>2. n = [m EXCEPT !.s = s, !.t = t]
  BY DEF RetriedAccepted, Mail, Lists
<1>3. n \in Mail /\ n.s = s /\ n.t.uncertain = t.uncertain /\ n.body = m.body /\ n.fp = m.fp
  <2>. HIDE DEF s, t, n
  <2>. QED
    BY <1>1, <1>2 DEF Mail
<1>4. s.delivered = m.s.delivered /\ t.uncertain = m.t.uncertain \ {c}
  BY DEF Mail, Lists
<1>5. Sound(n)
  BY <1>0, <1>3, <1>4 DEF Sound, Known, Mail, Lists, Open, Listed
<1>. QED
  BY <1>3, <1>4, <1>5

(* The compensation puts an open call_id back into uncertain. *)
LEMMA CompensatedSound ==
    ASSUME NEW m \in Mail, Sound(m), NEW c \in Open(m.s)
    PROVE  LET n == Compensated(m, c)
           IN  n \in Mail /\ Sound(n) /\ n.fp = m.fp /\ n.s.delivered = m.s.delivered
<1>. DEFINE n == Compensated(m, c)
            s == [m.s EXCEPT !.pending = @ \ {c}, !.processing = @ \ {c},
                           !.uncertain = @ \cup {c}]
            t == [m.t EXCEPT !.pending = @ \ {c}, !.processing = @ \ {c},
                           !.uncertain = @ \cup {c}]
<1>0. c \in CallId
  BY DEF Mail, Lists, Open
<1>1. s \in Lists /\ t \in Lists
  BY <1>0 DEF Mail, Lists
<1>2. n = [m EXCEPT !.s = s, !.t = t]
  BY DEF Compensated, Mail, Lists
<1>3. n \in Mail /\ n.s = s /\ n.t.uncertain = t.uncertain /\ n.body = m.body /\ n.fp = m.fp
  <2>. HIDE DEF s, t, n
  <2>. QED
    BY <1>1, <1>2 DEF Mail
<1>4. s.delivered = m.s.delivered /\ t.uncertain = m.t.uncertain \cup {c}
  BY DEF Mail, Lists
<1>5. Sound(n)
  BY <1>0, <1>3, <1>4 DEF Sound, Known, Mail, Lists, Open, Listed
<1>. QED
  BY <1>3, <1>4, <1>5

(* An acknowledgement only moves call_ids into delivered, and drops their  *)
(* envelopes.                                                              *)
LEMMA AckedSound ==
    ASSUME NEW m \in Mail, Sound(m), NEW C \in SUBSET CallId
    PROVE  LET n == Acked(m, C)
           IN  /\ n \in Mail /\ Sound(n)
               /\ n.fp = m.fp /\ m.s.delivered \subseteq n.s.delivered
<1>. DEFINE n == Acked(m, C)
            V == Verified(m, C)
            b == IF V \cap Open(m.s) = {}
                 THEN m.body
                 ELSE [c \in CallId |-> IF c \in V THEN NoPayload ELSE m.body[c]]
<1>1. V \subseteq CallId
  BY DEF Verified
<1>2. AckedLists(m.s, V) \in Lists /\ AckedLists(m.t, V) \in Lists
  BY <1>1 DEF AckedLists, Mail, Lists, Open
<1>3. b \in [CallId -> Payload \cup {NoPayload}]
  BY DEF Mail
<1>4. n = [m EXCEPT !.s = AckedLists(m.s, V), !.t = AckedLists(m.t, V), !.body = b]
  BY DEF Acked
<1>5. n \in Mail /\ n.s = AckedLists(m.s, V) /\ n.t = AckedLists(m.t, V) /\ n.body = b /\ n.fp = m.fp
  <2>. HIDE DEF n, V, b
  <2>. QED
    BY <1>2, <1>3, <1>4 DEF Mail
<1>6. Listed(n.s) = Listed(m.s)
  BY <1>5 DEF AckedLists, Listed, Open
<1>7. \A c \in n.s.delivered : n.body[c] = NoPayload
  <2>1. n.s.delivered = m.s.delivered \cup (V \cap Open(m.s))
    BY <1>5 DEF AckedLists
  <2>2. m.s.delivered \subseteq CallId /\ V \cap Open(m.s) \subseteq CallId
    BY <1>1 DEF Mail, Lists
  <2>3. \A c \in m.s.delivered : m.body[c] = NoPayload
    BY DEF Sound
  <2>. HIDE DEF n, V
  <2>. QED
    BY <1>5, <2>1, <2>2, <2>3
<1>8. \A c \in Open(n.s) \ n.s.delivered : n.body[c] = n.fp[c]
  <2>1. Open(n.s) = Open(m.s) \ V /\ m.s.delivered \subseteq n.s.delivered
    BY <1>5 DEF AckedLists, Open
  <2>2. Open(m.s) \subseteq CallId
    BY DEF Mail, Lists, Open
  <2>3. \A c \in Open(m.s) \ m.s.delivered : m.body[c] = m.fp[c]
    BY DEF Sound
  <2>. HIDE DEF n, V
  <2>. QED
    BY <1>5, <2>1, <2>2, <2>3
<1>9. n.s.delivered \cap (n.s.pending \cup n.s.processing) = {}
  BY <1>5 DEF AckedLists, Sound
<1>10. n.s.uncertain \subseteq n.t.uncertain
  BY <1>5 DEF AckedLists, Sound
<1>11. Known(n) = Known(m)
  BY <1>5 DEF Known
<1>12. Sound(n)
  BY <1>6, <1>7, <1>8, <1>9, <1>10, <1>11 DEF Sound
<1>13. m.s.delivered \subseteq n.s.delivered
  BY <1>5 DEF AckedLists
<1>. QED
  BY <1>5, <1>12, <1>13

-----------------------------------------------------------------------------
(* The initial states. *)
LEMMA InitIInv == Init => IInv
<1>. SUFFICES ASSUME Init PROVE IInv
  OBVIOUS
<1>1. TypeOK
  <2>1. mail \in Mail /\ dmail \in Mail /\ snap \in Mail
    BY EmptySound DEF Init
  <2>2. op \in [pc : Points, call : CallId \cup {NoCall}, todo : SUBSET CallId]
    BY DEF Init, Idle, Points
  <2>3. mon \in [busy : BOOLEAN, todo : SUBSET CallId,
                toPending : SUBSET CallId, toUncertain : SUBSET CallId]
    BY DEF Init, MonIdle
  <2>4. retry \in [CallId -> {"none", "moved", "audited"}] /\ budget \in 0 .. Budget
    BY TerminalAssumption DEF Init
  <2>. QED
    BY <2>1, <2>2, <2>3, <2>4 DEF Init, TypeOK
<1>2. Sound(mail) /\ Sound(dmail) /\ mail.s.delivered \subseteq dmail.s.delivered
  BY EmptySound DEF Init
<1>3. PumpHolds /\ RetryHolds /\ MonitorHolds
  BY DEF Init, PumpHolds, RetryHolds, MonitorHolds, Idle, MonIdle
<1>. QED
  BY <1>1, <1>2, <1>3 DEF IInv

(* A disturbance takes one of a finite budget. *)
LEMMA BudgetType ==
    ASSUME budget \in 0 .. Budget, Disturb \/ UNCHANGED budget
    PROVE  budget' \in 0 .. Budget
BY TerminalAssumption DEF Disturb

(* Where no step of pump or retry is under way, nothing is held. *)
LEMMA NothingHeld ==
    ASSUME op'.pc \in {"idle", "next"}
    PROVE  PumpHolds' /\ RetryHolds'
BY DEF PumpHolds, RetryHolds

(* The monitor moves call_ids under the hands of pump and retry; they hold *)
(* on to what it cannot change.                                            *)
LEMMA StillHeld ==
    ASSUME PumpHolds, RetryHolds, UNCHANGED <<op, snap>>,
           mail'.fp = mail.fp, mail'.s.delivered = mail.s.delivered
    PROVE  PumpHolds' /\ RetryHolds'
BY DEF PumpHolds, RetryHolds, Known

LEMMA MonitorStillHeld ==
    ASSUME MonitorHolds, UNCHANGED mon, Known(mail) \subseteq Known(mail')
    PROVE  MonitorHolds'
BY DEF MonitorHolds

(* What a step owes: the invariant, and every delivered call_id.           *)
Owed == IInv' /\ mail.s.delivered \subseteq mail'.s.delivered

(* The file after a save, or after a save that failed before or after the  *)
(* rename, is as sound as memory and no less delivered.                    *)
LEMMA FileKept ==
    ASSUME dmail \in Mail, Sound(dmail), mail.s.delivered \subseteq dmail.s.delivered,
           mail' \in Mail, Sound(mail'),
           \/ dmail' = mail'
           \/ dmail' = dmail /\ mail'.s.delivered = mail.s.delivered
    PROVE  dmail' \in Mail /\ Sound(dmail') /\ mail'.s.delivered \subseteq dmail'.s.delivered
OBVIOUS

-----------------------------------------------------------------------------
(* Producers and the report run under the pump lock. *)

LEMMA StageFollowupStep ==
    ASSUME IInv, NEW c \in CallId, StageFollowup(c) PROVE Owed
<1>. DEFINE n == Staged(mail, c)
<1>1. n \in Mail /\ Sound(n) /\ n.fp = mail.fp /\ n.s.delivered = mail.s.delivered
  BY StagedSound DEF IInv, TypeOK
<1>. HIDE DEF n
<1>2. /\ mail' = n \/ mail' = mail
      /\ dmail' = n
      /\ UNCHANGED <<stopped, op, snap, mon, alive, receipts, seen, retry>>
      /\ dstopped' = stopped
      /\ Disturb \/ UNCHANGED budget
  BY DEF StageFollowup, Commit, Torn, Save, hub, tmux, n
<1>3. TypeOK'
  BY <1>1, <1>2, BudgetType DEF IInv, TypeOK
<1>4. Sound(mail') /\ Sound(dmail') /\ mail'.s.delivered = mail.s.delivered
  BY <1>1, <1>2 DEF IInv
<1>5. mail'.fp = mail.fp /\ mail'.s.delivered \subseteq dmail'.s.delivered
  BY <1>1, <1>2 DEF IInv
<1>6. PumpHolds' /\ RetryHolds' /\ MonitorHolds'
  BY <1>2, <1>4, <1>5, StillHeld, MonitorStillHeld DEF IInv, Known
<1>. QED
  BY <1>3, <1>4, <1>5, <1>6 DEF IInv, Owed

LEMMA SendMessageStep ==
    ASSUME IInv, NEW c \in CallId, NEW p \in Payload, SendMessage(c, p) PROVE Owed
<1>. DEFINE n == Admitted(mail, c, p)
<1>1. /\ n \in Mail /\ Sound(n) /\ Known(mail) \subseteq Known(n)
      /\ n.s.delivered = mail.s.delivered
  BY AdmittedSound DEF IInv, TypeOK, SendMessage
<1>. HIDE DEF n
<1>2. /\ mail' = n
      /\ \/ dmail' = n /\ dstopped' = stopped
         \/ dmail' = dmail /\ dstopped' = dstopped
      /\ UNCHANGED <<stopped, op, snap, mon, alive, receipts, seen, retry>>
      /\ Disturb \/ UNCHANGED budget
      /\ op = Idle
  BY DEF SendMessage, SaveOrFail, Save, disk, tmux, n, LockFree
<1>3. dmail' \in Mail /\ Sound(dmail') /\ mail'.s.delivered \subseteq dmail'.s.delivered
  BY <1>1, <1>2 DEF IInv, TypeOK
<1>4. TypeOK'
  BY <1>1, <1>2, <1>3, BudgetType DEF IInv, TypeOK
<1>5. PumpHolds' /\ RetryHolds' /\ MonitorHolds'
  BY <1>1, <1>2, NothingHeld, MonitorStillHeld DEF IInv, Idle
<1>. QED
  BY <1>1, <1>2, <1>3, <1>4, <1>5 DEF IInv, Owed

LEMMA ReportStep ==
    ASSUME IInv, NEW C \in SUBSET CallId, Report(C) PROVE Owed
<1>. DEFINE n == Acked(mail, C \cup (CallId \ Followup))
<1>1. n \in Mail /\ Sound(n) /\ n.fp = mail.fp /\ mail.s.delivered \subseteq n.s.delivered
  BY AckedSound DEF IInv, TypeOK
<1>. HIDE DEF n
<1>2. /\ mail' = n \/ mail' = mail
      /\ dmail' = n
      /\ UNCHANGED <<stopped, op, snap, mon, alive, receipts, seen, retry>>
      /\ dstopped' = stopped
      /\ Disturb \/ UNCHANGED budget
      /\ op = Idle
  BY DEF Report, Commit, Torn, Save, hub, tmux, n, LockFree
<1>3. TypeOK'
  BY <1>1, <1>2, BudgetType DEF IInv, TypeOK
<1>4. Sound(mail') /\ Sound(dmail') /\ mail.s.delivered \subseteq mail'.s.delivered
  BY <1>1, <1>2 DEF IInv
<1>5. mail'.fp = mail.fp /\ mail'.s.delivered \subseteq dmail'.s.delivered
  BY <1>1, <1>2 DEF IInv
<1>6. PumpHolds' /\ RetryHolds' /\ MonitorHolds'
  BY <1>2, <1>5, NothingHeld, MonitorStillHeld DEF IInv, Known, Idle
<1>. QED
  BY <1>3, <1>4, <1>5, <1>6 DEF IInv, Owed

-----------------------------------------------------------------------------
(* The pump. *)

OpRecord == [pc : Points, call : CallId \cup {NoCall}, todo : SUBSET CallId]

(* The holder of the pump lock stays well typed. *)
LEMMA HolderType ==
    /\ Idle \in OpRecord
    /\ \A pc \in Points, c \in CallId \cup {NoCall}, S \in SUBSET CallId : At(pc, c, S) \in OpRecord
BY DEF Idle, At, OpRecord, Points

(* Steps of the pump that leave the records alone: an actor that goes on   *)
(* keeps its call_id.                                                      *)
LEMMA RecordsAside ==
    ASSUME IInv, UNCHANGED <<mail, stopped, dmail, dstopped, snap, mon, alive, retry, budget>>,
           op' \in OpRecord, receipts' \subseteq seen', seen' \subseteq CallId,
           \/ op'.pc \in {"idle", "next"}
           \/ op.pc = "ready" /\ op' = [op EXCEPT !.pc = "paste"]
           \/ op.pc = "paste" /\ op' = [op EXCEPT !.pc = "submit"]
    PROVE  Owed
<1>1. TypeOK'
  BY DEF IInv, TypeOK, OpRecord
<1>2. PumpHolds' /\ RetryHolds'
  <2>1. CASE op'.pc \in {"idle", "next"}
    BY <2>1, NothingHeld
  <2>2. CASE op.pc = "ready" /\ op' = [op EXCEPT !.pc = "paste"]
    <3>1. op'.pc = "paste" /\ op'.call = op.call
      BY <2>2 DEF IInv, TypeOK
    <3>. QED
      BY <2>2, <3>1 DEF IInv, PumpHolds, RetryHolds, Known
  <2>3. CASE op.pc = "paste" /\ op' = [op EXCEPT !.pc = "submit"]
    <3>1. op'.pc = "submit" /\ op'.call = op.call
      BY <2>3 DEF IInv, TypeOK
    <3>. QED
      BY <2>3, <3>1 DEF IInv, PumpHolds, RetryHolds, Known
  <2>. QED
    BY <2>1, <2>2, <2>3
<1>3. MonitorHolds'
  BY MonitorStillHeld DEF IInv
<1>. QED
  BY <1>1, <1>2, <1>3 DEF IInv, Owed

LEMMA PumpStartStep == ASSUME IInv, PumpStart PROVE Owed
<1>1. mail.s.pending \in SUBSET CallId
  BY DEF IInv, TypeOK, Mail, Lists
<1>2. op' \in OpRecord /\ op'.pc = "next"
  BY <1>1, HolderType DEF PumpStart, Points, At
<1>. QED
  BY <1>2, RecordsAside DEF PumpStart, hub, disk, tmux, IInv, TypeOK

LEMMA PumpEndsStep == ASSUME IInv, PumpEnds PROVE Owed
<1>1. op' \in OpRecord /\ op'.pc = "idle"
  BY HolderType DEF PumpEnds, Idle
<1>. QED
  BY <1>1, RecordsAside DEF PumpEnds, hub, disk, tmux, IInv, TypeOK

LEMMA SeatReadyStep == ASSUME IInv, SeatReady PROVE Owed
<1>1. op' \in OpRecord
  BY DEF SeatReady, IInv, TypeOK, OpRecord, Points
<1>. QED
  BY <1>1, RecordsAside DEF SeatReady, hub, disk, tmux, IInv, TypeOK

LEMMA PasteStep == ASSUME IInv, Paste PROVE Owed
<1>1. op' \in OpRecord
  BY DEF Paste, IInv, TypeOK, OpRecord, Points
<1>2. op.call \in CallId
  BY DEF Paste, IInv, PumpHolds, Known
<1>3. receipts' \subseteq seen' /\ seen' \subseteq CallId
  BY <1>2 DEF Paste, IInv, TypeOK
<1>. QED
  BY <1>1, <1>3, RecordsAside DEF Paste, hub, disk

LEMMA SubmitVerifiedStep == ASSUME IInv, SubmitVerified PROVE Owed
<1>1. op' \in OpRecord /\ op'.pc = "next"
  BY HolderType DEF SubmitVerified, IInv, TypeOK, Points, At
<1>. QED
  BY <1>1, RecordsAside DEF SubmitVerified, hub, disk, tmux, IInv, TypeOK

LEMMA ClaimStep == ASSUME IInv, NEW c \in CallId, Claim(c) PROVE Owed
<1>. DEFINE n == Claimed(mail, c)
<1>0. c \in mail.s.pending
  BY DEF Claim
<1>1. n \in Mail /\ Sound(n) /\ n.fp = mail.fp /\ n.s.delivered = mail.s.delivered
  BY <1>0, ClaimedSound DEF IInv, TypeOK
<1>2. c \in Known(mail) /\ c \notin mail.s.delivered
  BY <1>0 DEF IInv, Sound, Listed, Open
<1>. HIDE DEF n
<1>3. /\ mail' = n
      /\ \/ dmail' = n /\ dstopped' = stopped /\ op' = At("ready", c, op.todo \ {c})
         \/ dmail' = dmail /\ dstopped' = dstopped /\ op' = Idle
      /\ UNCHANGED <<stopped, snap, mon, alive, receipts, seen, retry>>
      /\ Disturb \/ UNCHANGED budget
  BY DEF Claim, Save, disk, tmux, n
<1>4. dmail' \in Mail /\ Sound(dmail') /\ mail'.s.delivered \subseteq dmail'.s.delivered
  BY <1>1, <1>3 DEF IInv, TypeOK
<1>5. op.todo \ {c} \in SUBSET CallId
  BY DEF IInv, TypeOK
<1>6. op' \in OpRecord
  BY <1>3, <1>5, HolderType DEF Points
<1>7. TypeOK'
  BY <1>1, <1>3, <1>4, <1>6, BudgetType DEF IInv, TypeOK, OpRecord
<1>8. PumpHolds' /\ RetryHolds'
  <2>1. CASE op' = Idle
    BY <2>1, NothingHeld DEF Idle
  <2>2. CASE op' = At("ready", c, op.todo \ {c})
    <3>1. op'.pc = "ready" /\ op'.call = c
      BY <2>2 DEF At
    <3>. QED
      BY <1>1, <1>2, <1>3, <3>1 DEF PumpHolds, RetryHolds, Known
  <2>. QED
    BY <1>3, <2>1, <2>2
<1>9. MonitorHolds'
  BY <1>1, <1>3, MonitorStillHeld DEF IInv, Known
<1>. QED
  BY <1>1, <1>3, <1>4, <1>7, <1>8, <1>9 DEF IInv, Owed

(* The pump gives up on the call_id it works on. *)
LEMMA UncertainStep ==
    ASSUME IInv, op.pc \in {"ready", "paste", "submit"}, Uncertain(op.call),
           UNCHANGED <<snap, mon, tmux>>
    PROVE  Owed
<1>. DEFINE n == MarkedUncertain(mail, {op.call})
<1>0. {op.call} \in SUBSET Known(mail)
  BY DEF IInv, PumpHolds
<1>1. n \in Mail /\ Sound(n) /\ n.fp = mail.fp /\ n.s.delivered = mail.s.delivered
  BY <1>0, MarkedUncertainSound DEF IInv, TypeOK
<1>. HIDE DEF n
<1>2. /\ mail' = n
      /\ \/ dmail' = n /\ dstopped' = stopped /\ op' = At("next", NoCall, op.todo)
         \/ dmail' = dmail /\ dstopped' = dstopped /\ op' = Idle
      /\ UNCHANGED <<stopped, snap, mon, alive, receipts, seen>>
      /\ Disturb \/ UNCHANGED budget
      /\ Undecided({op.call})
  BY DEF Uncertain, Save, disk, tmux, n
<1>3. dmail' \in Mail /\ Sound(dmail') /\ mail'.s.delivered \subseteq dmail'.s.delivered
  BY <1>1, <1>2 DEF IInv, TypeOK
<1>4. op' \in OpRecord /\ op'.pc \in {"idle", "next"}
  BY <1>2, HolderType DEF Points, IInv, TypeOK, At, Idle
<1>5. retry' \in [CallId -> {"none", "moved", "audited"}]
  BY <1>2 DEF Undecided, IInv, TypeOK
<1>6. TypeOK'
  BY <1>1, <1>2, <1>3, <1>4, <1>5, BudgetType DEF IInv, TypeOK, OpRecord
<1>7. PumpHolds' /\ RetryHolds' /\ MonitorHolds'
  BY <1>1, <1>2, <1>4, NothingHeld, MonitorStillHeld DEF IInv, Known
<1>. QED
  BY <1>1, <1>2, <1>3, <1>6, <1>7 DEF IInv, Owed

LEMMA PreSendFailsStep == ASSUME IInv, PreSendFails PROVE Owed
<1>. DEFINE n == RolledBack(mail, {op.call})
<1>0. {op.call} \in SUBSET CallId
  BY DEF IInv, PumpHolds, PreSendFails, Known
<1>1. n \in Mail /\ Sound(n) /\ n.fp = mail.fp /\ n.s.delivered = mail.s.delivered
  BY <1>0, RolledBackSound DEF IInv, TypeOK
<1>. HIDE DEF n
<1>2. /\ mail' = n /\ op' = At("next", NoCall, op.todo)
      /\ UNCHANGED <<stopped, dmail, dstopped, snap, mon, alive, receipts, seen, retry>>
      /\ Disturb
  BY DEF PreSendFails, disk, tmux, n
<1>3. op' \in OpRecord /\ op'.pc = "next"
  BY <1>2, HolderType DEF Points, IInv, TypeOK, At
<1>4. TypeOK'
  BY <1>1, <1>2, <1>3, BudgetType DEF IInv, TypeOK, OpRecord
<1>5. PumpHolds' /\ RetryHolds' /\ MonitorHolds'
  BY <1>1, <1>2, <1>3, NothingHeld, MonitorStillHeld DEF IInv, Known
<1>. QED
  BY <1>1, <1>2, <1>4, <1>5 DEF IInv, Owed

-----------------------------------------------------------------------------
(* The monitor, which does not wait for the pump lock. *)

(* What every step of the monitor leaves alone is what the others hold. *)
LEMMA MonitorStep ==
    ASSUME IInv, UNCHANGED <<op, snap, tmux>>, mail' \in Mail, Sound(mail'),
           mail'.fp = mail.fp, mail'.s.delivered = mail.s.delivered,
           stopped' \in BOOLEAN,
           \/ dmail' = mail' /\ dstopped' = stopped'
           \/ UNCHANGED disk,
           mon' \in [busy : BOOLEAN, todo : SUBSET CallId,
                     toPending : SUBSET CallId, toUncertain : SUBSET CallId],
           MonitorHolds',
           retry' \in [CallId -> {"none", "moved", "audited"}],
           Disturb \/ UNCHANGED budget
    PROVE  Owed
<1>1. dmail' \in Mail /\ Sound(dmail') /\ mail'.s.delivered \subseteq dmail'.s.delivered
  BY DEF IInv, TypeOK, disk
<1>2. TypeOK'
  BY <1>1, BudgetType DEF IInv, TypeOK, disk, tmux
<1>3. PumpHolds' /\ RetryHolds'
  BY StillHeld DEF IInv
<1>. QED
  BY <1>1, <1>2, <1>3 DEF IInv, Owed

LEMMA UndecidedType ==
    ASSUME TypeOK, NEW C, Undecided(C)
    PROVE  retry' \in [CallId -> {"none", "moved", "audited"}]
BY DEF Undecided, TypeOK

LEMMA RefreshStatusStep == ASSUME IInv, RefreshStatus PROVE Owed
<1>1. MonitorHolds'
  BY MonitorStillHeld DEF RefreshStatus, IInv, Known
<1>. QED
  BY <1>1, MonitorStep DEF RefreshStatus, Save, IInv, TypeOK

LEMMA ExpireLeasesStep == ASSUME IInv, NEW C \in SUBSET CallId, ExpireLeases(C) PROVE Owed
<1>. DEFINE n == MarkedUncertain(mail, C)
<1>0. C \in SUBSET Known(mail)
  BY DEF ExpireLeases, IInv, Sound, Listed, Open
<1>1. n \in Mail /\ Sound(n) /\ n.fp = mail.fp /\ n.s.delivered = mail.s.delivered
  BY <1>0, MarkedUncertainSound DEF IInv, TypeOK
<1>. HIDE DEF n
<1>2. /\ mail' = n
      /\ (dmail' = n /\ dstopped' = stopped) \/ UNCHANGED disk
      /\ UNCHANGED <<stopped, op, snap, mon, tmux>>
      /\ Disturb \/ UNCHANGED budget
      /\ Undecided(C)
  BY DEF ExpireLeases, SaveOrFail, Save, n
<1>3. MonitorHolds'
  BY <1>1, <1>2, MonitorStillHeld DEF IInv, Known
<1>4. retry' \in [CallId -> {"none", "moved", "audited"}]
  BY <1>2, UndecidedType DEF IInv
<1>. QED
  BY <1>1, <1>2, <1>3, <1>4, MonitorStep DEF IInv, TypeOK

LEMMA ReconcileStartStep == ASSUME IInv, ReconcileStart PROVE Owed
<1>1. /\ mail.s.processing \in SUBSET CallId
      /\ mail.s.processing \subseteq Known(mail)
  BY DEF IInv, TypeOK, Mail, Lists, Sound, Listed, Open
<1>2. mon' = [busy |-> TRUE, todo |-> mail.s.processing, toPending |-> {}, toUncertain |-> {}]
  BY DEF ReconcileStart, MonIdle
<1>3. /\ mon'.todo = mail.s.processing
      /\ mon'.toPending = {} /\ mon'.toUncertain = {}
      /\ mon' \in [busy : BOOLEAN, todo : SUBSET CallId,
                  toPending : SUBSET CallId, toUncertain : SUBSET CallId]
  BY <1>1, <1>2
<1>4. Known(mail') = Known(mail)
  BY DEF ReconcileStart, hub
<1>5. MonitorHolds'
  BY <1>1, <1>3, <1>4 DEF MonitorHolds
<1>6. UNCHANGED <<op, snap, tmux, mail, stopped, disk, retry, budget>>
  BY DEF ReconcileStart, hub
<1>. QED
  BY <1>3, <1>5, <1>6, MonitorStep DEF IInv, TypeOK

LEMMA QueryStep == ASSUME IInv, NEW c \in CallId, Query(c) PROVE Owed
<1>1. /\ mon.todo \in SUBSET CallId /\ mon.toPending \in SUBSET CallId
      /\ mon.toUncertain \in SUBSET CallId /\ mon.busy \in BOOLEAN
  BY DEF IInv, TypeOK
<1>2. /\ mon'.todo = mon.todo \ {c}
      /\ mon'.toPending \in {mon.toPending, mon.toPending \cup {c}}
      /\ mon'.toUncertain \in {mon.toUncertain, mon.toUncertain \cup {c}}
  BY DEF Query, IInv, TypeOK
<1>3. mon' \in [busy : BOOLEAN, todo : SUBSET CallId,
                toPending : SUBSET CallId, toUncertain : SUBSET CallId]
  <2>1. mon.todo \ {c} \in SUBSET CallId /\ mon.toPending \cup {c} \in SUBSET CallId
        /\ mon.toUncertain \cup {c} \in SUBSET CallId
    BY <1>1
  <2>2. \E P \in SUBSET CallId, U \in SUBSET CallId :
            mon' = [mon EXCEPT !.todo = @ \ {c}, !.toPending = P, !.toUncertain = U]
    <3>1. CASE mon' = [mon EXCEPT !.todo = @ \ {c},
                                  !.toPending = IF c \in receipts THEN @ ELSE @ \cup {c}]
      <4>1. mon' = [mon EXCEPT !.todo = @ \ {c},
                               !.toPending = IF c \in receipts THEN @ ELSE @ \cup {c},
                               !.toUncertain = mon.toUncertain]
        BY <3>1 DEF IInv, TypeOK
      <4>. QED
        BY <1>1, <2>1, <4>1
    <3>2. CASE mon' = [mon EXCEPT !.todo = @ \ {c}, !.toUncertain = @ \cup {c}]
      <4>1. mon' = [mon EXCEPT !.todo = @ \ {c}, !.toPending = mon.toPending,
                               !.toUncertain = @ \cup {c}]
        BY <3>2 DEF IInv, TypeOK
      <4>. QED
        BY <1>1, <2>1, <4>1
    <3>. QED
      BY <3>1, <3>2 DEF Query
  <2>. QED
    BY <1>1, <2>1, <2>2 DEF IInv, TypeOK
<1>4. c \in Known(mail) /\ mail' = mail
  BY DEF Query, IInv, MonitorHolds, hub
<1>5. MonitorHolds'
  BY <1>2, <1>4 DEF IInv, MonitorHolds
<1>. QED
  BY <1>3, <1>4, <1>5, MonitorStep DEF Query, IInv, TypeOK, hub

LEMMA ReconcileApplyStep == ASSUME IInv, ReconcileApply PROVE Owed
<1>. DEFINE m == RolledBack(mail, mon.toPending)
            n == MarkedUncertain(m, mon.toUncertain)
<1>1. m \in Mail /\ Sound(m) /\ m.fp = mail.fp /\ m.s.delivered = mail.s.delivered
  BY RolledBackSound DEF IInv, TypeOK
<1>2. mon.toUncertain \in SUBSET Known(m)
  BY <1>1 DEF IInv, MonitorHolds, Known
<1>3. n \in Mail /\ Sound(n) /\ n.fp = mail.fp /\ n.s.delivered = mail.s.delivered
  <2>. HIDE DEF m
  <2>. QED
    BY <1>1, <1>2, MarkedUncertainSound
<1>4. /\ \/ mail' = m /\ UNCHANGED disk
         \/ mail' = n /\ dmail' = n /\ dstopped' = stopped
         \/ mail' = n /\ UNCHANGED disk
      /\ mon' = MonIdle
      /\ UNCHANGED <<stopped, op, snap, tmux>>
      /\ Disturb \/ UNCHANGED budget
      /\ Undecided(mon.toUncertain)
  BY DEF ReconcileApply, SaveOrFail, Save
<1>. HIDE DEF m, n
<1>5. MonitorHolds'
  BY <1>4 DEF MonitorHolds, MonIdle
<1>6. mon' \in [busy : BOOLEAN, todo : SUBSET CallId,
                toPending : SUBSET CallId, toUncertain : SUBSET CallId]
  BY <1>4 DEF MonIdle
<1>7. retry' \in [CallId -> {"none", "moved", "audited"}]
  BY <1>4, UndecidedType DEF IInv
<1>8. mail' \in Mail /\ Sound(mail') /\ mail'.fp = mail.fp /\ mail'.s.delivered = mail.s.delivered
  BY <1>1, <1>3, <1>4
<1>9. (dmail' = mail' /\ dstopped' = stopped') \/ UNCHANGED disk
  BY <1>4
<1>. QED
  BY <1>4, <1>5, <1>6, <1>7, <1>8, <1>9, MonitorStep DEF IInv, TypeOK

-----------------------------------------------------------------------------
(* The operator's retry, which writes back what it has read. *)

LEMMA RetryStartStep == ASSUME IInv, NEW c \in CallId, RetryStart(c) PROVE Owed
<1>1. c \in mail.s.uncertain /\ c \notin mail.s.delivered
  BY DEF RetryStart, MayRetry, IInv, Sound
<1>2. op' \in OpRecord /\ op'.pc = "query" /\ op'.call = c
  BY HolderType DEF RetryStart, Points, At
<1>3. TypeOK'
  BY <1>2, BudgetType DEF RetryStart, IInv, TypeOK, OpRecord, hub, disk, tmux
<1>4. PumpHolds' /\ RetryHolds'
  BY <1>1, <1>2 DEF RetryStart, hub, PumpHolds, RetryHolds, IInv, Open
<1>5. MonitorHolds'
  BY MonitorStillHeld DEF RetryStart, IInv, hub
<1>. QED
  BY <1>3, <1>4, <1>5 DEF RetryStart, IInv, Owed, hub, disk

LEMMA RetryMoveStep == ASSUME IInv, RetryMove PROVE Owed
<1>. DEFINE c == op.call
            n == IF c \in receipts THEN RetriedAccepted(snap, c) ELSE RetriedUnsent(snap, c)
<1>1. /\ snap \in Mail /\ Sound(snap) /\ snap.fp = mail.fp
      /\ snap.s.delivered = mail.s.delivered
      /\ c \in snap.s.uncertain /\ c \notin snap.s.delivered
  BY DEF RetryMove, IInv, TypeOK, RetryHolds
<1>2. n \in Mail /\ Sound(n) /\ n.fp = mail.fp /\ n.s.delivered = mail.s.delivered
  BY <1>1, RetriedAcceptedSound, RetriedUnsentSound
<1>3. c \in Open(n.s)
  BY <1>1 DEF RetriedAccepted, RetriedUnsent, Mail, Lists, Open
<1>4. c \in CallId
  BY <1>1 DEF Mail, Lists
<1>5. /\ mail' = n
      /\ \/ /\ dmail' = n /\ dstopped' = stopped
            /\ op' = At("audit", c, {}) /\ snap' = n
         \/ /\ dmail' = dmail /\ dstopped' = dstopped
            /\ op' = Idle /\ snap' = EmptyMail
      /\ UNCHANGED <<stopped, mon, alive, receipts, seen>>
      /\ retry' = [retry EXCEPT ![c] = "moved"]
      /\ Disturb \/ UNCHANGED budget
  BY DEF RetryMove, Save, disk, tmux
<1>. HIDE DEF n
<1>6. dmail' \in Mail /\ Sound(dmail') /\ mail'.s.delivered \subseteq dmail'.s.delivered
  BY <1>2, <1>5 DEF IInv, TypeOK
<1>7. op' \in OpRecord
  BY <1>4, <1>5, HolderType DEF Points
<1>8. TypeOK'
  BY <1>2, <1>5, <1>6, <1>7, BudgetType, EmptySound DEF IInv, TypeOK, OpRecord
<1>9. PumpHolds' /\ RetryHolds'
  <2>1. CASE op' = Idle
    BY <2>1, NothingHeld DEF Idle
  <2>2. CASE op' = At("audit", c, {}) /\ snap' = n
    BY <1>1, <1>2, <1>3, <1>5, <2>2 DEF PumpHolds, RetryHolds, At
  <2>. QED
    BY <1>5, <2>1, <2>2
<1>10. MonitorHolds'
  BY <1>2, <1>5, MonitorStillHeld DEF IInv, Known
<1>. QED
  BY <1>2, <1>5, <1>6, <1>8, <1>9, <1>10 DEF IInv, Owed

LEMMA RetryAuditedStep == ASSUME IInv, RetryAudited PROVE Owed
<1>. DEFINE c == op.call
<1>1. c \in CallId
  BY DEF RetryAudited, IInv, TypeOK, RetryHolds, Mail, Lists, Open
<1>2. mail.s.pending \in SUBSET CallId
  BY DEF IInv, TypeOK, Mail, Lists
<1>3. /\ \/ op' = At("nudge", c, {}) /\ snap' = snap
         \/ op' = At("next", NoCall, mail.s.pending) /\ snap' = EmptyMail
      /\ UNCHANGED <<mail, stopped, dmail, dstopped, mon, alive, receipts, seen, budget>>
      /\ retry' = [retry EXCEPT ![c] = "audited"]
      /\ op.pc = "audit"
  BY DEF RetryAudited, hub, disk, tmux
<1>4. op' \in OpRecord
  BY <1>1, <1>2, <1>3, HolderType DEF Points
<1>5. TypeOK'
  BY <1>3, <1>4, EmptySound DEF IInv, TypeOK, OpRecord
<1>6. PumpHolds' /\ RetryHolds'
  <2>1. CASE op' = At("nudge", c, {}) /\ snap' = snap
    BY <1>3, <2>1 DEF PumpHolds, RetryHolds, At, IInv
  <2>2. CASE op' = At("next", NoCall, mail.s.pending)
    BY <2>2, NothingHeld DEF At
  <2>. QED
    BY <1>3, <2>1, <2>2
<1>7. MonitorHolds'
  BY <1>3, MonitorStillHeld DEF IInv
<1>. QED
  BY <1>3, <1>5, <1>6, <1>7 DEF IInv, Owed

LEMMA CompensateStep ==
    ASSUME IInv, op.pc \in {"audit", "nudge"}, Compensate,
           UNCHANGED <<mon, tmux>>, Disturb \/ UNCHANGED budget
    PROVE  Owed
<1>. DEFINE n == Compensated(snap, op.call)
<1>1. /\ snap \in Mail /\ Sound(snap) /\ snap.fp = mail.fp
      /\ snap.s.delivered = mail.s.delivered
      /\ op.call \in Open(snap.s)
  BY DEF IInv, TypeOK, RetryHolds
<1>2. n \in Mail /\ Sound(n) /\ n.fp = mail.fp /\ n.s.delivered = mail.s.delivered
  BY <1>1, CompensatedSound
<1>. HIDE DEF n
<1>3. /\ mail' = n /\ dmail' = n /\ dstopped' = stopped
      /\ op' = Idle /\ snap' = EmptyMail
      /\ UNCHANGED <<stopped, mon, alive, receipts, seen>>
      /\ Undecided({op.call})
  BY DEF Compensate, Save, tmux, n
<1>4. op' \in OpRecord /\ op'.pc = "idle"
  BY <1>3, HolderType DEF Idle
<1>5. retry' \in [CallId -> {"none", "moved", "audited"}]
  BY <1>3, UndecidedType DEF IInv
<1>6. TypeOK'
  BY <1>2, <1>3, <1>4, <1>5, BudgetType, EmptySound DEF IInv, TypeOK, OpRecord
<1>7. PumpHolds' /\ RetryHolds' /\ MonitorHolds'
  BY <1>2, <1>3, <1>4, NothingHeld, MonitorStillHeld DEF IInv, Known
<1>. QED
  BY <1>2, <1>3, <1>6, <1>7 DEF IInv, Owed

(* The retry is refused, or was nudged: the lock is released. *)
LEMMA ReleasedStep ==
    ASSUME IInv, op' = Idle, snap' = EmptyMail,
           UNCHANGED <<hub, disk, mon, tmux, retry, budget>>
    PROVE  Owed
<1>1. op' \in OpRecord /\ op'.pc = "idle"
  BY HolderType DEF Idle
<1>2. TypeOK'
  BY <1>1, EmptySound DEF IInv, TypeOK, OpRecord, hub, disk, tmux
<1>3. PumpHolds' /\ RetryHolds' /\ MonitorHolds'
  BY <1>1, NothingHeld, MonitorStillHeld DEF IInv, hub
<1>. QED
  BY <1>2, <1>3 DEF IInv, Owed, hub, disk

-----------------------------------------------------------------------------
(* The environment. *)

LEMMA TmuxStep == ASSUME IInv, TmuxDies \/ TmuxRecreated PROVE Owed
<1>1. TypeOK'
  BY BudgetType DEF TmuxDies, TmuxRecreated, IInv, TypeOK, hub, disk
<1>2. mail' = mail /\ dmail' = dmail /\ UNCHANGED <<op, snap, mon>>
  BY DEF TmuxDies, TmuxRecreated, hub, disk
<1>3. PumpHolds' /\ RetryHolds' /\ MonitorHolds'
  BY <1>2, StillHeld, MonitorStillHeld DEF IInv
<1>. QED
  BY <1>1, <1>2, <1>3 DEF IInv, Owed

(* After a restart the file speaks, which has every delivered call_id. *)
LEMMA CrashStep == ASSUME IInv, Crash PROVE Owed
<1>. DEFINE lost == IF dstopped THEN dmail.s.processing ELSE {}
            n == IF lost = {} THEN dmail ELSE MarkedUncertain(dmail, lost)
<1>1. lost \in SUBSET Known(dmail)
  BY DEF IInv, Sound, Listed, Open
<1>2. n \in Mail /\ Sound(n) /\ n.s.delivered = dmail.s.delivered
  BY <1>1, MarkedUncertainSound DEF IInv, TypeOK
<1>3. /\ mail' = n /\ dmail' = n
      /\ stopped' = dstopped /\ dstopped' = dstopped
      /\ op' = Idle /\ snap' = EmptyMail /\ mon' = MonIdle
      /\ UNCHANGED <<alive, receipts, seen>>
      /\ Undecided(lost) /\ Disturb
  BY DEF Crash, Save, tmux
<1>. HIDE DEF n, lost
<1>4. op' \in OpRecord /\ op'.pc = "idle"
  BY <1>3, HolderType DEF Idle
<1>5. retry' \in [CallId -> {"none", "moved", "audited"}]
  BY <1>3, UndecidedType DEF IInv
<1>6. mon' \in [busy : BOOLEAN, todo : SUBSET CallId,
                toPending : SUBSET CallId, toUncertain : SUBSET CallId]
  BY <1>3 DEF MonIdle
<1>7. TypeOK'
  BY <1>2, <1>3, <1>4, <1>5, <1>6, BudgetType, EmptySound DEF IInv, TypeOK, OpRecord
<1>8. PumpHolds' /\ RetryHolds' /\ MonitorHolds'
  BY <1>3, <1>4, NothingHeld DEF MonitorHolds, MonIdle
<1>. QED
  BY <1>2, <1>3, <1>7, <1>8 DEF IInv, Owed

-----------------------------------------------------------------------------
(* Every step pays what it owes. *)
LEMMA StepOwed == IInv /\ [Next]_vars => Owed
<1>. SUFFICES ASSUME IInv, [Next]_vars PROVE Owed
  OBVIOUS
<1>1. CASE \E c \in CallId : StageFollowup(c) \/ RetryStart(c)
  BY <1>1, StageFollowupStep, RetryStartStep
<1>2. CASE \E c \in CallId, p \in Payload : SendMessage(c, p)
  BY <1>2, SendMessageStep
<1>3. CASE PumpStart
  BY <1>3, PumpStartStep
<1>4. CASE Pump
  <2>1. CASE \E c \in CallId : Claim(c)
    BY <2>1, ClaimStep
  <2>2. CASE PumpEnds
    BY <2>2, PumpEndsStep
  <2>3. CASE SeatMismatch
    BY <2>3, UncertainStep DEF SeatMismatch
  <2>4. CASE PreSendFails
    BY <2>4, PreSendFailsStep
  <2>5. CASE SeatReady
    BY <2>5, SeatReadyStep
  <2>6. CASE Paste
    BY <2>6, PasteStep
  <2>7. CASE SubmitVerified
    BY <2>7, SubmitVerifiedStep
  <2>8. CASE SendRaises
    BY <2>8, UncertainStep DEF SendRaises
  <2>. QED
    BY <1>4, <2>1, <2>2, <2>3, <2>4, <2>5, <2>6, <2>7, <2>8 DEF Pump
<1>5. CASE Monitor
  BY <1>5, RefreshStatusStep, ExpireLeasesStep, ReconcileStartStep, QueryStep,
     ReconcileApplyStep DEF Monitor
<1>6. CASE \E C \in SUBSET CallId : Report(C)
  BY <1>6, ReportStep
<1>7. CASE RetryGoesOn
  <2>1. CASE RetryMove
    BY <2>1, RetryMoveStep
  <2>2. CASE RetryRefused
    BY <2>2, ReleasedStep DEF RetryRefused
  <2>3. CASE RetryAudited
    BY <2>3, RetryAuditedStep
  <2>4. CASE RetryAuditFails
    BY <2>4, CompensateStep DEF RetryAuditFails
  <2>5. CASE NudgeFails
    BY <2>5, CompensateStep DEF NudgeFails
  <2>6. CASE Nudged
    BY <2>6, ReleasedStep DEF Nudged
  <2>. QED
    BY <1>7, <2>1, <2>2, <2>3, <2>4, <2>5, <2>6 DEF RetryGoesOn
<1>8. CASE TmuxDies \/ TmuxRecreated
  BY <1>8, TmuxStep
<1>9. CASE Crash
  BY <1>9, CrashStep
<1>10. CASE UNCHANGED vars
  <2>1. TypeOK'
    BY <1>10 DEF vars, IInv, TypeOK
  <2>2. UNCHANGED <<mail, dmail, op, snap, mon>>
    BY <1>10 DEF vars
  <2>3. PumpHolds' /\ RetryHolds' /\ MonitorHolds'
    BY <2>2, StillHeld, MonitorStillHeld DEF IInv
  <2>. QED
    BY <2>1, <2>2, <2>3 DEF IInv, Owed
<1>. QED
  BY <1>1, <1>2, <1>3, <1>4, <1>5, <1>6, <1>7, <1>8, <1>9, <1>10 DEF Next

(* The inductive invariant of the Terminal outbox: memory, file and the    *)
(* copy held by a retry are sound, and pump, retry and monitor go on with  *)
(* call_ids that are still what they took them for.                        *)
THEOREM TerminalInvariant == Spec => []IInv
<1>1. IInv /\ [Next]_vars => IInv'
  BY StepOwed DEF Owed
<1>. QED
  BY InitIInv, <1>1, PTL DEF Spec

(* Type correctness of the Terminal outbox, its coroutines and tmux.       *)
THEOREM TypeCorrect == Spec => []TypeOK
<1>1. IInv => TypeOK
  BY DEF IInv
<1>. QED
  BY TerminalInvariant, <1>1, PTL

(* An admitted call_id stays in a list of the session, in memory and in    *)
(* the state file, nothing else gets into one, and undelivered input keeps *)
(* the envelope it was admitted with, whatever the monitor did meanwhile.  *)
THEOREM NothingForgotten == Spec => []NeverForgotten
<1>1. IInv => NeverForgotten
  BY DEF IInv, Sound, Known, NeverForgotten
<1>. QED
  BY TerminalInvariant, <1>1, PTL

(* Uncertain input can always pass the Task gate of the operator's retry.  *)
THEOREM UncertainRetryable == Spec => []UncertainIsMirrored
<1>1. IInv => UncertainIsMirrored
  BY DEF IInv, Sound, UncertainIsMirrored
<1>. QED
  BY TerminalInvariant, <1>1, PTL

(* No step takes a call_id out of delivered: not a retry that writes back  *)
(* what it read before its await, not the monitor, and not a restart.      *)
THEOREM DeliveredForGood == Spec => DeliveredIsFinal
<1>1. IInv /\ [Next]_vars => [mail.s.delivered \subseteq mail'.s.delivered]_vars
  BY StepOwed DEF Owed
<1>. QED
  BY TerminalInvariant, <1>1, PTL DEF Spec, DeliveredIsFinal

(* What the worker has acknowledged is not pasted any more.                *)
THEOREM DeliveredNotPasted == Spec => NoPasteAfterDelivered
<1>1. IInv /\ [Next]_vars
        => [receipts' # receipts /\ op.pc = "paste" => op.call \notin mail.s.delivered]_vars
  BY DEF IInv, PumpHolds
<1>. QED
  BY TerminalInvariant, <1>1, PTL DEF Spec, NoPasteAfterDelivered
=============================================================================
