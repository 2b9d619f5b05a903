------------------------- MODULE ChatDelivery_proofs -------------------------
(***************************************************************************)
(* Machine-checked proofs about ChatDelivery, for every set of call_ids,   *)
(* payloads and every Budget.                                              *)
(*                                                                         *)
(* The state-to-state functions of DeliveryState come first: each keeps a  *)
(* copy of the bookkeeping well typed and Consistent.  The invariance of   *)
(* SafeState then needs, action by action, only the guard that entitles    *)
(* the action to use its function.                                         *)
(***************************************************************************)
EXTENDS ChatDelivery, TLAPS

(* The sending of a new call_id keeps the bookkeeping consistent, as long  *)
(* as the call_id was never used: the fingerprint check of send_message.   *)
LEMMA AdmittedOK ==
    ASSUME NEW m \in Mail, NEW S \in SUBSET CallId, Consistent(m, S),
           NEW c \in CallId, NEW p \in Payload, m.fp[c] = NoPayload
    PROVE  Admitted(m, c, p) \in Mail /\ Consistent(Admitted(m, c, p), S)
<1>1. Admitted(m, c, p) \in Mail
  BY DEF Admitted, Mail, Lists
<1>2. c \notin Listed(m.s)
  BY DEF Consistent
<1>. DEFINE n == Admitted(m, c, p)
<1>3. /\ n.s = [m.s EXCEPT !.pending = @ \cup {c}]
      /\ n.t = m.t
      /\ n.body = [m.body EXCEPT ![c] = p]
      /\ n.fp = [m.fp EXCEPT ![c] = p]
  BY DEF Admitted, Mail, Lists
<1>4. Consistent(n, S)
  BY <1>2, <1>3, NoPayloadAssumption
  DEF Consistent, Mail, Lists, Disjoint, Open, Listed
<1>. QED
  BY <1>1, <1>4

(* Staging a followup touches the Task alone. *)
LEMMA StagedOK ==
    ASSUME NEW m \in Mail, NEW S \in SUBSET CallId, Consistent(m, S),
           NEW c \in CallId
    PROVE  Staged(m, c) \in Mail /\ Consistent(Staged(m, c), S)
<1>. DEFINE n == Staged(m, c)
<1>1. n \in Mail
  BY DEF Staged, Mail, Lists
<1>2. /\ n.s = m.s /\ n.body = m.body /\ n.fp = m.fp
      /\ n.t = [m.t EXCEPT !.pending = @ \cup {c}]
  BY DEF Staged, Mail, Lists
<1>3. Consistent(n, S)
  BY <1>2 DEF Consistent, Mail, Lists, Disjoint, Open, Listed
<1>. QED
  BY <1>1, <1>3

(* Claiming takes a call_id without evidence, since it is pending. *)
LEMMA ClaimedOK ==
    ASSUME NEW m \in Mail, NEW S \in SUBSET CallId, Consistent(m, S),
           NEW c \in m.s.pending
    PROVE  Claimed(m, c) \in Mail /\ Consistent(Claimed(m, c), S)
<1>. DEFINE n == Claimed(m, c)
<1>0. c \in CallId
  BY DEF Mail, Lists
<1>1. n \in Mail
  <2>. DEFINE s == [m.s EXCEPT !.pending = @ \ {c}, !.processing = @ \cup {c}]
              t == [m.t EXCEPT !.pending = @ \ {c}, !.processing = @ \cup ({c} \cap m.t.pending)]
  <2>1. s \in Lists
    BY <1>0 DEF Mail, Lists
  <2>2. t \in Lists
    BY <1>0 DEF Mail, Lists
  <2>3. n = [m EXCEPT !.s = s, !.t = t]
    BY DEF Claimed, Mail, Lists
  <2>. HIDE DEF s, t, n
  <2>. QED
    BY <2>1, <2>2, <2>3 DEF Mail
<1>2. /\ n.s = [m.s EXCEPT !.pending = @ \ {c}, !.processing = @ \cup {c}]
      /\ n.t.uncertain = m.t.uncertain
      /\ n.body = m.body /\ n.fp = m.fp
  BY DEF Claimed, Mail, Lists
<1>3. Consistent(n, S)
  BY <1>0, <1>2 DEF Consistent, Mail, Lists, Disjoint, Open, Listed
<1>. QED
  BY <1>1, <1>3

(* The rollback is sound for call_ids without evidence only. *)
LEMMA RolledBackOK ==
    ASSUME NEW m \in Mail, NEW S \in SUBSET CallId, Consistent(m, S),
           NEW C \in SUBSET CallId, C \cap S = {}
    PROVE  RolledBack(m, C) \in Mail /\ Consistent(RolledBack(m, C), S)
<1>. DEFINE n == RolledBack(m, C)
<1>1. n \in Mail
  BY DEF RolledBack, Mail, Lists
<1>2. /\ n.s = [m.s EXCEPT !.processing = @ \ C, !.pending = @ \cup (C \cap m.s.processing)]
      /\ n.t.uncertain = m.t.uncertain
      /\ n.body = m.body /\ n.fp = m.fp
  BY DEF RolledBack, Mail, Lists
<1>3. Consistent(n, S)
  BY <1>2 DEF Consistent, Mail, Lists, Disjoint, Open, Listed
<1>. QED
  BY <1>1, <1>3

(* MarkedUncertain adds whatever it is given, so its callers must give it  *)
(* call_ids that are in flight.                                            *)
LEMMA MarkedUncertainOK ==
    ASSUME NEW m \in Mail, NEW S \in SUBSET CallId, Consistent(m, S),
           NEW C \in SUBSET m.s.processing
    PROVE  MarkedUncertain(m, C) \in Mail /\ Consistent(MarkedUncertain(m, C), S)
<1>. DEFINE n == MarkedUncertain(m, C)
<1>0. C \subseteq CallId
  BY DEF Mail, Lists
<1>1. n \in Mail
  BY <1>0 DEF MarkedUncertain, Mail, Lists
<1>2. /\ n.s = [m.s EXCEPT !.processing = @ \ C, !.uncertain = @ \cup C]
      /\ n.t.uncertain = m.t.uncertain \cup C
      /\ n.body = m.body /\ n.fp = m.fp
  BY DEF MarkedUncertain, Mail, Lists
<1>3. Consistent(n, S)
  BY <1>0, <1>2 DEF Consistent, Mail, Lists, Disjoint, Open, Listed
<1>. QED
  BY <1>1, <1>3

(* A retry sends an uncertain call_id again only without evidence. *)
LEMMA RetriedUnsentOK ==
    ASSUME NEW m \in Mail, NEW S \in SUBSET CallId, Consistent(m, S),
           NEW c \in m.s.uncertain, c \notin S
    PROVE  RetriedUnsent(m, c) \in Mail /\ Consistent(RetriedUnsent(m, c), S)
<1>. DEFINE n == RetriedUnsent(m, c)
<1>0. c \in CallId
  BY DEF Mail, Lists
<1>1. n \in Mail
  <2>. DEFINE s == [m.s EXCEPT !.uncertain = @ \ {c}, !.pending = @ \cup {c}]
              t == [m.t EXCEPT !.uncertain = @ \ {c}, !.pending = @ \cup {c}]
  <2>1. s \in Lists
    BY <1>0 DEF Mail, Lists
  <2>2. t \in Lists
    BY <1>0 DEF Mail, Lists
  <2>3. n = [m EXCEPT !.s = s, !.t = t]
    BY DEF RetriedUnsent, Mail, Lists
  <2>. HIDE DEF s, t, n
  <2>. QED
    BY <2>1, <2>2, <2>3 DEF Mail
<1>2. /\ n.s = [m.s EXCEPT !.uncertain = @ \ {c}, !.pending = @ \cup {c}]
      /\ n.t.uncertain = m.t.uncertain \ {c}
      /\ n.body = m.body /\ n.fp = m.fp
  BY DEF RetriedUnsent, Mail, Lists
<1>3. Consistent(n, S)
  BY <1>0, <1>2 DEF Consistent, Mail, Lists, Disjoint, Open, Listed
<1>. QED
  BY <1>1, <1>3

(* A retry of what the agent has puts the call_id in flight again. *)
LEMMA RetriedAcceptedOK ==
    ASSUME NEW m \in Mail, NEW S \in SUBSET CallId, Consistent(m, S),
           NEW c \in m.s.uncertain
    PROVE  RetriedAccepted(m, c) \in Mail /\ Consistent(RetriedAccepted(m, c), S)
<1>. DEFINE n == RetriedAccepted(m, c)
<1>0. c \in CallId
  BY DEF Mail, Lists
<1>1. n \in Mail
  <2>. DEFINE s == [m.s EXCEPT !.uncertain = @ \ {c}, !.processing = @ \cup {c}]
              t == [m.t EXCEPT !.uncertain = @ \ {c}, !.processing = @ \cup {c}]
  <2>1. s \in Lists
    BY <1>0 DEF Mail, Lists
  <2>2. t \in Lists
    BY <1>0 DEF Mail, Lists
  <2>3. n = [m EXCEPT !.s = s, !.t = t]
    BY DEF RetriedAccepted, Mail, Lists
  <2>. HIDE DEF s, t, n
  <2>. QED
    BY <2>1, <2>2, <2>3 DEF Mail
<1>2. /\ n.s = [m.s EXCEPT !.uncertain = @ \ {c}, !.processing = @ \cup {c}]
      /\ n.t.uncertain = m.t.uncertain \ {c}
      /\ n.body = m.body /\ n.fp = m.fp
  BY DEF RetriedAccepted, Mail, Lists
<1>3. Consistent(n, S)
  BY <1>0, <1>2 DEF Consistent, Mail, Lists, Disjoint, Open, Listed
<1>. QED
  BY <1>1, <1>3

(* The compensation of a retry finds the call_id where the retry put it. *)
LEMMA CompensatedOK ==
    ASSUME NEW m \in Mail, NEW S \in SUBSET CallId, Consistent(m, S),
           NEW c \in m.s.pending \cup m.s.processing
    PROVE  Compensated(m, c) \in Mail /\ Consistent(Compensated(m, c), S)
<1>. DEFINE n == Compensated(m, c)
<1>0. c \in CallId
  BY DEF Mail, Lists
<1>1. n \in Mail
  <2>. DEFINE s == [m.s EXCEPT !.pending = @ \ {c}, !.processing = @ \ {c},
                           !.uncertain = @ \cup {c}]
              t == [m.t EXCEPT !.pending = @ \ {c}, !.processing = @ \ {c},
                           !.uncertain = @ \cup {c}]
  <2>1. s \in Lists
    BY <1>0 DEF Mail, Lists
  <2>2. t \in Lists
    BY <1>0 DEF Mail, Lists
  <2>3. n = [m EXCEPT !.s = s, !.t = t]
    BY DEF Compensated, Mail, Lists
  <2>. HIDE DEF s, t, n
  <2>. QED
    BY <2>1, <2>2, <2>3 DEF Mail
<1>2. /\ n.s = [m.s EXCEPT !.pending = @ \ {c}, !.processing = @ \ {c}, !.uncertain = @ \cup {c}]
      /\ n.t.uncertain = m.t.uncertain \cup {c}
      /\ n.body = m.body /\ n.fp = m.fp
  BY DEF Compensated, Mail, Lists
<1>3. Consistent(n, S)
  BY <1>0, <1>2 DEF Consistent, Mail, Lists, Disjoint, Open, Listed
<1>. QED
  BY <1>1, <1>3

(* An acknowledgement takes the same call_ids out of uncertain on both     *)
(* sides, and drops only envelopes that are not open any more.             *)
LEMMA AckedOK ==
    ASSUME NEW m \in Mail, NEW S \in SUBSET CallId, Consistent(m, S),
           NEW C \in SUBSET CallId
    PROVE  Acked(m, C) \in Mail /\ Consistent(Acked(m, C), S)
<1>. DEFINE V == Verified(m, C)
            n == Acked(m, C)
<1>0. V \subseteq CallId
  BY DEF Verified
<1>1. AckedLists(m.s, V) \in Lists /\ AckedLists(m.t, V) \in Lists
  BY <1>0 DEF AckedLists, Mail, Lists, Open
<1>2. /\ n.s = AckedLists(m.s, V) /\ n.t = AckedLists(m.t, V) /\ n.fp = m.fp
      /\ n.body \in [CallId -> Payload \cup {NoPayload}]
      /\ \A d \in CallId \ V : n.body[d] = m.body[d]
      /\ n.body = m.body \/ n.body = [d \in CallId |-> IF d \in V THEN NoPayload ELSE m.body[d]]
  BY <1>0 DEF Acked, Mail
<1>3. n \in Mail
  BY <1>1, <1>2 DEF Acked, Mail
<1>4. Consistent(n, S)
  <2>1. Disjoint(n.s) /\ Listed(n.s) = Listed(m.s) /\ Open(n.s) = Open(m.s) \ V
    BY <1>0, <1>2 DEF AckedLists, Consistent, Disjoint, Open, Listed, Mail, Lists
  <2>2. n.s.uncertain \subseteq n.t.uncertain /\ n.s.pending \subseteq m.s.pending
    BY <1>2 DEF AckedLists, Consistent
  <2>3. \A d \in Open(n.s) : n.body[d] = n.fp[d]
    BY <1>2, <2>1 DEF Consistent, Open, Mail, Lists
  <2>. QED
    BY <1>2, <2>1, <2>2, <2>3 DEF Consistent
<1>. QED
  BY <1>3, <1>4

-----------------------------------------------------------------------------
(* How the two copies stay consistent when a step saves, commits or raises. *)

(* A save that raises leaves the old copy on disk, one that succeeds the   *)
(* new one: either is consistent with the evidence.                        *)
LEMMA SaveOrFailOK ==
    ASSUME NEW S, budget \in 0 .. Budget,
           dmail \in Mail, dmode \in Mode, Consistent(dmail, S),
           mail' \in Mail, mode' \in Mode, Consistent(mail', S),
           SaveOrFail \/ (Save /\ UNCHANGED budget) \/ ((Save \/ UNCHANGED disk) /\ Disturb)
    PROVE  /\ dmail' \in Mail /\ dmode' \in Mode /\ Consistent(dmail', S)
           /\ budget' \in 0 .. Budget
<1>1. budget' \in 0 .. Budget
  BY ChatAssumption DEF SaveOrFail, Disturb
<1>2. CASE dmail' = mail' /\ dmode' = mode'
  BY <1>1, <1>2
<1>3. CASE dmail' = dmail /\ dmode' = dmode
  BY <1>1, <1>3
<1>. QED
  BY <1>2, <1>3 DEF SaveOrFail, Save, disk

(* A transaction that raises after the file was replaced leaves memory     *)
(* behind the disk: both are consistent.                                   *)
LEMMA TransactionOK ==
    ASSUME NEW S, NEW m \in Mail, Consistent(m, S), budget \in 0 .. Budget,
           mail \in Mail, mode \in Mode, Consistent(mail, S),
           Commit(m) \/ Torn(m)
    PROVE  /\ mail' \in Mail /\ Consistent(mail', S) /\ mode' = mode
           /\ dmail' \in Mail /\ dmode' \in Mode /\ Consistent(dmail', S)
           /\ budget' \in 0 .. Budget
<1>1. CASE Commit(m)
  BY <1>1 DEF Commit, Save
<1>2. CASE Torn(m)
  BY <1>2, ChatAssumption DEF Torn, Disturb, hub
<1>. QED
  BY <1>1, <1>2

(* Nothing is in flight while the pump lock is free. *)
LEMMA IdleInFlight ==
    ASSUME op' = Idle PROVE InFlight'
BY DEF InFlight, Idle

(* The initial state is safe. *)
LEMMA SafeInit == Init => SafeState
<1>. SUFFICES ASSUME Init PROVE SafeState
  OBVIOUS
<1>. USE DEF Init
<1>1. EmptyMail \in Mail
  BY DEF EmptyMail, EmptyLists, Mail, Lists
<1>2. TypeOK
  BY <1>1, ChatAssumption DEF TypeOK, Mode, Evidence, Idle
<1>3. Consistent(EmptyMail, Sent)
  BY DEF Consistent, EmptyMail, EmptyLists, Disjoint, Open, Listed, Sent
<1>4. InFlight
  BY DEF InFlight, Idle
<1>. QED
  BY <1>2, <1>3, <1>4 DEF SafeState

-----------------------------------------------------------------------------
(* The parts of SafeState that a step with unchanged evidence has to show. *)
Kept ==
    /\ mail' \in Mail /\ mode' \in Mode /\ Consistent(mail', Sent)
    /\ dmail' \in Mail /\ dmode' \in Mode /\ Consistent(dmail', Sent)
    /\ budget' \in 0 .. Budget
    /\ retry' \in [CallId -> {"none", "moved", "audited"}]
    /\ turn' \in CallId \cup {NoCall, HumanTurn}
    /\ UNCHANGED <<evidence, given>>

(* Such a step is safe when it leaves the pump lock free ...               *)
LEMMA KeptIdle ==
    ASSUME SafeState, Kept, op' = Idle PROVE SafeState'
<1>1. Sent' = Sent
  BY DEF Kept, Sent
<1>2. TypeOK'
  BY DEF SafeState, TypeOK, Kept
<1>3. InFlight'
  BY IdleInFlight
<1>4. (\A c \in CallId : given[c] <= 1 /\ (evidence[c] = "none" => given[c] = 0))'
  BY DEF SafeState, Kept
<1>. QED
  BY <1>1, <1>2, <1>3, <1>4 DEF SafeState, Kept

(* ... or keeps what the holder of the lock relies on.                     *)
LEMMA KeptBusy ==
    ASSUME SafeState, Kept, op' \in {Idle} \cup [pc : AwaitPoint, call : CallId], InFlight'
    PROVE  SafeState'
<1>1. Sent' = Sent
  BY DEF Kept, Sent
<1>2. TypeOK'
  BY DEF SafeState, TypeOK, Kept
<1>4. (\A c \in CallId : given[c] <= 1 /\ (evidence[c] = "none" => given[c] = 0))'
  BY DEF SafeState, Kept
<1>. QED
  BY <1>1, <1>2, <1>4 DEF SafeState, Kept

(* Undecided only ever resets the retry marks. *)
LEMMA UndecidedOK ==
    ASSUME TypeOK, NEW C \in SUBSET CallId, Undecided(C)
    PROVE  retry' \in [CallId -> {"none", "moved", "audited"}]
BY DEF TypeOK, Undecided

(* Producers: they run while nothing is in flight. *)
LEMMA StageFollowupSafe ==
    ASSUME SafeState, NEW c \in CallId, StageFollowup(c) PROVE SafeState'
<1>. USE DEF SafeState, TypeOK
<1>1. Staged(mail, c) \in Mail /\ Consistent(Staged(mail, c), Sent)
  BY StagedOK DEF Sent
<1>2. Kept /\ op' = Idle
  BY <1>1, TransactionOK DEF StageFollowup, Kept, LockFree
<1>. QED
  BY <1>2, KeptIdle

(* A new call_id is admitted while nothing is in flight. *)
LEMMA SendMessageSafe ==
    ASSUME SafeState, NEW c \in CallId, NEW p \in Payload, SendMessage(c, p)
    PROVE  SafeState'
<1>. USE DEF SafeState, TypeOK
<1>1. mail' \in Mail /\ Consistent(mail', Sent)
  BY AdmittedOK DEF SendMessage, Sent
<1>2. Kept /\ op' = Idle
  BY <1>1, SaveOrFailOK DEF SendMessage, Kept, LockFree
<1>. QED
  BY <1>2, KeptIdle

(* The pump claims a pending call_id: no evidence, not taken, and nothing  *)
(* uncertain in the way.                                                   *)
LEMMA ClaimSafe ==
    ASSUME SafeState, NEW c \in CallId, Claim(c) PROVE SafeState'
<1>. USE DEF SafeState, TypeOK
<1>1. c \in mail.s.pending /\ c \notin Sent
  BY DEF Claim, Consistent, Mail, Lists
<1>2. Claimed(mail, c) \in Mail /\ Consistent(Claimed(mail, c), Sent)
  BY <1>1, ClaimedOK DEF Sent
<1>3. Kept
  BY <1>2, TransactionOK DEF Claim, Kept
<1>4. CASE Torn(Claimed(mail, c)) /\ op' = Idle
  BY <1>3, <1>4, KeptIdle
<1>5. CASE Commit(Claimed(mail, c)) /\ op' = At("ready", c)
  <2>1. mail' = Claimed(mail, c) /\ dmail' = mail' /\ mode' = "live" /\ evidence' = evidence
    BY <1>5 DEF Claim, Commit, Save, MayPump
  <2>2. /\ Claimed(mail, c).s.processing = mail.s.processing \cup {c}
        /\ Claimed(mail, c).s.uncertain = mail.s.uncertain
    BY DEF Claimed, Mail, Lists
  <2>3. mail.s.uncertain = {} /\ evidence[c] = "none"
    BY <1>1 DEF Claim, MayPump, Sent
  <2>4. op'.pc = "ready" /\ op'.call = c
    BY <1>5 DEF At
  <2>5. InFlight'
    BY <2>1, <2>2, <2>3, <2>4 DEF InFlight
  <2>. QED
    BY <1>3, <1>5, <2>5, KeptBusy DEF At, AwaitPoint
<1>. QED
  BY <1>4, <1>5 DEF Claim, LockFree

(* The steps of a handoff that end it: by then the call_id is in flight in *)
(* memory, and what goes back to pending has no evidence.                  *)
LEMMA HandoffEndsSafe ==
    ASSUME SafeState, SeatMismatch \/ RollBack \/ FailClosed
    PROVE  SafeState'
<1>. USE DEF SafeState, TypeOK
<1>0. op \in [pc : AwaitPoint, call : CallId] /\ op.call \in mail.s.processing
  BY DEF SeatMismatch, RollBack, FailClosed, InFlight, Idle
<1>1. CASE SeatMismatch \/ FailClosed
  <2>1. mail' \in Mail /\ Consistent(mail', Sent)
    BY <1>0, <1>1, MarkedUncertainOK DEF SeatMismatch, FailClosed, Sent
  <2>2. retry' \in [CallId -> {"none", "moved", "audited"}]
    BY <1>0, <1>1, UndecidedOK DEF SeatMismatch, FailClosed
  <2>3. Kept /\ op' = Idle
    BY <1>1, <2>1, <2>2, SaveOrFailOK DEF SeatMismatch, FailClosed, Kept
  <2>. QED
    BY <2>3, KeptIdle
<1>2. CASE RollBack
  <2>1. {op.call} \cap mail.s.processing \in SUBSET CallId
    BY <1>0
  <2>2. ({op.call} \cap mail.s.processing) \cap Sent = {}
    BY <1>0, <1>2 DEF RollBack, InFlight, Sent
  <2>3. mail' \in Mail /\ Consistent(mail', Sent)
    BY <1>2, <2>1, <2>2, RolledBackOK DEF RollBack, Sent
  <2>4. Kept /\ op' = Idle
    BY <1>2, <2>3, SaveOrFailOK DEF RollBack, Kept
  <2>. QED
    BY <2>4, KeptIdle
<1>. QED
  BY <1>1, <1>2

(* The steps of a handoff that only touch the sidecar and the provider.    *)
LEMMA HandoffGoesOnSafe ==
    ASSUME SafeState,
           \/ PreSendFails \/ BeginHandoff \/ ProviderTakes
           \/ NotSubmitted \/ HandoffRaises \/ Accepted
    PROVE  SafeState'
<1>. USE DEF SafeState, TypeOK
<1>0. /\ op \in [pc : AwaitPoint, call : CallId]
      /\ op.call \in mail.s.processing \cap dmail.s.processing
      /\ mode = "live" /\ mail.s.uncertain = {}
  BY DEF PreSendFails, BeginHandoff, ProviderTakes, NotSubmitted, HandoffRaises, Accepted,
         InFlight, Idle
<1>1. /\ mail' = mail /\ mode' = mode /\ dmail' = dmail /\ dmode' = dmode /\ retry' = retry
      /\ budget' \in 0 .. Budget
  BY ChatAssumption
  DEF PreSendFails, BeginHandoff, ProviderTakes, NotSubmitted, HandoffRaises, Accepted,
      hub, disk, Disturb
<1>2. /\ evidence' \in [CallId -> Evidence]
      /\ \A c \in CallId : c # op.call => evidence'[c] = evidence[c]
  BY <1>0
  DEF PreSendFails, BeginHandoff, ProviderTakes, NotSubmitted, HandoffRaises, Accepted, Evidence
<1>3. /\ given' \in [CallId -> Nat] /\ turn' \in CallId \cup {NoCall, HumanTurn}
      /\ op' \in {Idle} \cup [pc : AwaitPoint, call : CallId]
  BY <1>0
  DEF PreSendFails, BeginHandoff, ProviderTakes, NotSubmitted, HandoffRaises, Accepted,
      At, AwaitPoint
<1>4. Consistent(mail, Sent') /\ Consistent(dmail, Sent')
  BY <1>0, <1>2 DEF Consistent, Sent, Disjoint, Open, Listed, Mail, Lists
<1>5. (\A c \in CallId : given[c] <= 1 /\ (evidence[c] = "none" => given[c] = 0))'
  <2>1. CASE PreSendFails
    BY <2>1 DEF PreSendFails
  <2>2. CASE BeginHandoff
    BY <1>0, <2>2 DEF BeginHandoff
  <2>3. CASE ProviderTakes
    BY <1>0, <2>3 DEF ProviderTakes, InFlight
  <2>4. CASE NotSubmitted
    BY <1>0, <2>4 DEF NotSubmitted, InFlight
  <2>5. CASE HandoffRaises
    BY <1>0, <2>5 DEF HandoffRaises
  <2>6. CASE Accepted
    BY <1>0, <2>6 DEF Accepted
  <2>. QED
    BY <2>1, <2>2, <2>3, <2>4, <2>5, <2>6
<1>6. InFlight'
  <2>1. CASE PreSendFails
    BY <1>0, <1>1, <2>1 DEF PreSendFails, InFlight, At
  <2>2. CASE BeginHandoff
    BY <1>0, <1>1, <2>2 DEF BeginHandoff, InFlight, At
  <2>3. CASE ProviderTakes
    BY <1>0, <1>1, <2>3 DEF ProviderTakes, InFlight, At
  <2>4. CASE NotSubmitted
    BY <1>0, <1>1, <2>4 DEF NotSubmitted, InFlight, At
  <2>5. CASE HandoffRaises
    BY <1>0, <1>1, <2>5 DEF HandoffRaises, InFlight, At
  <2>6. CASE Accepted
    BY <2>6, IdleInFlight DEF Accepted
  <2>. QED
    BY <2>1, <2>2, <2>3, <2>4, <2>5, <2>6
<1>. QED
  BY <1>1, <1>2, <1>3, <1>4, <1>5, <1>6

(* Reconciliation returns to pending exactly what has no evidence, and     *)
(* lease expiry finds an archived session, whose pump holds nothing.       *)
LEMMA MonitorSafe ==
    ASSUME SafeState, NEW C \in SUBSET CallId, NEW readable \in BOOLEAN,
           Reconcile(readable) \/ ExpireLeases(C)
    PROVE  SafeState'
<1>. USE DEF SafeState, TypeOK
<1>1. CASE Reconcile(readable)
  <2>. DEFINE verdict(c) == IF readable THEN DeliveryStateOf(c) ELSE "uncertain"
              unsent     == {c \in mail.s.processing : verdict(c) = "not_sent"}
              unknown    == {c \in mail.s.processing : verdict(c) \notin {"not_sent", "accepted"}}
              m          == RolledBack(mail, unsent)
  <2>1. unsent \in SUBSET CallId /\ unknown \in SUBSET CallId /\ unknown \cap unsent = {}
    BY DEF Mail, Lists
  <2>2. unsent \cap Sent = {}
    BY DEF DeliveryStateOf, Sent, Evidence
  <2>3. m \in Mail /\ Consistent(m, Sent)
    BY <2>1, <2>2, RolledBackOK DEF Sent
  <2>4. m.s.processing = mail.s.processing \ unsent
    BY DEF RolledBack, Mail, Lists
  <2>5. unknown \in SUBSET m.s.processing
    BY <2>1, <2>4
  <2>6. MarkedUncertain(m, unknown) \in Mail /\ Consistent(MarkedUncertain(m, unknown), Sent)
    BY <2>3, <2>5, MarkedUncertainOK DEF Sent
  <2>7. mail' \in {m, MarkedUncertain(m, unknown)}
    BY <1>1 DEF Reconcile
  <2>8. mail' \in Mail /\ Consistent(mail', Sent)
    BY <2>3, <2>6, <2>7
  <2>9. Undecided(unknown) \/ UNCHANGED retry
    BY <1>1 DEF Reconcile
  <2>10. retry' \in [CallId -> {"none", "moved", "audited"}]
    BY <2>1, <2>9, UndecidedOK
  <2>11. /\ mode' = mode /\ UNCHANGED <<evidence, turn, given>>
         /\ UNCHANGED budget \/ Disturb
         /\ dmail' \in {mail', m, dmail} /\ dmode' \in {mode, dmode}
    BY <1>1 DEF Reconcile, Save, disk
  <2>12. op' = Idle
    BY <1>1 DEF Reconcile, LockFree
  <2>13. Kept
    BY <2>3, <2>8, <2>10, <2>11, ChatAssumption DEF Kept, Disturb
  <2>. QED
    BY <2>12, <2>13, KeptIdle
<1>2. CASE ExpireLeases(C)
  <2>1. mail' \in Mail /\ Consistent(mail', Sent)
    BY <1>2, MarkedUncertainOK DEF ExpireLeases, Sent
  <2>2. retry' \in [CallId -> {"none", "moved", "audited"}]
    BY <1>2, UndecidedOK DEF ExpireLeases
  <2>3. Kept
    BY <1>2, <2>1, <2>2, SaveOrFailOK DEF ExpireLeases, Kept
  <2>4. op' = op /\ op = Idle
    BY <1>2 DEF ExpireLeases, Yielded, InFlight, AwaitPoint
  <2>. QED
    BY <2>3, <2>4, KeptIdle
<1>. QED
  BY <1>1, <1>2

(* A report holds the pump lock, so no handoff is under way. *)
LEMMA ReportSafe ==
    ASSUME SafeState, NEW C \in SUBSET CallId, Report(C) PROVE SafeState'
<1>. USE DEF SafeState, TypeOK
<1>. DEFINE acked == Acked(mail, C \cup (CallId \ Followup))
<1>1. acked \in Mail /\ Consistent(acked, Sent)
  BY AckedOK DEF Sent
<1>2. Commit(acked) \/ Torn(acked)
  BY DEF Report
<1>3. /\ mail' \in Mail /\ Consistent(mail', Sent) /\ mode' = mode
      /\ dmail' \in Mail /\ dmode' \in Mode /\ Consistent(dmail', Sent)
      /\ budget' \in 0 .. Budget
  BY <1>1, <1>2, TransactionOK
<1>4. Kept /\ op' = Idle
  BY <1>3 DEF Report, LockFree, Kept
<1>. QED
  BY <1>4, KeptIdle

(* Turns start and end outside the mailbox. *)
LEMMA TurnsSafe ==
    ASSUME SafeState, TurnEnds \/ HumanStartsTurn PROVE SafeState'
<1>. USE DEF SafeState, TypeOK
<1>1. Kept /\ UNCHANGED <<mail, mode, dmail, op, retry>>
  BY ChatAssumption DEF TurnEnds, HumanStartsTurn, Kept, hub, disk, Disturb
<1>2. InFlight'
  BY <1>1 DEF InFlight, Kept
<1>. QED
  BY <1>1, <1>2, KeptBusy

(* The operator's retry decides by evidence; nothing runs between its move *)
(* and its audit event, so the compensation finds what the move left.      *)
LEMMA RetrySafe ==
    ASSUME SafeState, NEW c \in CallId, Retry(c) \/ RetryAudited \/ RetryAuditFails
    PROVE  SafeState'
<1>. USE DEF SafeState, TypeOK
<1>1. CASE Retry(c)
  <2>1. c \in mail.s.uncertain
    BY <1>1 DEF Retry, MayRetry
  <2>2. /\ mail' \in Mail /\ Consistent(mail', Sent)
        /\ c \in mail'.s.pending \cup mail'.s.processing
    <3>1. CASE DeliveryStateOf(c) = "not_sent" /\ mail' = RetriedUnsent(mail, c)
      <4>1. c \notin Sent
        BY <3>1 DEF DeliveryStateOf, Sent, Evidence
      <4>2. c \in RetriedUnsent(mail, c).s.pending
        BY DEF RetriedUnsent, Mail, Lists
      <4>. QED
        BY <2>1, <3>1, <4>1, <4>2, RetriedUnsentOK DEF Sent
    <3>2. CASE DeliveryStateOf(c) = "accepted" /\ mail' = RetriedAccepted(mail, c)
      <4>1. c \in RetriedAccepted(mail, c).s.processing
        BY DEF RetriedAccepted, Mail, Lists
      <4>. QED
        BY <2>1, <3>2, <4>1, RetriedAcceptedOK DEF Sent
    <3>. QED
      BY <1>1, <3>1, <3>2 DEF Retry
  <2>5. Kept
    BY <1>1, <2>2, ChatAssumption DEF Retry, Kept, Save, Disturb, disk
  <2>6. CASE op' = At("audit", c)
    <3>1. op'.pc = "audit" /\ op'.call = c
      BY <2>6 DEF At
    <3>2. InFlight'
      BY <1>1, <2>2, <3>1 DEF InFlight, Retry
    <3>. QED
      BY <2>5, <2>6, <3>2, KeptBusy DEF At, AwaitPoint
  <2>7. CASE op' = Idle
    BY <2>5, <2>7, KeptIdle
  <2>. QED
    BY <1>1, <2>6, <2>7 DEF Retry
<1>2. CASE RetryAudited
  <2>1. Kept /\ op' = Idle
    BY <1>2 DEF RetryAudited, Kept, hub, disk
  <2>. QED
    BY <2>1, KeptIdle
<1>3. CASE RetryAuditFails
  <2>1. op.call \in mail.s.pending \cup mail.s.processing
    BY <1>3 DEF RetryAuditFails, InFlight
  <2>2. mail' \in Mail /\ Consistent(mail', Sent)
    BY <1>3, <2>1, CompensatedOK DEF RetryAuditFails, Sent
  <2>3. Kept /\ op' = Idle
    BY <1>3, <2>2, SaveOrFailOK DEF RetryAuditFails, Kept
  <2>. QED
    BY <2>3, KeptIdle
<1>. QED
  BY <1>1, <1>2, <1>3

(* The operator's other commands need the pump lock. *)
LEMMA OperatorSafe ==
    ASSUME SafeState, Pause \/ Resume \/ Archive \/ Unarchive PROVE SafeState'
<1>. USE DEF SafeState, TypeOK
<1>1. Kept /\ op' = Idle
  BY SaveOrFailOK DEF Pause, Resume, Archive, Unarchive, LockFree, Kept, Mode
<1>. QED
  BY <1>1, KeptIdle

(* A restart reloads a consistent copy; a call_id with evidence keeps it.  *)
LEMMA CrashSafe ==
    ASSUME SafeState, Crash PROVE SafeState'
<1>. USE DEF SafeState, TypeOK
<1>1. evidence' \in [CallId -> Evidence] /\ Sent' = Sent
      /\ \A c \in CallId : evidence'[c] = "none" <=> evidence[c] = "none"
  BY DEF Crash, Sent, Evidence
<1>2. dmail.s.processing \in SUBSET dmail.s.processing /\ dmail.s.processing \in SUBSET CallId
  BY DEF Mail, Lists
<1>3. mail' \in Mail /\ Consistent(mail', Sent)
  BY <1>2, MarkedUncertainOK DEF Crash, Sent
<1>4. dmail' = mail' /\ mode' \in Mode /\ dmode' = mode' /\ op' = Idle
      /\ UNCHANGED <<turn, given>>
  BY DEF Crash, Save
<1>5. retry' \in [CallId -> {"none", "moved", "audited"}] /\ budget' \in 0 .. Budget
  BY <1>2, UndecidedOK, ChatAssumption DEF Crash, Disturb
<1>6. InFlight'
  BY <1>4, IdleInFlight
<1>. QED
  BY <1>1, <1>3, <1>4, <1>5, <1>6

-----------------------------------------------------------------------------
(* Every step of the specification keeps SafeState. *)
LEMMA SafeNext == SafeState /\ [Next]_vars => SafeState'
<1>. SUFFICES ASSUME SafeState, [Next]_vars PROVE SafeState'
  OBVIOUS
<1>1. CASE \E c \in CallId : StageFollowup(c) \/ Claim(c) \/ Retry(c)
  BY <1>1, StageFollowupSafe, ClaimSafe, RetrySafe
<1>2. CASE \E c \in CallId, p \in Payload : SendMessage(c, p)
  BY <1>2, SendMessageSafe
<1>3. CASE Handoff
  BY <1>3, HandoffEndsSafe, HandoffGoesOnSafe DEF Handoff
<1>4. CASE \E readable \in BOOLEAN : Reconcile(readable)
  BY <1>4, MonitorSafe
<1>5. CASE \E C \in SUBSET CallId : ExpireLeases(C) \/ Report(C)
  BY <1>5, MonitorSafe, ReportSafe
<1>6. CASE TurnEnds \/ HumanStartsTurn
  BY <1>6, TurnsSafe
<1>7. CASE RetryAudited \/ RetryAuditFails
  <2>1. op.call \in CallId
    BY <1>7 DEF RetryAudited, RetryAuditFails, SafeState, TypeOK, Idle
  <2>. QED
    BY <1>7, <2>1, RetrySafe
<1>8. CASE Pause \/ Resume \/ Archive \/ Unarchive
  BY <1>8, OperatorSafe
<1>9. CASE Crash
  BY <1>9, CrashSafe
<1>10. CASE UNCHANGED vars
  BY <1>10
  DEF vars, SafeState, TypeOK, Consistent, Sent, InFlight, Disjoint, Open, Listed
<1>. QED
  BY <1>1, <1>2, <1>3, <1>4, <1>5, <1>6, <1>7, <1>8, <1>9, <1>10 DEF Next

-----------------------------------------------------------------------------
(* The theorems. *)

(* In every reachable state memory and state file are consistent with the  *)
(* handoff evidence and with what the holder of the pump lock assumes.     *)
THEOREM SafeStateInvariant == Spec => []SafeState
BY SafeInit, SafeNext, PTL DEF Spec

(* Type correctness of the specification. *)
THEOREM TypeCorrect == Spec => []TypeOK
<1>1. SafeState => TypeOK
  BY DEF SafeState
<1>. QED
  BY <1>1, SafeStateInvariant, PTL

(* A call_id is in at most one of the four lists of the session, in memory *)
(* and in the state file, whatever pump, reconciliation, expiry, reports,  *)
(* retries and crashes do.                                                 *)
THEOREM OneState == Spec => []ExactlyOneState
<1>1. SafeState => ExactlyOneState
  BY DEF SafeState, Consistent, ExactlyOneState
<1>. QED
  BY <1>1, SafeStateInvariant, PTL

(* What the pump may send (again), now or after a restart, was never taken *)
(* by the provider and has no handoff evidence.                            *)
THEOREM PendingUnsent == Spec => []PendingIsUnsent
<1>1. SafeState => PendingIsUnsent
  BY DEF SafeState, TypeOK, Consistent, PendingIsUnsent, Sent, Mail, Lists
<1>. QED
  BY <1>1, SafeStateInvariant, PTL

(* The provider takes every call_id at most once, over all crashes,        *)
(* failures and operator retries.                                          *)
THEOREM AtMostOnce == Spec => []GivenAtMostOnce
<1>1. SafeState => GivenAtMostOnce
  BY DEF SafeState, GivenAtMostOnce
<1>. QED
  BY <1>1, SafeStateInvariant, PTL

(* What is not delivered yet can be resent with its original payload, and  *)
(* what is uncertain passes the Task gate of the operator's retry.         *)
THEOREM RecoverableInput == Spec => [](EnvelopeKept /\ UncertainIsMirrored)
<1>1. SafeState => EnvelopeKept /\ UncertainIsMirrored
  BY DEF SafeState, Consistent, EnvelopeKept, UncertainIsMirrored, Listed
<1>. QED
  BY <1>1, SafeStateInvariant, PTL

(* The gate the pump read several awaits earlier still holds when the      *)
(* provider takes the input.                                               *)
THEOREM ClearHandoff == Spec => HandoffOnlyWhenClear
<1>1. SafeState /\ [Next]_vars =>
        [given' # given => mode = "live" /\ mail.s.uncertain = {} /\ turn = NoCall]_vars
  <2>. SUFFICES ASSUME SafeState, [Next]_vars, given' # given
                PROVE  mode = "live" /\ mail.s.uncertain = {} /\ turn = NoCall
    OBVIOUS
  <2>1. ProviderTakes
    BY DEF Next, vars, Handoff, StageFollowup, Claim, Retry, SendMessage, SeatMismatch,
           PreSendFails, BeginHandoff, NotSubmitted, HandoffRaises, Accepted, RollBack,
           FailClosed, Reconcile, ExpireLeases, Report, TurnEnds, HumanStartsTurn,
           RetryAudited, RetryAuditFails, Pause, Resume, Archive, Unarchive, Crash
  <2>. QED
    BY <2>1 DEF ProviderTakes, SafeState, InFlight
<1>. QED
  BY <1>1, SafeStateInvariant, PTL DEF Spec, HandoffOnlyWhenClear
=============================================================================
