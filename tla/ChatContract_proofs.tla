------------------------- MODULE ChatContract_proofs -------------------------
(***************************************************************************)
(* ChatDelivery implements DeliveryContract, for every value of the        *)
(* constants.                                                              *)
(*                                                                         *)
(* The argument has three parts.  Every step of the hub moves the          *)
(* call_ids of the session only along the edges the contract allows        *)
(* (Moves).  The state file is never further away from memory than the     *)
(* contract lets a restart find it (Lags, an invariant of its own).  And   *)
(* the provider takes only call_ids in flight that it never took before    *)
(* (SafeState, proved in ChatDelivery_proofs).                             *)
(***************************************************************************)
EXTENDS ChatDelivery_proofs

Authorised == {c \in CallId : retry[c] # "none"}

(* The lists L of a session may become the lists M, A being authorised. *)
Moves(L, M, A) ==
    /\ L.delivered \subseteq M.delivered
    /\ L.uncertain \subseteq M.uncertain \cup M.delivered
                             \cup (A \cap (M.pending \cup M.processing))
    /\ L.pending \cup L.processing \subseteq Listed(M)
    /\ Listed(M) \subseteq Listed(L) \cup M.pending

(* The lists D on disk are what a restart may find when memory holds L. *)
Lags(L, D) ==
    /\ L.delivered \subseteq D.delivered
    /\ L.processing \cup L.uncertain \subseteq D.processing \cup D.uncertain \cup D.delivered
    /\ Listed(D) \subseteq Listed(L)

MailLags == Lags(mail.s, dmail.s)

-----------------------------------------------------------------------------
(* In disjoint lists the state of a call_id is the list it is in. *)
LEMMA StateOfIs ==
    ASSUME NEW L \in Lists, Disjoint(L), NEW c \in CallId
    PROVE  /\ StateOf(L, c) \in {"absent", "pending", "processing", "uncertain", "delivered"}
           /\ StateOf(L, c) = "pending"    <=> c \in L.pending
           /\ StateOf(L, c) = "processing" <=> c \in L.processing
           /\ StateOf(L, c) = "uncertain"  <=> c \in L.uncertain
           /\ StateOf(L, c) = "delivered"  <=> c \in L.delivered
           /\ StateOf(L, c) = "absent"     <=> c \notin Listed(L)
BY DEF StateOf, Disjoint, Listed, Open

(* Moves is a move of the contract for every call_id. *)
LEMMA MovesAllowed ==
    ASSUME NEW L \in Lists, NEW M \in Lists, Disjoint(L), Disjoint(M), NEW A,
           Moves(L, M, A), NEW c \in CallId
    PROVE  StateOf(M, c) \in Contract!Successors(StateOf(L, c), c \in A)
<1>1. CASE c \notin Listed(L)
  <2>1. StateOf(L, c) = "absent" /\ StateOf(M, c) \in {"absent", "pending"}
    BY <1>1, StateOfIs DEF Moves, Listed, Open
  <2>. QED
    BY <2>1 DEF Contract!Successors
<1>2. CASE c \in L.pending
  <2>1. StateOf(L, c) = "pending" /\ StateOf(M, c) \in {"pending", "processing", "uncertain", "delivered"}
    BY <1>2, StateOfIs DEF Moves
  <2>. QED
    BY <2>1 DEF Contract!Successors
<1>3. CASE c \in L.processing
  <2>1. StateOf(L, c) = "processing" /\ StateOf(M, c) \in {"pending", "processing", "uncertain", "delivered"}
    BY <1>3, StateOfIs DEF Moves
  <2>. QED
    BY <2>1 DEF Contract!Successors
<1>4. CASE c \in L.uncertain
  <2>1. StateOf(L, c) = "uncertain"
    BY <1>4, StateOfIs
  <2>2. CASE c \in M.uncertain \cup M.delivered
    <3>1. StateOf(M, c) \in {"uncertain", "delivered"}
      BY <2>2, StateOfIs
    <3>. QED
      BY <2>1, <3>1 DEF Contract!Successors
  <2>3. CASE c \in A /\ c \in M.pending \cup M.processing
    <3>1. StateOf(M, c) \in {"pending", "processing"}
      BY <2>3, StateOfIs
    <3>. QED
      BY <2>1, <2>3, <3>1 DEF Contract!Successors
  <2>. QED
    BY <1>4, <2>2, <2>3 DEF Moves
<1>5. CASE c \in L.delivered
  <2>1. StateOf(L, c) = "delivered" /\ StateOf(M, c) = "delivered"
    BY <1>5, StateOfIs DEF Moves
  <2>. QED
    BY <2>1 DEF Contract!Successors
<1>. QED
  BY <1>1, <1>2, <1>3, <1>4, <1>5 DEF Listed, Open

(* What a restart loads is a restart state of the contract, also when what *)
(* was in flight (X) is made uncertain on the way.                         *)
LEMMA RestartAllowed ==
    ASSUME NEW L \in Lists, NEW D \in Lists, NEW M \in Lists,
           Disjoint(L), Disjoint(D), Disjoint(M), Lags(L, D),
           M.pending = D.pending, M.delivered = D.delivered, Listed(M) = Listed(D),
           NEW c \in CallId
    PROVE  StateOf(M, c) \in Contract!RestartStates(StateOf(L, c))
<1>1. CASE c \notin Listed(L)
  <2>1. StateOf(L, c) = "absent" /\ StateOf(M, c) = "absent"
    BY <1>1, StateOfIs DEF Lags
  <2>. QED
    BY <2>1 DEF Contract!RestartStates
<1>2. CASE c \in L.pending
  BY <1>2, StateOfIs DEF Contract!RestartStates
<1>3. CASE c \in L.processing
  <2>1. c \in M.processing \cup M.uncertain \cup M.delivered
    BY <1>3 DEF Lags, Disjoint, Listed, Open
  <2>2. StateOf(L, c) = "processing" /\ StateOf(M, c) \in {"processing", "uncertain", "delivered"}
    BY <1>3, <2>1, StateOfIs
  <2>. QED
    BY <2>2 DEF Contract!RestartStates
<1>4. CASE c \in L.uncertain
  <2>1. c \in M.processing \cup M.uncertain \cup M.delivered
    BY <1>4 DEF Lags, Disjoint, Listed, Open
  <2>2. StateOf(L, c) = "uncertain" /\ StateOf(M, c) \in {"processing", "uncertain", "delivered"}
    BY <1>4, <2>1, StateOfIs
  <2>. QED
    BY <2>2 DEF Contract!RestartStates
<1>5. CASE c \in L.delivered
  <2>1. StateOf(L, c) = "delivered" /\ StateOf(M, c) = "delivered"
    BY <1>5, StateOfIs DEF Lags
  <2>. QED
    BY <2>1 DEF Contract!RestartStates
<1>. QED
  BY <1>1, <1>2, <1>3, <1>4, <1>5 DEF Listed, Open

-----------------------------------------------------------------------------
(* An acknowledgement only delivers what was open. *)
LEMMA ListsAcked ==
    ASSUME NEW m \in Mail, NEW C \in SUBSET CallId, Disjoint(m.s)
    PROVE  /\ Moves(m.s, Acked(m, C).s, {})
           /\ Lags(m.s, Acked(m, C).s)
<1>. DEFINE V == Verified(m, C)
<1>1. Acked(m, C).s = AckedLists(m.s, V)
  BY DEF Acked, Mail
<1>. QED
  BY <1>1 DEF AckedLists, Moves, Lags, Disjoint, Listed, Open, Mail, Lists

(* Steps that leave the session's lists alone, or save what they changed.  *)
LEMMA LagsSame ==
    ASSUME NEW L PROVE Lags(L, L)
BY DEF Lags

LEMMA MovesSame ==
    ASSUME NEW L, NEW A PROVE Moves(L, L, A)
BY DEF Moves, Listed, Open

(* A transaction that raises leaves memory where it was. *)
LEMMA TransactionMoves ==
    ASSUME NEW m \in Mail, NEW A, Commit(m) \/ Torn(m), MailLags,
           Moves(mail.s, m.s, A), Lags(mail.s, m.s)
    PROVE  Moves(mail.s, mail'.s, A) /\ MailLags'
<1>1. CASE Commit(m)
  BY <1>1, LagsSame DEF Commit, Save, MailLags
<1>2. CASE Torn(m)
  BY <1>2, MovesSame DEF Torn, hub, MailLags
<1>. QED
  BY <1>1, <1>2

(* The steps of the running hub: all but the provider's and the restart.   *)
LEMMA HubSteps ==
    ASSUME SafeState, MailLags, Next, ~ProviderTakes, ~Crash
    PROVE  Moves(mail.s, mail'.s, Authorised') /\ MailLags'
<1>. USE DEF SafeState, TypeOK
<1>0. mail.s \in Lists /\ Disjoint(mail.s)
  BY DEF Mail, Consistent
<1>. DEFINE A == Authorised'
<1>1. ASSUME NEW c \in CallId, StageFollowup(c)
      PROVE  Moves(mail.s, mail'.s, A) /\ MailLags'
  <2>1. Staged(mail, c) \in Mail
    BY StagedOK DEF Sent
  <2>2. Staged(mail, c).s = mail.s
    BY DEF Staged, Mail
  <2>. QED
    BY <1>1, <2>1, <2>2, MovesSame, LagsSame, TransactionMoves DEF StageFollowup
<1>2. ASSUME NEW c \in CallId, Claim(c)
      PROVE  Moves(mail.s, mail'.s, A) /\ MailLags'
  <2>1. Claimed(mail, c) \in Mail /\ c \in mail.s.pending
    BY <1>2, ClaimedOK DEF Claim, Sent
  <2>2. Claimed(mail, c).s = [mail.s EXCEPT !.pending = @ \ {c}, !.processing = @ \cup {c}]
    BY DEF Claimed, Mail, Lists
  <2>3. Moves(mail.s, Claimed(mail, c).s, A) /\ Lags(mail.s, Claimed(mail, c).s)
    BY <1>0, <2>1, <2>2 DEF Moves, Lags, Disjoint, Listed, Open, Lists
  <2>. QED
    BY <1>2, <2>1, <2>3, TransactionMoves DEF Claim
<1>3. ASSUME NEW c \in CallId, Retry(c)
      PROVE  Moves(mail.s, mail'.s, A) /\ MailLags'
  <2>1. c \in A /\ c \in mail.s.uncertain
    BY <1>3 DEF Retry, Authorised, MayRetry
  <2>2. \/ mail'.s = [mail.s EXCEPT !.uncertain = @ \ {c}, !.pending = @ \cup {c}]
        \/ mail'.s = [mail.s EXCEPT !.uncertain = @ \ {c}, !.processing = @ \cup {c}]
    <3>1. /\ RetriedUnsent(mail, c).s = [mail.s EXCEPT !.uncertain = @ \ {c}, !.pending = @ \cup {c}]
          /\ RetriedAccepted(mail, c).s = [mail.s EXCEPT !.uncertain = @ \ {c}, !.processing = @ \cup {c}]
      BY DEF RetriedUnsent, RetriedAccepted, Mail, Lists
    <3>. QED
      BY <1>3, <3>1 DEF Retry
  <2>. HIDE DEF A
  <2>3. ASSUME mail'.s = [mail.s EXCEPT !.uncertain = @ \ {c}, !.pending = @ \cup {c}]
        PROVE  Moves(mail.s, mail'.s, A) /\ Lags(mail'.s, dmail.s)
    <3>1. Moves(mail.s, mail'.s, A)
      BY <1>0, <2>1, <2>3 DEF Moves, Listed, Open, Lists
    <3>2. Lags(mail'.s, dmail.s)
      BY <1>0, <2>1, <2>3 DEF MailLags, Lags, Listed, Open, Lists
    <3>. QED
      BY <3>1, <3>2
  <2>4. ASSUME mail'.s = [mail.s EXCEPT !.uncertain = @ \ {c}, !.processing = @ \cup {c}]
        PROVE  Moves(mail.s, mail'.s, A) /\ Lags(mail'.s, dmail.s)
    <3>1. Moves(mail.s, mail'.s, A)
      BY <1>0, <2>1, <2>4 DEF Moves, Listed, Open, Lists
    <3>2. Lags(mail'.s, dmail.s)
      BY <1>0, <2>1, <2>4 DEF MailLags, Lags, Listed, Open, Lists
    <3>. QED
      BY <3>1, <3>2
  <2>5. dmail' = mail' \/ dmail' = dmail
    BY <1>3 DEF Retry, Save, disk
  <2>6. Moves(mail.s, mail'.s, A) /\ Lags(mail'.s, dmail.s)
    BY <2>2, <2>3, <2>4
  <2>. QED
    BY <2>5, <2>6, LagsSame DEF MailLags
<1>4. ASSUME NEW c \in CallId, NEW p \in Payload, SendMessage(c, p)
      PROVE  Moves(mail.s, mail'.s, A) /\ MailLags'
  <2>1. c \notin Listed(mail.s)
    BY <1>4 DEF SendMessage, Consistent
  <2>2. mail'.s = [mail.s EXCEPT !.pending = @ \cup {c}]
    BY <1>4 DEF SendMessage, Admitted, Mail, Lists
  <2>3. Moves(mail.s, mail'.s, A) /\ Lags(mail'.s, dmail.s)
    BY <1>0, <2>2 DEF MailLags, Moves, Lags, Listed, Open, Lists
  <2>4. dmail' = mail' \/ dmail' = dmail
    BY <1>4 DEF SendMessage, SaveOrFail, Save, disk
  <2>. QED
    BY <2>3, <2>4, LagsSame DEF MailLags
<1>5. ASSUME SeatMismatch \/ FailClosed
      PROVE  Moves(mail.s, mail'.s, A) /\ MailLags'
  <2>1. op.call \in mail.s.processing
    BY <1>5 DEF SeatMismatch, FailClosed, InFlight
  <2>2. mail' = MarkedUncertain(mail, {op.call})
    BY <1>5 DEF SeatMismatch, FailClosed
  <2>3. mail'.s = [mail.s EXCEPT !.processing = @ \ {op.call}, !.uncertain = @ \cup {op.call}]
    BY <2>2 DEF MarkedUncertain, Mail, Lists
  <2>4. Moves(mail.s, mail'.s, A) /\ Lags(mail'.s, dmail.s)
    BY <1>0, <2>1, <2>3 DEF MailLags, Moves, Lags, Listed, Open, Lists
  <2>5. dmail' = mail' \/ dmail' = dmail
    BY <1>5 DEF SeatMismatch, FailClosed, SaveOrFail, Save, disk
  <2>. QED
    BY <2>4, <2>5, LagsSame DEF MailLags
<1>6. ASSUME RollBack
      PROVE  Moves(mail.s, mail'.s, A) /\ MailLags'
  <2>. DEFINE C == {op.call} \cap mail.s.processing
  <2>1. mail'.s = [mail.s EXCEPT !.processing = @ \ C, !.pending = @ \cup (C \cap mail.s.processing)]
    BY <1>6 DEF RollBack, RolledBack, Mail, Lists
  <2>2. Moves(mail.s, mail'.s, A) /\ Lags(mail'.s, dmail.s)
    BY <1>0, <2>1 DEF MailLags, Moves, Lags, Listed, Open, Lists
  <2>3. dmail' = mail' \/ dmail' = dmail
    BY <1>6 DEF RollBack, SaveOrFail, Save, disk
  <2>. QED
    BY <2>2, <2>3, LagsSame DEF MailLags
<1>7. ASSUME NEW readable \in BOOLEAN, Reconcile(readable)
      PROVE  Moves(mail.s, mail'.s, A) /\ MailLags'
  <2>. DEFINE verdict(c) == IF readable THEN DeliveryStateOf(c) ELSE "uncertain"
              unsent     == {c \in mail.s.processing : verdict(c) = "not_sent"}
              unknown    == {c \in mail.s.processing : verdict(c) \notin {"not_sent", "accepted"}}
              m          == RolledBack(mail, unsent)
  <2>. HIDE DEF verdict
  <2>1. m.s = [mail.s EXCEPT !.processing = @ \ unsent, !.pending = @ \cup (unsent \cap mail.s.processing)]
    BY DEF RolledBack, Mail, Lists
  <2>2. MarkedUncertain(m, unknown).s = [m.s EXCEPT !.processing = @ \ unknown, !.uncertain = @ \cup unknown]
    BY DEF MarkedUncertain, RolledBack, Mail, Lists
  <2>3. mail' \in {m, MarkedUncertain(m, unknown)} /\ dmail' \in {mail', m, dmail}
    BY <1>7, ZenonT(60) DEF Reconcile, Save, disk, verdict
  <2>. HIDE DEF m
  <2>4. Moves(mail.s, m.s, A)
    BY <1>0, <2>1 DEF Moves, Listed, Open, Lists
  <2>5. unknown \subseteq m.s.processing
    BY <1>0, <2>1 DEF Lists
  <2>6. m.s \in Lists
    <3>1. unsent \in SUBSET mail.s.processing
      OBVIOUS
    <3>. HIDE DEF unsent, unknown
    <3>2. mail.s.processing \ unsent \in SUBSET CallId
      BY <1>0 DEF Lists
    <3>3. mail.s.pending \cup (unsent \cap mail.s.processing) \in SUBSET CallId
      BY <1>0 DEF Lists
    <3>. QED
      BY <1>0, <2>1, <3>2, <3>3 DEF Lists
  <2>7. m.s.delivered = mail.s.delivered /\ m.s.uncertain = mail.s.uncertain
    BY <1>0, <2>1 DEF Lists
  <2>8. Moves(mail.s, MarkedUncertain(m, unknown).s, A)
    <3>. DEFINE N == MarkedUncertain(m, unknown).s
    <3>1. /\ N.pending = m.s.pending /\ N.delivered = m.s.delivered
          /\ N.processing = m.s.processing \ unknown
          /\ N.uncertain = m.s.uncertain \cup unknown
      BY <2>2, <2>6 DEF Lists
    <3>. HIDE DEF N, unknown, unsent, A
    <3>2. Listed(N) = Listed(m.s)
      BY <2>5, <3>1 DEF Listed, Open
    <3>3. Moves(mail.s, N, A)
      BY <2>4, <2>7, <3>1, <3>2 DEF Moves
    <3>. QED
      BY <3>3 DEF N
  <2>9. Lags(m.s, dmail.s)
    BY <1>0, <2>1 DEF MailLags, Lags, Listed, Open, Lists
  <2>10. /\ Lags(MarkedUncertain(m, unknown).s, dmail.s)
         /\ Lags(MarkedUncertain(m, unknown).s, m.s)
    <3>. DEFINE N == MarkedUncertain(m, unknown).s
    <3>1. /\ N.pending = m.s.pending /\ N.delivered = m.s.delivered
          /\ N.processing = m.s.processing \ unknown
          /\ N.uncertain = m.s.uncertain \cup unknown
      BY <2>2, <2>6 DEF Lists
    <3>. HIDE DEF N, unknown, unsent, A
    <3>2. Lags(N, dmail.s) /\ Lags(N, m.s)
      BY <2>5, <2>9, <3>1 DEF Lags, Listed, Open
    <3>. QED
      BY <3>2 DEF N
  <2>11. Lags(mail'.s, dmail'.s)
    BY <2>3, <2>9, <2>10, LagsSame
  <2>. QED
    BY <2>3, <2>4, <2>8, <2>11 DEF MailLags
<1>8. ASSUME NEW C \in SUBSET CallId, ExpireLeases(C)
      PROVE  Moves(mail.s, mail'.s, A) /\ MailLags'
  <2>1. mail'.s = [mail.s EXCEPT !.processing = @ \ C, !.uncertain = @ \cup C]
    BY <1>8 DEF ExpireLeases, MarkedUncertain, Mail, Lists
  <2>2. C \subseteq mail.s.processing
    BY <1>8 DEF ExpireLeases
  <2>3. Moves(mail.s, mail'.s, A) /\ Lags(mail'.s, dmail.s)
    BY <1>0, <2>1, <2>2 DEF MailLags, Moves, Lags, Listed, Open, Lists
  <2>4. dmail' = mail' \/ dmail' = dmail
    BY <1>8 DEF ExpireLeases, SaveOrFail, Save, disk
  <2>. QED
    BY <2>3, <2>4, LagsSame DEF MailLags
<1>9. ASSUME NEW C \in SUBSET CallId, Report(C)
      PROVE  Moves(mail.s, mail'.s, A) /\ MailLags'
  <2>. DEFINE D == C \cup (CallId \ Followup)
  <2>1. Acked(mail, D) \in Mail
    BY AckedOK DEF Sent
  <2>2. Moves(mail.s, Acked(mail, D).s, {}) /\ Lags(mail.s, Acked(mail, D).s)
    BY <1>0, ListsAcked
  <2>3. Moves(mail.s, Acked(mail, D).s, A)
    BY <2>2 DEF Moves
  <2>4. Commit(Acked(mail, D)) \/ Torn(Acked(mail, D))
    BY <1>9 DEF Report
  <2>. QED
    BY <2>1, <2>2, <2>3, <2>4, TransactionMoves
<1>10. ASSUME RetryAuditFails
       PROVE  Moves(mail.s, mail'.s, A) /\ MailLags'
  <2>1. op.call \in mail.s.pending \cup mail.s.processing
    BY <1>10 DEF RetryAuditFails, InFlight
  <2>2. mail'.s = [mail.s EXCEPT !.pending = @ \ {op.call}, !.processing = @ \ {op.call},
                                 !.uncertain = @ \cup {op.call}]
    BY <1>10 DEF RetryAuditFails, Compensated, Mail, Lists
  <2>3. Moves(mail.s, mail'.s, A)
    BY <1>0, <2>1, <2>2 DEF Moves, Listed, Open, Lists
  <2>. QED
    BY <1>10, <2>3, LagsSame DEF RetryAuditFails, Save, MailLags
<1>11. ASSUME \/ PreSendFails \/ BeginHandoff \/ NotSubmitted \/ HandoffRaises \/ Accepted
              \/ TurnEnds \/ HumanStartsTurn \/ RetryAudited
       PROVE  Moves(mail.s, mail'.s, A) /\ MailLags'
  <2>1. mail' = mail /\ dmail' = dmail
    BY <1>11 DEF PreSendFails, BeginHandoff, NotSubmitted, HandoffRaises, Accepted,
                 TurnEnds, HumanStartsTurn, RetryAudited, hub, disk
  <2>. QED
    BY <2>1, MovesSame DEF MailLags
<1>12. ASSUME Pause \/ Resume \/ Archive \/ Unarchive
       PROVE  Moves(mail.s, mail'.s, A) /\ MailLags'
  <2>1. mail' = mail /\ dmail' = mail'
    BY <1>12 DEF Pause, Resume, Archive, Unarchive, Save
  <2>. QED
    BY <2>1, MovesSame, LagsSame DEF MailLags
<1>. QED
  BY <1>1, <1>2, <1>3, <1>4, <1>5, <1>6, <1>7, <1>8, <1>9, <1>10, <1>11, <1>12
  DEF Next, Handoff

-----------------------------------------------------------------------------
(* The state file never lags further behind than the contract allows. *)
LEMMA LagsNext ==
    ASSUME SafeState, MailLags, [Next]_vars PROVE MailLags'
<1>1. CASE ProviderTakes
  BY <1>1 DEF ProviderTakes, hub, disk, MailLags
<1>2. CASE Crash
  BY <1>2, LagsSame DEF Crash, Save, MailLags
<1>3. CASE UNCHANGED vars
  BY <1>3 DEF vars, MailLags
<1>. QED
  BY <1>1, <1>2, <1>3, HubSteps

(* Steps of the hub are moves of the contract, or restarts or handovers.   *)
LEMMA StepImplements ==
    ASSUME SafeState, SafeState', MailLags, [Next]_vars
    PROVE  [Contract!CNext]_(Contract!cvars)
<1>. USE DEF SafeState, TypeOK
<1>. DEFINE st     == [c \in CallId |-> StateOf(mail.s, c)]
            handed == {c \in CallId : given[c] > 0}
<1>0. /\ mail.s \in Lists /\ Disjoint(mail.s) /\ mail'.s \in Lists /\ Disjoint(mail'.s)
      /\ dmail.s \in Lists /\ Disjoint(dmail.s)
  BY DEF Mail, Consistent
<1>1. st' \in [CallId -> {"absent", "pending", "processing", "uncertain", "delivered"}]
  BY <1>0, StateOfIs
<1>2. \A c \in CallId : st'[c] = "pending" => c \notin handed'
  <2>. SUFFICES ASSUME NEW c \in CallId, st'[c] = "pending" PROVE given'[c] = 0
    BY DEF handed
  <2>1. c \in mail'.s.pending
    BY <1>0, StateOfIs
  <2>. QED
    BY <2>1 DEF Consistent, Sent
<1>3. CASE ProviderTakes
  <2>1. op.call \in CallId /\ op.call \in mail.s.processing /\ given[op.call] = 0
    BY <1>3 DEF ProviderTakes, InFlight, Mail, Lists
  <2>2. st[op.call] = "processing" /\ op.call \notin handed
    BY <1>0, <2>1, StateOfIs
  <2>3. handed' = handed \cup {op.call}
    BY <1>3, <2>1 DEF ProviderTakes
  <2>4. st' = st /\ Authorised' = Authorised
    BY <1>3 DEF ProviderTakes, hub, Authorised
  <2>5. Contract!CNext
    BY <2>1, <2>2, <2>3, <2>4 DEF Contract!CNext, Contract!HandOver, Authorised
  <2>. QED
    BY <2>5
<1>4. CASE Crash
  <2>1. /\ mail'.s.pending = dmail.s.pending /\ mail'.s.delivered = dmail.s.delivered
        /\ Listed(mail'.s) = Listed(dmail.s)
    <3>1. MarkedUncertain(dmail, dmail.s.processing).s =
            [dmail.s EXCEPT !.processing = {}, !.uncertain = @ \cup dmail.s.processing]
      <4>1. dmail.s.processing \ dmail.s.processing = {}
        OBVIOUS
      <4>. QED
        BY <4>1 DEF MarkedUncertain, Mail, Lists
    <3>. QED
      BY <1>0, <1>4, <3>1, ZenonT(60) DEF Crash, Listed, Open, Lists
  <2>2. \A c \in CallId : st'[c] \in Contract!RestartStates(st[c])
    BY <1>0, <2>1, RestartAllowed DEF MailLags
  <2>3. handed' = handed
    BY <1>4 DEF Crash
  <2>4. Authorised' \subseteq Authorised
    BY <1>4 DEF Crash, Undecided, Authorised
  <2>5. Contract!Restart
    BY <1>1, <1>2, <2>2, <2>3, <2>4 DEF Contract!Restart, Contract!CallState, Authorised
  <2>. QED
    BY <2>5 DEF Contract!CNext
<1>5. CASE Next /\ ~ProviderTakes /\ ~Crash
  <2>1. Moves(mail.s, mail'.s, Authorised')
    BY <1>5, HubSteps
  <2>2. \A c \in CallId : st'[c] \in Contract!Successors(st[c], c \in Authorised')
    BY <1>0, <2>1, MovesAllowed
  <2>3. given' = given
    BY <1>5
    DEF Next, Handoff, StageFollowup, Claim, Retry, SendMessage, SeatMismatch,
        PreSendFails, BeginHandoff, NotSubmitted, HandoffRaises, Accepted, RollBack,
        FailClosed, Reconcile, ExpireLeases, Report, TurnEnds, HumanStartsTurn,
        RetryAudited, RetryAuditFails, Pause, Resume, Archive, Unarchive
  <2>4. \A c \in Authorised' \ Authorised : st[c] = "uncertain"
    <3>. SUFFICES ASSUME NEW c \in CallId, retry[c] = "none", retry'[c] # "none"
                  PROVE  c \in mail.s.uncertain
      BY <1>0, StateOfIs DEF Authorised
    <3>1. (\E d \in CallId : Retry(d)) \/ RetryAudited
      BY <1>5
      DEF Next, Handoff, StageFollowup, Claim, SendMessage, SeatMismatch,
          PreSendFails, BeginHandoff, NotSubmitted, HandoffRaises, Accepted, RollBack,
          FailClosed, Reconcile, ExpireLeases, Report, TurnEnds, HumanStartsTurn,
          RetryAuditFails, Pause, Resume, Archive, Unarchive, Undecided
    <3>. QED
      BY <3>1 DEF Retry, RetryAudited, MayRetry, InFlight
  <2>. QED
    BY <1>1, <1>2, <2>2, <2>3, <2>4
    DEF Contract!CNext, Contract!Move, Contract!CallState, Authorised
<1>6. CASE UNCHANGED vars
  BY <1>6 DEF vars, Contract!cvars
<1>. QED
  BY <1>3, <1>4, <1>5, <1>6

(* The outbox of a Chat session keeps the contract: one state per call_id, *)
(* at most one handover, which is never undone, delivered for ever, and no *)
(* way out of uncertain without the operator or the worker.                *)
THEOREM ChatImplementsContract == Spec => ImplementsContract
<1>1. Init => Contract!CInit /\ MailLags
  <2>. SUFFICES ASSUME Init PROVE Contract!CInit /\ MailLags
    OBVIOUS
  <2>1. \A c \in CallId : StateOf(mail.s, c) = "absent"
    BY DEF Init, EmptyMail, EmptyLists, StateOf
  <2>2. MailLags
    BY LagsSame DEF Init, MailLags
  <2>. QED
    BY <2>1, <2>2 DEF Init, Contract!CInit
<1>2. SafeState /\ MailLags /\ [Next]_vars => MailLags'
  BY LagsNext
<1>3. SafeState /\ SafeState' /\ MailLags /\ [Next]_vars => [Contract!CNext]_(Contract!cvars)
  BY StepImplements
<1>. QED
  BY <1>1, <1>2, <1>3, SafeStateInvariant, PTL DEF Spec, ImplementsContract, Contract!CSpec
=============================================================================
