---------------------------- MODULE DeliveryState ----------------------------
(***************************************************************************)
(* The durable bookkeeping of one managed session's message outbox and of  *)
(* the mirror kept on the Task the session is bound to.                    *)
(*                                                                         *)
(* A call_id names one message.  ManagedSession keeps four lists of        *)
(* call_ids (pending, processing, uncertain, delivered), the stored        *)
(* envelope of every message that is not delivered yet (pending_messages   *)
(* and pending_attachments) and the fingerprint of the payload the call_id *)
(* was first used with.  WorkspaceTask keeps the same four lists.  This    *)
(* module holds the state-to-state functions that the pump, the report     *)
(* intake, the recovery and the operator retry all build on; the modules   *)
(* that EXTEND it say who calls them, when, and under which lock.          *)
(*                                                                         *)
(* Abstractions: a list of call_ids is a set (its order is left open, so   *)
(* every order the code can use is covered); a message with its            *)
(* attachments is a member of Payload, and its fingerprint is the payload. *)
(***************************************************************************)
EXTENDS Naturals, FiniteSets

CONSTANTS
    CallId,     \* call_ids used with this session
    Payload,    \* message bodies with their attachments
    NoPayload,  \* no envelope / no fingerprint stored
    Followup    \* call_ids that have a TaskMailbox call record (followups);
                \* the others are dispatch:{task}:{attempt} call_ids

ASSUME NoPayloadAssumption == NoPayload \notin Payload
ASSUME FollowupAssumption == Followup \subseteq CallId

Lists == [pending    : SUBSET CallId,
          processing : SUBSET CallId,
          uncertain  : SUBSET CallId,
          delivered  : SUBSET CallId]

(* s is the session's lists, t the lists mirrored on the bound Task. *)
Mail == [s    : Lists,
         t    : Lists,
         body : [CallId -> Payload \cup {NoPayload}],
         fp   : [CallId -> Payload \cup {NoPayload}]]

EmptyLists == [pending |-> {}, processing |-> {}, uncertain |-> {}, delivered |-> {}]

EmptyMail == [s    |-> EmptyLists,
              t    |-> EmptyLists,
              body |-> [c \in CallId |-> NoPayload],
              fp   |-> [c \in CallId |-> NoPayload]]

-----------------------------------------------------------------------------
(* State formulae over one Lists record. *)

Open(L) == L.pending \cup L.processing \cup L.uncertain

Listed(L) == Open(L) \cup L.delivered

(* No call_id sits in two of the four lists. *)
Disjoint(L) ==
    /\ L.pending \cap L.processing = {}
    /\ L.pending \cap L.uncertain = {}
    /\ L.processing \cap L.uncertain = {}
    /\ L.delivered \cap Open(L) = {}

-----------------------------------------------------------------------------
(* The first send of a call_id stores envelope, fingerprint and pending    *)
(* entry of the session in one update; the Task is not touched.            *)
Admitted(m, c, p) ==
    [m EXCEPT !.s.pending = @ \cup {c},
              !.body[c] = p,
              !.fp[c] = p]

(* A followup is staged on the Task's outbox before it reaches the session. *)
Staged(m, c) == [m EXCEPT !.t.pending = @ \cup {c}]

(* Intent of the pump: pending -> processing.  The Task follows only when  *)
(* it has the call_id pending itself.                                      *)
Claimed(m, c) ==
    [m EXCEPT !.s.pending = @ \ {c},
              !.s.processing = @ \cup {c},
              !.t.pending = @ \ {c},
              !.t.processing = @ \cup ({c} \cap m.t.pending)]

(* Mutant: what returns to pending is looked up on the Task. *)
RolledBackByTask(m, C) ==
    [m EXCEPT !.s.processing = @ \ C,
              !.s.pending = @ \cup (C \cap m.t.processing),
              !.t.processing = @ \ C,
              !.t.pending = @ \cup (C \cap m.t.processing)]

(* processing -> pending, on each side only for the call_ids that are      *)
(* still processing there.                                                 *)
RolledBack(m, C) ==
    [m EXCEPT !.s.processing = @ \ C,
              !.s.pending = @ \cup (C \cap m.s.processing),
              !.t.processing = @ \ C,
              !.t.pending = @ \cup (C \cap m.t.processing)]

(* Mutant: the Task mirror is forgotten. *)
MarkedUncertainUnmirrored(m, C) ==
    [m EXCEPT !.s.processing = @ \ C,
              !.s.uncertain = @ \cup C]

(* processing -> uncertain.  Unlike the rollback, this adds every call_id  *)
(* it is given, whatever list the call_id is in by then.                   *)
MarkedUncertain(m, C) ==
    [m EXCEPT !.s.processing = @ \ C,
              !.s.uncertain = @ \cup C,
              !.t.processing = @ \ C,
              !.t.uncertain = @ \cup C]

(* An operator retry of what was never sent, and of what the agent has. *)
RetriedUnsent(m, c) ==
    [m EXCEPT !.s.uncertain = @ \ {c}, !.s.pending = @ \cup {c},
              !.t.uncertain = @ \ {c}, !.t.pending = @ \cup {c}]

RetriedAccepted(m, c) ==
    [m EXCEPT !.s.uncertain = @ \ {c}, !.s.processing = @ \cup {c},
              !.t.uncertain = @ \ {c}, !.t.processing = @ \cup {c}]

(* The compensation of a retry whose audit event could not be written. *)
Compensated(m, c) ==
    [m EXCEPT !.s.pending = @ \ {c}, !.s.processing = @ \ {c}, !.s.uncertain = @ \cup {c},
              !.t.pending = @ \ {c}, !.t.processing = @ \ {c}, !.t.uncertain = @ \cup {c}]

(* Which acknowledged call_ids a report may commit: a followup must be     *)
(* open on the Task, a dispatch call_id must be open on the session.       *)
Verified(m, C) ==
    {c \in C : c \in IF c \in Followup THEN Open(m.t) ELSE Open(m.s)}

AckedLists(L, C) ==
    [pending    |-> L.pending \ C,
     processing |-> L.processing \ C,
     uncertain  |-> L.uncertain \ C,
     delivered  |-> L.delivered \cup (C \cap Open(L))]

(* The worker's acknowledgement: each side moves the call_ids it has open  *)
(* to delivered; the session drops the stored envelopes.                   *)
Acked(m, C) ==
    LET V == Verified(m, C)
    IN  [m EXCEPT !.s = AckedLists(m.s, V),
                  !.t = AckedLists(m.t, V),
                  !.body = IF V \cap Open(m.s) = {}
                           THEN @
                           ELSE [c \in CallId |-> IF c \in V THEN NoPayload ELSE @[c]]]

(* The gates of retry_uncertain_delivery that do not look at evidence. *)
MayRetry(m, c) ==
    /\ c \in m.s.uncertain
    /\ m.body[c] # NoPayload
    /\ c \in m.t.uncertain
=============================================================================
