-------------------------- MODULE DeliveryContract --------------------------
(***************************************************************************)
(* What the message outbox of a session promises about each call_id: a     *)
(* call_id is in one state at a time; the agent is handed a message at     *)
(* most once, and only while it is in flight; what was handed over never   *)
(* becomes sendable again, not even by a restart; delivered is final, also *)
(* across restarts; and while the hub runs, only an operator or the        *)
(* worker's acknowledgement takes a call_id out of uncertain.              *)
(***************************************************************************)
CONSTANT CallId

VARIABLES
    st,         \* state of each call_id
    handed,     \* call_ids the agent was handed
    authorised  \* call_ids an operator ordered to retry since they became
                \* uncertain

cvars == <<st, handed, authorised>>

CallState == {"absent", "pending", "processing", "uncertain", "delivered"}

CInit == /\ st = [c \in CallId |-> "absent"]
         /\ handed = {}
         /\ authorised = {}

(* Where a call_id may go while the hub runs. *)
Successors(s, retried) ==
    CASE s = "absent"     -> {"absent", "pending"}
      [] s = "pending"    -> {"pending", "processing", "uncertain", "delivered"}
      [] s = "processing" -> {"pending", "processing", "uncertain", "delivered"}
      [] s = "uncertain"  -> {"uncertain", "delivered"}
                             \cup (IF retried THEN {"pending", "processing"} ELSE {})
      [] s = "delivered"  -> {"delivered"}

(* Where a restart may find it: what the last save left, which can be a    *)
(* step behind memory, or a step ahead when a save raised after it wrote.  *)
RestartStates(s) ==
    CASE s = "absent"     -> {"absent"}
      [] s = "pending"    -> {"absent", "pending", "processing", "uncertain", "delivered"}
      [] s = "processing" -> {"processing", "uncertain", "delivered"}
      [] s = "uncertain"  -> {"processing", "uncertain", "delivered"}
      [] s = "delivered"  -> {"delivered"}

(* The bookkeeping of any number of call_ids changes. *)
Move ==
    /\ st' \in [CallId -> CallState]
    /\ \A c \in CallId :
          /\ st'[c] \in Successors(st[c], c \in authorised')
          /\ st'[c] = "pending" => c \notin handed
    /\ authorised' \subseteq CallId
    /\ \A c \in authorised' \ authorised : st[c] = "uncertain"
    /\ UNCHANGED handed

HandOver(c) ==
    /\ c \notin handed
    /\ st[c] = "processing"
    /\ handed' = handed \cup {c}
    /\ UNCHANGED <<st, authorised>>

Restart ==
    /\ st' \in [CallId -> CallState]
    /\ \A c \in CallId :
          /\ st'[c] \in RestartStates(st[c])
          /\ st'[c] = "pending" => c \notin handed
    /\ authorised' \subseteq authorised
    /\ UNCHANGED handed

CNext == Move \/ Restart \/ \E c \in CallId : HandOver(c)

CSpec == CInit /\ [][CNext]_cvars
=============================================================================
