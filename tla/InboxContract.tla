--------------------------- MODULE InboxContract ---------------------------
(***************************************************************************)
(* What an inbox promises: the messages it admits are handed over one at a *)
(* time and in the order of their admission, each at most once, none after *)
(* it was closed, and what is closed stays closed.  A crash is no step.    *)
(***************************************************************************)
CONSTANT Message

VARIABLES
    fate,       \* of each message: absent, open or closed
    before,     \* what had been admitted before it
    handed      \* the messages that were handed over

fvars == <<fate, before, handed>>

FInit ==
    /\ fate = [m \in Message |-> "absent"]
    /\ before = [m \in Message |-> {}]
    /\ handed = {}

Accept(m) ==
    /\ fate[m] = "absent"
    /\ fate' = [fate EXCEPT ![m] = "open"]
    /\ before' = [before EXCEPT ![m] = {o \in Message : fate[o] # "absent"}]
    /\ UNCHANGED handed

HandOver(m) ==
    /\ fate[m] = "open" /\ m \notin handed
    /\ \A o \in before[m] \cup handed : fate[o] = "closed"
    /\ handed' = handed \cup {m}
    /\ UNCHANGED <<fate, before>>

Close(m) ==
    /\ fate[m] = "open"
    /\ fate' = [fate EXCEPT ![m] = "closed"]
    /\ UNCHANGED <<before, handed>>

FNext == \E m \in Message : Accept(m) \/ HandOver(m) \/ Close(m)

FSpec == FInit /\ [][FNext]_fvars
=============================================================================
