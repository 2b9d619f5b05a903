-------------------------- MODULE MCTerminalDelivery --------------------------
(* A dispatch call_id and a followup, and bounded disturbances. *)
EXTENDS TerminalDelivery, TLC
CONSTANTS d1, f1

MCCallId == {d1, f1}
MCFollowup == {f1}
=============================================================================
