--------------------------- MODULE MCChatDelivery ---------------------------
(* A dispatch call_id and a followup, and bounded disturbances. *)
EXTENDS ChatDelivery, TLC
CONSTANTS d1, f1

MCCallId == {d1, f1}
MCFollowup == {f1}
=============================================================================
