---------------------------- MODULE MCChatInbox ----------------------------
(* One message of a user, one occurrence of a schedule.                    *)
EXTENDS ChatInbox, TLC
CONSTANTS u1, s1

MCMessage == {u1, s1}
MCScheduled == {s1}
=============================================================================
