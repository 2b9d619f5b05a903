------------------------ MODULE MCRestartContinuation ------------------------
(* One Chat, two restarts, two launchers, and a fault.                      *)
EXTENDS RestartContinuation, TLC
CONSTANTS t1, o1, o2

MCTab == {t1}
MCOp == {o1, o2}
=============================================================================
