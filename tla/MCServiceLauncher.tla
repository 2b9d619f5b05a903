-------------------------- MODULE MCServiceLauncher --------------------------
(* Two requests, two launchers, one of which may leave its Hub behind.      *)
EXTENDS ServiceLauncher, TLC
CONSTANTS o1, o2

MCOp == {o1, o2}
=============================================================================
