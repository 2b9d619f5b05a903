---- MODULE MCTaskDispatch ----
(* Small workspaces: one or two Tasks, two agents, a user or two. *)
EXTENDS TaskDispatch
====
