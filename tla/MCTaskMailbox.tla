---- MODULE MCTaskMailbox ----
(* A root Task, its child and its grandchild; long-polls on any of them. *)
EXTENDS TaskMailbox, TLC

CONSTANTS root, child, grand

TaskDef == {root, child, grand}
ParentDef == (root :> NoTask) @@ (child :> root) @@ (grand :> child)
AboveDef == (root :> {}) @@ (child :> {root}) @@ (grand :> {root, child})

Symmetry == Permutations(Call) \cup Permutations(Waiter)
====
