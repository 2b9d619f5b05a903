---- MODULE MCDispatchClaims ----
(* Two Tasks and two agents, with the history of their claims. *)
EXTENDS DispatchClaims, TLC

Symmetry == Permutations(Request) \cup Permutations(Task) \cup Permutations(Session)
====
