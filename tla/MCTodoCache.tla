---------------------------- MODULE MCTodoCache ----------------------------
(* Small instances of TodoCache for TLC. *)
EXTENDS TodoCache, TLC

Symmetry == Permutations(Requests) \cup Permutations(Users) \cup Permutations(Queries)
=============================================================================
