---------------------------- MODULE MCTodoStore ----------------------------
(* Small instances of TodoStore for TLC. *)
EXTENDS TodoStore, TLC

Symmetry == Permutations(Users) \cup Permutations(Todos) \cup Permutations(Requests)
                \cup Permutations(Jobs)
=============================================================================
