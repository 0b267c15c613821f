-------------------------- MODULE MCRequestPipeline --------------------------
(* Small instances of RequestPipeline for TLC. *)
EXTENDS RequestPipeline

Symmetry == Permutations(Requests) \cup Permutations(Users)
=============================================================================
