-------------------------- MODULE MCDatabasePool --------------------------
(* A small instance of DatabasePool for TLC. *)
EXTENDS DatabasePool
=============================================================================
