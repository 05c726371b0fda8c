-------------------------- MODULE ActivityIndexerMC ---------------------------
(* Small instances of ActivityIndexer for TLC. *)
EXTENDS ActivityIndexer
=============================================================================
