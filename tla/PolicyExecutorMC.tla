--------------------------- MODULE PolicyExecutorMC ---------------------------
(* Small instances of PolicyExecutor for TLC. *)
EXTENDS PolicyExecutor
=============================================================================
