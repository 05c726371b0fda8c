---------------------------- MODULE LaunchFlowMC ----------------------------
(* Small instances of LaunchFlow for TLC. *)
EXTENDS LaunchFlow
=============================================================================
