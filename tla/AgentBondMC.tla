---------------------------- MODULE AgentBondMC -----------------------------
(* A small instance of AgentBond for TLC, all of it from deployment on.  The *)
(* accounting of its rewards is explored by RevenueSystemMC.                 *)
EXTENDS EarnPositions

CONSTANT factory

\* The factory approves every key; another registry knows none of them.
MCApprovedKeys == [r \in Registries |-> IF r = factory THEN Keys ELSE {}]
=============================================================================
