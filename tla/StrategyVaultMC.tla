--------------------------- MODULE StrategyVaultMC ----------------------------
(* Small instances of the vault for TLC: two in one state graph, with no step *)
(* between them.  In one the executor moves what it likes under two holders;  *)
(* in the other it is PolicyExecutor, over the cap's deposit of one holder.   *)
EXTENDS PolicyExecutor

CONSTANT Depositor      \* the holder of the leashed vault

ASSUME StrategyVaultMCAssumption == Depositor \in Holders

VARIABLE leashed

(* The holder invests up to the cap, and leaves.                              *)
DepositorStep ==
    \/ totalSupply = 0 /\ Deposit(Depositor, DepositCap)
    \/ RedeemAll(Depositor)

LeashedNext ==
    \/ PolicyStep
    \/ /\ DepositorStep \/ \E open \in BOOLEAN : SetAdapterOpen(open)
       /\ UNCHANGED <<now, policyVars>>
    \/ Tick

UnleashedNext == VaultNext /\ UNCHANGED <<now, policyVars>>

MCInit ==
    /\ Init
    /\ leashed \in BOOLEAN
    /\ leashed => slippage # 0
    /\ ~leashed => \A e \in Expiries : expiresAt <= e

MCNext ==
    /\ UNCHANGED leashed
    /\ \/ leashed /\ LeashedNext
       \/ ~leashed /\ UnleashedNext

Leaves(h) == Leave(h) /\ UNCHANGED <<now, policyVars, leashed>>

MCSpec == MCInit /\ [][MCNext]_<<vars, leashed>> /\ \A h \in Holders : WF_vars(Leaves(h))
------------------------------------------------------------------------------
(* No allocation leaves the policy's leash: LeashedDeployment of           *)
(* PolicyExecutor, of every step of the vault it registered, and no day of *)
(* its history moves more than two budgets.                                *)
OnlyLeashedDeployments ==
    /\ []AnyDayMovesTwoBudgets
    /\ [][leashed => LeashedDeployment]_vars
=============================================================================
