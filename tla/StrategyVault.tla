---------------------------- MODULE StrategyVault ----------------------------
(***************************************************************************)
(* StrategyVault.sol: a capped ERC-4626 vault with one adapter.  Idle      *)
(* assets are in the vault, deployed assets are what the adapter reports   *)
(* for it.  The adapter is one of several: an exact one (launch reserve),  *)
(* one that earns (Morpho), or one that loses up to slippage on each       *)
(* movement (the ranges).  A revert of the adapter reverts the call.  Here *)
(* the executor may do what it likes; PolicyExecutor puts the leash on.    *)
(***************************************************************************)
EXTENDS Integers, FiniteSets

CONSTANTS
    Holders,
    VirtualShares,  \* 10^decimalsOffset
    DepositCap,
    Amounts,        \* assets or shares of one call
    Slippages,      \* most a movement may lose, for each adapter
    Values,         \* what its market may make a position worth
    MaxAssets,      \* bound: total assets, whatever the adapter earns
    MaxShares       \* bound: the supply, which losses inflate

ASSUME StrategyVaultAssumption ==
    /\ IsFiniteSet(Holders)  \* an address has 160 bits
    /\ VirtualShares \in Nat \ {0}
    /\ DepositCap \in Nat \ {0}
    /\ Amounts \subseteq Nat
    /\ Slippages \subseteq Nat
    /\ Values \subseteq Nat
    /\ MaxAssets \in Nat
    /\ MaxShares \in Nat

VARIABLES
    idle,         \* idleAssets
    deployed,     \* deployedAssets
    balanceOf,    \* vault shares
    totalSupply,
    slippage,     \* of the vault's adapter
    adapterOpen   \* market health and liquidity let adapter calls succeed, and
                  \* their trades lose no more than slippage together

shareVars   == <<balanceOf, totalSupply>>
adapterVars == <<slippage, adapterOpen>>
vaultVars   == <<idle, deployed, shareVars, adapterVars>>

totalAssets == idle + deployed

CeilDiv(a, b) == (a + b - 1) \div b

(* ERC4626: conversions with the virtual share and asset, rounded down or  *)
(* up.                                                                     *)
SharesDown(assets) == (assets * (totalSupply + VirtualShares)) \div (totalAssets + 1)
SharesUp(assets)   == CeilDiv(assets * (totalSupply + VirtualShares), totalAssets + 1)
AssetsDown(shares) == (shares * (totalAssets + 1)) \div (totalSupply + VirtualShares)
AssetsUp(shares)   == CeilDiv(shares * (totalAssets + 1), totalSupply + VirtualShares)

maxDeposit == IF totalAssets >= DepositCap THEN 0 ELSE DepositCap - totalAssets
maxMint    == SharesDown(maxDeposit)

VaultInit ==
    /\ idle = 0
    /\ deployed = 0
    /\ balanceOf = [h \in Holders |-> 0]
    /\ totalSupply = 0
    /\ slippage \in Slippages
    /\ adapterOpen = TRUE

-----------------------------------------------------------------------------
(* The adapter.                                                            *)

(* Its market moves, or it opens or closes.                                *)
AdapterMoves(value) ==
    /\ deployed # 0
    /\ idle + value <= MaxAssets
    /\ deployed' = value
    /\ UNCHANGED <<idle, shareVars, adapterVars>>

SetAdapterOpen(open) ==
    /\ adapterOpen' = open
    /\ UNCHANGED <<idle, deployed, shareVars, slippage>>

(* What a movement may cost: nothing with the exact adapters, and with a   *)
(* range what its trades lose.                                             *)
Losses == {lost \in 0 .. slippage : lost <= deployed}

(* adapter.withdraw(assets) at a loss of lost.  A range that is asked for  *)
(* nearly all it is worth is closed, and so is one asked for all; but only *)
(* in the second case less than was asked is paid (_exitAll).  In the      *)
(* first it reverts with SwapOutputTooLow.                                 *)
AdapterPays(assets, lost) ==
    /\ adapterOpen
    /\ assets \in 1 .. deployed
    /\ assets # deployed => assets + lost <= deployed

(* What it returns to the vault.                                           *)
Realized(assets, lost) == IF assets = deployed THEN deployed - lost ELSE assets

Recalled(assets, lost) ==
    /\ AdapterPays(assets, lost)
    /\ deployed' = deployed - lost - Realized(assets, lost)

-----------------------------------------------------------------------------
(* The executor's calls, as seen by the vault.                             *)

AllocateToAdapter(assets) ==
    /\ assets \in 1 .. idle
    /\ adapterOpen
    /\ idle' = idle - assets
    /\ \E reported \in {d \in 0 .. deployed + assets : d + slippage >= deployed + assets} :
          deployed' = reported
    /\ UNCHANGED <<shareVars, adapterVars>>

RecallFromAdapter(assets) ==
    /\ \E lost \in Losses :
          /\ Recalled(assets, lost)
          /\ idle' = idle + Realized(assets, lost)
    /\ UNCHANGED <<shareVars, adapterVars>>

-----------------------------------------------------------------------------
(* The holders' calls.                                                     *)

(* Tokens sent to the vault outside of it.                                 *)
Donate(assets) ==
    /\ totalAssets + assets <= MaxAssets
    /\ idle' = idle + assets
    /\ UNCHANGED <<deployed, shareVars, adapterVars>>

MintShares(h, shares) ==
    /\ totalSupply + shares <= MaxShares
    /\ balanceOf' = [balanceOf EXCEPT ![h] = @ + shares]
    /\ totalSupply' = totalSupply + shares

PreviewDeposit(assets) == SharesDown(assets)

Deposit(h, assets) ==
    /\ assets <= maxDeposit
    /\ MintShares(h, PreviewDeposit(assets))
    /\ idle' = idle + assets
    /\ UNCHANGED <<deployed, adapterVars>>

Mintable(shares) == shares <= maxMint

Mint(h, shares) ==
    /\ Mintable(shares)
    /\ MintShares(h, shares)
    /\ idle' = idle + AssetsUp(shares)
    /\ UNCHANGED <<deployed, adapterVars>>

Burnable(h, shares) == shares <= balanceOf[h]

BurnShares(h, shares) ==
    /\ Burnable(h, shares)
    /\ balanceOf' = [balanceOf EXCEPT ![h] = @ - shares]
    /\ totalSupply' = totalSupply - shares

\* Mutant: the last withdrawal, too, recalls only what is missing.
RecallMissing(assets, shares) == IF idle < assets THEN assets - idle ELSE 0

\* Mutant: a withdrawal is paid from what is idle.
RecallNothing(assets, shares) == 0

(* _withdraw: the last share recalls all, any other what is missing.       *)
ToRecall(assets, shares) ==
    IF shares = totalSupply THEN deployed
    ELSE IF idle < assets THEN assets - idle ELSE 0

(* Recalls toRecall, pays assets and burns the shares; a payment the vault *)
(* cannot cover reverts.                                                   *)
PayOut(h, assets, shares, toRecall) ==
    /\ BurnShares(h, shares)
    /\ IF toRecall = 0
       THEN /\ idle >= assets
            /\ idle' = idle - assets
            /\ UNCHANGED deployed
       ELSE \E lost \in Losses :
               /\ Recalled(toRecall, lost)
               /\ idle + Realized(toRecall, lost) >= assets
               /\ idle' = idle + Realized(toRecall, lost) - assets
    /\ UNCHANGED adapterVars

PreviewWithdraw(assets) == SharesUp(assets)

Withdraw(h, assets) ==
    /\ assets <= AssetsDown(balanceOf[h])
    /\ PayOut(h, assets, PreviewWithdraw(assets), ToRecall(assets, PreviewWithdraw(assets)))

(* A redemption of part of the supply.                                     *)
RedeemPart(h, shares) ==
    /\ shares # totalSupply
    /\ PayOut(h, AssetsDown(shares), shares, ToRecall(AssetsDown(shares), shares))

\* Mutant: whoever redeems all of his own shares is taken for the last.
RedeemOwnAll(h) ==
    /\ deployed # 0 => adapterOpen
    /\ BurnShares(h, balanceOf[h])
    /\ idle' = 0
    /\ deployed' = 0
    /\ UNCHANGED adapterVars

(* A redemption of the whole supply closes the position and pays all that  *)
(* is idle then.                                                           *)
RedeemAll(h) ==
    /\ deployed # 0 => adapterOpen
    /\ BurnShares(h, totalSupply)
    /\ idle' = 0
    /\ deployed' = 0
    /\ UNCHANGED adapterVars

(* What the adapter surely pays for, whatever its trades lose: a recall    *)
(* that leaves as much as they can cost.                                   *)
SurelyRecalled(assets) == assets = 0 \/ assets + slippage <= deployed

SurelyRedeemed(h) == SurelyRecalled(ToRecall(AssetsDown(balanceOf[h]), balanceOf[h]))

(* A withdrawal of all but that.                                           *)
WithdrawAssured(h) == totalAssets > slippage /\ Withdraw(h, totalAssets - slippage)

-----------------------------------------------------------------------------

AdapterStep ==
    \/ \E value \in Values : AdapterMoves(value)
    \/ \E open \in BOOLEAN : SetAdapterOpen(open)

HolderStep ==
    \/ \E assets \in Amounts : Donate(assets)
    \/ \E h \in Holders :
          \/ \E n \in Amounts : Deposit(h, n) \/ Mint(h, n) \/ Withdraw(h, n)
          \/ \E shares \in Amounts \union {balanceOf[h]} : RedeemPart(h, shares)
          \/ RedeemAll(h) \/ WithdrawAssured(h)

VaultNext ==
    \/ AdapterStep
    \/ HolderStep
    \/ \E n \in Amounts : AllocateToAdapter(n) \/ RecallFromAdapter(n)

VaultSpec == VaultInit /\ [][VaultNext]_vaultVars

(* A depositor who wants to leave redeems all of his shares, or, where the *)
(* adapter might refuse that beside other holders, withdraws what it       *)
(* surely pays.                                                            *)
Leave(h) ==
    /\ balanceOf[h] # 0
    /\ \/ balanceOf[h] = totalSupply /\ RedeemAll(h)
       \/ /\ balanceOf[h] # totalSupply
          /\ \/ SurelyRedeemed(h) /\ RedeemPart(h, balanceOf[h])
             \/ ~SurelyRedeemed(h) /\ WithdrawAssured(h)

VaultFairSpec == VaultSpec /\ \A h \in Holders : WF_vaultVars(Leave(h))

-----------------------------------------------------------------------------
VaultTypeOK ==
    /\ idle \in Nat
    /\ deployed \in Nat
    /\ balanceOf \in [Holders -> Nat]
    /\ totalSupply \in Nat
    /\ slippage \in Slippages
    /\ adapterOpen \in BOOLEAN

(* Nobody's deposit, mint, withdrawal or redemption costs another holder   *)
(* more than the slippage of the recall it makes: with an exact adapter,   *)
(* what the others' shares are worth does not fall at all.                 *)
OthersPayOnlySlippage ==
    [][totalSupply' # totalSupply =>
         \A h \in Holders : balanceOf'[h] = balanceOf[h] =>
             AssetsDown(balanceOf[h])' + slippage >= AssetsDown(balanceOf[h])]_vaultVars

(* When the last share leaves, nothing stays behind in the adapter.        *)
LastShareClosesPosition ==
    [][totalSupply # 0 /\ totalSupply' = 0 => deployed' = 0]_vaultVars

(* Beside other holders, the rest of a vault that is worth no more than    *)
(* closing its position may cost.                                          *)
HeldBySlippage(h) == balanceOf[h] # totalSupply /\ totalAssets <= slippage

(* Wherever the executor has put the assets and whatever they are worth    *)
(* now, a depositor who wants out of a vault whose adapter pays gets out:  *)
(* with all he has, or, when others still hold shares, with all but what   *)
(* closing the position may cost, which the last to leave bears.           *)
DepositorsCanLeave ==
    <>[]adapterOpen =>
        \A h \in Holders : balanceOf[h] # 0 ~> balanceOf[h] = 0 \/ HeldBySlippage(h)
=============================================================================
