----------------------------- MODULE BuybackVault -----------------------------
(***************************************************************************)
(* MuppetBuybackVault.sol: the router funds a budget per key; keepers      *)
(* spend a budget in small purchases of MUPPETS, a cooldown apart; each    *)
(* purchase is a lot that vests linearly and that anyone may release, in   *)
(* pages, to the beneficiary.  The swap of the executor contract either    *)
(* delivers at least the minimum or reverts the purchase.                  *)
(***************************************************************************)
EXTENDS Integers, Sequences, FiniteSets, Functions

CONSTANTS
    Keys,
    KeeperAccounts,           \* accounts the owner may make keepers
    VESTING_DURATION,
    MAX_RELEASE_LOTS,
    MIN_BUYBACK_WEI, ABSOLUTE_MAX_BUYBACK_WEI, MIN_BUYBACK_COOLDOWN,
    Amounts,                  \* wei of one call, and of one limit
    Cooldowns,                \* cooldowns the owner asks for
    Outputs,                  \* MUPPETS a purchase brings
    MaxFunded,                \* bound: wei the vault ever receives
    MaxLots,                  \* bound: purchases
    LastPurchase, MaxTime     \* bound: the clock, at purchases and at all

ASSUME BuybackVaultAssumption ==
    /\ IsFiniteSet(Keys) /\ IsFiniteSet(KeeperAccounts)  \* an address has 160 bits
    /\ {VESTING_DURATION, MAX_RELEASE_LOTS, MIN_BUYBACK_WEI} \subseteq Nat \ {0}
    /\ {ABSOLUTE_MAX_BUYBACK_WEI, MIN_BUYBACK_COOLDOWN} \subseteq Nat
    /\ Amounts \subseteq Nat
    /\ Cooldowns \subseteq Nat
    /\ Outputs \subseteq Nat
    /\ {MaxFunded, MaxLots, LastPurchase, MaxTime} \subseteq Nat

VARIABLES
    now,
    ownerIsContract, routerIsSet, paused,
    keepers, keeperCount,
    maxBuybackWei, buybackCooldown,
    nativeBalance, muppetsBalance,
    pendingNativeByKey, totalFundedByKey, totalSpentByKey, lastBuybackAt,
    totalPendingNative, totalFundedNative, totalSpentNative,
    totalMuppetsPurchased, totalMuppetsReleased,
    vestingLots

governanceVars == <<ownerIsContract, routerIsSet, paused, keepers, keeperCount>>
limitVars      == <<maxBuybackWei, buybackCooldown>>
budgetVars     == <<pendingNativeByKey, totalFundedByKey, totalSpentByKey, lastBuybackAt,
                    totalPendingNative, totalFundedNative, totalSpentNative>>
lotVars        == <<muppetsBalance, totalMuppetsPurchased, totalMuppetsReleased, vestingLots>>
vars == <<now, governanceVars, limitVars, nativeBalance, budgetVars, lotVars>>

VestingLot == [amount : Nat, released : Nat, start : Nat]

LimitsAllowed(amount, cooldown) ==
    /\ amount \in MIN_BUYBACK_WEI .. ABSOLUTE_MAX_BUYBACK_WEI
    /\ cooldown >= MIN_BUYBACK_COOLDOWN

Init ==
    /\ now = 1
    /\ ownerIsContract = FALSE
    /\ routerIsSet = FALSE
    /\ paused = TRUE
    /\ keepers = {}
    /\ keeperCount = 0
    /\ maxBuybackWei \in Amounts
    /\ buybackCooldown \in Cooldowns
    /\ LimitsAllowed(maxBuybackWei, buybackCooldown)
    /\ nativeBalance = 0
    /\ muppetsBalance = 0
    /\ pendingNativeByKey = [k \in Keys |-> 0]
    /\ totalFundedByKey = [k \in Keys |-> 0]
    /\ totalSpentByKey = [k \in Keys |-> 0]
    /\ lastBuybackAt = [k \in Keys |-> 0]
    /\ totalPendingNative = 0
    /\ totalFundedNative = 0
    /\ totalSpentNative = 0
    /\ totalMuppetsPurchased = 0
    /\ totalMuppetsReleased = 0
    /\ vestingLots = <<>>

Tick ==
    /\ now < MaxTime
    /\ now' = now + 1
    /\ UNCHANGED <<governanceVars, limitVars, nativeBalance, budgetVars, lotVars>>

-----------------------------------------------------------------------------
(* The owner's calls.                                                      *)

TransferOwnership ==
    /\ ownerIsContract' = TRUE
    /\ UNCHANGED <<now, routerIsSet, paused, keepers, keeperCount, limitVars, nativeBalance, budgetVars, lotVars>>

SetRevenueRouter ==
    /\ paused
    /\ routerIsSet' = TRUE
    /\ UNCHANGED <<now, ownerIsContract, paused, keepers, keeperCount, limitVars, nativeBalance, budgetVars, lotVars>>

CountAfter(keeper, allowed) ==
    IF allowed /\ keeper \notin keepers THEN keeperCount + 1
    ELSE IF ~allowed /\ keeper \in keepers THEN keeperCount - 1
    ELSE keeperCount

SetKeeper(keeper, allowed) ==
    /\ paused
    /\ keeperCount' = CountAfter(keeper, allowed)
    /\ keepers' = IF allowed THEN keepers \union {keeper} ELSE keepers \ {keeper}
    /\ UNCHANGED <<now, ownerIsContract, routerIsSet, paused, limitVars, nativeBalance, budgetVars, lotVars>>

SetLimits(amount, cooldown) ==
    /\ paused
    /\ LimitsAllowed(amount, cooldown)
    /\ maxBuybackWei' = amount
    /\ buybackCooldown' = cooldown
    /\ UNCHANGED <<now, governanceVars, nativeBalance, budgetVars, lotVars>>

Activate ==
    /\ paused
    /\ ownerIsContract /\ routerIsSet /\ keeperCount # 0
    /\ paused' = FALSE
    /\ UNCHANGED <<now, ownerIsContract, routerIsSet, keepers, keeperCount, limitVars, nativeBalance, budgetVars, lotVars>>

Pause ==
    /\ ~paused
    /\ paused' = TRUE
    /\ UNCHANGED <<now, ownerIsContract, routerIsSet, keepers, keeperCount, limitVars, nativeBalance, budgetVars, lotVars>>

IsExcess(amount) == amount <= nativeBalance - totalPendingNative

RecoverExcessNative(amount) ==
    /\ paused
    /\ amount # 0
    /\ IsExcess(amount)
    /\ nativeBalance' = nativeBalance - amount
    /\ UNCHANGED <<now, governanceVars, limitVars, budgetVars, lotVars>>

-----------------------------------------------------------------------------
(* Funding, from the router, whether or not paused; and ETH forced on the  *)
(* vault, which has no receive function.                                   *)

FundKey(k, amount) ==
    /\ routerIsSet
    /\ amount # 0
    /\ totalFundedNative + amount <= MaxFunded
    /\ nativeBalance' = nativeBalance + amount
    /\ pendingNativeByKey' = [pendingNativeByKey EXCEPT ![k] = @ + amount]
    /\ totalPendingNative' = totalPendingNative + amount
    /\ totalFundedByKey' = [totalFundedByKey EXCEPT ![k] = @ + amount]
    /\ totalFundedNative' = totalFundedNative + amount
    /\ UNCHANGED <<now, governanceVars, limitVars, totalSpentByKey, lastBuybackAt, totalSpentNative, lotVars>>

ForceNative(amount) ==
    /\ nativeBalance + amount <= MaxFunded
    /\ nativeBalance' = nativeBalance + amount
    /\ UNCHANGED <<now, governanceVars, limitVars, budgetVars, lotVars>>

-----------------------------------------------------------------------------
(* Purchases.                                                              *)

WithinBudget(k, amount) == amount <= pendingNativeByKey[k]

CooldownOver(k) == lastBuybackAt[k] = 0 \/ now >= lastBuybackAt[k] + buybackCooldown

ExecuteKeyBuyback(keeper, k, amount, purchased) ==
    /\ ~paused
    /\ keeper \in keepers
    /\ amount >= MIN_BUYBACK_WEI
    /\ amount <= maxBuybackWei
    /\ WithinBudget(k, amount)
    /\ CooldownOver(k)
    /\ purchased # 0
    /\ Len(vestingLots) < MaxLots /\ now <= LastPurchase
    /\ nativeBalance' = nativeBalance - amount
    /\ pendingNativeByKey' = [pendingNativeByKey EXCEPT ![k] = @ - amount]
    /\ totalPendingNative' = totalPendingNative - amount
    /\ totalSpentByKey' = [totalSpentByKey EXCEPT ![k] = @ + amount]
    /\ totalSpentNative' = totalSpentNative + amount
    /\ lastBuybackAt' = [lastBuybackAt EXCEPT ![k] = now]
    /\ muppetsBalance' = muppetsBalance + purchased
    /\ totalMuppetsPurchased' = totalMuppetsPurchased + purchased
    /\ vestingLots' = Append(vestingLots, [amount |-> purchased, released |-> 0, start |-> now])
    /\ UNCHANGED <<now, governanceVars, limitVars, totalFundedByKey, totalFundedNative, totalMuppetsReleased>>

-----------------------------------------------------------------------------
(* Vesting.                                                                *)

\* Mutant: the fraction is of what is left, not of the lot.
VestedOfTheRest(lot) ==
    IF now - lot.start >= VESTING_DURATION THEN lot.amount
    ELSE lot.released + ((lot.amount - lot.released) * (now - lot.start)) \div VESTING_DURATION

Vested(lot) ==
    IF now - lot.start >= VESTING_DURATION THEN lot.amount
    ELSE (lot.amount * (now - lot.start)) \div VESTING_DURATION

\* Mutant: a page ends before the last lot.
PageWithoutLast(start, count) ==
    {i \in start + 1 .. start + count : i < Len(vestingLots)}

(* The lots of the page, which counts from 0.                              *)
Page(start, count) == {i \in start + 1 .. start + count : i <= Len(vestingLots)}

Due(page) ==
    SumFunctionOnSet([i \in page |-> Vested(vestingLots[i]) - vestingLots[i].released], page)

\* Mutant: released forgets what was released before.
ReleasedNow(lot) == [lot EXCEPT !.released = Vested(lot) - @]

Released(lot) == [lot EXCEPT !.released = Vested(lot)]

ReleaseMuppets(start, count) ==
    /\ start < Len(vestingLots)
    /\ count \in 1 .. MAX_RELEASE_LOTS
    /\ Due(Page(start, count)) # 0
    /\ vestingLots' = [i \in DOMAIN vestingLots |->
                          IF i \in Page(start, count) THEN Released(vestingLots[i]) ELSE vestingLots[i]]
    /\ totalMuppetsReleased' = totalMuppetsReleased + Due(Page(start, count))
    /\ muppetsBalance' = muppetsBalance - Due(Page(start, count))
    /\ UNCHANGED <<now, governanceVars, limitVars, nativeBalance, budgetVars, totalMuppetsPurchased>>

-----------------------------------------------------------------------------
OwnerStep ==
    \/ TransferOwnership
    \/ SetRevenueRouter
    \/ \E keeper \in KeeperAccounts, allowed \in BOOLEAN : SetKeeper(keeper, allowed)
    \/ \E amount \in Amounts, cooldown \in Cooldowns : SetLimits(amount, cooldown)
    \/ Activate
    \/ Pause
    \/ \E amount \in Amounts : RecoverExcessNative(amount)

Next ==
    \/ OwnerStep
    \/ \E amount \in Amounts : (\E k \in Keys : FundKey(k, amount)) \/ ForceNative(amount)
    \/ \E keeper \in KeeperAccounts, k \in Keys, amount \in Amounts, purchased \in Outputs :
          ExecuteKeyBuyback(keeper, k, amount, purchased)
    \/ \E start \in 0 .. MaxLots - 1, count \in 1 .. MaxLots : ReleaseMuppets(start, count)
    \/ Tick

Spec == Init /\ [][Next]_vars

(* Time passes, and the beneficiary releases page after page.              *)
FairSpec ==
    /\ Spec
    /\ WF_vars(Tick)
    /\ \A start \in 0 .. MaxLots - 1 : WF_vars(ReleaseMuppets(start, 1))

-----------------------------------------------------------------------------
TypeOK ==
    /\ now \in Nat
    /\ {ownerIsContract, routerIsSet, paused} \subseteq BOOLEAN
    /\ keepers \subseteq KeeperAccounts
    /\ keeperCount = Cardinality(keepers)
    /\ LimitsAllowed(maxBuybackWei, buybackCooldown)
    /\ {nativeBalance, muppetsBalance, totalPendingNative, totalFundedNative, totalSpentNative,
        totalMuppetsPurchased, totalMuppetsReleased} \subseteq Nat
    /\ {pendingNativeByKey, totalFundedByKey, totalSpentByKey, lastBuybackAt} \subseteq [Keys -> Nat]
    /\ vestingLots \in Seq(VestingLot)

(* What the router sent for a key buys for that key alone, and what is not *)
(* spent of it is in the vault, whatever the owner recovers as excess.     *)
BudgetsAreBacked ==
    /\ \A k \in Keys : pendingNativeByKey[k] >= 0
                      /\ totalFundedByKey[k] = pendingNativeByKey[k] + totalSpentByKey[k]
    /\ totalPendingNative = SumFunctionOnSet(pendingNativeByKey, Keys)
    /\ totalFundedNative = totalPendingNative + totalSpentNative
    /\ nativeBalance >= totalPendingNative

(* The vault holds the unreleased part of every lot, however the pages     *)
(* overlap.                                                                *)
LotsAreHeld ==
    LET unreleased == [i \in DOMAIN vestingLots |->
                          vestingLots[i].amount - vestingLots[i].released]
    IN  muppetsBalance >= SumFunctionOnSet(unreleased, DOMAIN vestingLots)

(* The vault holds what it owes in both currencies, and its counter, which *)
(* activation asks, counts the keepers.                                    *)
BooksAreBacked ==
    /\ BudgetsAreBacked
    /\ LotsAreHeld
    /\ keeperCount = Cardinality(keepers)

(* Early or late, in one page or many overlapping ones, a lot has released *)
(* by now no more than linear vesting from its purchase allows.            *)
VestingIsLinear ==
    \A i \in DOMAIN vestingLots :
        LET lot == vestingLots[i]
        IN  /\ lot.released <= lot.amount
            /\ lot.released * VESTING_DURATION <= lot.amount * (now - lot.start)

(* Paused or not, every lot is in the end released to the last token.      *)
EveryLotIsReleased ==
    \A i \in 1 .. MaxLots :
        i \in DOMAIN vestingLots ~>
            i \in DOMAIN vestingLots /\ vestingLots[i].released = vestingLots[i].amount
=============================================================================
