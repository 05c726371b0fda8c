----------------------------- MODULE BuybackProofs -----------------------------
(* Theorems about BuybackVault, and about the reserve and the keeper beside *)
(* it in BuybackVaultMC, for every value of their constants.               *)
EXTENDS BuybackVaultMC, SumLemmas, TLAPS

-----------------------------------------------------------------------------
(* Arithmetic.                                                             *)

(* A factor may grow.                                                      *)
LEMMA ProductGrows ==
    ASSUME NEW a \in Nat, NEW x \in Nat, NEW y \in Nat, x <= y
    PROVE  a * x \in Nat /\ a * y \in Nat /\ a * x <= a * y
  <1>1. PICK d \in Nat : y = x + d
    <2>1. y - x \in Nat /\ y = x + (y - x)
      OBVIOUS
    <2> QED
      BY <2>1
  <1>2. a * (x + d) = a * x + a * d
    BY <1>1
  <1>3. a * x \in Nat /\ a * d \in Nat
    OBVIOUS
  <1> QED
    BY <1>1, <1>2, <1>3

(* Linear vesting before its end: the rounded fraction is at most the lot, *)
(* at most what is due, and at least what was released within it.          *)
LEMMA FractionVested ==
    ASSUME NEW amount \in Nat, NEW elapsed \in Nat, NEW duration \in Nat \ {0},
           elapsed < duration, NEW released \in Nat, released * duration <= amount * elapsed
    PROVE  LET vested == (amount * elapsed) \div duration IN
           /\ vested \in Nat /\ released <= vested /\ vested <= amount
           /\ vested * duration <= amount * elapsed
  <1> DEFINE p == amount * elapsed
             v == p \div duration
  <1>1. p \in Nat /\ p <= amount * duration
    BY ProductGrows
  <1> HIDE DEF p
  <1>2. /\ v \in Nat /\ duration * v <= p /\ p < duration * (v + 1)
    BY <1>1
  <1> HIDE DEF v
  <1>3. released <= v
    <2>1. SUFFICES ASSUME v + 1 <= released PROVE FALSE
      BY <1>2
    <2>2. duration * (v + 1) <= duration * released
      BY <1>2, <2>1, ProductGrows
    <2>3. duration * released <= p
      BY DEF p
    <2>4. duration * (v + 1) \in Int /\ duration * released \in Int
      BY <1>2
    <2> QED
      BY <1>1, <1>2, <2>2, <2>3, <2>4
  <1>4. v <= amount
    <2>1. SUFFICES ASSUME amount + 1 <= v PROVE FALSE
      BY <1>2
    <2>2. duration * (amount + 1) <= duration * v
      BY <1>2, <2>1, ProductGrows
    <2>3. duration * (amount + 1) = amount * duration + duration /\ amount * duration \in Nat
      OBVIOUS
    <2>4. duration * v \in Int
      BY <1>2
    <2> QED
      BY <1>1, <1>2, <2>2, <2>3, <2>4
  <1>5. v * duration <= p
    BY <1>2
  <1> QED
    BY <1>2, <1>3, <1>4, <1>5 DEF v, p

-----------------------------------------------------------------------------
(* The invariant.                                                          *)

\* A lot bought by then, of which linear vesting allowed all that was released.
SoundAt(lot, time) ==
    /\ lot.start <= time
    /\ lot.released <= lot.amount
    /\ lot.released * VESTING_DURATION <= lot.amount * (time - lot.start)

Unreleased == [i \in DOMAIN vestingLots |-> vestingLots[i].amount - vestingLots[i].released]

VaultInv ==
    /\ TypeOK
    /\ BudgetsAreBacked
    /\ LotsAreHeld
    /\ \A i \in DOMAIN vestingLots : SoundAt(vestingLots[i], now)

(* The constants are numbers, and there are finitely many keys.            *)
LEMMA VaultConstants ==
    /\ VESTING_DURATION \in Nat \ {0} /\ MAX_RELEASE_LOTS \in Nat \ {0}
    /\ MIN_BUYBACK_WEI \in Nat \ {0} /\ ABSOLUTE_MAX_BUYBACK_WEI \in Nat
    /\ MIN_BUYBACK_COOLDOWN \in Nat
    /\ Amounts \subseteq Nat /\ Cooldowns \subseteq Nat /\ Outputs \subseteq Nat
    /\ MaxFunded \in Nat /\ MaxLots \in Nat /\ LastPurchase \in Nat /\ MaxTime \in Nat
    /\ IsFiniteSet(Keys)
  BY BuybackVaultAssumption

(* The lots are a finite sequence.                                         *)
LEMMA LotTypes ==
    ASSUME TypeOK
    PROVE  /\ now \in Nat /\ Len(vestingLots) \in Nat
           /\ DOMAIN vestingLots = 1 .. Len(vestingLots) /\ IsFiniteSet(DOMAIN vestingLots)
           /\ \A i \in DOMAIN vestingLots : vestingLots[i] \in VestingLot
           /\ \A i \in DOMAIN vestingLots : /\ vestingLots[i].amount \in Nat
                                            /\ vestingLots[i].released \in Nat
                                            /\ vestingLots[i].start \in Nat
  <1>1. now \in Nat /\ vestingLots \in Seq(VestingLot)
    BY DEF TypeOK
  <1>2. Len(vestingLots) \in Nat /\ DOMAIN vestingLots = 1 .. Len(vestingLots)
        /\ \A i \in DOMAIN vestingLots : vestingLots[i] \in VestingLot
    BY <1>1
  <1>3. IsFiniteSet(1 .. Len(vestingLots))
    <2>1. 1 \in Int /\ Len(vestingLots) \in Int
      BY <1>2
    <2> QED
      BY <2>1, FS_Interval
  <1>4. \A i \in DOMAIN vestingLots : /\ vestingLots[i].amount \in Nat
                                      /\ vestingLots[i].released \in Nat
                                      /\ vestingLots[i].start \in Nat
    BY <1>2 DEF VestingLot
  <1> QED
    BY <1>1, <1>2, <1>3, <1>4

(* What is vested of a sound lot is between what was released and the lot, *)
(* and a lot released to that point is sound again.                        *)
LEMMA VestedIsLinear ==
    ASSUME TypeOK, NEW lot \in VestingLot, SoundAt(lot, now)
    PROVE  /\ Vested(lot) \in Nat
           /\ lot.released <= Vested(lot) /\ Vested(lot) <= lot.amount
           /\ Released(lot) \in VestingLot /\ SoundAt(Released(lot), now)
           /\ Released(lot).amount = lot.amount /\ Released(lot).released = Vested(lot)
           /\ Vested(lot) - lot.released \in Nat
  <1> DEFINE a == lot.amount
             r == lot.released
             d == VESTING_DURATION
             t == now - lot.start
             v == Vested(lot)
  <1>1. a \in Nat /\ r \in Nat /\ lot.start \in Nat /\ now \in Nat /\ d \in Nat \ {0}
    BY VaultConstants DEF TypeOK, VestingLot
  <1>2. t \in Nat /\ r <= a /\ r * d <= a * t
    BY <1>1 DEF SoundAt
  <1>3. v = IF t >= d THEN a ELSE (a * t) \div d
    BY DEF Vested
  <1>4. /\ Released(lot) = [lot EXCEPT !.released = v]
    BY DEF Released
  <1> HIDE DEF v
  <1>5. /\ Released(lot).amount = a /\ Released(lot).released = v
        /\ Released(lot).start = lot.start
    BY <1>4 DEF VestingLot
  <1>6. /\ v \in Nat /\ r <= v /\ v <= a /\ v * d <= a * t
    <2>1. CASE t >= d
      <3>1. v = a
        BY <1>3, <2>1
      <3>2. a * d <= a * t
        BY <1>1, <1>2, <2>1, ProductGrows
      <3> QED
        BY <1>1, <1>2, <3>1, <3>2
    <2>2. CASE t < d
      <3>1. v = (a * t) \div d
        BY <1>1, <1>2, <1>3, <2>2
      <3> HIDE DEF a, t, r, d
      <3> QED
        BY <1>1, <1>2, <2>2, <3>1, FractionVested
    <2> QED
      BY <1>1, <1>2, <2>1, <2>2
  <1>7. Released(lot) \in VestingLot
    BY <1>4, <1>6 DEF VestingLot
  <1>8. SoundAt(Released(lot), now)
    BY <1>1, <1>2, <1>5, <1>6 DEF SoundAt
  <1> QED
    BY <1>1, <1>5, <1>6, <1>7, <1>8 DEF v

(* Time does no harm to a lot: vesting only allows more.                   *)
LEMMA LotsAge ==
    ASSUME TypeOK, now' \in Nat, now <= now', NEW lot \in VestingLot, SoundAt(lot, now)
    PROVE  SoundAt(lot, now')
  <1>1. lot.amount \in Nat /\ lot.released \in Nat /\ lot.start \in Nat /\ now \in Nat
    BY DEF TypeOK, VestingLot
  <1>2. VESTING_DURATION \in Nat
    BY VaultConstants
  <1>3. /\ lot.start <= now /\ lot.released <= lot.amount
        /\ lot.released * VESTING_DURATION <= lot.amount * (now - lot.start)
    BY DEF SoundAt
  <1>4. now - lot.start \in Nat /\ now' - lot.start \in Nat /\ now - lot.start <= now' - lot.start
    BY <1>1, <1>3
  <1>5. /\ lot.amount * (now - lot.start) <= lot.amount * (now' - lot.start)
        /\ lot.amount * (now - lot.start) \in Nat /\ lot.amount * (now' - lot.start) \in Nat
    BY <1>1, <1>4, ProductGrows
  <1>6. lot.released * VESTING_DURATION \in Nat
    BY <1>1, <1>2
  <1> QED
    BY <1>1, <1>3, <1>5, <1>6 DEF SoundAt

-----------------------------------------------------------------------------
(* Governance.                                                             *)

(* Counting the keepers: CountAfter follows the set, whether or not the    *)
(* call changes it.                                                        *)
LEMMA KeepersCounted ==
    ASSUME TypeOK, NEW keeper \in KeeperAccounts, NEW allowed \in BOOLEAN,
           SetKeeper(keeper, allowed)
    PROVE  keepers' \subseteq KeeperAccounts /\ keeperCount' = Cardinality(keepers')
  <1>1. IsFiniteSet(keepers)
    BY BuybackVaultAssumption, FS_Subset DEF TypeOK
  <1>2. keeperCount = Cardinality(keepers) /\ keepers \subseteq KeeperAccounts
    BY DEF TypeOK
  <1>3. keeperCount' = CountAfter(keeper, allowed)
        /\ keepers' = IF allowed THEN keepers \union {keeper} ELSE keepers \ {keeper}
    BY DEF SetKeeper
  <1>4. CASE allowed
    <2>1. Cardinality(keepers \cup {keeper})
              = IF keeper \in keepers THEN Cardinality(keepers) ELSE Cardinality(keepers) + 1
      BY <1>1, FS_AddElement
    <2> QED
      BY <1>2, <1>3, <1>4, <2>1 DEF CountAfter
  <1>5. CASE ~allowed
    <2>1. Cardinality(keepers \ {keeper})
              = IF keeper \in keepers THEN Cardinality(keepers) - 1 ELSE Cardinality(keepers)
      BY <1>1, FS_RemoveElement
    <2> QED
      BY <1>2, <1>3, <1>5, <2>1 DEF CountAfter
  <1> QED
    BY <1>4, <1>5

(* Every step keeps the types of what the owner sets, and the clock.       *)
LEMMA GovernanceStep ==
    ASSUME TypeOK, [Next]_vars
    PROVE  /\ now' \in Nat /\ now <= now'
           /\ ownerIsContract' \in BOOLEAN /\ routerIsSet' \in BOOLEAN /\ paused' \in BOOLEAN
           /\ keepers' \subseteq KeeperAccounts /\ keeperCount' = Cardinality(keepers')
           /\ LimitsAllowed(maxBuybackWei, buybackCooldown)'
  <1>0. /\ now \in Nat
        /\ ownerIsContract \in BOOLEAN /\ routerIsSet \in BOOLEAN /\ paused \in BOOLEAN
        /\ keepers \subseteq KeeperAccounts /\ keeperCount = Cardinality(keepers)
        /\ LimitsAllowed(maxBuybackWei, buybackCooldown)
    BY DEF TypeOK
  <1> DEFINE Keeps == UNCHANGED <<now, governanceVars, limitVars>>
  <1>1. ASSUME Keeps
        PROVE  /\ now' \in Nat /\ now <= now'
               /\ ownerIsContract' \in BOOLEAN /\ routerIsSet' \in BOOLEAN /\ paused' \in BOOLEAN
               /\ keepers' \subseteq KeeperAccounts /\ keeperCount' = Cardinality(keepers')
               /\ LimitsAllowed(maxBuybackWei, buybackCooldown)'
    BY <1>0, <1>1 DEF governanceVars, limitVars, LimitsAllowed
  <1>2. CASE OwnerStep
    <2>1. CASE TransferOwnership
      BY <1>0, <2>1 DEF TransferOwnership, limitVars, LimitsAllowed
    <2>2. CASE SetRevenueRouter
      BY <1>0, <2>2 DEF SetRevenueRouter, limitVars, LimitsAllowed
    <2>3. ASSUME NEW keeper \in KeeperAccounts, NEW allowed \in BOOLEAN,
                 SetKeeper(keeper, allowed)
          PROVE  /\ keepers' \subseteq KeeperAccounts /\ keeperCount' = Cardinality(keepers')
                 /\ UNCHANGED <<now, ownerIsContract, routerIsSet, paused, limitVars>>
      BY <2>3, KeepersCounted DEF SetKeeper
    <2>4. CASE \E keeper \in KeeperAccounts, allowed \in BOOLEAN : SetKeeper(keeper, allowed)
      BY <1>0, <2>3, <2>4 DEF limitVars, LimitsAllowed
    <2>5. CASE \E amount \in Amounts, cooldown \in Cooldowns : SetLimits(amount, cooldown)
      BY <1>0, <2>5 DEF SetLimits, governanceVars, LimitsAllowed
    <2>6. CASE Activate
      <3>1. /\ paused' \in BOOLEAN
            /\ UNCHANGED <<now, ownerIsContract, routerIsSet, keepers, keeperCount, limitVars>>
        BY <2>6 DEF Activate
      <3> QED
        BY <1>0, <3>1 DEF limitVars, LimitsAllowed
    <2>7. CASE Pause
      <3>1. /\ paused' \in BOOLEAN
            /\ UNCHANGED <<now, ownerIsContract, routerIsSet, keepers, keeperCount, limitVars>>
        BY <2>7 DEF Pause
      <3> QED
        BY <1>0, <3>1 DEF limitVars, LimitsAllowed
    <2>8. CASE \E amount \in Amounts : RecoverExcessNative(amount)
      BY <1>1, <2>8 DEF RecoverExcessNative
    <2> QED
      BY <1>2, <2>1, <2>2, <2>4, <2>5, <2>6, <2>7, <2>8 DEF OwnerStep
  <1>3. CASE \E amount \in Amounts : (\E k \in Keys : FundKey(k, amount)) \/ ForceNative(amount)
    BY <1>1, <1>3 DEF FundKey, ForceNative
  <1>4. CASE \E keeper \in KeeperAccounts, k \in Keys, amount \in Amounts, purchased \in Outputs :
                ExecuteKeyBuyback(keeper, k, amount, purchased)
    BY <1>1, <1>4 DEF ExecuteKeyBuyback
  <1>5. CASE \E start \in 0 .. MaxLots - 1, count \in 1 .. MaxLots : ReleaseMuppets(start, count)
    BY <1>1, <1>5 DEF ReleaseMuppets
  <1>6. CASE Tick
    BY <1>0, <1>6 DEF Tick, governanceVars, limitVars, LimitsAllowed
  <1>7. CASE UNCHANGED vars
    BY <1>1, <1>7 DEF vars
  <1> QED
    BY <1>2, <1>3, <1>4, <1>5, <1>6, <1>7 DEF Next

-----------------------------------------------------------------------------
(* The budgets.                                                            *)

\* The types of the budgets, and the books they are kept in.
BudgetsAreSound ==
    /\ nativeBalance \in Nat /\ totalPendingNative \in Nat
    /\ totalFundedNative \in Nat /\ totalSpentNative \in Nat
    /\ pendingNativeByKey \in [Keys -> Nat] /\ totalFundedByKey \in [Keys -> Nat]
    /\ totalSpentByKey \in [Keys -> Nat] /\ lastBuybackAt \in [Keys -> Nat]
    /\ BudgetsAreBacked

(* A budget that changes by d changes the sum by d.                        *)
LEMMA BudgetChanges ==
    ASSUME NEW f \in [Keys -> Nat], NEW g \in [Keys -> Nat], NEW k \in Keys, NEW d \in Int,
           g[k] = f[k] + d, \A o \in Keys \ {k} : g[o] = f[o]
    PROVE  /\ SumFunctionOnSet(g, Keys) = SumFunctionOnSet(f, Keys) + d
           /\ SumFunctionOnSet(f, Keys) \in Nat
           /\ SumFunctionOnSet(g, Keys) \in Nat
  <1>1. IsFiniteSet(Keys)
    BY VaultConstants
  <1>2. \A o \in Keys : f[o] \in Int /\ g[o] \in Int /\ f[o] \in Nat /\ g[o] \in Nat
    OBVIOUS
  <1>3. SumFunctionOnSet(g, Keys) = SumFunctionOnSet(f, Keys) - f[k] + g[k]
    BY <1>1, <1>2, SumChange
  <1>4. SumFunctionOnSet(f, Keys) \in Nat /\ SumFunctionOnSet(g, Keys) \in Nat
    BY <1>1, <1>2, SumNat
  <1> QED
    BY <1>2, <1>3, <1>4

(* Funds, purchases and withdrawals of excess keep the budgets backed.     *)
LEMMA BudgetsStep ==
    ASSUME VaultInv, [Next]_vars
    PROVE  BudgetsAreSound'
  <1>0. BudgetsAreSound
    BY DEF VaultInv, TypeOK, BudgetsAreSound
  <1>1. now \in Nat /\ Amounts \subseteq Nat
    BY VaultConstants DEF VaultInv, TypeOK
  <1>2. ASSUME UNCHANGED budgetVars, nativeBalance' \in Nat, nativeBalance' >= totalPendingNative
        PROVE  BudgetsAreSound'
    BY <1>0, <1>2 DEF budgetVars, BudgetsAreSound, BudgetsAreBacked
  <1>3. ASSUME UNCHANGED <<budgetVars, nativeBalance>>
        PROVE  BudgetsAreSound'
    BY <1>0, <1>3 DEF budgetVars, BudgetsAreSound, BudgetsAreBacked
  <1>4. CASE OwnerStep
    <2>1. CASE \E amount \in Amounts : RecoverExcessNative(amount)
      <3>1. PICK amount \in Amounts : RecoverExcessNative(amount)
        BY <2>1
      <3>2. amount <= nativeBalance - totalPendingNative
            /\ nativeBalance' = nativeBalance - amount /\ UNCHANGED budgetVars
        BY <3>1 DEF RecoverExcessNative, IsExcess
      <3>3. nativeBalance' \in Nat /\ nativeBalance' >= totalPendingNative
        BY <1>0, <1>1, <3>2 DEF BudgetsAreSound
      <3> QED
        BY <1>2, <3>2, <3>3
    <2>2. CASE ~\E amount \in Amounts : RecoverExcessNative(amount)
      BY <1>3, <1>4, <2>2
      DEF OwnerStep, TransferOwnership, SetRevenueRouter, SetKeeper, SetLimits, Activate, Pause
    <2> QED
      BY <2>1, <2>2
  <1>5. ASSUME NEW amount \in Amounts, NEW k \in Keys, FundKey(k, amount)
        PROVE  BudgetsAreSound'
    <2>1. /\ nativeBalance' = nativeBalance + amount
          /\ pendingNativeByKey' = [pendingNativeByKey EXCEPT ![k] = pendingNativeByKey[k] + amount]
          /\ totalPendingNative' = totalPendingNative + amount
          /\ totalFundedByKey' = [totalFundedByKey EXCEPT ![k] = totalFundedByKey[k] + amount]
          /\ totalFundedNative' = totalFundedNative + amount
          /\ UNCHANGED <<totalSpentByKey, lastBuybackAt, totalSpentNative>>
      BY <1>5 DEF FundKey
    <2>2. pendingNativeByKey' \in [Keys -> Nat] /\ totalFundedByKey' \in [Keys -> Nat]
      BY <1>0, <1>1, <2>1 DEF BudgetsAreSound
    <2>3. /\ pendingNativeByKey'[k] = pendingNativeByKey[k] + amount
          /\ totalFundedByKey'[k] = totalFundedByKey[k] + amount
          /\ \A o \in Keys \ {k} : /\ pendingNativeByKey'[o] = pendingNativeByKey[o]
                                   /\ totalFundedByKey'[o] = totalFundedByKey[o]
      BY <1>0, <2>1 DEF BudgetsAreSound
    <2>4. SumFunctionOnSet(pendingNativeByKey', Keys)
              = SumFunctionOnSet(pendingNativeByKey, Keys) + amount
      BY <1>0, <1>1, <2>2, <2>3, BudgetChanges DEF BudgetsAreSound
    <2>5. /\ totalPendingNative' = SumFunctionOnSet(pendingNativeByKey', Keys)
          /\ totalFundedNative' = totalPendingNative' + totalSpentNative'
          /\ nativeBalance' >= totalPendingNative'
          /\ nativeBalance' \in Nat /\ totalPendingNative' \in Nat /\ totalFundedNative' \in Nat
      BY <1>0, <1>1, <2>1, <2>4 DEF BudgetsAreSound, BudgetsAreBacked
    <2>6. ASSUME NEW o \in Keys
          PROVE  /\ pendingNativeByKey'[o] >= 0
                 /\ totalFundedByKey'[o] = pendingNativeByKey'[o] + totalSpentByKey'[o]
      <3>1. /\ pendingNativeByKey'[o] \in Nat /\ pendingNativeByKey[o] \in Nat
            /\ totalSpentByKey[o] \in Nat /\ totalSpentByKey'[o] = totalSpentByKey[o]
            /\ totalFundedByKey[o] = pendingNativeByKey[o] + totalSpentByKey[o]
        BY <1>0, <2>1, <2>2 DEF BudgetsAreSound, BudgetsAreBacked
      <3>2. CASE o = k
        BY <1>1, <2>3, <3>1, <3>2
      <3>3. CASE o # k
        BY <2>3, <3>1, <3>3
      <3> QED
        BY <3>2, <3>3
    <2>7. BudgetsAreBacked'
      BY <2>5, <2>6 DEF BudgetsAreBacked
    <2> QED
      BY <1>0, <2>1, <2>2, <2>5, <2>7 DEF BudgetsAreSound
  <1>6. ASSUME NEW amount \in Amounts, ForceNative(amount)
        PROVE  BudgetsAreSound'
    <2>1. nativeBalance' = nativeBalance + amount /\ UNCHANGED budgetVars
      BY <1>6 DEF ForceNative
    <2>2. nativeBalance' \in Nat /\ nativeBalance' >= totalPendingNative
      BY <1>0, <1>1, <2>1 DEF BudgetsAreSound, BudgetsAreBacked
    <2> QED
      BY <1>2, <2>1, <2>2
  <1>7. ASSUME NEW keeper \in KeeperAccounts, NEW k \in Keys, NEW amount \in Amounts,
               NEW purchased \in Outputs, ExecuteKeyBuyback(keeper, k, amount, purchased)
        PROVE  BudgetsAreSound'
    <2>1. /\ amount <= pendingNativeByKey[k]
          /\ nativeBalance' = nativeBalance - amount
          /\ pendingNativeByKey' = [pendingNativeByKey EXCEPT ![k] = pendingNativeByKey[k] - amount]
          /\ totalPendingNative' = totalPendingNative - amount
          /\ totalSpentByKey' = [totalSpentByKey EXCEPT ![k] = totalSpentByKey[k] + amount]
          /\ totalSpentNative' = totalSpentNative + amount
          /\ lastBuybackAt' = [lastBuybackAt EXCEPT ![k] = now]
          /\ UNCHANGED <<totalFundedByKey, totalFundedNative>>
      BY <1>7 DEF ExecuteKeyBuyback, WithinBudget
    <2>2. pendingNativeByKey[k] \in Nat /\ pendingNativeByKey[k] - amount \in Nat
          /\ totalSpentByKey[k] + amount \in Nat
      BY <1>0, <1>1, <2>1 DEF BudgetsAreSound
    <2>3. pendingNativeByKey' \in [Keys -> Nat] /\ totalSpentByKey' \in [Keys -> Nat]
      BY <1>0, <1>1, <2>1, <2>2 DEF BudgetsAreSound
    <2>4. lastBuybackAt' \in [Keys -> Nat]
      BY <1>0, <1>1, <2>1 DEF BudgetsAreSound
    <2>5. /\ pendingNativeByKey'[k] = pendingNativeByKey[k] - amount
          /\ totalSpentByKey'[k] = totalSpentByKey[k] + amount
          /\ \A o \in Keys \ {k} : /\ pendingNativeByKey'[o] = pendingNativeByKey[o]
                                   /\ totalSpentByKey'[o] = totalSpentByKey[o]
      BY <1>0, <2>1 DEF BudgetsAreSound
    <2>6. /\ 0 - amount \in Int /\ pendingNativeByKey'[k] = pendingNativeByKey[k] + (0 - amount)
      BY <1>1, <2>2, <2>5
    <2>7. /\ SumFunctionOnSet(pendingNativeByKey', Keys)
                 = SumFunctionOnSet(pendingNativeByKey, Keys) + (0 - amount)
          /\ SumFunctionOnSet(pendingNativeByKey', Keys) \in Nat
      BY <1>0, <2>3, <2>5, <2>6, BudgetChanges DEF BudgetsAreSound
    <2>8. /\ totalPendingNative' = SumFunctionOnSet(pendingNativeByKey', Keys)
          /\ totalFundedNative' = totalPendingNative' + totalSpentNative'
          /\ nativeBalance' >= totalPendingNative'
          /\ nativeBalance' \in Nat /\ totalPendingNative' \in Nat /\ totalSpentNative' \in Nat
      BY <1>0, <1>1, <2>1, <2>7 DEF BudgetsAreSound, BudgetsAreBacked
    <2>9. ASSUME NEW o \in Keys
          PROVE  /\ pendingNativeByKey'[o] >= 0
                 /\ totalFundedByKey'[o] = pendingNativeByKey'[o] + totalSpentByKey'[o]
      <3>1. /\ pendingNativeByKey'[o] \in Nat /\ pendingNativeByKey[o] \in Nat
            /\ totalSpentByKey[o] \in Nat /\ totalFundedByKey'[o] = totalFundedByKey[o]
            /\ totalFundedByKey[o] = pendingNativeByKey[o] + totalSpentByKey[o]
        BY <1>0, <2>1, <2>3 DEF BudgetsAreSound, BudgetsAreBacked
      <3>2. CASE o = k
        BY <1>1, <2>5, <3>1, <3>2
      <3>3. CASE o # k
        BY <2>5, <3>1, <3>3
      <3> QED
        BY <3>2, <3>3
    <2>10. BudgetsAreBacked'
      BY <2>8, <2>9 DEF BudgetsAreBacked
    <2> QED
      BY <1>0, <2>1, <2>3, <2>4, <2>8, <2>10 DEF BudgetsAreSound
  <1>8. CASE \E start \in 0 .. MaxLots - 1, count \in 1 .. MaxLots : ReleaseMuppets(start, count)
    BY <1>3, <1>8 DEF ReleaseMuppets
  <1>9. CASE Tick
    BY <1>3, <1>9 DEF Tick
  <1>10. CASE UNCHANGED vars
    BY <1>3, <1>10 DEF vars
  <1> QED
    BY <1>4, <1>5, <1>6, <1>7, <1>8, <1>9, <1>10 DEF Next

-----------------------------------------------------------------------------
(* The lots.                                                               *)

\* The types of what concerns the lots, and that each is held and sound.
LotsAreSound ==
    /\ vestingLots \in Seq(VestingLot)
    /\ muppetsBalance \in Nat
    /\ totalMuppetsPurchased \in Nat /\ totalMuppetsReleased \in Nat
    /\ LotsAreHeld
    /\ \A i \in DOMAIN vestingLots : SoundAt(vestingLots[i], now)

(* A purchase adds a lot, nothing of which is released, and its tokens.    *)
LEMMA PurchasedLot ==
    ASSUME VaultInv, NEW keeper \in KeeperAccounts, NEW k \in Keys, NEW amount \in Amounts,
           NEW purchased \in Outputs, ExecuteKeyBuyback(keeper, k, amount, purchased)
    PROVE  LotsAreSound'
  <1> DEFINE lots == vestingLots
             more == vestingLots'
             n == Len(vestingLots)
             new == [amount |-> purchased, released |-> 0, start |-> now]
             f == Unreleased
             g == Unreleased'
  <1>0. TypeOK /\ LotsAreHeld /\ \A i \in DOMAIN lots : SoundAt(lots[i], now)
    BY DEF VaultInv
  <1>1. /\ muppetsBalance' = muppetsBalance + purchased
        /\ totalMuppetsPurchased' = totalMuppetsPurchased + purchased
        /\ more = Append(lots, new)
        /\ now' = now /\ totalMuppetsReleased' = totalMuppetsReleased
    BY DEF ExecuteKeyBuyback
  <1>2. /\ purchased \in Nat /\ muppetsBalance \in Nat
        /\ totalMuppetsPurchased \in Nat /\ totalMuppetsReleased \in Nat
        /\ lots \in Seq(VestingLot)
    BY <1>0, VaultConstants DEF TypeOK
  <1>3. /\ now \in Nat /\ n \in Nat /\ DOMAIN lots = 1 .. n /\ IsFiniteSet(DOMAIN lots)
        /\ \A i \in DOMAIN lots : lots[i].amount \in Nat /\ lots[i].released \in Nat
    BY <1>0, LotTypes
  <1>4. new \in VestingLot
    BY <1>2, <1>3 DEF VestingLot
  <1>5. new.amount = purchased /\ new.released = 0 /\ new.start = now
    OBVIOUS
  <1> HIDE DEF new
  <1>6. /\ more \in Seq(VestingLot) /\ more[n + 1] = new
        /\ DOMAIN more = (DOMAIN lots) \cup {n + 1} /\ n + 1 \notin DOMAIN lots
        /\ \A i \in DOMAIN lots : more[i] = lots[i]
    BY <1>1, <1>2, <1>3, <1>4
  <1>7. \A i \in DOMAIN more : SoundAt(more[i], now')
    <2>1. SoundAt(new, now')
      <3>1. VESTING_DURATION \in Nat
        BY VaultConstants
      <3> QED
        BY <1>1, <1>2, <1>3, <1>5, <3>1 DEF SoundAt
    <2>2. \A i \in DOMAIN lots : SoundAt(lots[i], now')
      BY <1>0, <1>1 DEF SoundAt
    <2>3. ASSUME NEW i \in DOMAIN more
          PROVE  SoundAt(more[i], now')
      <3>1. CASE i \in DOMAIN lots
        BY <1>6, <2>2, <3>1 DEF SoundAt
      <3>2. CASE i = n + 1
        BY <1>6, <2>1, <3>2 DEF SoundAt
      <3> QED
        BY <1>6, <3>1, <3>2
    <2> QED
      BY <2>3
  <1>8. /\ \A i \in DOMAIN lots : f[i] \in Int /\ f[i] = g[i]
        /\ g[n + 1] = purchased
    BY <1>2, <1>3, <1>5, <1>6 DEF Unreleased
  <1>9. LotsAreHeld'
    <2>1. /\ muppetsBalance >= SumFunctionOnSet(f, DOMAIN lots)
      BY <1>0 DEF LotsAreHeld, Unreleased
    <2> DEFINE D == DOMAIN lots
               x == n + 1
    <2>2. /\ \A i \in D \cup {x} : g[i] \in Int
          /\ \A i \in D : f[i] = g[i]
          /\ \A i \in D : f[i] \in Int
          /\ g[x] = purchased /\ x \notin D /\ IsFiniteSet(D) /\ DOMAIN more = D \cup {x}
      BY <1>2, <1>3, <1>6, <1>8
    <2> HIDE DEF f, g, D, x
    <2>3. SumFunctionOnSet(g, D \cup {x}) = g[x] + SumFunctionOnSet(g, D)
      BY <2>2, SumAdd
    <2>4. SumFunctionOnSet(f, D) = SumFunctionOnSet(g, D)
      BY <2>2, SumSame
    <2>5. SumFunctionOnSet(f, D) \in Int
      BY <2>2, SumInt
    <2>6. muppetsBalance' >= SumFunctionOnSet(g, DOMAIN more)
      BY <1>1, <1>2, <2>1, <2>2, <2>3, <2>4, <2>5 DEF D
    <2> QED
      BY <2>6 DEF LotsAreHeld, Unreleased, g
  <1>10. muppetsBalance' \in Nat /\ totalMuppetsPurchased' \in Nat
         /\ totalMuppetsReleased' \in Nat
    BY <1>1, <1>2
  <1> QED
    BY <1>6, <1>7, <1>9, <1>10 DEF LotsAreSound

(* A page pays what its lots owe: each was held, so the balance covers it, *)
(* and what the other lots still need stays.                               *)
LEMMA ReleasedLots ==
    ASSUME VaultInv, NEW start \in 0 .. MaxLots - 1, NEW count \in 1 .. MaxLots,
           ReleaseMuppets(start, count)
    PROVE  LotsAreSound'
  <1> DEFINE lots == vestingLots
             less == vestingLots'
             D == DOMAIN vestingLots
             P == Page(start, count)
             f == Unreleased
             g == Unreleased'
             p == [i \in P |-> Vested(vestingLots[i]) - vestingLots[i].released]
             h == [i \in D |-> IF i \in P THEN p[i] ELSE 0]
  <1>0. TypeOK /\ LotsAreHeld /\ \A i \in DOMAIN lots : SoundAt(lots[i], now)
    BY DEF VaultInv
  <1>1. /\ less = [i \in DOMAIN lots |-> IF i \in P THEN Released(lots[i]) ELSE lots[i]]
        /\ totalMuppetsReleased' = totalMuppetsReleased + Due(P)
        /\ muppetsBalance' = muppetsBalance - Due(P)
        /\ now' = now /\ totalMuppetsPurchased' = totalMuppetsPurchased
    BY DEF ReleaseMuppets
  <1>2. /\ muppetsBalance \in Nat /\ totalMuppetsPurchased \in Nat
        /\ totalMuppetsReleased \in Nat /\ lots \in Seq(VestingLot)
    BY <1>0 DEF TypeOK
  <1>3. /\ Len(lots) \in Nat /\ D = 1 .. Len(lots) /\ IsFiniteSet(D)
        /\ \A i \in D : lots[i] \in VestingLot
        /\ \A i \in D : lots[i].amount \in Nat /\ lots[i].released \in Nat
    BY <1>0, LotTypes
  <1>4. P \subseteq D
    <2>1. MaxLots \in Nat
      BY VaultConstants
    <2> QED
      BY <1>3, <2>1 DEF Page
  <1>5. ASSUME NEW i \in D
        PROVE  /\ less[i] \in VestingLot /\ SoundAt(less[i], now)
               /\ f[i] \in Nat /\ g[i] \in Nat /\ h[i] \in Nat /\ f[i] = g[i] + h[i]
    <2>1. lots[i] \in VestingLot /\ SoundAt(lots[i], now)
          /\ lots[i].amount \in Nat /\ lots[i].released \in Nat
      BY <1>0, <1>3
    <2> DEFINE lot == lots[i]
    <2>2. /\ Vested(lot) \in Nat
          /\ lot.released <= Vested(lot) /\ Vested(lot) <= lot.amount
          /\ Released(lot) \in VestingLot /\ SoundAt(Released(lot), now)
          /\ Released(lot).amount = lot.amount /\ Released(lot).released = Vested(lot)
      BY <1>0, <2>1, VestedIsLinear
    <2>3. less[i] = IF i \in P THEN Released(lot) ELSE lot
      BY <1>1
    <2>4. /\ f[i] = lot.amount - lot.released
          /\ g[i] = less[i].amount - less[i].released
          /\ h[i] = IF i \in P THEN Vested(lot) - lot.released ELSE 0
      <3>1. DOMAIN less = D
        BY <1>1
      <3> QED
        BY <3>1 DEF Unreleased
    <2>5. lot.released <= lot.amount
      BY <2>1 DEF SoundAt
    <2> HIDE DEF lot, f, g, h, less, P
    <2>6. CASE i \in P
      BY <2>1, <2>2, <2>3, <2>4, <2>6 DEF lot
    <2>7. CASE i \notin P
      BY <2>1, <2>2, <2>3, <2>4, <2>5, <2>7 DEF lot
    <2> QED
      BY <2>6, <2>7
  <1>6. less \in Seq(VestingLot) /\ DOMAIN less = D
    <2>1. DOMAIN less = 1 .. Len(lots) /\ less \in [1 .. Len(lots) -> VestingLot]
      BY <1>1, <1>3, <1>5
    <2> QED
      BY <1>3, <2>1
  <1>7. \A i \in DOMAIN less : SoundAt(less[i], now')
    BY <1>1, <1>5, <1>6 DEF SoundAt
  <1>8. IsFiniteSet(P)
    BY <1>3, <1>4, FS_Subset, Zenon
  <1>9. Due(P) = SumFunctionOnSet(p, P)
    BY DEF Due
  <1>10. /\ \A i \in P : p[i] = h[i]
         /\ \A i \in D \ P : h[i] = 0
    BY <1>4
  <1>11. muppetsBalance >= SumFunctionOnSet(f, D)
    BY <1>0 DEF LotsAreHeld, Unreleased
  <1> HIDE DEF f, g, h, p, D, P, less
  <1>12. SumFunctionOnSet(f, D) = SumFunctionOnSet(g, D) + SumFunctionOnSet(h, D)
    <2>1. \A i \in D : g[i] \in Int /\ h[i] \in Int /\ f[i] = g[i] + h[i]
      BY <1>5
    <2> QED
      BY <1>3, <2>1, SumPlus
  <1>13. /\ SumFunctionOnSet(g, D) \in Nat /\ SumFunctionOnSet(h, D) \in Nat
    BY <1>3, <1>5, SumNat
  <1>14. SumFunctionOnSet(p, P) = SumFunctionOnSet(h, P)
    BY <1>8, <1>10, SumSame
  <1>15. SumFunctionOnSet(h, P) = SumFunctionOnSet(h, D)
    <2>1. \A i \in P : h[i] \in Int
      BY <1>4, <1>5
    <2> QED
      BY <1>3, <1>4, <1>10, <2>1, SumSupport
  <1>16. /\ muppetsBalance' \in Nat /\ totalMuppetsReleased' \in Nat
         /\ muppetsBalance' >= SumFunctionOnSet(g, D)
    BY <1>1, <1>2, <1>9, <1>11, <1>12, <1>13, <1>14, <1>15
  <1>17. LotsAreHeld'
    BY <1>6, <1>16 DEF LotsAreHeld, Unreleased, g, less
  <1> QED
    BY <1>1, <1>2, <1>6, <1>7, <1>16, <1>17 DEF LotsAreSound, less

(* Every step keeps the lots held and sound.                               *)
LEMMA LotsStep ==
    ASSUME VaultInv, [Next]_vars
    PROVE  LotsAreSound'
  <1>0. /\ TypeOK /\ LotsAreSound
        /\ \A i \in DOMAIN vestingLots : vestingLots[i] \in VestingLot
    BY LotTypes DEF VaultInv, TypeOK, LotsAreSound
  <1>1. now' \in Nat /\ now <= now'
    BY <1>0, GovernanceStep
  <1>2. ASSUME UNCHANGED lotVars
        PROVE  LotsAreSound'
    <2>1. \A i \in DOMAIN vestingLots : SoundAt(vestingLots[i], now')
      BY <1>0, <1>1, LotsAge DEF LotsAreSound
    <2>2. vestingLots' = vestingLots
      BY <1>2 DEF lotVars
    <2> QED
      BY <1>0, <1>2, <2>1, <2>2 DEF lotVars, LotsAreSound, LotsAreHeld
  <1>3. CASE OwnerStep
    BY <1>2, <1>3
    DEF OwnerStep, TransferOwnership, SetRevenueRouter, SetKeeper, SetLimits, Activate, Pause,
        RecoverExcessNative
  <1>4. CASE \E amount \in Amounts : (\E k \in Keys : FundKey(k, amount)) \/ ForceNative(amount)
    BY <1>2, <1>4 DEF FundKey, ForceNative
  <1>5. CASE \E keeper \in KeeperAccounts, k \in Keys, amount \in Amounts, purchased \in Outputs :
                ExecuteKeyBuyback(keeper, k, amount, purchased)
    BY <1>5, PurchasedLot
  <1>6. CASE \E start \in 0 .. MaxLots - 1, count \in 1 .. MaxLots : ReleaseMuppets(start, count)
    BY <1>6, ReleasedLots
  <1>7. CASE Tick
    BY <1>2, <1>7 DEF Tick
  <1>8. CASE UNCHANGED vars
    BY <1>2, <1>8 DEF vars
  <1> QED
    BY <1>3, <1>4, <1>5, <1>6, <1>7, <1>8 DEF Next

-----------------------------------------------------------------------------
(* The theorems.                                                           *)

(* The vault starts empty, and with limits the constructor accepts.        *)
LEMMA VaultStarts ==
    ASSUME Init
    PROVE  VaultInv
  <1>1. /\ now = 1 /\ ownerIsContract = FALSE /\ routerIsSet = FALSE /\ paused = TRUE
        /\ keepers = {} /\ keeperCount = 0
        /\ LimitsAllowed(maxBuybackWei, buybackCooldown)
        /\ nativeBalance = 0 /\ muppetsBalance = 0
        /\ totalPendingNative = 0 /\ totalFundedNative = 0 /\ totalSpentNative = 0
        /\ totalMuppetsPurchased = 0 /\ totalMuppetsReleased = 0
        /\ vestingLots = <<>>
    BY DEF Init
  <1>2. /\ pendingNativeByKey = [k \in Keys |-> 0] /\ totalFundedByKey = [k \in Keys |-> 0]
        /\ totalSpentByKey = [k \in Keys |-> 0] /\ lastBuybackAt = [k \in Keys |-> 0]
    BY DEF Init
  <1>3. /\ pendingNativeByKey \in [Keys -> Nat] /\ totalFundedByKey \in [Keys -> Nat]
        /\ totalSpentByKey \in [Keys -> Nat] /\ lastBuybackAt \in [Keys -> Nat]
    BY <1>2
  <1>4. TypeOK
    <2>1. keeperCount = Cardinality(keepers) /\ keepers \subseteq KeeperAccounts
      BY <1>1, FS_EmptySet
    <2>2. vestingLots \in Seq(VestingLot) /\ now \in Nat
      BY <1>1
    <2>3. {ownerIsContract, routerIsSet, paused} \subseteq BOOLEAN
      BY <1>1
    <2>4. {nativeBalance, muppetsBalance, totalPendingNative, totalFundedNative,
           totalSpentNative, totalMuppetsPurchased, totalMuppetsReleased} \subseteq Nat
      BY <1>1
    <2>5. {pendingNativeByKey, totalFundedByKey, totalSpentByKey, lastBuybackAt}
              \subseteq [Keys -> Nat]
      BY <1>3
    <2> QED
      BY <1>1, <2>1, <2>2, <2>3, <2>4, <2>5 DEF TypeOK
  <1>5. BudgetsAreBacked
    <2>1. \A k \in Keys : pendingNativeByKey[k] = 0
      BY <1>2
    <2>2. SumFunctionOnSet(pendingNativeByKey, Keys) = 0
      BY <2>1, VaultConstants, SumZero
    <2> QED
      BY <1>1, <1>2, <2>2 DEF BudgetsAreBacked
  <1>6. DOMAIN vestingLots = {}
    BY <1>1
  <1>7. LotsAreHeld
    BY <1>1, <1>6, SumEmpty DEF LotsAreHeld
  <1> QED
    BY <1>4, <1>5, <1>6, <1>7 DEF VaultInv

(* In every reachable state the vault is sound.                            *)
THEOREM VaultCorrect == Spec => []VaultInv
  <1>1. Init => VaultInv
    BY VaultStarts
  <1>2. ASSUME VaultInv, [Next]_vars
        PROVE  VaultInv'
    <2>1. BudgetsAreSound'
      BY <1>2, BudgetsStep
    <2>2. LotsAreSound'
      BY <1>2, LotsStep
    <2>3. /\ now' \in Nat
          /\ ownerIsContract' \in BOOLEAN /\ routerIsSet' \in BOOLEAN /\ paused' \in BOOLEAN
          /\ keepers' \subseteq KeeperAccounts /\ keeperCount' = Cardinality(keepers')
          /\ LimitsAllowed(maxBuybackWei, buybackCooldown)'
      BY <1>2, GovernanceStep DEF VaultInv
    <2>4. TypeOK'
      BY <2>1, <2>2, <2>3 DEF TypeOK, BudgetsAreSound, LotsAreSound
    <2> QED
      BY <2>1, <2>2, <2>4 DEF VaultInv, BudgetsAreSound, LotsAreSound
  <1> QED
    BY <1>1, <1>2, PTL DEF Spec

(* Types, the first part of it.                                            *)
THEOREM VaultTypes == Spec => []TypeOK
  <1>1. VaultInv => TypeOK
    BY DEF VaultInv
  <1> QED
    BY <1>1, VaultCorrect, PTL

(* No order of funding, purchases, withdrawals of excess and overlapping   *)
(* release pages leaves the vault short of a key's budget, or of the       *)
(* tokens of a lot.                                                        *)
THEOREM BooksBacked == Spec => []BooksAreBacked
  <1>1. VaultInv => BooksAreBacked
    BY DEF VaultInv, TypeOK, BooksAreBacked
  <1> QED
    BY <1>1, VaultCorrect, PTL

(* _vested rounds down, and releaseMuppets sets what a lot has released to *)
(* it: a lot never runs ahead of linear vesting.                           *)
THEOREM VestingLinear == Spec => []VestingIsLinear
  <1>1. VaultInv => VestingIsLinear
    BY DEF VaultInv, SoundAt, VestingIsLinear
  <1> QED
    BY <1>1, VaultCorrect, PTL

-----------------------------------------------------------------------------
(* The round of the reserve's routes.                                      *)

Index == 0 .. Len(routes) - 1
Route == [token : Tokens, enabled : BOOLEAN]
CycleLog == [token : Tokens, spent : Nat, usable : SUBSET Tokens]

TokenAt(i) == Reserve!routeAt(i).token
OnRoutes == {TokenAt(i) : i \in Index}

RoundTypes ==
    /\ routes \in Seq(Route)
    /\ limits \in [minimum : Nat, maximum : Nat, cooldown : Nat]
    /\ balance \in Nat
    /\ nextRouteIndex \in Nat
    /\ cycles \in Seq(CycleLog)

\* A token has one route, a purchase was of tokens on routes, and the next
\* turn is that of a route, once there is one.
RoundFits ==
    /\ \A i, j \in Index : TokenAt(i) = TokenAt(j) => i = j
    /\ \A k \in DOMAIN cycles : cycles[k].token \in OnRoutes /\ cycles[k].usable \subseteq OnRoutes
    /\ nextRouteIndex = 0 \/ nextRouteIndex \in Index

\* A token whose route stayed usable since a purchase, and has not had its
\* turn, has it before the token of that purchase has another.
TurnsAreKept ==
    \A k \in DOMAIN cycles, p, q \in Index :
        (/\ TokenAt(q) = cycles[k].token
         /\ \A l \in k .. Len(cycles) :
                TokenAt(p) \in cycles[l].usable /\ cycles[l].token # TokenAt(p))
            => Reserve!Ahead(p) < Reserve!Ahead(q)

RoundInv == RoundTypes /\ RoundFits /\ TurnsAreKept /\ RoutesTakeTurns

(* The assumptions of the instance.                                        *)
LEMMA ReserveConstants ==
    /\ Fees \subseteq Nat /\ FirstToken \in Tokens
    /\ CycleLimits \subseteq [minimum : Nat, maximum : Nat, cooldown : Nat]
  BY ReserveIsProvable DEF Reserve!ReserveAssumption

(* The distance around a circle, without the remainder.                    *)
LEMMA AroundTheCircle ==
    ASSUME NEW n \in Nat, NEW s \in 0 .. n - 1, NEW i \in 0 .. n - 1
    PROVE  (i + n - s) % n = IF i >= s THEN i - s ELSE i + n - s
  OBVIOUS

\* Where routes and cycles are, and what their entries are.
LEMMA RouteTypes ==
    ASSUME RoundTypes
    PROVE  /\ Len(routes) \in Nat /\ DOMAIN routes = 1 .. Len(routes)
           /\ Len(cycles) \in Nat /\ DOMAIN cycles = 1 .. Len(cycles)
           /\ Index \subseteq Nat
           /\ \A i \in Index : i + 1 \in DOMAIN routes /\ TokenAt(i) \in Tokens
           /\ \A i \in DOMAIN routes : routes[i] \in Route /\ i - 1 \in Index /\ TokenAt(i - 1) = routes[i].token
  <1>1. /\ Len(routes) \in Nat /\ DOMAIN routes = 1 .. Len(routes)
        /\ Len(cycles) \in Nat /\ DOMAIN cycles = 1 .. Len(cycles)
        /\ \A i \in DOMAIN routes : routes[i] \in Route
    BY DEF RoundTypes
  <1>2. \A i \in Index : i + 1 \in DOMAIN routes /\ i \in Nat
    BY <1>1 DEF Index
  <1>3. \A i \in DOMAIN routes : i - 1 \in Index /\ (i - 1) + 1 = i
    BY <1>1 DEF Index
  <1> QED
    BY <1>1, <1>2, <1>3 DEF TokenAt, Reserve!routeAt, Route

(* How far ahead a route's turn is.                                        *)
LEMMA AheadIs ==
    ASSUME RoundTypes, RoundFits, NEW i \in Index
    PROVE  /\ Reserve!Ahead(i) = IF i >= nextRouteIndex THEN i - nextRouteIndex
                                 ELSE i + Len(routes) - nextRouteIndex
           /\ nextRouteIndex \in Index
  <1>1. Len(routes) \in Nat /\ nextRouteIndex \in Index
    BY RouteTypes DEF RoundFits, Index
  <1> QED
    BY <1>1, AroundTheCircle DEF Reserve!Ahead, Index

(* The turn goes to a usable route that no other comes before.             *)
LEMMA NextIsFirst ==
    ASSUME RoundTypes, RoundFits, Reserve!UsableRoutes # {}
    PROVE  LET b == Reserve!nextUsableRoute IN
           /\ b \in Reserve!UsableRoutes /\ b \in Index
           /\ \A i \in Reserve!UsableRoutes : i \in Index /\ Reserve!Ahead(b) <= Reserve!Ahead(i)
  <1> DEFINE U == Reserve!UsableRoutes
             A == {Reserve!Ahead(i) : i \in U}
  <1>1. U \subseteq Index
    BY DEF Reserve!UsableRoutes, Index
  <1>2. \A i \in Index : Reserve!Ahead(i) \in Nat
    BY RouteTypes, AheadIs DEF Index
  <1>3. A \subseteq Nat /\ A # {}
    BY <1>1, <1>2
  <1>4. PICK m \in A : \A k \in A : m <= k
    <2> HIDE DEF A
    <2>1. PICK n \in A : \A k \in A : <<k, n>> \notin OpToRel(<, Nat)
      BY <1>3, WFMin, NatLessThanWellFounded, Zenon
    <2>2. \A k \in A : ~(k < n)
      BY <1>3, <2>1, Zenon DEF OpToRel
    <2>3. \A k \in A : n <= k
      BY <1>3, <2>2
    <2> QED
      BY <2>3
  <1>5. \E i \in U : \A other \in U : Reserve!Ahead(i) <= Reserve!Ahead(other)
    <2>1. PICK i \in U : m = Reserve!Ahead(i)
      OBVIOUS
    <2> QED
      BY <1>4, <2>1
  <1> HIDE DEF A
  <1>6. /\ Reserve!nextUsableRoute \in U
        /\ \A other \in U : Reserve!Ahead(Reserve!nextUsableRoute) <= Reserve!Ahead(other)
    BY <1>5 DEF Reserve!nextUsableRoute
  <1> QED
    BY <1>1, <1>6

(* The route after a route, which the round leads back to the first.       *)
LEMMA NextInTurn ==
    ASSUME NEW n \in Nat, NEW b \in 0 .. n - 1
    PROVE  (b + 1) % n = IF b = n - 1 THEN 0 ELSE b + 1
  OBVIOUS

(* How many places after m, around a circle of n, i comes.                 *)
Places(n, m, i) == IF i >= m THEN i - m ELSE i + n - m

(* When the turn passes on behind b, what came after b moves up by as much. *)
LEMMA TurnPasses ==
    ASSUME NEW n \in Nat, NEW m \in 0 .. n - 1, NEW b \in 0 .. n - 1, NEW i \in 0 .. n - 1,
           NEW next \in 0 .. n - 1, next = IF b = n - 1 THEN 0 ELSE b + 1,
           Places(n, m, b) < Places(n, m, i)
    PROVE  /\ Places(n, next, i) = (Places(n, m, i) - Places(n, m, b)) - 1
           /\ Places(n, m, i) \in Int /\ Places(n, m, b) \in Int
  <1>1. CASE b >= m /\ i >= m
    <2>1. b < i /\ next = b + 1 /\ i >= next
      BY <1>1 DEF Places
    <2> QED
      BY <1>1, <2>1 DEF Places
  <1>2. CASE b >= m /\ ~(i >= m)
    <2>1. CASE b = n - 1
      BY <1>2, <2>1 DEF Places
    <2>2. CASE b # n - 1
      <3>1. next = b + 1 /\ ~(i >= next)
        BY <1>2, <2>2
      <3> QED
        BY <1>2, <3>1 DEF Places
    <2> QED
      BY <2>1, <2>2
  <1>3. CASE ~(b >= m) /\ i >= m
    BY <1>3 DEF Places
  <1>4. CASE ~(b >= m) /\ ~(i >= m)
    <2>1. b < i /\ next = b + 1 /\ i >= next
      BY <1>4 DEF Places
    <2> QED
      BY <1>4, <2>1 DEF Places
  <1> QED
    BY <1>1, <1>2, <1>3, <1>4

(* So two that came after it stay in their order.                          *)
LEMMA OrderGoesOn ==
    ASSUME NEW n \in Nat, NEW m \in 0 .. n - 1, NEW b \in 0 .. n - 1, NEW p \in 0 .. n - 1,
           NEW q \in 0 .. n - 1,
           NEW next \in 0 .. n - 1, next = IF b = n - 1 THEN 0 ELSE b + 1,
           Places(n, m, b) < Places(n, m, p), Places(n, m, p) < Places(n, m, q)
    PROVE  Places(n, next, p) < Places(n, next, q)
  <1>1. ASSUME NEW i \in 0 .. n - 1, Places(n, m, b) < Places(n, m, i)
        PROVE  /\ Places(n, next, i) = (Places(n, m, i) - Places(n, m, b)) - 1
               /\ Places(n, m, i) \in Int /\ Places(n, m, b) \in Int
    BY ONLY n \in Nat, m \in 0 .. n - 1, b \in 0 .. n - 1, next \in 0 .. n - 1,
            next = IF b = n - 1 THEN 0 ELSE b + 1, <1>1, TurnPasses
  <1>2. /\ Places(n, next, p) = (Places(n, m, p) - Places(n, m, b)) - 1
        /\ Places(n, m, p) \in Int /\ Places(n, m, b) \in Int
    BY <1>1
  <1>3. Places(n, m, q) \in Int
    BY DEF Places
  <1>4. Places(n, m, b) < Places(n, m, q)
    BY <1>2, <1>3
  <1>5. Places(n, next, q) = (Places(n, m, q) - Places(n, m, b)) - 1
    BY <1>1, <1>4
  <1> QED
    BY <1>2, <1>3, <1>5

(* A purchase is of the first usable route, and is the next turn's past.   *)
LEMMA CycleKeepsRound ==
    ASSUME RoundInv, NEW amount \in Nat, Reserve!_executeCycle(amount)
    PROVE  RoundInv'
  <1> DEFINE b == Reserve!nextUsableRoute
             n == Len(routes)
             c == [token |-> TokenAt(b), spent |-> amount,
                   usable |-> {TokenAt(i) : i \in Reserve!UsableRoutes}]
             last == Len(cycles) + 1
  <1>t. RoundTypes /\ RoundFits /\ TurnsAreKept /\ RoutesTakeTurns
    BY DEF RoundInv
  <1>1. /\ Reserve!UsableRoutes # {} /\ amount <= balance
        /\ nextRouteIndex' = (b + 1) % n
        /\ balance' = balance - amount
        /\ cycles' = Append(cycles, c)
        /\ routes' = routes /\ limits' = limits
    BY DEF Reserve!_executeCycle, Reserve!CycleAllowed, Reserve!TurnAfter, Reserve!owned, TokenAt
  <1>2. /\ b \in Reserve!UsableRoutes /\ b \in Index
        /\ \A i \in Reserve!UsableRoutes : i \in Index /\ Reserve!Ahead(b) <= Reserve!Ahead(i)
    BY <1>t, <1>1, NextIsFirst
  <1> HIDE DEF b
  <1>3. c \in CycleLog /\ c.token \in OnRoutes /\ c.usable \subseteq OnRoutes
    BY <1>t, <1>2, RouteTypes DEF CycleLog, OnRoutes
  <1>c. c.token = TokenAt(b) /\ c.usable = {TokenAt(i) : i \in Reserve!UsableRoutes}
    OBVIOUS
  <1> HIDE DEF c
  <1>4. /\ n \in Nat /\ b \in 0 .. n - 1 /\ nextRouteIndex \in 0 .. n - 1 /\ Index = 0 .. n - 1
        /\ Len(cycles) \in Nat
    BY <1>t, <1>2, AheadIs, RouteTypes DEF Index
  <1>5. /\ cycles' \in Seq(CycleLog) /\ Len(cycles') = last /\ DOMAIN cycles' = 1 .. last
        /\ cycles'[last] = c
        /\ \A k \in 1 .. Len(cycles) : k \in DOMAIN cycles /\ cycles'[k] = cycles[k]
    BY <1>t, <1>1, <1>3 DEF RoundTypes
  <1>f. nextRouteIndex' = IF b = n - 1 THEN 0 ELSE b + 1
    BY <1>1, <1>4, NextInTurn
  <1>6. nextRouteIndex' \in Index
    BY <1>4, <1>f
  <1>7. RoundTypes'
    BY <1>t, <1>1, <1>4, <1>5, <1>6 DEF RoundTypes
  <1>8. Index' = Index /\ OnRoutes' = OnRoutes /\ \A i \in Index : TokenAt(i)' = TokenAt(i)
    BY <1>1 DEF Index, OnRoutes, TokenAt, Reserve!routeAt
  <1>9. RoundFits'
    <2>1. \A k \in DOMAIN cycles' : cycles'[k].token \in OnRoutes /\ cycles'[k].usable \subseteq OnRoutes
      <3> SUFFICES ASSUME NEW k \in 1 .. last
                   PROVE  cycles'[k].token \in OnRoutes /\ cycles'[k].usable \subseteq OnRoutes
        BY <1>5
      <3>1. k \in 1 .. Len(cycles) \/ k = last
        BY <1>4
      <3> QED
        BY <1>t, <1>3, <1>5, <3>1 DEF RoundFits
    <2> QED
      BY <1>t, <1>6, <1>8, <2>1 DEF RoundFits
  <1>a. \A i \in Index :
          /\ Reserve!Ahead(i) = IF i >= nextRouteIndex THEN i - nextRouteIndex
                                ELSE i + n - nextRouteIndex
          /\ Reserve!Ahead(i)' = IF i >= nextRouteIndex' THEN i - nextRouteIndex'
                                ELSE i + n - nextRouteIndex'
    <2>1. \A i \in Index : Reserve!Ahead(i)' = (i + n - nextRouteIndex') % n
      BY <1>1 DEF Reserve!Ahead
    <2> QED
      BY <1>t, <1>4, <1>6, <2>1, AheadIs, AroundTheCircle
  <1>b. \A p \in Index : TokenAt(p) \in c.usable /\ c.token # TokenAt(p)
            => p # b /\ Reserve!Ahead(b) < Reserve!Ahead(p)
    <2> SUFFICES ASSUME NEW p \in Index, TokenAt(p) \in c.usable, c.token # TokenAt(p)
                 PROVE  p # b /\ Reserve!Ahead(b) < Reserve!Ahead(p)
      OBVIOUS
    <2>1. p \in Reserve!UsableRoutes
      BY <1>t, <1>2, <1>c DEF RoundFits
    <2>2. p # b /\ Reserve!Ahead(b) <= Reserve!Ahead(p)
      BY <1>2, <1>c, <2>1
    <2> QED
      BY <1>2, <1>4, <1>a, <2>2
  <1>d. TurnsAreKept'
    <2> SUFFICES ASSUME NEW k \in 1 .. last, NEW p \in Index, NEW q \in Index,
                        TokenAt(q) = cycles'[k].token,
                        \A l \in k .. last :
                            TokenAt(p) \in cycles'[l].usable /\ cycles'[l].token # TokenAt(p)
                 PROVE  Reserve!Ahead(p)' < Reserve!Ahead(q)'
      BY <1>5, <1>8 DEF TurnsAreKept
    <2>1. TokenAt(p) \in c.usable /\ c.token # TokenAt(p)
      BY <1>4, <1>5
    <2>2. p # b /\ Reserve!Ahead(b) < Reserve!Ahead(p)
      BY <1>b, <2>1
    <2>3. CASE k = last
      <3>1. q = b
        BY <1>t, <1>2, <1>5, <1>c, <2>3 DEF RoundFits
      <3> QED
        BY <1>4, <1>6, <1>a, <1>f, <2>2, <3>1
    <2>4. CASE k # last
      <3>1. /\ k \in 1 .. Len(cycles) /\ cycles'[k] = cycles[k]
            /\ \A l \in k .. Len(cycles) : cycles'[l] = cycles[l] /\ l \in k .. last
        BY <1>4, <1>5, <2>4
      <3>2. Reserve!Ahead(p) < Reserve!Ahead(q)
        BY <1>t, <1>5, <3>1 DEF TurnsAreKept
      <3>3. /\ Reserve!Ahead(b) = IF b >= nextRouteIndex THEN b - nextRouteIndex
                                  ELSE b + n - nextRouteIndex
            /\ Reserve!Ahead(p) = IF p >= nextRouteIndex THEN p - nextRouteIndex
                                  ELSE p + n - nextRouteIndex
            /\ Reserve!Ahead(q) = IF q >= nextRouteIndex THEN q - nextRouteIndex
                                  ELSE q + n - nextRouteIndex
        BY <1>2, <1>a
      <3>4. PICK m \in 0 .. n - 1, next \in 0 .. n - 1 : m = nextRouteIndex /\ next = nextRouteIndex'
        BY <1>4, <1>6
      <3>5. next = IF b = n - 1 THEN 0 ELSE b + 1
        BY <1>f, <3>4
      <3>6. p \in 0 .. n - 1 /\ q \in 0 .. n - 1 /\ b \in 0 .. n - 1 /\ n \in Nat
        BY <1>4
      <3>7. /\ Reserve!Ahead(b) = Places(n, m, b) /\ Reserve!Ahead(p) = Places(n, m, p)
            /\ Reserve!Ahead(q) = Places(n, m, q)
        BY <3>3, <3>4 DEF Places
      <3>8. /\ Reserve!Ahead(p)' = Places(n, next, p) /\ Reserve!Ahead(q)' = Places(n, next, q)
        BY <1>a, <3>4 DEF Places
      <3>9. Places(n, m, b) < Places(n, m, p) /\ Places(n, m, p) < Places(n, m, q)
        BY <2>2, <3>2, <3>7
      <3>a. Places(n, next, p) < Places(n, next, q)
        BY ONLY <3>4, <3>5, <3>6, <3>9, OrderGoesOn
      <3> QED
        BY <3>8, <3>a
    <2> QED
      BY <2>3, <2>4
  <1>e. RoutesTakeTurns'
    <2> SUFFICES ASSUME NEW i \in 1 .. last, NEW j \in 1 .. last, i < j,
                        cycles'[i].token = cycles'[j].token,
                        NEW token \in Tokens, \A k \in i .. j : token \in cycles'[k].usable,
                        \A k \in i .. j : cycles'[k].token # token
                 PROVE  FALSE
      BY <1>5 DEF RoutesTakeTurns, Reserve!RoutesTakeTurns
    <2>1. i \in 1 .. Len(cycles) /\ cycles'[i] = cycles[i]
      BY <1>4, <1>5
    <2>2. CASE j # last
      <3>1. j \in 1 .. Len(cycles) /\ \A k \in i .. j : k \in 1 .. Len(cycles) /\ cycles'[k] = cycles[k]
        BY <1>4, <1>5, <2>2
      <3> QED
        BY <1>t, <1>5, <2>1, <3>1 DEF RoutesTakeTurns, Reserve!RoutesTakeTurns
    <2>3. CASE j = last
      <3>1. token \in c.usable /\ c.token # token /\ cycles[i].token = c.token
        BY <1>4, <1>5, <2>1, <2>3
      <3>2. PICK p \in Index : token = TokenAt(p)
        BY <1>3, <3>1 DEF OnRoutes
      <3>3. \A l \in i .. Len(cycles) : token \in cycles[l].usable /\ cycles[l].token # token
        BY <1>4, <1>5, <2>1, <2>3
      <3>4. Reserve!Ahead(p) < Reserve!Ahead(b)
        BY <1>t, <1>2, <1>5, <1>c, <2>1, <3>1, <3>2, <3>3 DEF TurnsAreKept
      <3>5. Reserve!Ahead(b) < Reserve!Ahead(p)
        BY <1>b, <3>1, <3>2
      <3>6. /\ Reserve!Ahead(b) = Places(n, nextRouteIndex, b)
            /\ Reserve!Ahead(p) = Places(n, nextRouteIndex, p)
        BY <1>2, <1>a DEF Places
      <3>7. Places(n, nextRouteIndex, b) \in Int /\ Places(n, nextRouteIndex, p) \in Int
        BY <1>4 DEF Places
      <3>8. /\ Places(n, nextRouteIndex, p) < Places(n, nextRouteIndex, b)
            /\ Places(n, nextRouteIndex, b) < Places(n, nextRouteIndex, p)
        BY <3>4, <3>5, <3>6
      <3> QED
        BY ONLY <3>7, <3>8
    <2> QED
      BY <2>2, <2>3
  <1> QED
    BY <1>7, <1>9, <1>d, <1>e DEF RoundInv

\* A call that changes balance or limits only leaves the round alone.
LEMMA RoundKept ==
    ASSUME RoundInv, UNCHANGED <<routes, nextRouteIndex, cycles>>,
           limits' \in [minimum : Nat, maximum : Nat, cooldown : Nat], balance' \in Nat
    PROVE  RoundInv'
  <1>1. RoundTypes'
    BY DEF RoundInv, RoundTypes
  <1>2. Index' = Index /\ \A i \in Index : TokenAt(i)' = TokenAt(i)
    BY DEF Index, TokenAt, Reserve!routeAt
  <1>3. OnRoutes' = OnRoutes /\ \A i \in Index : Reserve!Ahead(i)' = Reserve!Ahead(i)
    BY <1>2 DEF OnRoutes, Reserve!Ahead
  <1>4. RoundFits'
    BY <1>2, <1>3 DEF RoundInv, RoundFits
  <1>5. TurnsAreKept'
    BY <1>2, <1>3 DEF RoundInv, TurnsAreKept
  <1>6. RoutesTakeTurns'
    BY DEF RoundInv, RoutesTakeTurns, Reserve!RoutesTakeTurns
  <1> QED
    BY <1>1, <1>4, <1>5, <1>6 DEF RoundInv

(* A known token keeps its place; a new one comes last, where no purchase  *)
(* has been and nothing was usable.                                        *)
LEMMA RouteKeepsRound ==
    ASSUME RoundInv, NEW token \in Tokens, NEW enabled \in BOOLEAN,
           Reserve!_setRoute(token, enabled),
           UNCHANGED <<limits, balance, nextRouteIndex, cycles>>
    PROVE  RoundInv'
  <1> DEFINE known == {i \in DOMAIN routes : routes[i].token = token}
             route == [token |-> token, enabled |-> enabled]
  <1>t. RoundTypes /\ RoundFits /\ TurnsAreKept /\ RoutesTakeTurns
    BY DEF RoundInv
  <1>n. PICK n \in Nat : n = Len(routes)
    BY <1>t, RouteTypes
  <1>1. IF known # {}
        THEN routes' = [i \in DOMAIN routes |-> IF i \in known THEN route ELSE routes[i]]
        ELSE routes' = Append(routes, route)
    BY DEF Reserve!_setRoute
  <1>2. route \in Route /\ route.token = token
    BY DEF Route
  <1>r. RoutesTakeTurns'
    BY <1>t DEF RoutesTakeTurns, Reserve!RoutesTakeTurns
  <1> HIDE DEF route
  <1>3. CASE known # {}
    <2>1. routes' = [i \in DOMAIN routes |-> IF i \in known THEN route ELSE routes[i]]
      BY <1>1, <1>3
    <2>2. /\ routes' \in Seq(Route) /\ Len(routes') = Len(routes) /\ DOMAIN routes' = DOMAIN routes
          /\ \A i \in DOMAIN routes : routes'[i].token = routes[i].token
      <3>1. routes' \in [1 .. n -> Route]
        BY <1>t, <1>n, <1>2, <2>1, RouteTypes
      <3>2. routes' \in Seq(Route) /\ Len(routes') = n
        BY <1>n, <3>1
      <3> QED
        BY <1>t, <1>n, <1>2, <2>1, <3>2, RouteTypes
    <2>3. Index' = Index /\ \A i \in Index : TokenAt(i)' = TokenAt(i)
      BY <1>t, <2>2, RouteTypes DEF Index, TokenAt, Reserve!routeAt
    <2>4. OnRoutes' = OnRoutes /\ \A i \in Index : Reserve!Ahead(i)' = Reserve!Ahead(i)
      BY <2>2, <2>3 DEF OnRoutes, Reserve!Ahead
    <2>5. RoundTypes'
      BY <1>t, <2>2 DEF RoundTypes
    <2>6. RoundFits'
      BY <1>t, <2>3, <2>4 DEF RoundFits
    <2>7. TurnsAreKept'
      BY <1>t, <2>3, <2>4 DEF TurnsAreKept
    <2> QED
      BY <1>r, <2>5, <2>6, <2>7 DEF RoundInv
  <1>4. CASE known = {}
    <2>1. routes' = Append(routes, route) /\ n \notin Index /\ Index = 0 .. n - 1
      BY <1>n, <1>1, <1>4 DEF Index
    <2>2. /\ routes' \in Seq(Route) /\ Len(routes') = n + 1
          /\ \A i \in 1 .. n : routes'[i] = routes[i]
          /\ routes'[n + 1] = route
      BY <1>t, <1>n, <1>2, <2>1 DEF RoundTypes
    <2>3. /\ Index' = Index \cup {n}
          /\ \A i \in Index : TokenAt(i)' = TokenAt(i)
          /\ TokenAt(n)' = token
      <3>1. Index' = 0 .. n
        BY <1>n, <2>2 DEF Index
      <3>2. \A i \in 0 .. n - 1 : i + 1 \in 1 .. n
        BY <1>n
      <3>3. \A i \in 0 .. n - 1 : TokenAt(i)' = TokenAt(i)
        BY <2>2, <3>2 DEF TokenAt, Reserve!routeAt
      <3>4. TokenAt(n)' = token
        BY <1>2, <2>2 DEF TokenAt, Reserve!routeAt
      <3> QED
        BY <1>n, <2>1, <3>1, <3>3, <3>4
    <2>4. \A i \in Index : TokenAt(i) # token
      BY <1>t, <1>4, RouteTypes DEF TokenAt, Reserve!routeAt
    <2>5. OnRoutes \subseteq OnRoutes' /\ token \notin OnRoutes
      BY <2>3, <2>4 DEF OnRoutes
    <2>6. RoundTypes'
      BY <1>t, <2>2 DEF RoundTypes
    <2>7. RoundFits'
      <3>1. nextRouteIndex = 0 \/ nextRouteIndex \in Index \cup {n}
        BY <1>t DEF RoundFits
      <3>2. \A i, j \in Index \cup {n} : TokenAt(i)' = TokenAt(j)' => i = j
        <4> SUFFICES ASSUME NEW i \in Index \cup {n}, NEW j \in Index \cup {n},
                            TokenAt(i)' = TokenAt(j)'
                     PROVE  i = j
          OBVIOUS
        <4>1. i \in Index => j \in Index
          BY <2>3, <2>4
        <4>2. j \in Index => i \in Index
          BY <2>3, <2>4
        <4> QED
          BY <1>t, <2>3, <4>1, <4>2 DEF RoundFits
      <3>3. \A k \in DOMAIN cycles : cycles[k].token \in OnRoutes' /\ cycles[k].usable \subseteq OnRoutes'
        BY <1>t, <2>5 DEF RoundFits
      <3> QED
        BY <2>3, <3>1, <3>2, <3>3 DEF RoundFits
    <2>8. TurnsAreKept'
      <3> SUFFICES ASSUME NEW k \in DOMAIN cycles, NEW p \in Index', NEW q \in Index',
                          TokenAt(q)' = cycles[k].token,
                          \A l \in k .. Len(cycles) :
                              TokenAt(p)' \in cycles[l].usable /\ cycles[l].token # TokenAt(p)'
                   PROVE  Reserve!Ahead(p)' < Reserve!Ahead(q)'
        BY DEF TurnsAreKept
      <3>1. k \in k .. Len(cycles)
        BY <1>t, RouteTypes
      <3>2. p \in Index /\ q \in Index
        <4>1. TokenAt(p)' # token /\ TokenAt(q)' # token
          BY <1>t, <2>5, <3>1 DEF RoundFits
        <4> QED
          BY <2>3, <4>1
      <3>3. Reserve!Ahead(p) < Reserve!Ahead(q)
        BY <1>t, <2>3, <3>2 DEF TurnsAreKept
      <3>4. /\ nextRouteIndex \in 0 .. n - 1 /\ p \in 0 .. n - 1 /\ q \in 0 .. n - 1
            /\ Reserve!Ahead(p) = (IF p >= nextRouteIndex THEN p - nextRouteIndex
                                   ELSE p + n - nextRouteIndex)
            /\ Reserve!Ahead(q) = (IF q >= nextRouteIndex THEN q - nextRouteIndex
                                   ELSE q + n - nextRouteIndex)
        BY <1>t, <1>n, <3>2, AheadIs DEF Index
      <3>5. /\ Reserve!Ahead(p)' = (p + (n + 1) - nextRouteIndex) % (n + 1)
            /\ Reserve!Ahead(q)' = (q + (n + 1) - nextRouteIndex) % (n + 1)
        BY <2>2 DEF Reserve!Ahead
      <3>6. \A i \in 0 .. n - 1 :
              (i + (n + 1) - nextRouteIndex) % (n + 1)
                  = IF i >= nextRouteIndex THEN i - nextRouteIndex
                    ELSE i + (n + 1) - nextRouteIndex
        <4>1. n + 1 \in Nat /\ 0 .. n - 1 \subseteq 0 .. (n + 1) - 1
          BY <1>n
        <4> QED
          BY <3>4, <4>1, AroundTheCircle
      <3>7. /\ Reserve!Ahead(p)' = (IF p >= nextRouteIndex THEN p - nextRouteIndex
                                   ELSE p + (n + 1) - nextRouteIndex)
            /\ Reserve!Ahead(q)' = (IF q >= nextRouteIndex THEN q - nextRouteIndex
                                   ELSE q + (n + 1) - nextRouteIndex)
        BY <3>4, <3>5, <3>6
      <3> QED
        BY ONLY <1>n, <3>3, <3>4, <3>7
    <2> QED
      BY <1>r, <2>6, <2>7, <2>8 DEF RoundInv
  <1> QED
    BY <1>3, <1>4
(* What a cycle may spend is a whole number of wei.                        *)
LEMMA AvailableType ==
    ASSUME RoundTypes
    PROVE  Reserve!availableCycleAmount \in Nat
  BY DEF RoundTypes, Reserve!availableCycleAmount

(* The owner, the world and the keeper's transactions.                     *)
LEMMA ReserveKeepsRound ==
    ASSUME RoundInv,
           Reserve!OwnerCalls \/ Reserve!Around \/ Reserve!executeAvailableCycle
    PROVE  RoundInv'
  <1>1. RoundTypes
    BY DEF RoundInv
  <1>2. ASSUME NEW token \in Tokens, NEW enabled \in BOOLEAN, Reserve!setRoutes(token, enabled)
        PROVE  RoundInv'
    BY <1>2, RouteKeepsRound DEF Reserve!setRoutes, Reserve!Untouched, Reserve!turns
  <1>3. ASSUME NEW next \in CycleLimits, Reserve!setLimits(next)
        PROVE  RoundInv'
    BY <1>1, <1>3, RoundKept, ReserveConstants
       DEF Reserve!setLimits, Reserve!Untouched, Reserve!turns, RoundTypes
  <1>4. ASSUME NEW yes \in BOOLEAN, Reserve!setPaused(yes) \/ Reserve!setKeeper(yes)
        PROVE  RoundInv'
    BY <1>1, <1>4, RoundKept
       DEF Reserve!setPaused, Reserve!setKeeper, Reserve!Untouched, Reserve!turns, RoundTypes
  <1>5. ASSUME NEW amount \in Fees, Reserve!rescueNative(amount)
        PROVE  RoundInv'
    <2>1. balance' \in Nat
      BY <1>1, <1>5, ReserveConstants DEF Reserve!rescueNative, RoundTypes
    <2> QED
      BY <1>1, <1>5, <2>1, RoundKept DEF Reserve!rescueNative, Reserve!turns, RoundTypes
  <1>6. ASSUME NEW amount \in Fees, Reserve!executeCycle(amount)
        PROVE  RoundInv'
    BY <1>6, CycleKeepsRound, ReserveConstants DEF Reserve!executeCycle
  <1>7. CASE Reserve!executeAvailableCycle
    BY <1>1, <1>7, CycleKeepsRound, AvailableType DEF Reserve!executeAvailableCycle
  <1>8. ASSUME NEW amount \in Fees, Reserve!receive(amount)
        PROVE  RoundInv'
    <2>1. balance' \in Nat
      BY <1>1, <1>8, ReserveConstants DEF Reserve!receive, RoundTypes
    <2> QED
      BY <1>1, <1>8, <2>1, RoundKept DEF Reserve!receive, Reserve!turns, Reserve!owned, RoundTypes
  <1>9. ASSUME NEW token, NEW why, Reserve!OutageChanges(token, why)
        PROVE  RoundInv'
    BY <1>1, <1>9, RoundKept
       DEF Reserve!OutageChanges, Reserve!turns, Reserve!owned, RoundTypes
  <1>a. CASE Reserve!Tick
    BY <1>1, <1>a, RoundKept DEF Reserve!Tick, Reserve!turns, Reserve!owned, RoundTypes
  <1> QED
    BY <1>2, <1>3, <1>4, <1>5, <1>6, <1>7, <1>8, <1>9, <1>a DEF Reserve!OwnerCalls, Reserve!Around

\* A step elsewhere leaves the round alone.
LEMMA RoundUnchanged ==
    ASSUME RoundInv, UNCHANGED <<routes, limits, balance, nextRouteIndex, cycles>>
    PROVE  RoundInv'
  BY RoundKept DEF RoundInv, RoundTypes

(* The process of the backend reads the reserve and leaves it alone.       *)
LEMMA KeeperKeepsRound ==
    ASSUME RoundInv, Reserve!KeeperNext
    PROVE  RoundInv'
  <1>1. CASE Reserve!OwnerCalls \/ Reserve!Around
    BY <1>1, ReserveKeepsRound
  <1>2. ASSUME NEW r \in Runs, Reserve!KeeperStep(r)
        PROVE  RoundInv'
    <2>1. UNCHANGED <<routes, limits, balance, nextRouteIndex, cycles>>
      BY <1>2 DEF Reserve!KeeperStep, Reserve!StartRun, Reserve!ReadAmount, Reserve!ReadCooldown,
                  Reserve!ReadRoute, Reserve!Send, Reserve!Receipt, Reserve!add_keeper_run,
                  Reserve!GivesUp, Reserve!reserve, Reserve!owned, Reserve!turns
    <2> QED
      BY <2>1, RoundUnchanged
  <1>3. ASSUME NEW x \in DOMAIN txs, Reserve!Mine(x)
        PROVE  RoundInv'
    <2>1. CASE Reserve!executeAvailableCycle
      BY <2>1, ReserveKeepsRound
    <2>2. CASE UNCHANGED Reserve!reserve
      BY <2>2, RoundUnchanged DEF Reserve!reserve, Reserve!owned, Reserve!turns
    <2> QED
      BY <1>3, <2>1, <2>2 DEF Reserve!Mine
  <1>4. CASE Reserve!Restart
    BY <1>4, RoundUnchanged DEF Reserve!Restart, Reserve!reserve, Reserve!owned, Reserve!turns
  <1> QED
    BY <1>1, <1>2, <1>3, <1>4 DEF Reserve!KeeperNext

(* Before the first purchase.                                              *)
LEMMA RoundInit ==
    ASSUME SpendingInit
    PROVE  RoundInv
  <1>1. Reserve!BooksInit /\ (routes = <<>> \/ routes = <<[token |-> FirstToken, enabled |-> TRUE]>>)
    BY DEF SpendingInit, LiveInit, Reserve!KeeperInit, Reserve!Init
  <1>2. routes \in Seq(Route) /\ Len(routes) \in {0, 1}
    <2>1. CASE routes = <<>>
      BY <2>1
    <2>2. CASE routes = <<[token |-> FirstToken, enabled |-> TRUE]>>
      <3> DEFINE route == [token |-> FirstToken, enabled |-> TRUE]
      <3>1. route \in Route
        BY ReserveConstants DEF Route
      <3> HIDE DEF route
      <3>2. routes = <<route>>
        BY <2>2 DEF route
      <3> QED
        BY <3>1, <3>2
    <2> QED
      BY <1>1, <2>1, <2>2
  <1>3. RoundTypes
    BY <1>1, <1>2, ReserveConstants DEF RoundTypes, Reserve!BooksInit
  <1>4. \A i, j \in Index : i = j
    <2>1. CASE Len(routes) = 0
      BY <2>1 DEF Index
    <2>2. CASE Len(routes) = 1
      BY <2>2 DEF Index
    <2> QED
      BY <1>2, <2>1, <2>2
  <1>5. DOMAIN cycles = {} /\ nextRouteIndex = 0
    BY <1>1 DEF Reserve!BooksInit
  <1> QED
    BY <1>3, <1>4, <1>5
       DEF RoundInv, RoundFits, TurnsAreKept, RoutesTakeTurns, Reserve!RoutesTakeTurns

(* However routes are added, disabled, fail and recover, and whoever calls *)
(* the reserve when: a route usable all the while gets its turn before the *)
(* token bought last is bought again.                                      *)
THEOREM TurnsTaken == SpendingSpec => []RoutesTakeTurns
  <1>1. SpendingInit => RoundInv
    BY RoundInit
  <1>2. RoundInv /\ [SpendingNext]_spendingVars => RoundInv'
    <2> SUFFICES ASSUME RoundInv, [SpendingNext]_spendingVars PROVE RoundInv'
      OBVIOUS
    <2>1. CASE RoundNext
      BY <2>1, ReserveKeepsRound DEF RoundNext
    <2>2. CASE RunsNext
      BY <2>2, KeeperKeepsRound DEF RunsNext
    <2>3. CASE UNCHANGED reserveVars
      BY <2>3, RoundUnchanged DEF reserveVars
    <2> QED
      BY <2>1, <2>2, <2>3 DEF SpendingNext, spendingVars
  <1>3. RoundInv => RoutesTakeTurns
    BY DEF RoundInv
  <1> QED
    BY <1>1, <1>2, <1>3, PTL DEF SpendingSpec

-----------------------------------------------------------------------------
(* The keeper's runs.                                                      *)

TxStatus == {"pending", "success", "reverted"}
RunStages == {"none", "amount", "cooldown", "route", "send", "sent", "record"}
RunLog == [pc : RunStages, amount : Nat, tx : Nat]
RunRow == [amount : Nat, tx : Nat]

RunTypes ==
    /\ txs \in Seq(TxStatus)
    /\ rows \in Seq(RunRow)
    /\ runs \in [Runs -> RunLog]

Recorded(x) == \E i \in DOMAIN rows : rows[i].tx = x

\* A run has a transaction from when it sends one to when it returns, its own,
\* which is not on record yet, and which succeeded if the run may record it.
RunsFit ==
    \A r \in Runs :
        /\ runs[r].pc = "sent" => runs[r].tx # Reserve!NoTx
        /\ runs[r].tx # Reserve!NoTx =>
              /\ runs[r].pc \in {"sent", "record"}
              /\ runs[r].tx \in DOMAIN txs
              /\ runs[r].pc = "record" => txs[runs[r].tx] = "success"
              /\ ~Recorded(runs[r].tx)
              /\ \A s \in Runs : runs[s].tx = runs[r].tx => s = r

\* The transaction lock.
OneIsSent == \A r, s \in Runs : runs[r].pc = "sent" /\ runs[s].pc = "sent" => r = s

RowsFit ==
    \A i \in DOMAIN rows : rows[i].tx # Reserve!NoTx =>
        /\ rows[i].tx \in DOMAIN txs /\ txs[rows[i].tx] = "success"
        /\ \A j \in DOMAIN rows : rows[j].tx = rows[i].tx => i = j

\* Whoever waits for a transaction, or has its success to record.
TxsFit ==
    \A x \in DOMAIN txs \ lost :
        /\ txs[x] = "pending" => \E r \in Runs : runs[r].pc = "sent" /\ runs[r].tx = x
        /\ txs[x] = "success" => Recorded(x) \/ \E r \in Runs : runs[r].tx = x

RunsInv == RunTypes /\ RunsFit /\ OneIsSent /\ RowsFit /\ TxsFit

\* The fields of runs, transactions and rows.
LEMMA RunFields ==
    ASSUME RunTypes
    PROVE  /\ Len(txs) \in Nat /\ DOMAIN txs = 1 .. Len(txs)
           /\ Len(rows) \in Nat /\ DOMAIN rows = 1 .. Len(rows)
           /\ \A x \in DOMAIN txs : txs[x] \in TxStatus
           /\ \A i \in DOMAIN rows : rows[i].tx \in Nat
           /\ \A r \in Runs : /\ runs[r] \in RunLog /\ runs[r].pc \in RunStages
                              /\ runs[r].amount \in Nat /\ runs[r].tx \in Nat
  <1>1. /\ Len(txs) \in Nat /\ DOMAIN txs = 1 .. Len(txs)
        /\ Len(rows) \in Nat /\ DOMAIN rows = 1 .. Len(rows)
        /\ \A x \in DOMAIN txs : txs[x] \in TxStatus
    BY DEF RunTypes
  <1>2. \A i \in DOMAIN rows : rows[i] \in RunRow
    BY DEF RunTypes
  <1>3. \A r \in Runs : runs[r] \in RunLog
    BY DEF RunTypes
  <1> QED
    BY <1>1, <1>2, <1>3 DEF RunRow, RunLog

(* A run without a transaction goes on or returns.                         *)
LEMMA IdleRunMoves ==
    ASSUME RunsInv, NEW r \in Runs, UNCHANGED <<txs, rows, lost>>,
           runs[r].tx = Reserve!NoTx,
           NEW run \in RunLog, runs' = [runs EXCEPT ![r] = run],
           run.tx = Reserve!NoTx, run.pc # "sent"
    PROVE  RunsInv'
  <1>1. /\ RunTypes /\ RunsFit /\ OneIsSent /\ RowsFit /\ TxsFit
        /\ runs[r].pc # "sent"
    BY DEF RunsInv, RunsFit
  <1>2. runs' \in [Runs -> RunLog] /\ runs'[r] = run /\ \A s \in Runs : s # r => runs'[s] = runs[s]
    BY <1>1 DEF RunTypes
  <1>3. RunTypes' /\ RowsFit' /\ OneIsSent'
    BY <1>1, <1>2 DEF RunTypes, RowsFit, OneIsSent
  <1>4. RunsFit'
    BY <1>1, <1>2 DEF RunsFit, Recorded
  <1>5. TxsFit'
    <2> SUFFICES ASSUME NEW x \in DOMAIN txs \ lost
                 PROVE  /\ txs[x] = "pending" => \E s \in Runs : runs'[s].pc = "sent" /\ runs'[s].tx = x
                        /\ txs[x] = "success" => Recorded(x) \/ \E s \in Runs : runs'[s].tx = x
      BY DEF TxsFit, Recorded
    <2>1. x # Reserve!NoTx
      BY <1>1, RunFields DEF Reserve!NoTx
    <2>2. \A s \in Runs : runs[s].tx = x => s # r
      BY <2>1
    <2> QED
      BY <1>1, <1>2, <2>2 DEF TxsFit
  <1> QED
    BY <1>3, <1>4, <1>5 DEF RunsInv

(* A run that sends its transaction is the only one that waits.            *)
LEMMA SendKeepsRuns ==
    ASSUME RunsInv, NEW r \in Runs, UNCHANGED <<rows, lost>>,
           runs[r].pc = "send", Reserve!Unlocked,
           txs' = Append(txs, "pending"),
           NEW run \in RunLog, runs' = [runs EXCEPT ![r] = run],
           run.pc = "sent", run.tx = Len(txs) + 1
    PROVE  RunsInv'
  <1>1. RunTypes /\ RunsFit /\ OneIsSent /\ RowsFit /\ TxsFit
    BY DEF RunsInv
  <1>n. PICK n \in Nat : n = Len(txs)
    BY <1>1, RunFields
  <1>2. run.pc = "sent" /\ run.tx = n + 1 /\ n + 1 # Reserve!NoTx
    BY <1>n DEF Reserve!NoTx
  <1>3. runs' \in [Runs -> RunLog] /\ runs'[r] = run /\ \A s \in Runs : s # r => runs'[s] = runs[s]
    BY <1>1 DEF RunTypes
  <1>4. /\ txs' \in Seq(TxStatus) /\ DOMAIN txs = 1 .. n /\ DOMAIN txs' = 1 .. n + 1
        /\ txs'[n + 1] = "pending" /\ \A x \in 1 .. n : txs'[x] = txs[x]
    BY <1>1, <1>n, RunFields DEF RunTypes, TxStatus
  <1>5. RunTypes' /\ RowsFit'
    BY <1>1, <1>3, <1>4 DEF RunTypes, RowsFit
  <1>6. \A s \in Runs : runs[s].pc # "sent"
    BY DEF Reserve!Unlocked
  <1>7. OneIsSent'
    BY <1>3, <1>6 DEF OneIsSent
  <1>8. \A s \in Runs : runs[s].tx # n + 1
    BY <1>1, <1>2, <1>4, <1>n DEF RunsFit
  <1>9. ~Recorded(n + 1)
    BY <1>1, <1>2, <1>4, <1>n DEF RowsFit, Recorded
  <1>a. RunsFit'
    <2> SUFFICES ASSUME NEW s \in Runs
                 PROVE  /\ runs'[s].pc = "sent" => runs'[s].tx # Reserve!NoTx
                        /\ runs'[s].tx # Reserve!NoTx =>
                              /\ runs'[s].pc \in {"sent", "record"}
                              /\ runs'[s].tx \in DOMAIN txs'
                              /\ runs'[s].pc = "record" => txs'[runs'[s].tx] = "success"
                              /\ ~Recorded(runs'[s].tx)
                              /\ \A u \in Runs : runs'[u].tx = runs'[s].tx => u = s
      BY DEF RunsFit, Recorded
    <2>1. CASE s = r
      BY <1>2, <1>3, <1>4, <1>8, <1>9, <2>1
    <2>2. CASE s # r
      BY <1>1, <1>2, <1>3, <1>4, <1>8, <2>2 DEF RunsFit
    <2> QED
      BY <2>1, <2>2
  <1>b. TxsFit'
    <2> SUFFICES ASSUME NEW x \in 1 .. n + 1, x \notin lost
                 PROVE  /\ txs'[x] = "pending" => \E s \in Runs : runs'[s].pc = "sent" /\ runs'[s].tx = x
                        /\ txs'[x] = "success" => Recorded(x) \/ \E s \in Runs : runs'[s].tx = x
      BY <1>4 DEF TxsFit, Recorded
    <2>1. CASE x = n + 1
      BY <1>2, <1>3, <1>4, <2>1
    <2>2. CASE x # n + 1
      <3>1. x \in DOMAIN txs \ lost /\ txs'[x] = txs[x] /\ x # Reserve!NoTx
        BY <1>4, <2>2 DEF Reserve!NoTx
      <3>2. runs[r].tx = Reserve!NoTx
        BY <1>1 DEF RunsFit
      <3>3. \A s \in Runs : runs[s].tx = x => runs'[s] = runs[s]
        BY <1>3, <3>1, <3>2
      <3>4. CASE txs[x] = "pending"
        <4>1. PICK s \in Runs : runs[s].pc = "sent" /\ runs[s].tx = x
          BY <1>1, <3>1, <3>4 DEF TxsFit
        <4> QED
          BY <3>1, <3>3, <3>4, <4>1
      <3>5. CASE txs[x] # "pending"
        <4>1. txs[x] = "success" => Recorded(x) \/ \E s \in Runs : runs[s].tx = x
          BY <1>1, <3>1 DEF TxsFit
        <4> QED
          BY ONLY <3>1, <3>3, <3>5, <4>1
      <3> QED
        BY <3>4, <3>5
    <2> QED
      BY <2>1, <2>2
  <1> QED
    BY <1>5, <1>7, <1>a, <1>b DEF RunsInv
(* Runs that end leave no transaction behind that could still succeed, but *)
(* those that are lost.                                                    *)
LEMMA RunsEnd ==
    ASSUME RunsInv, NEW D \in SUBSET Runs, UNCHANGED <<txs, rows>>, lost \subseteq lost',
           runs' \in [Runs -> RunLog],
           \A r \in Runs : runs'[r] = IF r \in D THEN Reserve!NoRun ELSE runs[r],
           \A r \in D : \/ runs[r].tx = Reserve!NoTx \/ runs[r].tx \in lost'
                        \/ txs[runs[r].tx] = "reverted"
    PROVE  RunsInv'
  <1>1. RunTypes /\ RunsFit /\ OneIsSent /\ RowsFit /\ TxsFit
    BY DEF RunsInv
  <1>2. \A r \in D : runs'[r].pc = "none" /\ runs'[r].tx = Reserve!NoTx
    BY DEF Reserve!NoRun
  <1>3. \A r \in Runs \ D : runs'[r] = runs[r]
    OBVIOUS
  <1>4. RunTypes' /\ RowsFit' /\ OneIsSent'
    BY <1>1, <1>2, <1>3 DEF RunTypes, RowsFit, OneIsSent
  <1>5. RunsFit'
    BY <1>1, <1>2, <1>3 DEF RunsFit, Recorded
  <1>6. TxsFit'
    <2> SUFFICES ASSUME NEW x \in DOMAIN txs \ lost'
                 PROVE  /\ txs[x] = "pending" => \E s \in Runs : runs'[s].pc = "sent" /\ runs'[s].tx = x
                        /\ txs[x] = "success" => Recorded(x) \/ \E s \in Runs : runs'[s].tx = x
      BY DEF TxsFit, Recorded
    <2>1. x # Reserve!NoTx /\ x \in DOMAIN txs \ lost
      BY <1>1, RunFields DEF Reserve!NoTx
    <2>2. txs[x] # "reverted" => \A s \in Runs : runs[s].tx = x => runs'[s] = runs[s]
      BY <1>3, <2>1
    <2>3. CASE txs[x] = "pending"
      <3>1. PICK s \in Runs : runs[s].pc = "sent" /\ runs[s].tx = x
        BY <1>1, <2>1, <2>3 DEF TxsFit
      <3> QED
        BY <2>2, <2>3, <3>1
    <2>4. CASE txs[x] # "pending"
      <3>1. txs[x] = "success" => Recorded(x) \/ \E s \in Runs : runs[s].tx = x
        BY <1>1, <2>1 DEF TxsFit
      <3> QED
        BY <2>2, <2>4, <3>1
    <2> QED
      BY <2>3, <2>4
  <1> QED
    BY <1>4, <1>5, <1>6 DEF RunsInv

(* A run returns with the success of its transaction.                      *)
LEMMA SuccessKeepsRuns ==
    ASSUME RunsInv, NEW r \in Runs, UNCHANGED <<txs, rows, lost>>,
           runs[r].pc = "sent", txs[runs[r].tx] = "success",
           NEW run \in RunLog, runs' = [runs EXCEPT ![r] = run],
           run.pc = "record", run.tx = runs[r].tx
    PROVE  RunsInv'
  <1>1. RunTypes /\ RunsFit /\ OneIsSent /\ RowsFit /\ TxsFit
    BY DEF RunsInv
  <1>2. runs' \in [Runs -> RunLog] /\ runs'[r] = run /\ \A s \in Runs : s # r => runs'[s] = runs[s]
    BY <1>1 DEF RunTypes
  <1>3. RunTypes' /\ RowsFit' /\ OneIsSent'
    BY <1>1, <1>2 DEF RunTypes, RowsFit, OneIsSent
  <1>4. \A s \in Runs : runs'[s].tx = runs[s].tx
    BY <1>2
  <1>5. RunsFit'
    <2> SUFFICES ASSUME NEW s \in Runs
                 PROVE  /\ runs'[s].pc = "sent" => runs'[s].tx # Reserve!NoTx
                        /\ runs'[s].tx # Reserve!NoTx =>
                              /\ runs'[s].pc \in {"sent", "record"}
                              /\ runs'[s].tx \in DOMAIN txs
                              /\ runs'[s].pc = "record" => txs[runs'[s].tx] = "success"
                              /\ ~Recorded(runs'[s].tx)
                              /\ \A u \in Runs : runs'[u].tx = runs'[s].tx => u = s
      BY DEF RunsFit, Recorded
    <2>1. CASE s = r
      BY <1>1, <1>2, <1>4, <2>1 DEF RunsFit
    <2>2. CASE s # r
      BY <1>1, <1>2, <1>4, <2>2 DEF RunsFit
    <2> QED
      BY <2>1, <2>2
  <1>6. TxsFit'
    <2> SUFFICES ASSUME NEW x \in DOMAIN txs \ lost
                 PROVE  /\ txs[x] = "pending" => \E s \in Runs : runs'[s].pc = "sent" /\ runs'[s].tx = x
                        /\ txs[x] = "success" => Recorded(x) \/ \E s \in Runs : runs'[s].tx = x
      BY DEF TxsFit, Recorded
    <2>1. CASE txs[x] = "pending"
      <3>1. PICK s \in Runs : runs[s].pc = "sent" /\ runs[s].tx = x
        BY <1>1, <2>1 DEF TxsFit
      <3> QED
        BY <1>2, <2>1, <3>1
    <2>2. CASE txs[x] # "pending"
      <3>1. txs[x] = "success" => Recorded(x) \/ \E s \in Runs : runs[s].tx = x
        BY <1>1 DEF TxsFit
      <3> QED
        BY <1>4, <2>2, <3>1
    <2> QED
      BY <2>1, <2>2
  <1> QED
    BY <1>3, <1>5, <1>6 DEF RunsInv

(* The caller of a run writes its row, which is the first of its purchase. *)
LEMMA RecordKeepsRuns ==
    ASSUME RunsInv, NEW r \in Runs, Reserve!add_keeper_run(r)
    PROVE  RunsInv'
  <1> DEFINE row == [amount |-> runs[r].amount, tx |-> runs[r].tx]
  <1>1. RunTypes /\ RunsFit /\ OneIsSent /\ RowsFit /\ TxsFit
    BY DEF RunsInv
  <1>n. PICK n \in Nat : n = Len(rows)
    BY <1>1, RunFields
  <1>2. /\ runs[r].pc = "record" /\ rows' = Append(rows, row)
        /\ runs' = [runs EXCEPT ![r] = Reserve!NoRun]
        /\ txs' = txs /\ lost' = lost
    BY DEF Reserve!add_keeper_run, Reserve!Ends
  <1>3. row \in RunRow /\ row.tx = runs[r].tx
    BY <1>1, RunFields DEF RunRow
  <1> HIDE DEF row
  <1>4. /\ rows' \in Seq(RunRow) /\ DOMAIN rows = 1 .. n /\ DOMAIN rows' = 1 .. n + 1
        /\ rows'[n + 1] = row /\ \A i \in 1 .. n : rows'[i] = rows[i]
    BY <1>1, <1>n, <1>2, <1>3, RunFields DEF RunTypes
  <1>5. /\ runs' \in [Runs -> RunLog] /\ runs'[r].pc = "none" /\ runs'[r].tx = Reserve!NoTx
        /\ \A s \in Runs : s # r => runs'[s] = runs[s]
    BY <1>1, <1>2 DEF RunTypes, RunLog, RunStages, Reserve!NoRun, Reserve!NoTx
  <1>6. \A x : Recorded(x)' <=> Recorded(x) \/ x = runs[r].tx
    <2> SUFFICES ASSUME NEW x
                 PROVE  (\E i \in 1 .. n + 1 : rows'[i].tx = x)
                            <=> (\E i \in 1 .. n : rows[i].tx = x) \/ x = runs[r].tx
      BY <1>4 DEF Recorded
    <2>1. \A i \in 1 .. n + 1 : i \in 1 .. n \/ i = n + 1
      OBVIOUS
    <2>2. n + 1 \in 1 .. n + 1 /\ \A i \in 1 .. n : i \in 1 .. n + 1
      OBVIOUS
    <2> QED
      BY <1>3, <1>4, <2>1, <2>2
  <1>7. RunTypes' /\ OneIsSent'
    BY <1>1, <1>2, <1>4, <1>5 DEF RunTypes, OneIsSent
  <1>8. RunsFit'
    BY <1>1, <1>2, <1>5, <1>6 DEF RunsFit
  <1>9. RowsFit'
    <2> SUFFICES ASSUME NEW i \in 1 .. n + 1, rows'[i].tx # Reserve!NoTx
                 PROVE  /\ rows'[i].tx \in DOMAIN txs /\ txs[rows'[i].tx] = "success"
                        /\ \A j \in 1 .. n + 1 : rows'[j].tx = rows'[i].tx => i = j
      BY <1>2, <1>4 DEF RowsFit
    <2>1. \A j \in 1 .. n + 1 : j \in 1 .. n \/ j = n + 1
      OBVIOUS
    <2>2. runs[r].tx # Reserve!NoTx => \A j \in 1 .. n : rows[j].tx # runs[r].tx
      BY <1>1, <1>4 DEF RunsFit, Recorded
    <2>3. CASE i = n + 1
      BY <1>1, <1>2, <1>3, <1>4, <2>1, <2>2, <2>3 DEF RunsFit
    <2>4. CASE i \in 1 .. n
      BY <1>1, <1>3, <1>4, <2>1, <2>2, <2>4 DEF RowsFit
    <2> QED
      BY <2>1, <2>3, <2>4
  <1>a. TxsFit'
    <2> SUFFICES ASSUME NEW x \in DOMAIN txs \ lost
                 PROVE  /\ txs[x] = "pending" => \E s \in Runs : runs'[s].pc = "sent" /\ runs'[s].tx = x
                        /\ txs[x] = "success" => Recorded(x)' \/ \E s \in Runs : runs'[s].tx = x
      BY <1>2 DEF TxsFit
    <2>1. CASE txs[x] = "pending"
      <3>1. PICK s \in Runs : runs[s].pc = "sent" /\ runs[s].tx = x
        BY <1>1, <2>1 DEF TxsFit
      <3> QED
        BY <1>2, <1>5, <2>1, <3>1
    <2>2. CASE txs[x] # "pending"
      <3>1. txs[x] = "success" => Recorded(x) \/ \E s \in Runs : runs[s].tx = x
        BY <1>1 DEF TxsFit
      <3> QED
        BY <1>5, <1>6, <2>2, <3>1
    <2> QED
      BY <2>1, <2>2
  <1> QED
    BY <1>7, <1>8, <1>9, <1>a DEF RunsInv

(* A pending transaction is executed, or reverts.                          *)
LEMMA MineKeepsRuns ==
    ASSUME RunsInv, NEW x \in DOMAIN txs, txs[x] = "pending",
           UNCHANGED <<runs, rows, lost>>,
           NEW status \in {"success", "reverted"}, txs' = [txs EXCEPT ![x] = status]
    PROVE  RunsInv'
  <1>1. RunTypes /\ RunsFit /\ OneIsSent /\ RowsFit /\ TxsFit
    BY DEF RunsInv
  <1>2. /\ txs' \in Seq(TxStatus) /\ DOMAIN txs' = DOMAIN txs
        /\ txs'[x] = status /\ \A y \in DOMAIN txs : y # x => txs'[y] = txs[y]
    <2>1. txs' \in [1 .. Len(txs) -> TxStatus]
      BY <1>1, RunFields DEF TxStatus
    <2>2. Len(txs) \in Nat
      BY <1>1, RunFields
    <2> QED
      BY <2>1, <2>2, <1>1, RunFields
  <1>3. RunTypes' /\ OneIsSent'
    BY <1>1, <1>2 DEF RunTypes, OneIsSent
  <1>4. \A y \in DOMAIN txs : txs[y] = "success" => txs'[y] = "success"
    BY <1>2
  <1>5. RunsFit' /\ RowsFit'
    BY <1>1, <1>2, <1>4 DEF RunsFit, RowsFit, Recorded
  <1>6. TxsFit'
    <2> SUFFICES ASSUME NEW y \in DOMAIN txs \ lost
                 PROVE  /\ txs'[y] = "pending" => \E s \in Runs : runs[s].pc = "sent" /\ runs[s].tx = y
                        /\ txs'[y] = "success" => Recorded(y) \/ \E s \in Runs : runs[s].tx = y
      BY <1>2 DEF TxsFit, Recorded
    <2>1. CASE y = x
      BY <1>1, <1>2, <2>1 DEF TxsFit
    <2>2. CASE y # x
      BY <1>1, <1>2, <2>2 DEF TxsFit
    <2> QED
      BY <2>1, <2>2
  <1> QED
    BY <1>3, <1>5, <1>6 DEF RunsInv

\* A run that goes on stays a run of the same transaction.
LEMMA RunUpdates ==
    ASSUME NEW run \in RunLog
    PROVE  \A pc \in RunStages :
              LET next == [run EXCEPT !.pc = pc] IN
              next \in RunLog /\ next.pc = pc /\ next.tx = run.tx
  BY DEF RunLog

\* The place of a run that has ended.
LEMMA NoRunFields ==
    /\ Reserve!NoRun \in RunLog
    /\ Reserve!NoRun.tx = Reserve!NoTx /\ Reserve!NoRun.pc = "none"
  BY DEF RunLog, RunStages, Reserve!NoRun, Reserve!NoTx

(* A run between its reads has sent nothing.                               *)
LEMMA ReadingKeepsRuns ==
    ASSUME RunsInv, NEW r \in Runs, UNCHANGED <<txs, rows, lost>>,
           runs[r].tx = Reserve!NoTx,
           \/ \E pc \in RunStages \ {"sent"} : Reserve!Goes(r, pc)
           \/ Reserve!Ends(r)
    PROVE  RunsInv'
  <1>1. runs[r] \in RunLog
    BY RunFields DEF RunsInv
  <1>2. ASSUME NEW pc \in RunStages \ {"sent"}, Reserve!Goes(r, pc)
        PROVE  RunsInv'
    <2> DEFINE run == [runs[r] EXCEPT !.pc = pc]
    <2>1. run \in RunLog /\ run.pc = pc /\ run.tx = runs[r].tx
      BY <1>1, RunUpdates
    <2>2. runs' = [runs EXCEPT ![r] = run]
      BY <1>2 DEF Reserve!Goes
    <2> HIDE DEF run
    <2> QED
      BY <2>1, <2>2, IdleRunMoves
  <1>3. CASE Reserve!Ends(r)
    <2> DEFINE run == Reserve!NoRun
    <2>1. run \in RunLog /\ run.pc # "sent" /\ run.tx = Reserve!NoTx
      BY NoRunFields
    <2>2. runs' = [runs EXCEPT ![r] = run]
      BY <1>3 DEF Reserve!Ends
    <2> HIDE DEF run
    <2> QED
      BY <2>1, <2>2, IdleRunMoves
  <1> QED
    BY <1>2, <1>3

\* Every await-to-await step of a run keeps the record of runs.
LEMMA KeeperStepKeepsRuns ==
    ASSUME RunsInv, RoundTypes, NEW r \in Runs, Reserve!KeeperStep(r)
    PROVE  RunsInv'
  <1>1. /\ RunTypes /\ RunsFit /\ OneIsSent /\ RowsFit /\ TxsFit
        /\ runs[r] \in RunLog /\ runs[r].tx \in Nat
        /\ runs[r].pc \notin {"sent", "record"} => runs[r].tx = Reserve!NoTx
        /\ Len(txs) \in Nat
    BY RunFields DEF RunsInv, RunsFit
  <1>2. CASE Reserve!StartRun(r)
    BY <1>1, <1>2, ReadingKeepsRuns DEF Reserve!StartRun, Reserve!Running, RunStages
  <1>3. CASE Reserve!ReadAmount(r)
    <2> DEFINE pc == IF Reserve!availableCycleAmount = 0 THEN "record" ELSE "cooldown"
               run == [[runs[r] EXCEPT !.pc = pc] EXCEPT !.amount = Reserve!availableCycleAmount]
    <2>1. pc \in RunStages \ {"sent"} /\ Reserve!availableCycleAmount \in Nat
      BY AvailableType DEF RunStages
    <2>2. run \in RunLog /\ run.pc = pc /\ run.tx = runs[r].tx
      <3>1. pc \in RunStages /\ Reserve!availableCycleAmount \in Nat
        BY <2>1
      <3> HIDE DEF pc
      <3> QED
        BY <1>1, <3>1 DEF RunLog
    <2>3. runs' = [runs EXCEPT ![r] = run] /\ UNCHANGED <<txs, rows, lost>> /\ runs[r].pc = "amount"
      BY <1>1, <1>3 DEF Reserve!ReadAmount, RunTypes
    <2> HIDE DEF run
    <2> QED
      BY <1>1, <2>1, <2>2, <2>3, IdleRunMoves
  <1>4. CASE Reserve!ReadCooldown(r)
    BY <1>1, <1>4, ReadingKeepsRuns DEF Reserve!ReadCooldown, RunStages
  <1>5. CASE Reserve!ReadRoute(r)
    BY <1>1, <1>5, ReadingKeepsRuns DEF Reserve!ReadRoute, RunStages
  <1>6. CASE Reserve!Send(r)
    <2>1. CASE Reserve!Ends(r) /\ UNCHANGED txs
      BY <1>1, <1>6, <2>1, ReadingKeepsRuns DEF Reserve!Send
    <2>2. CASE txs' = Append(txs, "pending")
               /\ runs' = [runs EXCEPT ![r].pc = "sent", ![r].tx = Len(txs) + 1]
      <3> DEFINE run == [[runs[r] EXCEPT !.pc = "sent"] EXCEPT !.tx = Len(txs) + 1]
      <3>1. run \in RunLog /\ run.pc = "sent" /\ run.tx = Len(txs) + 1
        <4>1. "sent" \in RunStages /\ Len(txs) + 1 \in Nat
          BY <1>1 DEF RunStages
        <4> QED
          BY <1>1, <4>1 DEF RunLog
      <3>2. runs' = [runs EXCEPT ![r] = run]
        BY <1>1, <2>2 DEF RunTypes
      <3> HIDE DEF run
      <3>3. UNCHANGED <<rows, lost>> /\ runs[r].pc = "send" /\ Reserve!Unlocked
        BY <1>6 DEF Reserve!Send
      <3> QED
        BY <2>2, <3>1, <3>2, <3>3, SendKeepsRuns
    <2> QED
      BY <1>6, <2>1, <2>2 DEF Reserve!Send
  <1>7. CASE Reserve!Receipt(r)
    <2>1. /\ runs[r].pc = "sent" /\ txs[runs[r].tx] # "pending" /\ UNCHANGED <<txs, rows, lost>>
          /\ IF txs[runs[r].tx] = "success" THEN Reserve!Goes(r, "record") ELSE Reserve!Ends(r)
      BY <1>7 DEF Reserve!Receipt
    <2>2. CASE txs[runs[r].tx] = "success"
      <3> DEFINE run == [runs[r] EXCEPT !.pc = "record"]
      <3>1. run \in RunLog /\ run.pc = "record" /\ run.tx = runs[r].tx
        BY <1>1, RunUpdates DEF RunStages
      <3>2. runs' = [runs EXCEPT ![r] = run]
        BY <2>1, <2>2 DEF Reserve!Goes
      <3> HIDE DEF run
      <3> QED
        BY <2>1, <2>2, <3>1, <3>2, SuccessKeepsRuns
    <2>3. CASE txs[runs[r].tx] # "success"
      <3>1. txs[runs[r].tx] = "reverted"
        BY <1>1, <2>1, <2>3, RunFields DEF RunsFit, TxStatus
      <3>2. /\ runs' \in [Runs -> RunLog]
            /\ \A s \in Runs : runs'[s] = IF s \in {r} THEN Reserve!NoRun ELSE runs[s]
        BY <1>1, <2>1, <2>3, NoRunFields DEF Reserve!Ends, RunTypes
      <3> QED
        BY <2>1, <3>1, <3>2, RunsEnd
    <2> QED
      BY <2>2, <2>3
  <1>8. CASE Reserve!add_keeper_run(r)
    BY <1>8, RecordKeepsRuns
  <1>9. CASE Reserve!GivesUp(r)
    <2>1. /\ runs' \in [Runs -> RunLog]
          /\ \A s \in Runs : runs'[s] = IF s \in {r} THEN Reserve!NoRun ELSE runs[s]
      BY <1>1, <1>9, NoRunFields DEF Reserve!GivesUp, Reserve!Ends, RunTypes
    <2>2. /\ UNCHANGED <<txs, rows>> /\ lost' = lost \cup ({runs[r].tx} \ {Reserve!NoTx})
      BY <1>9 DEF Reserve!GivesUp
    <2> QED
      BY <2>1, <2>2, RunsEnd
  <1> QED
    BY <1>2, <1>3, <1>4, <1>5, <1>6, <1>7, <1>8, <1>9 DEF Reserve!KeeperStep

\* A step elsewhere leaves the runs alone.
LEMMA RunsUnchanged ==
    ASSUME RunsInv, UNCHANGED <<runs, txs, rows, lost>>
    PROVE  RunsInv'
  BY DEF RunsInv, RunTypes, RunsFit, OneIsSent, RowsFit, TxsFit, Recorded

\* So does every step of the keeper, of the chain and of the process.
LEMMA KeeperKeepsRuns ==
    ASSUME RunsInv, RoundTypes, Reserve!KeeperNext
    PROVE  RunsInv'
  <1>1. CASE UNCHANGED <<Reserve!process, txs, misses>>
    BY <1>1, RunsUnchanged DEF Reserve!process
  <1>2. ASSUME NEW r \in Runs, Reserve!KeeperStep(r)
        PROVE  RunsInv'
    BY <1>2, KeeperStepKeepsRuns
  <1>3. ASSUME NEW x \in DOMAIN txs, Reserve!Mine(x)
        PROVE  RunsInv'
    <2>1. txs[x] = "pending" /\ UNCHANGED <<runs, rows, lost>>
      BY <1>3 DEF Reserve!Mine, Reserve!process
    <2>2. \E status \in {"success", "reverted"} : txs' = [txs EXCEPT ![x] = status]
      BY <1>3 DEF Reserve!Mine
    <2> QED
      BY <2>1, <2>2, MineKeepsRuns
  <1>4. CASE Reserve!Restart
    <2>1. /\ runs' \in [Runs -> RunLog]
          /\ \A s \in Runs : runs'[s] = IF s \in Runs THEN Reserve!NoRun ELSE runs[s]
      BY <1>4, RunFields, NoRunFields DEF Reserve!Restart, RunsInv, RunTypes
    <2>2. /\ UNCHANGED <<txs, rows>>
          /\ lost' = lost \cup ({runs[r].tx : r \in Runs} \ {Reserve!NoTx})
      BY <1>4 DEF Reserve!Restart
    <2>3. \A r \in Runs : runs[r].tx = Reserve!NoTx \/ runs[r].tx \in lost'
      BY <2>2
    <2> QED
      BY <2>1, <2>2, <2>3, RunsEnd
  <1> QED
    BY <1>1, <1>2, <1>3, <1>4 DEF Reserve!KeeperNext

\* At first nothing is run, sent or recorded.
LEMMA RunsStart ==
    ASSUME SpendingInit
    PROVE  RunsInv
  <1>1. Reserve!RunsInit
    BY DEF SpendingInit, LiveInit, Reserve!KeeperInit
  <1>2. RunTypes
    BY <1>1, NoRunFields DEF RunTypes, Reserve!RunsInit
  <1>3. DOMAIN txs = {} /\ DOMAIN rows = {} /\ \A r \in Runs : runs[r].tx = Reserve!NoTx /\ runs[r].pc = "none"
    BY <1>1 DEF Reserve!RunsInit, Reserve!NoRun
  <1> QED
    BY <1>2, <1>3 DEF RunsInv, RunsFit, OneIsSent, RowsFit, TxsFit

(* However runs, other calls, blocks, missed receipts and restarts         *)
(* interleave: a purchase is on record once, or its run has it, or that    *)
(* run was given up; and one transaction at a time waits to be mined.      *)
THEOREM RunsRecorded == SpendingSpec => []RunsAreRecorded
  <1> DEFINE Inv == RoundInv /\ RunsInv
  <1>1. SpendingInit => Inv
    BY RoundInit, RunsStart
  <1>2. Inv /\ [SpendingNext]_spendingVars => Inv'
    <2> SUFFICES ASSUME Inv, [SpendingNext]_spendingVars PROVE Inv'
      OBVIOUS
    <2>0. RoundTypes
      BY DEF RoundInv
    <2>1. CASE RoundNext
      BY <2>1, ReserveKeepsRound, RunsUnchanged DEF RoundNext, keeperVars
    <2>2. CASE RunsNext
      BY <2>0, <2>2, KeeperKeepsRound, KeeperKeepsRuns DEF RunsNext
    <2>3. CASE UNCHANGED <<reserveVars, keeperVars>>
      BY <2>3, RoundUnchanged, RunsUnchanged DEF reserveVars, keeperVars
    <2> QED
      BY <2>1, <2>2, <2>3 DEF SpendingNext, spendingVars
  <1>3. Inv => RunsAreRecorded
    <2> SUFFICES ASSUME Inv PROVE RunsAreRecorded
      OBVIOUS
    <2>0. RunTypes /\ RunsFit /\ OneIsSent /\ RowsFit /\ TxsFit
      BY DEF RunsInv
    <2>1. \A i \in DOMAIN rows : rows[i].tx # Reserve!NoTx =>
             /\ txs[rows[i].tx] = "success"
             /\ \A j \in DOMAIN rows : rows[j].tx = rows[i].tx => i = j
      BY <2>0 DEF RowsFit
    <2>2. \A x \in DOMAIN txs \ lost : txs[x] = "success" =>
             \/ \E i \in DOMAIN rows : rows[i].tx = x
             \/ \E r \in Runs : runs[r].tx = x
      BY <2>0 DEF TxsFit, Recorded
    <2>3. \A x, y \in DOMAIN txs \ lost : txs[x] = "pending" /\ txs[y] = "pending" => x = y
      BY <2>0 DEF TxsFit, OneIsSent
    <2> QED
      BY <2>1, <2>2, <2>3 DEF RunsAreRecorded, Reserve!RunsAreRecorded
  <1> QED
    BY <1>1, <1>2, <1>3, PTL DEF SpendingSpec
=============================================================================
