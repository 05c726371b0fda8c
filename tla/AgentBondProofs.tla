--------------------------- MODULE AgentBondProofs ---------------------------
(* Theorems about AgentBond for every value of its constants.              *)
EXTENDS EarnPositions, RevenueSystem, Sequences, SumLemmas, TLAPS

(* The integer arithmetic of the accumulators, stated once.                *)
LEMMA DivType ==
    ASSUME NEW a \in Nat, NEW b \in Nat \ {0}
    PROVE  a \div b \in Nat /\ a % b \in Nat
  OBVIOUS

(* Rounding down keeps the order.                                          *)
LEMMA DivMonotone ==
    ASSUME NEW a \in Nat, NEW c \in Nat, NEW b \in Nat \ {0}, a <= c
    PROVE  a \div b <= c \div b
  OBVIOUS

(* A factor keeps the order.                                               *)
LEMMA MulMonotone ==
    ASSUME NEW a \in Nat, NEW c \in Nat, NEW b \in Nat, a <= c
    PROVE  b * a \in Nat /\ b * c \in Nat /\ b * a <= b * c
  OBVIOUS

(* A product of weights and epochs is one, too.                            *)
LEMMA MulType ==
    ASSUME NEW a \in Nat, NEW b \in Nat
    PROVE  a * b \in Nat
  OBVIOUS

(* A term lasts a whole number of days, longer than the maturation.        *)
LEMMA TermType ==
    ASSUME NEW term \in Terms
    PROVE  /\ Duration(term) \in {30, 90, 180}
           /\ MultiplierBps(term) \in {10000, 12500, 15000}
  BY AgentBondAssumption DEF Duration, MultiplierBps, LOCK_DURATION

(* What _bond and reinvest store is a position: its weight and the epochs  *)
(* it earns in are natural numbers.                                        *)
LEMMA NewPositionType ==
    ASSUME TypeOK, NEW account \in Accounts, NEW key \in Keys, NEW units \in Nat,
           NEW term \in Terms
    PROVE  /\ NewPosition(account, key, units, term) \in Position
           /\ NewPosition(account, key, units, term).rewardWeight \in Nat
           /\ NewPosition(account, key, units, term).unlockAt \in Nat
  <1> DEFINE pos == NewPosition(account, key, units, term)
  <1>1. now \in Nat
    BY DEF TypeOK
  <1>2. units * MultiplierBps(term) \in Nat
    BY TermType
  <1>3. now + Duration(term) \in Nat /\ (now + Duration(term)) \div 7 \in Nat
    BY <1>1, TermType
  <1>4. now + 7 \in Nat /\ (now + 7 + 7 - 1) \div 7 \in Nat
    BY <1>1
  <1> QED
    BY <1>1, <1>2, <1>3, <1>4
    DEF NewPosition, FirstEligibleEpoch, LastEligibleEpochExclusive, Position,
        EPOCH_DURATION, MATURATION_DURATION

(* What the two ways of opening a position do to the books' types.         *)
LEMMA OpenPositionType ==
    ASSUME TypeOK, NEW account \in Accounts, NEW key \in Keys, NEW units \in Nat,
           NEW term \in Terms, OpenPosition(account, key, units, term)
    PROVE  /\ nextPositionId' \in Nat \ {0}
           /\ PositionIds' = 1 .. nextPositionId
           /\ positions' \in [PositionIds' -> Position]
           /\ unitsByKey' \in [Accounts -> [Keys -> Nat]]
           /\ rewardUnits' \in [Accounts -> Nat]
           /\ bondedBalance' \in [Accounts -> Nat]
           /\ lockedUntil' \in [Accounts -> [Keys -> Nat]]
           /\ totalRewardUnits' \in Nat
           /\ totalRewardUnitsByKey' \in [Keys -> Nat]
           /\ totalBondedMuppets' \in Nat
           /\ totalRewardWeightAtEpoch' \in [Streams -> [Epochs -> Nat]]
  <1> DEFINE pos == NewPosition(account, key, units, term)
  <1>1. pos \in Position /\ pos.rewardWeight \in Nat /\ pos.unlockAt \in Nat
    BY NewPositionType
  <1>2. units * UnitSize \in Nat
    BY MulType, AgentBondAssumption
  <1> HIDE DEF pos
  <1>3. nextPositionId' \in Nat \ {0} /\ PositionIds' = 1 .. nextPositionId
    BY DEF TypeOK, OpenPosition, PositionIds
  <1>4. positions' \in [PositionIds' -> Position]
    BY <1>1, <1>3 DEF TypeOK, OpenPosition, PositionIds, pos
  <1>5. unitsByKey' \in [Accounts -> [Keys -> Nat]]
    <2>1. unitsByKey[account][key] + units \in Nat
      BY DEF TypeOK
    <2> QED
      BY <2>1 DEF TypeOK, OpenPosition
  <1>6. rewardUnits' \in [Accounts -> Nat] /\ totalRewardUnits' \in Nat
    BY DEF TypeOK, OpenPosition
  <1>7. totalRewardUnitsByKey' \in [Keys -> Nat]
    BY DEF TypeOK, OpenPosition
  <1>8. bondedBalance' \in [Accounts -> Nat] /\ totalBondedMuppets' \in Nat
    <2>1. /\ bondedBalance[account] + units * UnitSize \in Nat
          /\ totalBondedMuppets + units * UnitSize \in Nat
      BY <1>2 DEF TypeOK
    <2>2. /\ bondedBalance' = [bondedBalance EXCEPT ![account] = @ + units * UnitSize]
          /\ totalBondedMuppets' = totalBondedMuppets + units * UnitSize
      BY DEF OpenPosition
    <2> QED
      BY <2>1, <2>2 DEF TypeOK
  <1>9. lockedUntil' \in [Accounts -> [Keys -> Nat]]
    <2>1. LaterLock(lockedUntil[account][key], pos.unlockAt) \in Nat
      BY <1>1 DEF TypeOK, LaterLock
    <2>2. lockedUntil' = [lockedUntil EXCEPT ![account][key] = LaterLock(@, pos.unlockAt)]
      BY DEF OpenPosition, pos
    <2> QED
      BY <2>1, <2>2 DEF TypeOK
  <1>10. totalRewardWeightAtEpoch' \in [Streams -> [Epochs -> Nat]]
    <2>1. \A s \in Streams, e \in Epochs :
             totalRewardWeightAtEpoch[s][e] + pos.rewardWeight \in Nat
      BY <1>1 DEF TypeOK
    <2> QED
      BY <1>1, <2>1 DEF TypeOK, OpenPosition, WeightWith, pos
  <1> QED
    BY <1>3, <1>4, <1>5, <1>6, <1>7, <1>8, <1>9, <1>10

(* A fresh position enters the claim record with nothing claimed.          *)
LEMMA WithFreshPositionType ==
    ASSUME TypeOK, NEW claims \in [PositionIds -> [Kinds -> [Epochs -> Nat]]]
    PROVE  WithFreshPosition(claims) \in [1 .. nextPositionId -> [Kinds -> [Epochs -> Nat]]]
  BY DEF WithFreshPosition, PositionIds, TypeOK

(* What a position is entitled to of an epoch of a stream is an amount.    *)
LEMMA EntitlementType ==
    ASSUME TypeOK, NEW p \in PositionIds, NEW kind \in Kinds, NEW e \in Epochs
    PROVE  Entitlement(p, kind, e) \in Nat
  <1>1. StreamOf(p, kind) \in Streams
    BY DEF StreamOf, Streams, TypeOK, Position
  <1>2. /\ positions[p].rewardWeight \in Nat
        /\ rewardPerWeightAtEpoch[StreamOf(p, kind)][e] \in Nat
    BY <1>1 DEF TypeOK, Position
  <1> QED
    BY <1>2, MulType, DivType, AgentBondAssumption DEF Entitlement

(* The same of the entitlement after a step.                               *)
LEMMA EntitlementTypeNext ==
    ASSUME TypeOK', NEW p \in PositionIds', NEW kind \in Kinds, NEW e \in Epochs
    PROVE  Entitlement(p, kind, e)' \in Nat
  <1>1. StreamOf(p, kind)' \in Streams
    BY DEF StreamOf, Streams, TypeOK, Position
  <1>2. /\ positions'[p].rewardWeight \in Nat
        /\ rewardPerWeightAtEpoch'[StreamOf(p, kind)'][e] \in Nat
    BY <1>1 DEF TypeOK, Position
  <1>3. Entitlement(p, kind, e)'
           = (positions'[p].rewardWeight
                * rewardPerWeightAtEpoch'[StreamOf(p, kind)'][e]) \div Precision
    BY DEF Entitlement
  <1> QED
    BY <1>2, <1>3, MulType, DivType, AgentBondAssumption

(* Checkpointing a position keeps the type of the claim record.            *)
LEMMA CheckpointedType ==
    ASSUME TypeOK, NEW p \in PositionIds
    PROVE  Checkpointed(p) \in [PositionIds -> [Kinds -> [Epochs -> Nat]]]
  <1>1. \A kind \in Kinds, e \in Epochs : Entitlement(p, kind, e) \in Nat
    BY EntitlementType
  <1> QED
    BY <1>1 DEF Checkpointed, TypeOK

(* The checked subtractions of a claim keep the ledger in the naturals.    *)
LEMMA SettleClaimType ==
    ASSUME TypeOK, NEW account \in Accounts, NEW p \in PositionIds,
           NEW globalWeth, NEW keyWeth, SettleClaim(account, p, globalWeth, keyWeth)
    PROVE  /\ globalWeth \in Nat /\ keyWeth \in Nat
           /\ wethHeld - (globalWeth + keyWeth) \in Nat
           /\ rewardLiability' \in Nat
           /\ keyRewardLiability' \in [Keys -> Nat]
           /\ totalRewardsNotified' \in Nat
           /\ totalRewardsClaimed' \in Nat
           /\ totalNotified' \in [Streams -> Nat]
           /\ totalClaimed' \in [Streams -> Nat]
           /\ accountRewardsClaimed' \in [Accounts -> Nat]
  <1>1. positions[p].key \in Keys
    BY DEF TypeOK, Position
  <1>2. rewardLiability \in Nat /\ keyRewardLiability[positions[p].key] \in Nat
    BY <1>1 DEF TypeOK
  <1>3. globalWeth \in Nat /\ keyWeth \in Nat
    BY <1>2 DEF SettleClaim, CanSettle
  <1> QED
    BY <1>1, <1>3 DEF TypeOK, SettleClaim, CanSettle, Streams

(* Every operation of the bond keeps the type of the whole state.          *)
LEMMA TypeStep ==
    ASSUME TypeOK, [Next]_vars
    PROVE  TypeOK'
  <1>1. CASE Govern
    BY <1>1, AgentBondAssumption
    DEF Govern, TransferOwnership, SetKeyRegistry, SetRewardNotifier, Activate, Pause,
        nonGovVars, unitVars, accVars, ledgerVars, TypeOK, PositionIds
  <1>2. ASSUME NEW day \in Instants, AdvanceClock(day)
        PROVE  TypeOK'
    BY <1>2, AgentBondAssumption
    DEF AdvanceClock, govVars, unitVars, accVars, ledgerVars, TypeOK, PositionIds
  <1>3. ASSUME NEW a \in Accounts, NEW k \in Keys, NEW u \in 1 .. MaxUnits, BindKeys(a, k, u)
        PROVE  TypeOK'
    <2>1. boundBalance[a][k] + u \in Nat
      BY AgentBondAssumption DEF TypeOK
    <2>2. boundBalance' \in [Accounts -> [Keys -> Nat]]
      BY <1>3, <2>1 DEF BindKeys, TypeOK
    <2> QED
      BY <1>3, <2>2 DEF BindKeys, govVars, unitVars, accVars, ledgerVars, TypeOK, PositionIds
  <1>4. ASSUME NEW a \in Accounts, NEW k \in Keys, NEW u \in 1 .. MaxUnits, NEW t \in Terms,
               BondWithTerm(a, k, u, t)
        PROVE  TypeOK'
    <2>1. u \in Nat /\ OpenPosition(a, k, u, t)
      BY <1>4, AgentBondAssumption DEF BondWithTerm
    <2>2. claimedByEpoch' \in [1 .. nextPositionId -> [Kinds -> [Epochs -> Nat]]]
      BY <1>4, WithFreshPositionType DEF BondWithTerm, TypeOK
    <2>3. u * UnitSize \in Nat
      BY <2>1, MulType, AgentBondAssumption
    <2>4. muppetsHeld' \in Nat
      BY <1>4, <2>3 DEF BondWithTerm, TypeOK
    <2> QED
      BY <1>4, <2>1, <2>2, <2>4, OpenPositionType
      DEF BondWithTerm, govVars, accVars, ledgerVars, TypeOK
  <1>5. ASSUME NEW a \in Accounts, NEW p \in PositionIds, UnbondPosition(a, p)
        PROVE  TypeOK'
    <2>1. positions[p] \in Position /\ positions[p].key \in Keys /\ positions[p].units \in Nat
      BY DEF TypeOK, Position
    <2>2. positions[p].units * UnitSize \in Nat
      BY <2>1, MulType, AgentBondAssumption
    <2>3. positions' \in [PositionIds -> Position]
      BY <1>5, <2>1 DEF UnbondPosition, CanUnbond, TypeOK, Position
    <2>4. /\ unitsByKey' \in [Accounts -> [Keys -> Nat]]
          /\ rewardUnits' \in [Accounts -> Nat]
          /\ totalRewardUnits' \in Nat
          /\ totalRewardUnitsByKey' \in [Keys -> Nat]
      BY <1>5, <2>1 DEF UnbondPosition, CanUnbond, TypeOK
    <2>5. /\ bondedBalance' \in [Accounts -> Nat]
          /\ totalBondedMuppets' \in Nat
          /\ muppetsHeld' \in Nat
      BY <1>5, <2>2 DEF UnbondPosition, CanUnbond, TypeOK
    <2> QED
      BY <1>5, <2>3, <2>4, <2>5
      DEF UnbondPosition, CanUnbond, govVars, accVars, ledgerVars, TypeOK, PositionIds
  <1>6. ASSUME NEW a \in Accounts, NEW p \in PositionIds, ClaimPositionRewards(a, p)
        PROVE  TypeOK'
    <2> DEFINE g == pendingPositionRewards(p, "global")
               k == pendingPositionRewards(p, "key")
    <2>1. SettleClaim(a, p, g, k)
      BY <1>6 DEF ClaimPositionRewards
    <2> HIDE DEF g, k
    <2>2. g \in Nat /\ k \in Nat /\ wethHeld - (g + k) \in Nat
      BY <2>1, SettleClaimType
    <2>3. wethHeld' \in Nat
      BY <1>6, <2>2 DEF ClaimPositionRewards, g, k
    <2>4. claimedByEpoch' \in [PositionIds -> [Kinds -> [Epochs -> Nat]]]
      BY <1>6, CheckpointedType DEF ClaimPositionRewards
    <2> QED
      BY <1>6, <2>1, <2>3, <2>4, SettleClaimType
      DEF ClaimPositionRewards, govVars, unitVars, accVars, TypeOK, PositionIds
  <1>7. ASSUME NEW a \in Accounts, NEW p \in PositionIds, NEW k \in Keys,
               NEW u \in 1 .. MaxUnits, NEW t \in Terms, NEW spend \in 1 .. 2 * MaxNotified,
               NEW surplus \in 0 .. 1,
               ClaimBuyAndBond(a, p, spend, k, u, t, u * UnitSize, u * UnitSize + surplus)
        PROVE  TypeOK'
    <2> DEFINE gw == pendingPositionRewards(p, "global")
               kw == pendingPositionRewards(p, "key")
    <2>1. SettleClaim(a, p, gw, kw) /\ OpenPosition(a, k, u, t) /\ u \in Nat
      BY <1>7, AgentBondAssumption DEF ClaimBuyAndBond
    <2> HIDE DEF gw, kw
    <2>2. gw \in Nat /\ kw \in Nat /\ wethHeld - (gw + kw) \in Nat
      BY <2>1, SettleClaimType
    <2>3. wethHeld' \in Nat
      BY <1>7, <2>2, AgentBondAssumption DEF ClaimBuyAndBond, WethPaidOut, TypeOK, gw, kw
    <2>4. claimedByEpoch' \in [1 .. nextPositionId -> [Kinds -> [Epochs -> Nat]]]
      BY <1>7, CheckpointedType, WithFreshPositionType DEF ClaimBuyAndBond
    <2>5. u * UnitSize \in Nat
      BY <2>1, MulType, AgentBondAssumption
    <2>6. muppetsHeld' \in Nat
      BY <1>7, <2>5 DEF ClaimBuyAndBond, TypeOK
    <2>7. accountRewardsReinvested' \in [Accounts -> Nat]
      BY <1>7, AgentBondAssumption DEF ClaimBuyAndBond, TypeOK
    <2> QED
      BY <1>7, <2>1, <2>3, <2>4, <2>6, <2>7, SettleClaimType, OpenPositionType
      DEF ClaimBuyAndBond, govVars, accVars, TypeOK
  <1>8. ASSUME NEW n \in Notifiers, NEW s \in Streams, NEW e \in Epochs, NEW amount \in Rewards,
               NotifyReward(n, s, e, amount)
        PROVE  TypeOK'
    <2> DEFINE weight == totalRewardWeightAtEpoch[s][e]
               scaled == amount * Precision + rewardRemainderScaledAtEpoch[s][e]
    <2>1. amount \in Nat /\ weight \in Nat \ {0}
      BY <1>8, AgentBondAssumption DEF NotifyReward, TypeOK
    <2>2. amount * Precision \in Nat
      BY <2>1, MulType, AgentBondAssumption
    <2>3. scaled \in Nat
      BY <2>2 DEF TypeOK
    <2>4. scaled \div weight \in Nat /\ scaled % weight \in Nat
      BY <2>1, <2>3, DivType
    <2>5. rewardPerWeightAtEpoch' =
             [rewardPerWeightAtEpoch EXCEPT ![s][e] = @ + scaled \div weight]
      BY <1>8 DEF NotifyReward, Scaled, AccumulatorWith
    <2>6. rewardRemainderScaledAtEpoch' =
             [rewardRemainderScaledAtEpoch EXCEPT ![s][e] = scaled % weight]
      BY <1>8 DEF NotifyReward, Scaled
    <2>7. /\ rewardPerWeightAtEpoch[s][e] + scaled \div weight \in Nat
      BY <2>4 DEF TypeOK
    <2> HIDE DEF weight, scaled
    <2>8. rewardPerWeightAtEpoch' \in [Streams -> [Epochs -> Nat]]
      BY <2>5, <2>7 DEF TypeOK
    <2>9. rewardRemainderScaledAtEpoch' \in [Streams -> [Epochs -> Nat]]
      BY <2>4, <2>6 DEF TypeOK
    <2>10. /\ keyRewardLiability' \in [Keys -> Nat]
           /\ rewardLiability' \in Nat
           /\ totalNotified' \in [Streams -> Nat]
           /\ totalRewardsNotified' \in Nat
           /\ wethHeld' \in Nat
      BY <1>8, <2>1 DEF NotifyReward, KeyLiabilityWith, TypeOK
    <2> QED
      BY <1>8, <2>8, <2>9, <2>10 DEF NotifyReward, govVars, unitVars, TypeOK, PositionIds
  <1>9. CASE UNCHANGED vars
    BY <1>9 DEF vars, govVars, unitVars, accVars, ledgerVars, TypeOK, PositionIds
  <1> QED
    BY <1>1, <1>2, <1>3, <1>4, <1>5, <1>6, <1>7, <1>8, <1>9 DEF Next, HolderStep, Notify

(* The constructor leaves empty books.                                     *)
LEMMA TypeStarts == Init => TypeOK
  BY AgentBondAssumption DEF Init, GovernanceInit, BooksInit, TypeOK, PositionIds, Streams,
     Epochs, EPOCH_DURATION

(* Every reachable state is well-typed: no subtraction of the contract     *)
(* goes below zero and no position is ever malformed.                      *)
THEOREM TypeCorrect == Spec => []TypeOK
  <1>1. Init => TypeOK
    BY TypeStarts
  <1>2. TypeOK /\ [Next]_vars => TypeOK'
    BY TypeStep
  <1> QED
    BY <1>1, <1>2, PTL DEF Spec

-----------------------------------------------------------------------------
(* How a step moves governance, positions, weights and accumulators.       *)

(* Pausing and the setters guard one another: governance is never live     *)
(* half configured.                                                        *)
THEOREM ActivationSafe == Spec => []ActivationIsSafe
  <1>1. Init => ActivationIsSafe
    BY DEF Init, GovernanceInit, ActivationIsSafe
  <1>2. TypeOK /\ ActivationIsSafe /\ [Next]_vars => ActivationIsSafe'
    <2> SUFFICES ASSUME TypeOK, ActivationIsSafe, [Next]_vars
                 PROVE  ActivationIsSafe'
      OBVIOUS
    <2>1. CASE Govern
      BY <2>1, AgentBondAssumption
      DEF Govern, TransferOwnership, SetKeyRegistry, SetRewardNotifier, Activate, Pause,
          ActivationIsSafe, governanceReady, HasActiveRegistry
    <2>2. CASE UNCHANGED govVars
      BY <2>2 DEF govVars, ActivationIsSafe, governanceReady, HasActiveRegistry
    <2> QED
      BY <2>1, <2>2
      DEF Next, HolderStep, Notify, AdvanceClock, BindKeys, BondWithTerm, UnbondPosition, CanUnbond,
          ClaimPositionRewards, ClaimBuyAndBond, NotifyReward, vars
  <1> QED
    BY <1>1, <1>2, TypeCorrect, PTL DEF Spec

Opens(a, k, u, t) ==
    /\ OpenPosition(a, k, u, t)
    /\ UNCHANGED now

Frees(a, p) ==
    /\ now >= positions[p].unlockAt
    /\ nextPositionId' = nextPositionId
    /\ positions' = [positions EXCEPT ![p].withdrawn = TRUE]
    /\ UNCHANGED <<now, totalRewardWeightAtEpoch, lockedUntil>>

KeepsPositions ==
    /\ now <= now'
    /\ UNCHANGED <<nextPositionId, positions, totalRewardWeightAtEpoch, lockedUntil>>

(* A step opens one position, withdraws one that is unlocked, or leaves    *)
(* positions and weights alone.                                            *)
LEMMA PositionStep ==
    ASSUME TypeOK, [Next]_vars
    PROVE  \/ \E a \in Accounts, k \in Keys, u \in Nat, t \in Terms : Opens(a, k, u, t)
           \/ \E a \in Accounts, p \in PositionIds : Frees(a, p)
           \/ KeepsPositions
  <1>0. now \in Nat
    BY DEF TypeOK
  <1>1. CASE Govern
    BY <1>0, <1>1
    DEF Govern, TransferOwnership, SetKeyRegistry, SetRewardNotifier, Activate, Pause,
        nonGovVars, unitVars, KeepsPositions
  <1>2. ASSUME NEW day \in Instants, AdvanceClock(day)
        PROVE  KeepsPositions
    BY <1>0, <1>2, AgentBondAssumption DEF AdvanceClock, unitVars, KeepsPositions
  <1>3. ASSUME NEW a \in Accounts, NEW k \in Keys, NEW u \in 1 .. MaxUnits, BindKeys(a, k, u)
        PROVE  KeepsPositions
    BY <1>0, <1>3 DEF BindKeys, unitVars, KeepsPositions
  <1>4. ASSUME NEW a \in Accounts, NEW k \in Keys, NEW u \in 1 .. MaxUnits, NEW t \in Terms,
               BondWithTerm(a, k, u, t)
        PROVE  u \in Nat /\ Opens(a, k, u, t)
    BY <1>4, AgentBondAssumption DEF BondWithTerm, Opens
  <1>5. ASSUME NEW a \in Accounts, NEW p \in PositionIds, UnbondPosition(a, p)
        PROVE  Frees(a, p)
    BY <1>5 DEF UnbondPosition, CanUnbond, Unlocked, Frees
  <1>6. ASSUME NEW a \in Accounts, NEW p \in PositionIds, ClaimPositionRewards(a, p)
        PROVE  KeepsPositions
    BY <1>0, <1>6 DEF ClaimPositionRewards, unitVars, KeepsPositions
  <1>7. ASSUME NEW a \in Accounts, NEW p \in PositionIds, NEW k \in Keys,
               NEW u \in 1 .. MaxUnits, NEW t \in Terms, NEW spend \in 1 .. 2 * MaxNotified,
               NEW surplus \in 0 .. 1,
               ClaimBuyAndBond(a, p, spend, k, u, t, u * UnitSize, u * UnitSize + surplus)
        PROVE  u \in Nat /\ Opens(a, k, u, t)
    BY <1>7, AgentBondAssumption DEF ClaimBuyAndBond, Opens
  <1>8. ASSUME NEW n \in Notifiers, NEW s \in Streams, NEW e \in Epochs, NEW amount \in Rewards,
               NotifyReward(n, s, e, amount)
        PROVE  KeepsPositions
    BY <1>0, <1>8 DEF NotifyReward, unitVars, KeepsPositions
  <1>9. CASE UNCHANGED vars
    BY <1>0, <1>9 DEF vars, unitVars, KeepsPositions
  <1> QED
    BY <1>1, <1>2, <1>3, <1>4, <1>5, <1>6, <1>7, <1>8, <1>9 DEF Next, HolderStep, Notify

(* The timing every position is created with.                              *)
WellTimed(pos) ==
    /\ pos.maturesAt = pos.bondedAt + 7
    /\ pos.firstEligibleEpoch = (pos.maturesAt + 6) \div 7
    /\ pos.lastEligibleEpochExclusive = pos.unlockAt \div 7

(* The strengthening: positions keep the timing they were created with,    *)
(* a withdrawn one is past its unlock time, and lockedUntil covers it.     *)
PositionsInv ==
    \A p \in PositionIds :
        /\ WellTimed(positions[p])
        /\ positions[p].withdrawn => positions[p].unlockAt <= now
        /\ positions[p].unlockAt <= lockedUntil[positions[p].account][positions[p].key]

(* A new position matures before it unlocks and earns between the two.     *)
LEMMA NewPositionTiming ==
    ASSUME TypeOK, NEW a \in Accounts, NEW k \in Keys, NEW u \in Nat, NEW t \in Terms
    PROVE  LET pos == NewPosition(a, k, u, t)
           IN  /\ WellTimed(pos)
               /\ ~pos.withdrawn /\ pos.account = a /\ pos.key = k
               /\ pos.firstEligibleEpoch > currentEpoch
  <1>1. now \in Nat
    BY DEF TypeOK
  <1>2. (now + 7 + 6) \div 7 > now \div 7
    BY <1>1
  <1>3. now + 7 + 7 - 1 = now + 7 + 6
    BY <1>1
  <1> QED
    BY <1>1, <1>2, <1>3
    DEF NewPosition, FirstEligibleEpoch, LastEligibleEpochExclusive, WellTimed, EPOCH_DURATION, MATURATION_DURATION, currentEpoch

(* What is known of every position and every checkpoint in every reachable *)
(* state: the inductive invariant behind the theorems on timing and        *)
(* checkpoints.                                                            *)
THEOREM PositionsInvariant == Spec => []PositionsInv
  <1>1. Init => PositionsInv
    BY DEF Init, BooksInit, PositionsInv, PositionIds
  <1>2. TypeOK /\ PositionsInv /\ [Next]_vars => PositionsInv'
    <2> SUFFICES ASSUME TypeOK, PositionsInv, [Next]_vars
                 PROVE  PositionsInv'
      OBVIOUS
    <2>1. ASSUME NEW a \in Accounts, NEW k \in Keys, NEW u \in Nat, NEW t \in Terms,
                 Opens(a, k, u, t)
          PROVE  PositionsInv'
      <3> DEFINE pos == NewPosition(a, k, u, t)
      <3>1. /\ WellTimed(pos) /\ ~pos.withdrawn /\ pos.account = a /\ pos.key = k
            /\ pos.unlockAt \in Nat
        BY NewPositionTiming, NewPositionType
      <3>2. /\ positions' = [q \in 1 .. nextPositionId |->
                                IF q = nextPositionId THEN pos ELSE positions[q]]
            /\ lockedUntil' = [lockedUntil EXCEPT ![a][k] =
                                  IF pos.unlockAt > @ THEN pos.unlockAt ELSE @]
            /\ now' = now
            /\ PositionIds' = 1 .. nextPositionId
        BY <2>1, OpenPositionType DEF Opens, OpenPosition, LaterLock
      <3> HIDE DEF pos
      <3>3. lockedUntil'[a][k] >= pos.unlockAt
        BY <3>1, <3>2 DEF TypeOK
      <3>4. \A b \in Accounts, m \in Keys : lockedUntil[b][m] <= lockedUntil'[b][m]
        <4> SUFFICES ASSUME NEW b \in Accounts, NEW m \in Keys
                     PROVE  lockedUntil[b][m] <= lockedUntil'[b][m]
          OBVIOUS
        <4>1. lockedUntil[b][m] \in Nat
          BY DEF TypeOK
        <4>2. CASE b = a /\ m = k
          BY <3>1, <3>2, <4>1, <4>2 DEF TypeOK
        <4>3. CASE ~(b = a /\ m = k)
          <5>1. lockedUntil'[b][m] = lockedUntil[b][m]
            BY <3>2, <4>3 DEF TypeOK
          <5> QED
            BY <4>1, <5>1
        <4> QED
          BY <4>2, <4>3
      <3> SUFFICES ASSUME NEW q \in PositionIds'
                   PROVE  /\ WellTimed(positions'[q])
                          /\ positions'[q].withdrawn => positions'[q].unlockAt <= now
                          /\ positions'[q].unlockAt
                                <= lockedUntil'[positions'[q].account][positions'[q].key]
        BY <3>2 DEF PositionsInv, WellTimed
      <3>5. CASE q = nextPositionId
        BY <3>1, <3>2, <3>3, <3>5
      <3>6. CASE q # nextPositionId
        <4>1. q \in PositionIds /\ positions'[q] = positions[q]
          <5>1. nextPositionId \in Nat \ {0} /\ q \in 1 .. nextPositionId
            BY <3>2 DEF TypeOK
          <5> QED
            BY <3>2, <3>6, <5>1 DEF PositionIds
        <4>2. /\ positions[q].account \in Accounts /\ positions[q].key \in Keys
              /\ positions[q].unlockAt \in Nat
          BY <4>1 DEF TypeOK, Position
        <4>3. /\ lockedUntil[positions[q].account][positions[q].key] \in Nat
              /\ lockedUntil'[positions[q].account][positions[q].key] \in Nat
          BY <4>2, TypeStep DEF TypeOK
        <4> QED
          BY <3>4, <4>1, <4>2, <4>3 DEF PositionsInv
      <3> QED
        BY <3>5, <3>6
    <2>2. ASSUME NEW a \in Accounts, NEW p \in PositionIds, Frees(a, p)
          PROVE  PositionsInv'
      <3>1. \A q \in PositionIds : positions[q] \in Position
        BY DEF TypeOK
      <3>2. PositionIds' = PositionIds /\ now' = now /\ lockedUntil' = lockedUntil
        BY <2>2 DEF Frees, PositionIds
      <3>3. \A q \in PositionIds :
               /\ positions'[q].account = positions[q].account
               /\ positions'[q].key = positions[q].key
               /\ positions'[q].bondedAt = positions[q].bondedAt
               /\ positions'[q].maturesAt = positions[q].maturesAt
               /\ positions'[q].unlockAt = positions[q].unlockAt
               /\ positions'[q].firstEligibleEpoch = positions[q].firstEligibleEpoch
               /\ positions'[q].lastEligibleEpochExclusive
                     = positions[q].lastEligibleEpochExclusive
               /\ q # p => positions'[q].withdrawn = positions[q].withdrawn
        BY <2>2, <3>1 DEF Frees, TypeOK, Position
      <3>4. positions[p].unlockAt <= now
        BY <2>2, <3>1 DEF Frees, TypeOK, Position
      <3> QED
        BY <3>2, <3>3, <3>4 DEF PositionsInv, WellTimed
    <2>3. CASE KeepsPositions
      <3>1. PositionIds' = PositionIds /\ positions' = positions /\ lockedUntil' = lockedUntil
        BY <2>3 DEF KeepsPositions, PositionIds
      <3>2. now \in Nat /\ now <= now' /\ now' \in Nat
        BY <2>3, TypeStep DEF TypeOK, KeepsPositions
      <3>3. \A q \in PositionIds : positions[q].unlockAt \in Nat
        BY DEF TypeOK, Position
      <3> QED
        BY <3>1, <3>2, <3>3 DEF PositionsInv, WellTimed
    <2> QED
      BY <2>1, <2>2, <2>3, PositionStep
  <1> QED
    BY <1>1, <1>2, TypeCorrect, PTL DEF Spec

(* A position earns only in whole epochs between its maturity and its      *)
(* unlock time, whatever day it is opened on and whatever its term.        *)
THEOREM EarnsOnlyMatured == Spec => []EarnsOnlyMaturedLockedEpochs
  <1>1. TypeOK /\ PositionsInv => EarnsOnlyMaturedLockedEpochs
    <2> SUFFICES ASSUME TypeOK, PositionsInv,
                        NEW p \in PositionIds, NEW e \in EligibleEpochs(positions[p])
                 PROVE  /\ positions[p].maturesAt <= e * EPOCH_DURATION
                        /\ (e + 1) * EPOCH_DURATION <= positions[p].unlockAt
      BY DEF EarnsOnlyMaturedLockedEpochs
    <2>1. /\ positions[p].maturesAt \in Nat
          /\ positions[p].unlockAt \in Nat
          /\ e \in Nat
      BY DEF TypeOK, Position, EligibleEpochs, Epochs
    <2>2. /\ (positions[p].maturesAt + 6) \div 7 <= e
          /\ e < positions[p].unlockAt \div 7
      BY DEF PositionsInv, WellTimed, EligibleEpochs
    <2> QED
      BY <2>1, <2>2 DEF EPOCH_DURATION
  <1> QED
    BY <1>1, TypeCorrect, PositionsInvariant, PTL

(* A position that left with its MUPPETS has no weight in the running or   *)
(* any later epoch.                                                        *)
THEOREM WithdrawnEarnNothing == Spec => []WithdrawnEarnsNoMore
  <1>1. TypeOK /\ PositionsInv => WithdrawnEarnsNoMore
    <2> SUFFICES ASSUME TypeOK, PositionsInv, NEW p \in PositionIds, positions[p].withdrawn
                 PROVE  positions[p].lastEligibleEpochExclusive <= currentEpoch
      BY DEF WithdrawnEarnsNoMore
    <2>1. now \in Nat /\ positions[p].unlockAt \in Nat
      BY DEF TypeOK, Position
    <2>2. positions[p].unlockAt <= now
      BY DEF PositionsInv
    <2>3. positions[p].unlockAt \div 7 <= now \div 7
      BY <2>1, <2>2
    <2> QED
      BY <2>3 DEF PositionsInv, WellTimed, currentEpoch, EPOCH_DURATION
  <1> QED
    BY <1>1, TypeCorrect, PositionsInvariant, PTL

(* lockedUntil bounds the unlock time of every position of the account in  *)
(* the key.                                                                *)
THEOREM LockedUntilCovers == Spec => []LockedUntilCoversPositions
  <1>1. PositionsInv => LockedUntilCoversPositions
    BY DEF PositionsInv, LockedUntilCoversPositions
  <1> QED
    BY <1>1, PositionsInvariant, PTL

(* Bonding adds weight only to epochs that have not started, and nothing   *)
(* else changes a weight: a late bond never shares in an earlier epoch.    *)
THEOREM WeightsFreeze == Spec => StartedEpochsAreFrozen
  <1>1. ASSUME TypeOK, [Next]_vars, NEW s \in Streams, NEW e \in Epochs, e <= currentEpoch
        PROVE  totalRewardWeightAtEpoch'[s][e] = totalRewardWeightAtEpoch[s][e]
    <2>1. ASSUME NEW a \in Accounts, NEW k \in Keys, NEW u \in Nat, NEW t \in Terms,
                 Opens(a, k, u, t)
          PROVE  totalRewardWeightAtEpoch'[s][e] = totalRewardWeightAtEpoch[s][e]
      <3> DEFINE pos == NewPosition(a, k, u, t)
      <3>1. pos.firstEligibleEpoch > currentEpoch /\ pos.firstEligibleEpoch \in Nat
        <4>1. pos \in Position
          BY <1>1, NewPositionType
        <4>2. pos.firstEligibleEpoch \in Nat
          BY <4>1 DEF Position
        <4> QED
          BY <1>1, <4>2, NewPositionTiming
      <3>2. e \in Nat /\ currentEpoch \in Nat
        <4>1. now \in Nat
          BY <1>1 DEF TypeOK
        <4>2. e \in Nat
          BY DEF Epochs
        <4> QED
          BY <4>1, <4>2 DEF currentEpoch, EPOCH_DURATION
      <3>3. e \notin EligibleEpochs(pos)
        BY <1>1, <3>1, <3>2 DEF EligibleEpochs
      <3>4. totalRewardWeightAtEpoch' = WeightWith(pos)
        BY <2>1 DEF Opens, OpenPosition
      <3>5. WeightWith(pos)[s][e] = totalRewardWeightAtEpoch[s][e]
        BY <3>3 DEF WeightWith
      <3> QED
        BY <3>4, <3>5
    <2>2. ASSUME NEW a \in Accounts, NEW p \in PositionIds, Frees(a, p)
          PROVE  totalRewardWeightAtEpoch' = totalRewardWeightAtEpoch
      BY <2>2 DEF Frees
    <2>3. CASE KeepsPositions
      BY <2>3 DEF KeepsPositions
    <2> QED
      BY <1>1, <2>1, <2>2, <2>3, PositionStep
  <1>2. TypeOK /\ [Next]_vars
           => [\A s \in Streams, e \in Epochs :
                 e <= currentEpoch =>
                    totalRewardWeightAtEpoch'[s][e] = totalRewardWeightAtEpoch[s][e]]_vars
    BY <1>1
  <1> QED
    BY <1>2, TypeCorrect, PTL DEF Spec, StartedEpochsAreFrozen

-----------------------------------------------------------------------------
(* What positions have earned.                                             *)

(* Whatever happens to a position, its owner, key, weight and epochs stay. *)
LEMMA PositionsEndure ==
    ASSUME TypeOK, [Next]_vars, NEW p \in PositionIds
    PROVE  /\ p \in PositionIds'
           /\ positions'[p].key = positions[p].key
           /\ positions'[p].rewardWeight = positions[p].rewardWeight
           /\ EligibleEpochs(positions'[p]) = EligibleEpochs(positions[p])
  <1>1. positions[p] \in Position /\ nextPositionId \in Nat \ {0}
    BY DEF TypeOK
  <1>2. ASSUME NEW a \in Accounts, NEW k \in Keys, NEW u \in Nat, NEW t \in Terms,
               Opens(a, k, u, t)
        PROVE  p \in PositionIds' /\ positions'[p] = positions[p]
    <2>1. /\ PositionIds' = 1 .. nextPositionId
          /\ positions' = [q \in 1 .. nextPositionId |->
                              IF q = nextPositionId THEN NewPosition(a, k, u, t)
                                                    ELSE positions[q]]
      BY <1>2, OpenPositionType DEF Opens, OpenPosition
    <2>2. p \in 1 .. nextPositionId /\ p # nextPositionId
      BY <1>1 DEF PositionIds
    <2> QED
      BY <2>1, <2>2
  <1>3. ASSUME NEW a \in Accounts, NEW q \in PositionIds, Frees(a, q)
        PROVE  /\ p \in PositionIds'
               /\ positions'[p].key = positions[p].key
               /\ positions'[p].rewardWeight = positions[p].rewardWeight
               /\ positions'[p].firstEligibleEpoch = positions[p].firstEligibleEpoch
               /\ positions'[p].lastEligibleEpochExclusive
                     = positions[p].lastEligibleEpochExclusive
    BY <1>1, <1>3 DEF Frees, PositionIds, TypeOK, Position
  <1>4. CASE KeepsPositions
    BY <1>4 DEF KeepsPositions, PositionIds
  <1> QED
    BY <1>2, <1>3, <1>4, PositionStep DEF EligibleEpochs

(* A payment only ever adds to an accumulator.                             *)
LEMMA AccumulatorStep ==
    ASSUME TypeOK, [Next]_vars, NEW s \in Streams, NEW e \in Epochs
    PROVE  rewardPerWeightAtEpoch[s][e] <= rewardPerWeightAtEpoch'[s][e]
  <1>0. rewardPerWeightAtEpoch[s][e] \in Nat
    BY DEF TypeOK
  <1>1. ASSUME NEW n \in Notifiers, NEW r \in Streams, NEW f \in Epochs, NEW amount \in Rewards,
               NotifyReward(n, r, f, amount)
        PROVE  rewardPerWeightAtEpoch[s][e] <= rewardPerWeightAtEpoch'[s][e]
    <2> DEFINE weight == totalRewardWeightAtEpoch[r][f]
               part == (amount * Precision + rewardRemainderScaledAtEpoch[r][f]) \div weight
    <2>1. amount \in Nat /\ weight \in Nat \ {0}
      BY <1>1, AgentBondAssumption DEF NotifyReward, TypeOK
    <2>2. amount * Precision + rewardRemainderScaledAtEpoch[r][f] \in Nat
      <3>1. amount * Precision \in Nat
        BY <2>1, MulType, AgentBondAssumption
      <3>2. rewardRemainderScaledAtEpoch[r][f] \in Nat
        BY DEF TypeOK
      <3> QED
        BY <3>1, <3>2
    <2>3. part \in Nat
      BY <2>1, <2>2, DivType
    <2>4. rewardPerWeightAtEpoch' = [rewardPerWeightAtEpoch EXCEPT ![r][f] = @ + part]
      BY <1>1 DEF NotifyReward, Scaled, AccumulatorWith
    <2> HIDE DEF part, weight
    <2>5. CASE s = r /\ e = f
      <3>1. rewardPerWeightAtEpoch'[s][e] = rewardPerWeightAtEpoch[s][e] + part
        BY <2>4, <2>5 DEF TypeOK
      <3> QED
        BY <1>0, <2>3, <3>1
    <2>6. CASE ~(s = r /\ e = f)
      <3>1. rewardPerWeightAtEpoch'[s][e] = rewardPerWeightAtEpoch[s][e]
        BY <2>4, <2>6 DEF TypeOK
      <3> QED
        BY <1>0, <3>1
    <2> QED
      BY <2>5, <2>6
  <1>2. CASE UNCHANGED rewardPerWeightAtEpoch
    BY <1>0, <1>2
  <1> QED
    BY <1>1, <1>2
    DEF Next, Govern, HolderStep, Notify, TransferOwnership, SetKeyRegistry,
        SetRewardNotifier, Activate, Pause, AdvanceClock, BindKeys, BondWithTerm,
        UnbondPosition, CanUnbond, ClaimPositionRewards, ClaimBuyAndBond, nonGovVars, accVars, vars

(* No step shrinks what a position is entitled to.                         *)
LEMMA EntitlementStep ==
    ASSUME TypeOK, [Next]_vars, NEW p \in PositionIds, NEW kind \in Kinds, NEW e \in Epochs
    PROVE  /\ Entitlement(p, kind, e) \in Nat
           /\ Entitlement(p, kind, e)' \in Nat
           /\ Entitlement(p, kind, e) <= Entitlement(p, kind, e)'
  <1> DEFINE s == StreamOf(p, kind)
  <1>1. StreamOf(p, kind)' = s /\ s \in Streams
    BY PositionsEndure DEF StreamOf, Streams, TypeOK, Position
  <1>2. /\ positions[p].rewardWeight \in Nat
        /\ positions'[p].rewardWeight = positions[p].rewardWeight
    BY PositionsEndure DEF TypeOK, Position
  <1>3. /\ rewardPerWeightAtEpoch[s][e] \in Nat
        /\ rewardPerWeightAtEpoch'[s][e] \in Nat
        /\ rewardPerWeightAtEpoch[s][e] <= rewardPerWeightAtEpoch'[s][e]
    BY <1>1, TypeStep, AccumulatorStep DEF TypeOK
  <1>4. Entitlement(p, kind, e)
           = (positions[p].rewardWeight * rewardPerWeightAtEpoch[s][e]) \div Precision
    BY DEF Entitlement
  <1>5. Entitlement(p, kind, e)'
           = (positions[p].rewardWeight * rewardPerWeightAtEpoch'[s][e]) \div Precision
    BY <1>1, <1>2 DEF Entitlement
  <1> DEFINE old == positions[p].rewardWeight * rewardPerWeightAtEpoch[s][e]
             new == positions[p].rewardWeight * rewardPerWeightAtEpoch'[s][e]
  <1>6. old \in Nat /\ new \in Nat /\ old <= new
    BY <1>2, <1>3, MulMonotone
  <1>7. Entitlement(p, kind, e) = old \div Precision /\ Entitlement(p, kind, e)' = new \div Precision
    BY <1>4, <1>5
  <1> HIDE DEF s, old, new
  <1> QED
    BY <1>6, <1>7, DivMonotone, DivType, AgentBondAssumption

(* No step takes away what a position has earned.                          *)
THEOREM EntitlementsGrow == Spec => EntitlementsNeverShrink
  <1>1. TypeOK /\ [Next]_vars
           => [\A p \in PositionIds, kind \in Kinds, e \in Epochs :
                 Entitlement(p, kind, e) <= Entitlement(p, kind, e)']_vars
    BY EntitlementStep
  <1> QED
    BY <1>1, TypeCorrect, PTL DEF Spec, EntitlementsNeverShrink

(* The claim records a transaction leaves for the positions there were.    *)
ClaimRecords == {claimedByEpoch} \cup {Checkpointed(r) : r \in PositionIds}

(* A step leaves the claim record as it is or checkpoints one position,    *)
(* and opens at most one position, with nothing claimed.                   *)
LEMMA ClaimRecordStep ==
    ASSUME TypeOK, [Next]_vars
    PROVE  \E claims \in ClaimRecords :
              \/ claimedByEpoch' = claims /\ nextPositionId' = nextPositionId
              \/ /\ claimedByEpoch' = WithFreshPosition(claims)
                 /\ nextPositionId' = nextPositionId + 1
  <1>1. ASSUME UNCHANGED <<claimedByEpoch, nextPositionId>>
        PROVE  \E claims \in ClaimRecords :
                  claimedByEpoch' = claims /\ nextPositionId' = nextPositionId
    BY <1>1 DEF ClaimRecords
  <1>2. ASSUME NEW a \in Accounts, NEW k \in Keys, NEW u \in 1 .. MaxUnits, NEW t \in Terms,
               BondWithTerm(a, k, u, t)
        PROVE  \E claims \in ClaimRecords :
                  /\ claimedByEpoch' = WithFreshPosition(claims)
                  /\ nextPositionId' = nextPositionId + 1
    BY <1>2 DEF BondWithTerm, OpenPosition, ClaimRecords
  <1>3. ASSUME NEW a \in Accounts, NEW p \in PositionIds, ClaimPositionRewards(a, p)
        PROVE  \E claims \in ClaimRecords :
                  claimedByEpoch' = claims /\ nextPositionId' = nextPositionId
    BY <1>3 DEF ClaimPositionRewards, unitVars, ClaimRecords
  <1>4. ASSUME NEW a \in Accounts, NEW p \in PositionIds, NEW k \in Keys,
               NEW u \in 1 .. MaxUnits, NEW t \in Terms, NEW spend \in 1 .. 2 * MaxNotified,
               NEW surplus \in 0 .. 1,
               ClaimBuyAndBond(a, p, spend, k, u, t, u * UnitSize, u * UnitSize + surplus)
        PROVE  \E claims \in ClaimRecords :
                  /\ claimedByEpoch' = WithFreshPosition(claims)
                  /\ nextPositionId' = nextPositionId + 1
    BY <1>4 DEF ClaimBuyAndBond, OpenPosition, ClaimRecords
  <1>5. \/ UNCHANGED <<claimedByEpoch, nextPositionId>>
        \/ \E a \in Accounts, k \in Keys, u \in 1 .. MaxUnits, t \in Terms :
              BondWithTerm(a, k, u, t)
        \/ \E a \in Accounts, p \in PositionIds : ClaimPositionRewards(a, p)
        \/ \E a \in Accounts, p \in PositionIds, k \in Keys, u \in 1 .. MaxUnits, t \in Terms,
              spend \in 1 .. 2 * MaxNotified, surplus \in 0 .. 1 :
              ClaimBuyAndBond(a, p, spend, k, u, t, u * UnitSize, u * UnitSize + surplus)
    BY DEF Next, Govern, HolderStep, Notify, TransferOwnership, SetKeyRegistry,
           SetRewardNotifier, Activate, Pause, AdvanceClock, BindKeys, UnbondPosition, CanUnbond,
           NotifyReward, nonGovVars, unitVars, vars
  <1> QED
    BY <1>1, <1>2, <1>3, <1>4, <1>5

EntitledTo(p, kind, e) ==
    IF e \in EligibleEpochs(positions[p]) THEN Entitlement(p, kind, e) ELSE 0

(* A claim raises a record to the entitlement and no higher.               *)
LEMMA RecordsWithinEntitlement ==
    ASSUME TypeOK, ClaimedWithinEntitlement, NEW claims \in ClaimRecords,
           NEW p \in PositionIds, NEW kind \in Kinds, NEW e \in Epochs
    PROVE  /\ claims[p][kind][e] \in Nat
           /\ claims[p][kind][e] <= EntitledTo(p, kind, e)
  <1>1. Entitlement(p, kind, e) \in Nat
    BY EntitlementType
  <1>2. /\ claimedByEpoch[p][kind][e] \in Nat
        /\ claimedByEpoch[p][kind][e] <= EntitledTo(p, kind, e)
    BY DEF TypeOK, ClaimedWithinEntitlement, EntitledTo
  <1>3. ASSUME NEW r \in PositionIds, claims = Checkpointed(r)
        PROVE  \/ claims[p][kind][e] = claimedByEpoch[p][kind][e]
               \/ /\ e \in EligibleEpochs(positions[p])
                  /\ claims[p][kind][e] = Entitlement(p, kind, e)
    BY <1>3 DEF Checkpointed, TypeOK
  <1> QED
    BY <1>1, <1>2, <1>3 DEF ClaimRecords, EntitledTo

(* Claims record at most what is earned, in every reachable state, so that *)
(* pendingPositionRewards never subtracts more than it has.                *)
THEOREM ClaimsWithinEntitlement == Spec => []ClaimedWithinEntitlement
  <1>1. Init => ClaimedWithinEntitlement
    BY DEF Init, BooksInit, ClaimedWithinEntitlement, PositionIds
  <1>2. TypeOK /\ ClaimedWithinEntitlement /\ [Next]_vars => ClaimedWithinEntitlement'
    <2> SUFFICES ASSUME TypeOK, ClaimedWithinEntitlement, [Next]_vars,
                        NEW p \in PositionIds', NEW kind \in Kinds, NEW e \in Epochs
                 PROVE  claimedByEpoch'[p][kind][e] <= EntitledTo(p, kind, e)'
      BY DEF ClaimedWithinEntitlement, EntitledTo
    <2>1. PICK claims \in ClaimRecords :
             \/ claimedByEpoch' = claims /\ nextPositionId' = nextPositionId
             \/ /\ claimedByEpoch' = WithFreshPosition(claims)
                /\ nextPositionId' = nextPositionId + 1
      BY ClaimRecordStep
    <2>2. nextPositionId \in Nat \ {0}
      BY DEF TypeOK
    <2>3. EntitledTo(p, kind, e)' \in Nat
      BY TypeStep, EntitlementTypeNext DEF EntitledTo
    <2>4. CASE p \in PositionIds
      <3>1. EntitledTo(p, kind, e) \in Nat /\ EntitledTo(p, kind, e) <= EntitledTo(p, kind, e)'
        BY <2>4, EntitlementStep, PositionsEndure DEF EntitledTo
      <3>2. claimedByEpoch'[p] = claims[p]
        BY <2>1, <2>2, <2>4 DEF WithFreshPosition, PositionIds
      <3>3. claims[p][kind][e] \in Nat /\ claims[p][kind][e] <= EntitledTo(p, kind, e)
        BY <2>4, RecordsWithinEntitlement
      <3> QED
        BY <2>3, <3>1, <3>2, <3>3
    <2>5. CASE p \notin PositionIds
      <3>1. p = nextPositionId /\ claimedByEpoch' = WithFreshPosition(claims)
        BY <2>1, <2>2, <2>5 DEF PositionIds
      <3>2. claimedByEpoch'[p][kind][e] = 0
        BY <2>2, <3>1 DEF WithFreshPosition
      <3> QED
        BY <2>3, <3>2
    <2> QED
      BY <2>4, <2>5
  <1> QED
    BY <1>1, <1>2, TypeCorrect, PTL DEF Spec

(* The WETH the contract holds is exactly the liability, in total and per  *)
(* key, through payments, claims and reinvestments.                        *)
THEOREM LiabilityBacked == Spec => []LiabilityIsBacked
  <1>1. Init => LiabilityIsBacked
    BY AgentBondAssumption DEF Init, BooksInit, LiabilityIsBacked, Streams
  <1>2. TypeOK /\ LiabilityIsBacked /\ [Next]_vars => LiabilityIsBacked'
    <2> SUFFICES ASSUME TypeOK, LiabilityIsBacked, [Next]_vars
                 PROVE  LiabilityIsBacked'
      OBVIOUS
    <2>0. GlobalStream \notin Keys /\ Keys \subseteq Streams /\ GlobalStream \in Streams
      BY AgentBondAssumption DEF Streams
    <2>1. CASE UNCHANGED <<ledgerVars, wethHeld>>
      BY <2>1 DEF ledgerVars, LiabilityIsBacked
    <2>2. ASSUME NEW n \in Notifiers, NEW s \in Streams, NEW e \in Epochs, NEW amount \in Rewards,
                 NotifyReward(n, s, e, amount)
          PROVE  LiabilityIsBacked'
      <3>1. amount \in Nat
        BY AgentBondAssumption
      <3>2. /\ wethHeld' = wethHeld + amount
            /\ rewardLiability' = rewardLiability + amount
            /\ totalRewardsNotified' = totalRewardsNotified + amount
            /\ totalRewardsClaimed' = totalRewardsClaimed
        BY <2>2 DEF NotifyReward
      <3>3. ASSUME NEW k \in Keys
            PROVE  keyRewardLiability'[k] + totalClaimed'[k] = totalNotified'[k]
        <4>1. /\ totalNotified' = [totalNotified EXCEPT ![s] = @ + amount]
              /\ keyRewardLiability' = KeyLiabilityWith(s, amount)
              /\ totalClaimed' = totalClaimed
          BY <2>2 DEF NotifyReward
        <4>2. /\ keyRewardLiability[k] \in Nat /\ totalClaimed[k] \in Nat
              /\ totalNotified[k] \in Nat
              /\ keyRewardLiability[k] + totalClaimed[k] = totalNotified[k]
          BY <2>0 DEF TypeOK, LiabilityIsBacked
        <4>3. CASE k = s
          BY <2>0, <3>1, <4>1, <4>2, <4>3 DEF KeyLiabilityWith, TypeOK
        <4>4. CASE k # s
          BY <2>0, <4>1, <4>2, <4>4 DEF KeyLiabilityWith, TypeOK
        <4> QED
          BY <4>3, <4>4
      <3> QED
        BY <3>1, <3>2, <3>3 DEF LiabilityIsBacked, TypeOK
    <2>3. ASSUME NEW a \in Accounts, NEW p \in PositionIds, NEW g, NEW kw,
                 SettleClaim(a, p, g, kw), wethHeld' = wethHeld - (g + kw)
          PROVE  LiabilityIsBacked'
      <3>1. g \in Nat /\ kw \in Nat /\ positions[p].key \in Keys
        BY <2>3, SettleClaimType DEF TypeOK, Position
      <3>2. /\ rewardLiability' = rewardLiability - (g + kw)
            /\ totalRewardsNotified' = totalRewardsNotified
            /\ totalRewardsClaimed' = totalRewardsClaimed + (g + kw)
        BY <2>3 DEF SettleClaim, CanSettle
      <3>3. ASSUME NEW k \in Keys
            PROVE  keyRewardLiability'[k] + totalClaimed'[k] = totalNotified'[k]
        <4>1. /\ totalNotified' = totalNotified
              /\ keyRewardLiability' = [keyRewardLiability EXCEPT ![positions[p].key] = @ - kw]
              /\ totalClaimed' = [totalClaimed EXCEPT ![GlobalStream] = @ + g,
                                                      ![positions[p].key] = @ + kw]
          BY <2>3 DEF SettleClaim, CanSettle
        <4>2. /\ keyRewardLiability[k] \in Nat /\ totalClaimed[k] \in Nat
              /\ totalNotified[k] \in Nat
              /\ keyRewardLiability[k] + totalClaimed[k] = totalNotified[k]
          BY <2>0 DEF TypeOK, LiabilityIsBacked
        <4>3. CASE k = positions[p].key
          BY <2>0, <3>1, <4>1, <4>2, <4>3 DEF TypeOK
        <4>4. CASE k # positions[p].key
          BY <2>0, <3>1, <4>1, <4>2, <4>4 DEF TypeOK
        <4> QED
          BY <4>3, <4>4
      <3> QED
        BY <2>3, <3>1, <3>2, <3>3 DEF LiabilityIsBacked, TypeOK
    <2>4. ASSUME NEW a \in Accounts, NEW p \in PositionIds, ClaimPositionRewards(a, p)
          PROVE  LiabilityIsBacked'
      BY <2>3, <2>4 DEF ClaimPositionRewards
    <2>5. ASSUME NEW a \in Accounts, NEW p \in PositionIds, NEW k \in Keys,
                 NEW u \in 1 .. MaxUnits, NEW t \in Terms, NEW spend \in 1 .. 2 * MaxNotified,
                 NEW surplus \in 0 .. 1,
                 ClaimBuyAndBond(a, p, spend, k, u, t, u * UnitSize, u * UnitSize + surplus)
          PROVE  LiabilityIsBacked'
      <3> DEFINE g == pendingPositionRewards(p, "global")
                 kw == pendingPositionRewards(p, "key")
      <3>1. /\ SettleClaim(a, p, g, kw)
            /\ wethHeld' = wethHeld - (spend + ((g + kw) - spend))
        BY <2>5, Zenon DEF ClaimBuyAndBond, WethPaidOut
      <3> HIDE DEF g, kw
      <3>2. g \in Nat /\ kw \in Nat /\ spend \in Int /\ wethHeld \in Nat
        BY <3>1, SettleClaimType, AgentBondAssumption DEF TypeOK
      <3>3. wethHeld' = wethHeld - (g + kw)
        BY <3>1, <3>2
      <3> QED
        BY <2>3, <3>1, <3>3
    <2> QED
      BY <2>1, <2>2, <2>4, <2>5
      DEF Next, Govern, HolderStep, Notify, TransferOwnership, SetKeyRegistry,
          SetRewardNotifier, Activate, Pause, AdvanceClock, BindKeys, BondWithTerm,
          UnbondPosition, CanUnbond, nonGovVars, vars
  <1> QED
    BY <1>1, <1>2, TypeCorrect, PTL DEF Spec

-----------------------------------------------------------------------------
(* The weights against the positions.                                      *)

(* There are finitely many positions, epochs, and so of each kind.         *)
LEMMA FinitePositions ==
    ASSUME nextPositionId \in Nat \ {0}
    PROVE  /\ IsFiniteSet(PositionIds)
           /\ \A S \in SUBSET PositionIds : IsFiniteSet(S)
  <1>1. nextPositionId - 1 \in Int
    OBVIOUS
  <1>2. IsFiniteSet(PositionIds)
    BY <1>1, FS_Interval DEF PositionIds
  <1> QED
    BY <1>2, FS_Subset, Zenon

\* Epochs are numbers, and there are finitely many.
LEMMA FiniteEpochs ==
    /\ Epochs \subseteq Nat /\ IsFiniteSet(Epochs)
    /\ \A S \in SUBSET Epochs : IsFiniteSet(S)
  <1>1. Horizon \div EPOCH_DURATION \in Nat
    BY AgentBondAssumption DEF EPOCH_DURATION
  <1>2. IsFiniteSet(Epochs)
    BY <1>1, FS_Interval DEF Epochs
  <1>3. Epochs \subseteq Nat
    BY <1>1 DEF Epochs
  <1> QED
    BY <1>2, <1>3, FS_Subset, Zenon

(* A transaction that opens a position adds it, and leaves the others.     *)
LEMMA OpenedPosition ==
    ASSUME TypeOK, NEW a \in Accounts, NEW k \in Keys, NEW u \in Nat, NEW t \in Terms,
           Opens(a, k, u, t)
    PROVE  /\ PositionIds' = PositionIds \cup {nextPositionId}
           /\ nextPositionId \notin PositionIds
           /\ positions'[nextPositionId] = NewPosition(a, k, u, t)
           /\ NewPosition(a, k, u, t) \in Position
           /\ \A p \in PositionIds : positions'[p] = positions[p]
  <1>1. nextPositionId \in Nat \ {0}
    BY DEF TypeOK
  <1>2. /\ PositionIds' = 1 .. nextPositionId
        /\ positions' = [q \in 1 .. nextPositionId |->
                            IF q = nextPositionId THEN NewPosition(a, k, u, t)
                                                  ELSE positions[q]]
    BY OpenPositionType DEF Opens, OpenPosition
  <1>3. NewPosition(a, k, u, t) \in Position
    BY NewPositionType
  <1>4. PositionIds = 1 .. nextPositionId - 1
    BY DEF PositionIds
  <1>5. PositionIds \cup {nextPositionId} = 1 .. nextPositionId /\ nextPositionId \notin PositionIds
    BY <1>1, <1>4
  <1>6. nextPositionId \in 1 .. nextPositionId
    BY <1>1
  <1> QED
    BY <1>2, <1>3, <1>5, <1>6

WeightOf == [p \in PositionIds |-> positions[p].rewardWeight]

(* The weight of an epoch follows the positions that earn in it.           *)
LEMMA WeightStep == TypeOK /\ WeightIsSumOfEarners /\ [Next]_vars => WeightIsSumOfEarners'
  <1> SUFFICES ASSUME TypeOK, WeightIsSumOfEarners, [Next]_vars,
                      NEW s \in Streams, NEW e \in Epochs
               PROVE  totalRewardWeightAtEpoch'[s][e]
                          = SumFunctionOnSet(WeightOf', EarnersOf(s, e)')
    BY DEF WeightIsSumOfEarners, WeightOf
  <1> DEFINE f == WeightOf
             g == WeightOf'
             S == EarnersOf(s, e)
             T == EarnersOf(s, e)'
  <1>1. totalRewardWeightAtEpoch[s][e] = SumFunctionOnSet(f, S)
    BY DEF WeightIsSumOfEarners, WeightOf
  <1>2. S \subseteq PositionIds /\ IsFiniteSet(S) /\ \A p \in S : f[p] \in Int
    <2>1. S \subseteq PositionIds
      BY DEF EarnersOf
    <2>2. \A p \in PositionIds : positions[p] \in Position /\ f[p] = positions[p].rewardWeight
      BY DEF TypeOK, WeightOf
    <2>3. \A p \in PositionIds : f[p] \in Int
      BY <2>2 DEF Position
    <2> QED
      BY <2>1, <2>3, FinitePositions DEF TypeOK
  <1>3. \A p \in PositionIds : g[p] = f[p] /\ (p \in T <=> p \in S)
    BY PositionsEndure DEF WeightOf, EarnersOf
  <1>4. ASSUME UNCHANGED <<nextPositionId, totalRewardWeightAtEpoch>>
        PROVE  totalRewardWeightAtEpoch'[s][e] = SumFunctionOnSet(g, T)
    <2>1. S = T
      BY <1>3, <1>4 DEF EarnersOf, PositionIds
    <2>2. \A p \in S : f[p] = g[p]
      BY <1>2, <1>3
    <2> HIDE DEF f, g, S, T
    <2>3. SumFunctionOnSet(f, S) = SumFunctionOnSet(g, S)
      BY <1>2, <2>2, SumSame
    <2> QED
      BY <1>1, <1>4, <2>1, <2>3
  <1>5. ASSUME NEW a \in Accounts, NEW k \in Keys, NEW u \in Nat, NEW t \in Terms,
               Opens(a, k, u, t)
        PROVE  totalRewardWeightAtEpoch'[s][e] = SumFunctionOnSet(g, T)
    <2> DEFINE pos == NewPosition(a, k, u, t)
               n == nextPositionId
               counts == s \in {GlobalStream, pos.key} /\ e \in EligibleEpochs(pos)
    <2>1. /\ PositionIds' = PositionIds \cup {n} /\ n \notin PositionIds
          /\ positions'[n] = pos /\ pos \in Position
      BY <1>5, OpenedPosition
    <2>2. g[n] = pos.rewardWeight /\ pos.rewardWeight \in Int
      BY <2>1 DEF WeightOf, Position
    <2>3. n \in T <=> counts
      BY <2>1 DEF EarnersOf
    <2>4. T \subseteq PositionIds \cup {n}
      BY <2>1 DEF EarnersOf
    <2>5. totalRewardWeightAtEpoch'[s][e]
              = IF counts THEN totalRewardWeightAtEpoch[s][e] + pos.rewardWeight
                          ELSE totalRewardWeightAtEpoch[s][e]
      BY <1>5 DEF Opens, OpenPosition, WeightWith
    <2>6. totalRewardWeightAtEpoch[s][e] \in Int
      BY DEF TypeOK
    <2> HIDE DEF f, g, S, T, n, pos, counts
    <2>7. S \ {n} = T \ {n} /\ n \notin S
      BY <1>2, <1>3, <2>1, <2>4
    <2>8. SumFunctionOnSet(g, T) = SumFunctionOnSet(f, S) - Worth(f, S, n) + Worth(g, T, n)
      <3>1. \A p \in S \ {n} : g[p] = f[p]
        BY <1>2, <1>3
      <3>2. n \in T => g[n] \in Int
        BY <2>2
      <3>3. IsFiniteSet(S) /\ \A p \in S : f[p] \in Int
        BY <1>2
      <3> QED
        BY <2>7, <3>1, <3>2, <3>3, SumMove
    <2> QED
      BY <1>1, <2>2, <2>3, <2>5, <2>6, <2>7, <2>8 DEF Worth
  <1>6. ASSUME NEW a \in Accounts, NEW p \in PositionIds, Frees(a, p)
        PROVE  totalRewardWeightAtEpoch'[s][e] = SumFunctionOnSet(g, T)
    BY <1>4, <1>6 DEF Frees
  <1>7. CASE KeepsPositions
    BY <1>4, <1>7 DEF KeepsPositions
  <1> QED
    BY <1>5, <1>6, <1>7, PositionStep

(* The weight a reward is divided by is always the weight of the positions *)
(* that can claim it.                                                      *)
THEOREM WeightsMatchEarners == Spec => []WeightIsSumOfEarners
  <1>1. Init => WeightIsSumOfEarners
    <2> SUFFICES ASSUME Init, NEW s \in Streams, NEW e \in Epochs
                 PROVE  totalRewardWeightAtEpoch[s][e]
                            = SumFunctionOnSet(WeightOf, EarnersOf(s, e))
      BY DEF WeightIsSumOfEarners, WeightOf
    <2>1. EarnersOf(s, e) = {}
      BY DEF Init, BooksInit, PositionIds, EarnersOf
    <2> QED
      BY <2>1, SumEmpty DEF Init, BooksInit
  <1>2. TypeOK /\ WeightIsSumOfEarners /\ [Next]_vars => WeightIsSumOfEarners'
    BY WeightStep
  <1> QED
    BY <1>1, <1>2, TypeCorrect, PTL DEF Spec

-----------------------------------------------------------------------------
(* The bonds against the positions.                                        *)

UnitsOf == [p \in PositionIds |-> positions[p].units]

\* BondsAreBacked, per account and key, per account, and in total.
KeyUnits(a, k) ==
    /\ unitsByKey[a][k] = SumFunctionOnSet(UnitsOf, OpenPositions(a, k))
    /\ unitsByKey[a][k] <= boundBalance[a][k]

AccountUnits(a) ==
    /\ rewardUnits[a] = SumFunctionOnSet(unitsByKey[a], Keys)
    /\ bondedBalance[a] = UnitSize * rewardUnits[a]

TotalUnits ==
    /\ totalRewardUnits = SumFunctionOnSet(rewardUnits, Accounts)
    /\ totalRewardUnits = SumFunctionOnSet(totalRewardUnitsByKey, Keys)
    /\ totalBondedMuppets = UnitSize * totalRewardUnits
    /\ muppetsHeld = totalBondedMuppets

\* The books of the bond, account by account.
LEMMA BondsInParts ==
    BondsAreBacked <=> /\ \A a \in Accounts, k \in Keys : KeyUnits(a, k)
                       /\ \A a \in Accounts : AccountUnits(a)
                       /\ TotalUnits
  BY DEF BondsAreBacked, KeyUnits, AccountUnits, TotalUnits, UnitsOf

(* Position p opens or closes: d units of key k move in account a's books, *)
(* and the MUPPETS with them.                                              *)
MovesUnits(p, a, k, d) ==
    /\ \A b \in Accounts, m \in Keys :
          /\ OpenPositions(b, m)' \ {p} = OpenPositions(b, m) \ {p}
          /\ Worth(UnitsOf', OpenPositions(b, m)', p)
                 = Worth(UnitsOf, OpenPositions(b, m), p) + (IF b = a /\ m = k THEN d ELSE 0)
    /\ \A q \in PositionIds \ {p} : UnitsOf'[q] = UnitsOf[q]
    /\ unitsByKey' = [unitsByKey EXCEPT ![a] = [unitsByKey[a] EXCEPT ![k] = unitsByKey[a][k] + d]]
    /\ rewardUnits' = [rewardUnits EXCEPT ![a] = rewardUnits[a] + d]
    /\ bondedBalance' = [bondedBalance EXCEPT ![a] = bondedBalance[a] + d * UnitSize]
    /\ totalRewardUnits' = totalRewardUnits + d
    /\ totalRewardUnitsByKey' = [totalRewardUnitsByKey EXCEPT ![k] = totalRewardUnitsByKey[k] + d]
    /\ totalBondedMuppets' = totalBondedMuppets + d * UnitSize
    /\ muppetsHeld' = muppetsHeld + d * UnitSize
    /\ unitsByKey'[a][k] <= boundBalance[a][k]
    /\ boundBalance' = boundBalance

(* An entry of a book with integer entries changes by d, and so does the   *)
(* sum of the book.                                                        *)
LEMMA BookMoves ==
    ASSUME NEW S, IsFiniteSet(S), NEW b \in [S -> Nat], NEW c \in [S -> Nat],
           NEW x \in S, NEW d \in Int, c[x] = b[x] + d, \A y \in S \ {x} : c[y] = b[y]
    PROVE  /\ SumFunctionOnSet(b, S) \in Int
           /\ SumFunctionOnSet(c, S) = SumFunctionOnSet(b, S) + d
  <1>2. \A y \in S : b[y] \in Int /\ c[y] \in Int
    OBVIOUS
  <1>3. SumFunctionOnSet(c, S) = SumFunctionOnSet(b, S) - b[x] + c[x]
    BY <1>2, SumChange
  <1>4. SumFunctionOnSet(b, S) \in Int
    BY <1>2, SumInt
  <1>5. SumFunctionOnSet(c, S) = SumFunctionOnSet(b, S) + d
    BY <1>2, <1>3, <1>4
  <1> QED
    BY <1>4, <1>5

(* Units and MUPPETS move together.                                        *)
LEMMA UnitsScale ==
    ASSUME NEW r \in Int, NEW d \in Int
    PROVE  /\ UnitSize * (r + d) = UnitSize * r + d * UnitSize
           /\ UnitSize * r \in Int /\ d * UnitSize \in Int
  BY AgentBondAssumption

\* A step that opens or withdraws one position moves every book by its units.
LEMMA MovedUnitsAreBacked ==
    ASSUME TypeOK, TypeOK', BondsAreBacked, NEW p, NEW a \in Accounts, NEW k \in Keys,
           NEW d \in Int, MovesUnits(p, a, k, d)
    PROVE  BondsAreBacked'
  <1> SUFFICES /\ \A b \in Accounts, m \in Keys : KeyUnits(b, m)'
               /\ \A b \in Accounts : AccountUnits(b)'
               /\ TotalUnits'
    BY DEF BondsAreBacked, KeyUnits, AccountUnits, TotalUnits, UnitsOf
  <1>t. /\ unitsByKey \in [Accounts -> [Keys -> Nat]] /\ unitsByKey' \in [Accounts -> [Keys -> Nat]]
        /\ rewardUnits \in [Accounts -> Nat] /\ rewardUnits' \in [Accounts -> Nat]
        /\ bondedBalance \in [Accounts -> Nat]
        /\ totalRewardUnits \in Nat
        /\ totalRewardUnitsByKey \in [Keys -> Nat] /\ totalRewardUnitsByKey' \in [Keys -> Nat]
        /\ totalBondedMuppets \in Nat
        /\ boundBalance \in [Accounts -> [Keys -> Nat]]
    BY DEF TypeOK
  <1>0. IsFiniteSet(Accounts) /\ IsFiniteSet(Keys)
    BY AgentBondAssumption
  <1>1. ASSUME NEW b \in Accounts, NEW m \in Keys
        PROVE  KeyUnits(b, m)'
    <2> DEFINE f == UnitsOf
               g == UnitsOf'
               S == OpenPositions(b, m)
               T == OpenPositions(b, m)'
               change == IF b = a /\ m = k THEN d ELSE 0
    <2>1. KeyUnits(b, m)
      BY BondsInParts
    <2>2. IsFiniteSet(S) /\ S \subseteq PositionIds
      BY FinitePositions, S \subseteq PositionIds DEF OpenPositions, TypeOK
    <2>3. \A q \in S : f[q] \in Int
      BY <2>2 DEF UnitsOf, TypeOK, Position
    <2>4. p \in T => g[p] \in Int
      BY DEF UnitsOf, TypeOK, Position, OpenPositions
    <2>5. S \ {p} = T \ {p} /\ Worth(g, T, p) = Worth(f, S, p) + change
      BY DEF MovesUnits
    <2>6. \A q \in S \ {p} : g[q] = f[q]
      BY <2>2 DEF MovesUnits
    <2>7. Worth(f, S, p) \in Int /\ change \in Int
      BY <2>3 DEF Worth
    <2> HIDE DEF f, g, S, T
    <2>8. SumFunctionOnSet(g, T) = SumFunctionOnSet(f, S) - Worth(f, S, p) + Worth(g, T, p)
      BY <2>2, <2>3, <2>4, <2>5, <2>6, SumMove
    <2>9. SumFunctionOnSet(f, S) \in Int
      BY <2>2, <2>3, SumInt
    <2>10. SumFunctionOnSet(g, T) = SumFunctionOnSet(f, S) + change
      <3> HIDE DEF change
      <3> QED
        BY <2>5, <2>7, <2>8, <2>9
    <2>11. unitsByKey'[b][m] = unitsByKey[b][m] + change
      <3>1. CASE b = a /\ m = k
        BY <1>t, <3>1 DEF MovesUnits
      <3>2. CASE b = a /\ m # k
        BY <1>t, <3>2 DEF MovesUnits
      <3>3. CASE b # a
        BY <1>t, <3>3 DEF MovesUnits
      <3> QED
        BY <3>1, <3>2, <3>3
    <2>12. unitsByKey'[b][m] = SumFunctionOnSet(g, T)
      BY <2>1, <2>10, <2>11 DEF KeyUnits, f, S
    <2>13. unitsByKey'[b][m] <= boundBalance'[b][m]
      <3>1. CASE b = a /\ m = k
        BY <3>1 DEF MovesUnits
      <3>2. CASE ~(b = a /\ m = k)
        <4>1. unitsByKey'[b][m] = unitsByKey[b][m]
          BY <1>t, <2>11, <3>2
        <4> QED
          BY <2>1, <4>1 DEF KeyUnits, MovesUnits
      <3> QED
        BY <3>1, <3>2
    <2> QED
      BY <2>12, <2>13 DEF KeyUnits, g, T
  <1>2. ASSUME NEW b \in Accounts
        PROVE  AccountUnits(b)'
    <2>1. AccountUnits(b)
      BY BondsInParts
    <2>2. CASE b = a
      <3>1. unitsByKey'[b] = [unitsByKey[b] EXCEPT ![k] = unitsByKey[b][k] + d]
        BY <1>t, <2>2 DEF MovesUnits
      <3>2. unitsByKey[b] \in [Keys -> Nat] /\ unitsByKey'[b] \in [Keys -> Nat]
        BY <1>t
      <3>a. unitsByKey'[b][k] = unitsByKey[b][k] + d
            /\ \A m \in Keys \ {k} : unitsByKey'[b][m] = unitsByKey[b][m]
        BY <3>1, <3>2
      <3>3. SumFunctionOnSet(unitsByKey'[b], Keys) = SumFunctionOnSet(unitsByKey[b], Keys) + d
        BY <1>0, <3>2, <3>a, BookMoves
      <3>4. rewardUnits'[b] = rewardUnits[b] + d /\ rewardUnits[b] \in Int
            /\ bondedBalance'[b] = bondedBalance[b] + d * UnitSize
        BY <1>t, <2>2 DEF MovesUnits
      <3>5. UnitSize * rewardUnits'[b] = UnitSize * rewardUnits[b] + d * UnitSize
        BY <3>4, UnitsScale
      <3> QED
        BY <2>1, <3>3, <3>4, <3>5 DEF AccountUnits
    <2>3. CASE b # a
      <3>1. /\ unitsByKey'[b] = unitsByKey[b] /\ rewardUnits'[b] = rewardUnits[b]
            /\ bondedBalance'[b] = bondedBalance[b]
        BY <1>t, <2>3 DEF MovesUnits
      <3> QED
        BY <2>1, <3>1 DEF AccountUnits
    <2> QED
      BY <2>2, <2>3
  <1>3. TotalUnits'
    <2>1. TotalUnits
      BY BondsInParts
    <2>2. SumFunctionOnSet(rewardUnits', Accounts) = SumFunctionOnSet(rewardUnits, Accounts) + d
      <3>1. rewardUnits'[a] = rewardUnits[a] + d
            /\ \A x \in Accounts \ {a} : rewardUnits'[x] = rewardUnits[x]
        BY <1>t DEF MovesUnits
      <3>2. rewardUnits \in [Accounts -> Nat] /\ rewardUnits' \in [Accounts -> Nat]
        BY <1>t
      <3> QED
        BY <1>0, <3>1, <3>2, BookMoves
    <2>3. SumFunctionOnSet(totalRewardUnitsByKey', Keys)
              = SumFunctionOnSet(totalRewardUnitsByKey, Keys) + d
      <3>1. totalRewardUnitsByKey'[k] = totalRewardUnitsByKey[k] + d
            /\ \A x \in Keys \ {k} : totalRewardUnitsByKey'[x] = totalRewardUnitsByKey[x]
        BY <1>t DEF MovesUnits
      <3>2. totalRewardUnitsByKey \in [Keys -> Nat] /\ totalRewardUnitsByKey' \in [Keys -> Nat]
        BY <1>t
      <3> QED
        BY <1>0, <3>1, <3>2, BookMoves
    <2>4. /\ totalRewardUnits' = totalRewardUnits + d
          /\ totalBondedMuppets' = totalBondedMuppets + d * UnitSize
          /\ muppetsHeld' = muppetsHeld + d * UnitSize
      BY DEF MovesUnits
    <2>5. UnitSize * totalRewardUnits' = UnitSize * totalRewardUnits + d * UnitSize
      BY <1>t, <2>4, UnitsScale
    <2> QED
      BY <2>1, <2>2, <2>3, <2>4, <2>5 DEF TotalUnits
  <1> QED
    BY <1>1, <1>2, <1>3

(* A bond moves the units it binds into the books.                         *)
LEMMA OpeningMovesUnits ==
    ASSUME TypeOK, BondsAreBacked, NEW a \in Accounts, NEW k \in Keys, NEW u \in Nat,
           NEW t \in Terms, Opens(a, k, u, t), UNCHANGED boundBalance,
           muppetsHeld' = muppetsHeld + u * UnitSize
    PROVE  MovesUnits(nextPositionId, a, k, u)
  <1> DEFINE n == nextPositionId
             pos == NewPosition(a, k, u, t)
  <1>1. /\ PositionIds' = PositionIds \cup {n} /\ n \notin PositionIds
        /\ positions'[n] = pos /\ pos \in Position
        /\ \A p \in PositionIds : positions'[p] = positions[p]
    BY OpenedPosition
  <1>2. pos.account = a /\ pos.key = k /\ pos.units = u /\ ~pos.withdrawn
    BY DEF NewPosition
  <1>3. OpenPosition(a, k, u, t)
    BY DEF Opens
  <1> HIDE DEF n, pos
  <1>4. \A q \in PositionIds \ {n} : UnitsOf'[q] = UnitsOf[q]
    BY <1>1 DEF UnitsOf
  <1>5. UnitsOf'[n] = u
    BY <1>1, <1>2 DEF UnitsOf
  <1>6. ASSUME NEW b \in Accounts, NEW m \in Keys
        PROVE  /\ OpenPositions(b, m)' \ {n} = OpenPositions(b, m) \ {n}
               /\ n \notin OpenPositions(b, m)
               /\ n \in OpenPositions(b, m)' <=> b = a /\ m = k
    BY <1>1, <1>2 DEF OpenPositions
  <1>7. ASSUME NEW b \in Accounts, NEW m \in Keys
        PROVE  Worth(UnitsOf', OpenPositions(b, m)', n)
                   = Worth(UnitsOf, OpenPositions(b, m), n) + (IF b = a /\ m = k THEN u ELSE 0)
    BY <1>5, <1>6 DEF Worth
  <1>8. /\ unitsByKey' = [unitsByKey EXCEPT ![a] = [unitsByKey[a] EXCEPT ![k] = unitsByKey[a][k] + u]]
        /\ rewardUnits' = [rewardUnits EXCEPT ![a] = rewardUnits[a] + u]
        /\ bondedBalance' = [bondedBalance EXCEPT ![a] = bondedBalance[a] + u * UnitSize]
        /\ totalRewardUnits' = totalRewardUnits + u
        /\ totalRewardUnitsByKey' = [totalRewardUnitsByKey EXCEPT ![k] = totalRewardUnitsByKey[k] + u]
        /\ totalBondedMuppets' = totalBondedMuppets + u * UnitSize
    BY <1>3 DEF OpenPosition
  <1>9. unitsByKey'[a][k] <= boundBalance[a][k]
    <2>1. availableBoundKeys(a, k) >= u
      BY <1>3 DEF OpenPosition, CanOpenPosition
    <2>2. unitsByKey[a][k] <= boundBalance[a][k]
      BY BondsInParts DEF KeyUnits
    <2>3. unitsByKey[a][k] \in Nat /\ boundBalance[a][k] \in Nat
      BY DEF TypeOK
    <2>4. unitsByKey'[a][k] = unitsByKey[a][k] + u
      BY <1>8 DEF TypeOK
    <2> QED
      BY <2>1, <2>2, <2>3, <2>4 DEF availableBoundKeys
  <1>10. boundBalance' = boundBalance /\ muppetsHeld' = muppetsHeld + u * UnitSize
    OBVIOUS
  <1> QED
    BY <1>4, <1>6, <1>7, <1>8, <1>9, <1>10 DEF MovesUnits, n

(* unbondPosition moves the units of the position out of the books.        *)
LEMMA UnbondingMovesUnits ==
    ASSUME TypeOK, BondsAreBacked, NEW a \in Accounts, NEW p \in PositionIds,
           UnbondPosition(a, p)
    PROVE  /\ positions[p].key \in Keys /\ 0 - positions[p].units \in Int
           /\ MovesUnits(p, a, positions[p].key, 0 - positions[p].units)
  <1> DEFINE k == positions[p].key
             u == positions[p].units
  <1>1. /\ positions[p] \in Position /\ k \in Keys /\ u \in Nat
        /\ positions[p].account = a /\ ~positions[p].withdrawn
    BY DEF TypeOK, Position, UnbondPosition, CanUnbond
  <1>2. PositionIds' = PositionIds /\ positions' = [positions EXCEPT ![p].withdrawn = TRUE]
    BY DEF UnbondPosition, CanUnbond, PositionIds
  <1>3. \A q \in PositionIds : positions[q] \in Position
    BY DEF TypeOK
  <1>4. /\ \A q \in PositionIds \ {p} : positions'[q] = positions[q]
        /\ positions'[p].withdrawn /\ positions'[p].units = u
    BY <1>1, <1>2, <1>3 DEF TypeOK, Position
  <1>u. 0 - u \in Int /\ (0 - u) * UnitSize = 0 - u * UnitSize
    BY <1>1, AgentBondAssumption
  <1>5. \A q \in PositionIds \ {p} : UnitsOf'[q] = UnitsOf[q]
    BY <1>2, <1>4 DEF UnitsOf
  <1>6. ASSUME NEW b \in Accounts, NEW m \in Keys
        PROVE  /\ OpenPositions(b, m)' \ {p} = OpenPositions(b, m) \ {p}
               /\ p \notin OpenPositions(b, m)'
               /\ p \in OpenPositions(b, m) <=> b = a /\ m = k
    BY <1>1, <1>2, <1>4 DEF OpenPositions
  <1>7. UnitsOf[p] = u
    BY DEF UnitsOf
  <1> HIDE DEF u
  <1>8. ASSUME NEW b \in Accounts, NEW m \in Keys
        PROVE  Worth(UnitsOf', OpenPositions(b, m)', p)
                   = Worth(UnitsOf, OpenPositions(b, m), p)
                     + (IF b = a /\ m = k THEN 0 - u ELSE 0)
    BY <1>1, <1>6, <1>7 DEF Worth
  <1>9. /\ unitsByKey' = [unitsByKey EXCEPT ![a] = [unitsByKey[a] EXCEPT ![k] = unitsByKey[a][k] - u]]
        /\ rewardUnits' = [rewardUnits EXCEPT ![a] = rewardUnits[a] - u]
        /\ bondedBalance' = [bondedBalance EXCEPT ![a] = bondedBalance[a] - u * UnitSize]
        /\ totalRewardUnits' = totalRewardUnits - u
        /\ totalRewardUnitsByKey' = [totalRewardUnitsByKey EXCEPT ![k] = totalRewardUnitsByKey[k] - u]
        /\ totalBondedMuppets' = totalBondedMuppets - u * UnitSize
        /\ muppetsHeld' = muppetsHeld - u * UnitSize
        /\ boundBalance' = boundBalance
    BY DEF UnbondPosition, CanUnbond, u
  <1>t. /\ unitsByKey[a][k] \in Nat /\ rewardUnits[a] \in Nat /\ bondedBalance[a] \in Nat
        /\ totalRewardUnits \in Nat /\ totalRewardUnitsByKey[k] \in Nat
        /\ totalBondedMuppets \in Nat /\ muppetsHeld \in Nat /\ u * UnitSize \in Int
    BY <1>1, AgentBondAssumption DEF TypeOK
  <1>s. \A i, j \in Int : i - j = i + (0 - j)
    OBVIOUS
  <1>10. /\ unitsByKey[a][k] - u = unitsByKey[a][k] + (0 - u)
         /\ rewardUnits[a] - u = rewardUnits[a] + (0 - u)
         /\ bondedBalance[a] - u * UnitSize = bondedBalance[a] + (0 - u) * UnitSize
         /\ totalRewardUnits - u = totalRewardUnits + (0 - u)
         /\ totalRewardUnitsByKey[k] - u = totalRewardUnitsByKey[k] + (0 - u)
         /\ totalBondedMuppets - u * UnitSize = totalBondedMuppets + (0 - u) * UnitSize
         /\ muppetsHeld - u * UnitSize = muppetsHeld + (0 - u) * UnitSize
    BY <1>1, <1>t, <1>u, <1>s
  <1>11. unitsByKey'[a][k] <= boundBalance[a][k]
    <2>1. unitsByKey[a][k] <= boundBalance[a][k] /\ boundBalance[a][k] \in Nat
      BY <1>1, BondsInParts DEF KeyUnits, TypeOK
    <2>2. unitsByKey'[a][k] = unitsByKey[a][k] - u
      BY <1>1, <1>9 DEF TypeOK
    <2> QED
      BY <1>1, <1>t, <2>1, <2>2
  <1> HIDE DEF k
  <1>12. MovesUnits(p, a, k, 0 - u)
    BY <1>5, <1>6, <1>8, <1>9, <1>10, <1>11 DEF MovesUnits
  <1> QED
    BY <1>1, <1>u, <1>12 DEF k, u

unitBooks == <<unitsByKey, rewardUnits, bondedBalance, totalRewardUnits,
               totalRewardUnitsByKey, totalBondedMuppets>>

(* The bonds follow the positions through every transaction.               *)
LEMMA BondsStep ==
    ASSUME TypeOK, BondsAreBacked, [Next]_vars
    PROVE  BondsAreBacked'
  <1>t. TypeOK'
    BY TypeStep
  <1>1. CASE UNCHANGED <<unitVars, boundBalance, muppetsHeld>>
    BY <1>1 DEF unitVars, BondsAreBacked, OpenPositions, PositionIds
  <1>2. ASSUME NEW a \in Accounts, NEW k \in Keys, NEW u \in 1 .. MaxUnits, BindKeys(a, k, u)
        PROVE  BondsAreBacked'
    <2>1. UNCHANGED <<unitVars, muppetsHeld>>
      BY <1>2 DEF BindKeys
    <2>2. boundBalance' = [boundBalance EXCEPT ![a][k] = @ + u] /\ u \in Nat
      BY <1>2, AgentBondAssumption DEF BindKeys
    <2>3. ASSUME NEW b \in Accounts, NEW m \in Keys
          PROVE  boundBalance[b][m] <= boundBalance'[b][m]
      BY <2>2 DEF TypeOK
    <2>4. ASSUME NEW b \in Accounts, NEW m \in Keys
          PROVE  KeyUnits(b, m)'
      <3>1. KeyUnits(b, m)
        BY BondsInParts
      <3>2. /\ unitsByKey[b][m] \in Nat /\ boundBalance[b][m] \in Nat
            /\ boundBalance'[b][m] \in Nat
        BY <1>t DEF TypeOK
      <3>3. unitsByKey'[b][m] = SumFunctionOnSet(UnitsOf', OpenPositions(b, m)')
        BY <2>1, <3>1 DEF unitVars, KeyUnits, UnitsOf, OpenPositions, PositionIds
      <3>4. unitsByKey'[b][m] <= boundBalance'[b][m]
        BY <2>1, <2>3, <3>1, <3>2 DEF unitVars, KeyUnits
      <3> QED
        BY <3>3, <3>4 DEF KeyUnits
    <2>5. (\A b \in Accounts : AccountUnits(b)') /\ TotalUnits'
      BY <2>1, BondsInParts DEF unitVars, AccountUnits, TotalUnits
    <2> QED
      BY <2>4, <2>5 DEF BondsAreBacked, KeyUnits, AccountUnits, TotalUnits, UnitsOf
  <1>3. ASSUME NEW a \in Accounts, NEW k \in Keys, NEW u \in 1 .. MaxUnits, NEW t \in Terms,
               BondWithTerm(a, k, u, t)
        PROVE  BondsAreBacked'
    <2>1. u \in Nat
      BY AgentBondAssumption
    <2>2. /\ Opens(a, k, u, t) /\ UNCHANGED boundBalance
          /\ muppetsHeld' = muppetsHeld + u * UnitSize
      BY <1>3 DEF BondWithTerm, Opens
    <2> QED
      BY <1>t, <2>1, <2>2, OpeningMovesUnits, MovedUnitsAreBacked
  <1>4. ASSUME NEW a \in Accounts, NEW p \in PositionIds, UnbondPosition(a, p)
        PROVE  BondsAreBacked'
    BY <1>t, <1>4, UnbondingMovesUnits, MovedUnitsAreBacked
  <1>5. ASSUME NEW a \in Accounts, NEW p \in PositionIds, NEW k \in Keys,
               NEW u \in 1 .. MaxUnits, NEW t \in Terms, NEW spend \in 1 .. 2 * MaxNotified,
               NEW surplus \in 0 .. 1,
               ClaimBuyAndBond(a, p, spend, k, u, t, u * UnitSize, u * UnitSize + surplus)
        PROVE  BondsAreBacked'
    <2>1. u \in Nat /\ u * UnitSize \in Int
      BY AgentBondAssumption
    <2>2. Opens(a, k, u, t) /\ UNCHANGED boundBalance
      BY <1>5 DEF ClaimBuyAndBond, Opens
    <2>3. muppetsHeld' = muppetsHeld + (u * UnitSize + surplus)
                             - ((u * UnitSize + surplus) - u * UnitSize)
      BY <1>5, Zenon DEF ClaimBuyAndBond
    <2>4. \A h, b, c \in Int : h + b - (b - c) = h + c
      OBVIOUS
    <2>5. muppetsHeld \in Int /\ u * UnitSize + surplus \in Int
      BY <2>1 DEF TypeOK
    <2>6. muppetsHeld' = muppetsHeld + u * UnitSize
      BY <2>1, <2>3, <2>4, <2>5, Zenon
    <2> QED
      BY <1>t, <2>1, <2>2, <2>6, OpeningMovesUnits, MovedUnitsAreBacked
  <1> QED
    BY <1>1, <1>2, <1>3, <1>4, <1>5
    DEF Next, Govern, HolderStep, Notify, TransferOwnership, SetKeyRegistry,
        SetRewardNotifier, Activate, Pause, AdvanceClock, ClaimPositionRewards,
        NotifyReward, nonGovVars, vars

(* Every open position is backed by its MUPPETS and by its own bound keys: *)
(* the books per account, per key and in total are the open positions.     *)
THEOREM BondsBacked == Spec => []BondsAreBacked
  <1>1. Init => BondsAreBacked
    <2> SUFFICES ASSUME Init PROVE BondsAreBacked
      OBVIOUS
    <2>0. IsFiniteSet(Accounts) /\ IsFiniteSet(Keys) /\ UnitSize * 0 = 0
      BY AgentBondAssumption
    <2>1. ASSUME NEW a \in Accounts, NEW k \in Keys
          PROVE  KeyUnits(a, k)
      <3>1. OpenPositions(a, k) = {}
        BY DEF Init, BooksInit, OpenPositions, PositionIds
      <3> QED
        BY <3>1, SumEmpty DEF Init, BooksInit, KeyUnits
    <2>2. ASSUME NEW a \in Accounts
          PROVE  AccountUnits(a)
      <3>1. \A k \in Keys : unitsByKey[a][k] = 0
        BY DEF Init, BooksInit
      <3>2. SumFunctionOnSet(unitsByKey[a], Keys) = 0
        BY <2>0, <3>1, SumZero
      <3> QED
        BY <2>0, <3>2 DEF Init, BooksInit, AccountUnits
    <2>3. TotalUnits
      <3>1. (\A a \in Accounts : rewardUnits[a] = 0) /\ \A k \in Keys : totalRewardUnitsByKey[k] = 0
        BY DEF Init, BooksInit
      <3>2. /\ SumFunctionOnSet(rewardUnits, Accounts) = 0
            /\ SumFunctionOnSet(totalRewardUnitsByKey, Keys) = 0
        BY <2>0, <3>1, SumZero
      <3> QED
        BY <2>0, <3>2 DEF Init, BooksInit, TotalUnits
    <2> QED
      BY <2>1, <2>2, <2>3, BondsInParts
  <1>2. TypeOK /\ BondsAreBacked /\ [Next]_vars => BondsAreBacked'
    BY BondsStep
  <1> QED
    BY <1>1, <1>2, TypeCorrect, PTL DEF Spec

-----------------------------------------------------------------------------
(* The payouts against the positions.                                      *)

\* What the claim record says position by position of one kind of reward.
PaidOut(claims, kind) ==
    [p \in PositionIds |-> SumFunctionOnSet(claims[p][kind], Epochs)]

(* What a checkpoint adds to the record of an epoch.                       *)
Gain(p, kind) ==
    [e \in Epochs |-> IF e \in EligibleEpochs(positions[p]) THEN Unclaimed(p, kind)[e] ELSE 0]

(* What a position can claim is the sum of what each epoch still owes it.  *)
LEMMA PendingIsGain ==
    ASSUME TypeOK, NEW p \in PositionIds, NEW kind \in Kinds
    PROVE  /\ pendingPositionRewards(p, kind) = SumFunctionOnSet(Gain(p, kind), Epochs)
           /\ \A e \in Epochs : Gain(p, kind)[e] \in Nat
           /\ pendingPositionRewards(p, kind) \in Nat
  <1> DEFINE E == EligibleEpochs(positions[p])
             u == Unclaimed(p, kind)
             g == Gain(p, kind)
  <1>1. E \subseteq Epochs /\ IsFiniteSet(E) /\ IsFiniteSet(Epochs)
    BY FiniteEpochs, E \subseteq Epochs DEF EligibleEpochs
  <1>2. ASSUME NEW e \in E
        PROVE  u[e] \in Nat /\ g[e] = u[e]
    <2>1. e \in Epochs
      BY <1>1
    <2>2. Entitlement(p, kind, e) \in Nat
      BY <2>1, EntitlementType
    <2>3. claimedByEpoch[p][kind][e] \in Nat
      BY <2>1 DEF TypeOK
    <2>4. u[e] = IF Entitlement(p, kind, e) > claimedByEpoch[p][kind][e]
                 THEN Entitlement(p, kind, e) - claimedByEpoch[p][kind][e]
                 ELSE 0
      BY DEF Unclaimed
    <2>5. u[e] \in Nat
      BY <2>2, <2>3, <2>4
    <2> QED
      BY <2>1, <2>5 DEF Gain
  <1>3. \A e \in Epochs \ E : g[e] = 0
    BY DEF Gain
  <1>4. \A e \in Epochs : g[e] \in Nat
    BY <1>2, <1>3
  <1> HIDE DEF E, u, g
  <1>5. SumFunctionOnSet(u, E) = SumFunctionOnSet(g, E)
    BY <1>1, <1>2, SumSame
  <1>6. SumFunctionOnSet(g, E) = SumFunctionOnSet(g, Epochs)
    BY <1>1, <1>3, <1>4, SumSupport
  <1>7. SumFunctionOnSet(g, Epochs) \in Nat
    BY <1>1, <1>4, SumNat
  <1> QED
    BY <1>4, <1>5, <1>6, <1>7 DEF pendingPositionRewards, E, u, g

(* A claim writes down exactly what it pays, and only for its position.    *)
LEMMA CheckpointPays ==
    ASSUME TypeOK, NEW p \in PositionIds, NEW kind \in Kinds
    PROVE  /\ PaidOut(Checkpointed(p), kind)[p]
                  = PaidOut(claimedByEpoch, kind)[p] + pendingPositionRewards(p, kind)
           /\ \A q \in PositionIds : /\ PaidOut(claimedByEpoch, kind)[q] \in Int
                                     /\ PaidOut(Checkpointed(p), kind)[q] \in Int
           /\ \A q \in PositionIds \ {p} :
                  PaidOut(Checkpointed(p), kind)[q] = PaidOut(claimedByEpoch, kind)[q]
  <1>0. IsFiniteSet(Epochs)
    BY FiniteEpochs
  <1>1. /\ claimedByEpoch \in [PositionIds -> [Kinds -> [Epochs -> Nat]]]
        /\ Checkpointed(p) \in [PositionIds -> [Kinds -> [Epochs -> Nat]]]
    BY CheckpointedType DEF TypeOK
  <1>2. ASSUME NEW q \in PositionIds
        PROVE  /\ PaidOut(claimedByEpoch, kind)[q] \in Int
               /\ PaidOut(Checkpointed(p), kind)[q] \in Int
    <2> DEFINE c == claimedByEpoch[q][kind]
               d == Checkpointed(p)[q][kind]
    <2>1. \A e \in Epochs : c[e] \in Int /\ d[e] \in Int
      BY <1>1
    <2>2. PaidOut(claimedByEpoch, kind)[q] = SumFunctionOnSet(c, Epochs)
      BY DEF PaidOut
    <2>3. PaidOut(Checkpointed(p), kind)[q] = SumFunctionOnSet(d, Epochs)
      BY DEF PaidOut
    <2> HIDE DEF c, d
    <2> QED
      BY <1>0, <2>1, <2>2, <2>3, SumInt
  <1>3. ASSUME NEW q \in PositionIds \ {p}
        PROVE  PaidOut(Checkpointed(p), kind)[q] = PaidOut(claimedByEpoch, kind)[q]
    <2>1. Checkpointed(p)[q] = claimedByEpoch[q]
      BY <1>1 DEF Checkpointed
    <2> QED
      BY <2>1 DEF PaidOut
  <1>4. PaidOut(Checkpointed(p), kind)[p]
            = PaidOut(claimedByEpoch, kind)[p] + pendingPositionRewards(p, kind)
    <2> DEFINE c == claimedByEpoch[p][kind]
               d == Checkpointed(p)[p][kind]
               g == Gain(p, kind)
    <2>1. /\ pendingPositionRewards(p, kind) = SumFunctionOnSet(g, Epochs)
          /\ \A e \in Epochs : g[e] \in Nat
      BY PendingIsGain
    <2>2. ASSUME NEW e \in Epochs
          PROVE  c[e] \in Int /\ g[e] \in Int /\ d[e] = c[e] + g[e]
      <3>1. c[e] \in Nat /\ Entitlement(p, kind, e) \in Nat
        BY <1>1, EntitlementType
      <3>2. d[e] = IF e \in EligibleEpochs(positions[p]) /\ Entitlement(p, kind, e) > c[e]
                   THEN Entitlement(p, kind, e) ELSE c[e]
        BY <1>1 DEF Checkpointed
      <3>3. g[e] = IF e \in EligibleEpochs(positions[p]) /\ Entitlement(p, kind, e) > c[e]
                   THEN Entitlement(p, kind, e) - c[e] ELSE 0
        BY DEF Gain, Unclaimed
      <3> HIDE DEF c, d, g
      <3> QED
        BY <3>1, <3>2, <3>3
    <2>3. PaidOut(claimedByEpoch, kind)[p] = SumFunctionOnSet(c, Epochs)
      BY DEF PaidOut
    <2>4. PaidOut(Checkpointed(p), kind)[p] = SumFunctionOnSet(d, Epochs)
      BY DEF PaidOut
    <2> HIDE DEF c, d, g
    <2>5. SumFunctionOnSet(d, Epochs) = SumFunctionOnSet(c, Epochs) + SumFunctionOnSet(g, Epochs)
      BY <1>0, <2>2, SumPlus
    <2> QED
      BY <2>1, <2>3, <2>4, <2>5
  <1> QED
    BY <1>2, <1>3, <1>4

(* The total paid of each stream after a transaction that leaves the claim *)
(* record "claims" for the positions there were.                           *)
RecordsAddUp(claims) ==
    \A s \in Streams :
        totalClaimed'[s] = SumFunctionOnSet(PaidOut(claims, KindOf(s)), ClaimantsOf(s))

(* A claim adds to the total of a stream what it records for it.           *)
LEMMA ClaimAddsUp ==
    ASSUME TypeOK, PayoutsAreRecorded, NEW a \in Accounts, NEW p \in PositionIds,
           NEW gw, NEW kw, SettleClaim(a, p, gw, kw)
    PROVE  RecordsAddUp(Checkpointed(p))
  <1> SUFFICES ASSUME NEW s \in Streams
               PROVE  totalClaimed'[s]
                          = SumFunctionOnSet(PaidOut(Checkpointed(p), KindOf(s)), ClaimantsOf(s))
    BY DEF RecordsAddUp
  <1> DEFINE key == positions[p].key
             f == PaidOut(claimedByEpoch, KindOf(s))
             g == PaidOut(Checkpointed(p), KindOf(s))
             S == ClaimantsOf(s)
             pending == pendingPositionRewards(p, KindOf(s))
  <1>1. key \in Keys /\ key # GlobalStream /\ GlobalStream \in Streams /\ key \in Streams
    BY AgentBondAssumption DEF TypeOK, Position, Streams
  <1>2. KindOf(s) \in Kinds
    BY DEF KindOf, Kinds
  <1>3. /\ g[p] = f[p] + pending
        /\ \A q \in PositionIds : f[q] \in Int /\ g[q] \in Int
        /\ \A q \in PositionIds \ {p} : g[q] = f[q]
    BY <1>2, CheckpointPays
  <1>4. S \subseteq PositionIds /\ IsFiniteSet(S) /\ (p \in S <=> s \in {GlobalStream, key})
    BY FinitePositions, S \subseteq PositionIds DEF ClaimantsOf, TypeOK
  <1>5. totalClaimed[s] = SumFunctionOnSet(f, S)
    BY DEF PayoutsAreRecorded, PaidOut
  <1>6. /\ gw = pendingPositionRewards(p, "global") /\ kw = pendingPositionRewards(p, "key")
        /\ totalClaimed' = [totalClaimed EXCEPT ![GlobalStream] = @ + gw, ![key] = @ + kw]
    BY DEF SettleClaim, CanSettle
  <1>7. totalClaimed \in [Streams -> Nat]
    BY DEF TypeOK
  <1>8. gw \in Nat /\ kw \in Nat
    BY SettleClaimType
  <1>9. CASE s \in {GlobalStream, key}
    <2>1. totalClaimed'[s] = totalClaimed[s] + pending
      <3>1. CASE s = GlobalStream
        BY <1>1, <1>6, <1>7, <3>1 DEF KindOf
      <3>2. CASE s = key
        BY <1>1, <1>6, <1>7, <3>2 DEF KindOf
      <3> QED
        BY <1>9, <3>1, <3>2
    <2>2. p \in S
      BY <1>4, <1>9
    <2>3. pending \in Int
      BY <1>2, PendingIsGain
    <2> HIDE DEF f, g, S, pending, key
    <2>4. SumFunctionOnSet(g, S) = SumFunctionOnSet(f, S) - f[p] + g[p]
      BY <1>3, <1>4, <2>2, SumChange
    <2>5. SumFunctionOnSet(f, S) \in Int
      BY <1>3, <1>4, SumInt
    <2>6. f[p] \in Int
      BY <1>3
    <2>7. totalClaimed'[s] = SumFunctionOnSet(g, S)
      BY <1>3, <1>5, <2>1, <2>3, <2>4, <2>5, <2>6
    <2> QED
      BY <2>7 DEF g, S
  <1>10. CASE s \notin {GlobalStream, key}
    <2>1. totalClaimed'[s] = totalClaimed[s]
      BY <1>1, <1>6, <1>7, <1>10
    <2>2. p \notin S
      BY <1>4, <1>10
    <2> HIDE DEF f, g, S, pending, key
    <2>3. SumFunctionOnSet(f, S) = SumFunctionOnSet(g, S)
      BY <1>3, <1>4, <2>2, SumSame
    <2> QED
      BY <1>5, <2>1, <2>3 DEF g, S
  <1> QED
    BY <1>9, <1>10

(* A new position, with nothing claimed, does not disturb the totals.      *)
LEMMA NewcomersAddNothing ==
    ASSUME TypeOK, [Next]_vars, NEW claims \in [PositionIds -> [Kinds -> [Epochs -> Nat]]],
           RecordsAddUp(claims),
           \/ claimedByEpoch' = claims /\ nextPositionId' = nextPositionId
           \/ /\ claimedByEpoch' = WithFreshPosition(claims)
              /\ nextPositionId' = nextPositionId + 1
    PROVE  PayoutsAreRecorded'
  <1> DEFINE f(s) == PaidOut(claims, KindOf(s))
             g(s) == PaidOut(claimedByEpoch, KindOf(s))'
             S(s) == ClaimantsOf(s)
             T(s) == ClaimantsOf(s)'
             n == nextPositionId
  <1>1. SUFFICES ASSUME NEW s \in Streams
                 PROVE  SumFunctionOnSet(f(s), S(s)) = SumFunctionOnSet(g(s), T(s))
    <2>1. \A s \in Streams : totalClaimed'[s] = SumFunctionOnSet(f(s), S(s))
      BY DEF RecordsAddUp
    <2>2. \A s \in Streams : totalClaimed'[s] = SumFunctionOnSet(g(s), T(s))
      BY <1>1, <2>1
    <2> QED
      BY <2>2 DEF PayoutsAreRecorded, PaidOut
  <1>2. n \in Nat \ {0} /\ n \notin PositionIds /\ n \in Int
    BY DEF TypeOK, PositionIds
  <1>3. KindOf(s) \in Kinds
    BY DEF KindOf, Kinds
  <1>4. PositionIds' = PositionIds \/ PositionIds' = PositionIds \cup {n}
    BY <1>2 DEF PositionIds
  <1>5. ASSUME NEW q \in PositionIds
        PROVE  g(s)[q] = f(s)[q] /\ f(s)[q] \in Int /\ (q \in T(s) <=> q \in S(s))
    <2>1. q \in PositionIds' /\ positions'[q].key = positions[q].key
      BY PositionsEndure
    <2>2. claimedByEpoch'[q] = claims[q]
      BY <1>2 DEF WithFreshPosition, PositionIds
    <2>3. g(s)[q] = SumFunctionOnSet(claimedByEpoch'[q][KindOf(s)], Epochs)
      BY <2>1 DEF PaidOut
    <2>4. f(s)[q] = SumFunctionOnSet(claims[q][KindOf(s)], Epochs)
      BY DEF PaidOut
    <2> DEFINE c == claims[q][KindOf(s)]
    <2>5. \A e \in Epochs : c[e] \in Int
      BY <1>3
    <2>6. SumFunctionOnSet(c, Epochs) \in Int
      <3> HIDE DEF c
      <3> QED
        BY <2>5, FiniteEpochs, SumInt
    <2>7. q \in T(s) <=> q \in S(s)
      BY <2>1 DEF ClaimantsOf
    <2> QED
      BY <2>2, <2>3, <2>4, <2>6, <2>7
  <1>6. n \in PositionIds' => g(s)[n] = 0
    <2> SUFFICES ASSUME n \in PositionIds' PROVE g(s)[n] = 0
      OBVIOUS
    <2>1. claimedByEpoch' = WithFreshPosition(claims)
      BY <1>2 DEF PositionIds
    <2>2. n \in 1 .. n
      BY <1>2
    <2>3. claimedByEpoch'[n] = [kind \in Kinds |-> [e \in Epochs |-> 0]]
      BY <2>1, <2>2 DEF WithFreshPosition
    <2> DEFINE z == claimedByEpoch'[n][KindOf(s)]
    <2>4. \A e \in Epochs : z[e] = 0
      BY <1>3, <2>3
    <2>5. g(s)[n] = SumFunctionOnSet(z, Epochs)
      BY DEF PaidOut
    <2> HIDE DEF z, g
    <2> QED
      BY <2>4, <2>5, FiniteEpochs, SumZero
  <1>7. S(s) \subseteq PositionIds /\ IsFiniteSet(S(s)) /\ T(s) \subseteq PositionIds'
    BY FinitePositions, S(s) \subseteq PositionIds DEF ClaimantsOf, TypeOK
  <1> HIDE DEF f, g, S, T, n
  <1>8. S(s) \ {n} = T(s) \ {n} /\ n \notin S(s)
    BY <1>2, <1>4, <1>5, <1>7
  <1>9. \A q \in S(s) : f(s)[q] \in Int
    BY <1>5, <1>7
  <1>10. \A q \in S(s) \ {n} : g(s)[q] = f(s)[q]
    BY <1>5, <1>7
  <1>11. n \in T(s) => g(s)[n] \in Int
    BY <1>6, <1>7
  <1>12. SumFunctionOnSet(g(s), T(s))
             = SumFunctionOnSet(f(s), S(s)) - Worth(f(s), S(s), n) + Worth(g(s), T(s), n)
    BY <1>7, <1>8, <1>9, <1>10, <1>11, SumMove
  <1>13. Worth(f(s), S(s), n) = 0 /\ Worth(g(s), T(s), n) = 0
    BY <1>6, <1>7, <1>8 DEF Worth
  <1>14. SumFunctionOnSet(f(s), S(s)) \in Int
    BY <1>7, <1>9, SumInt
  <1> QED
    BY <1>12, <1>13, <1>14

(* Every WETH a stream paid is recorded against a position and an epoch,   *)
(* claimed to the wallet or spent by claimBuyAndBond.                      *)
THEOREM PayoutsRecorded == Spec => []PayoutsAreRecorded
  <1>1. Init => PayoutsAreRecorded
    <2> SUFFICES ASSUME Init, NEW s \in Streams
                 PROVE  totalClaimed[s]
                            = SumFunctionOnSet(PaidOut(claimedByEpoch, KindOf(s)), ClaimantsOf(s))
      BY DEF PayoutsAreRecorded, PaidOut
    <2>1. ClaimantsOf(s) = {}
      BY DEF Init, BooksInit, PositionIds, ClaimantsOf
    <2> QED
      BY <2>1, SumEmpty DEF Init, BooksInit
  <1>2. TypeOK /\ PayoutsAreRecorded /\ [Next]_vars => PayoutsAreRecorded'
    <2> SUFFICES ASSUME TypeOK, PayoutsAreRecorded, [Next]_vars
                 PROVE  PayoutsAreRecorded'
      OBVIOUS
    <2>1. claimedByEpoch \in [PositionIds -> [Kinds -> [Epochs -> Nat]]]
      BY DEF TypeOK
    <2>2. ASSUME UNCHANGED totalClaimed
          PROVE  RecordsAddUp(claimedByEpoch)
      BY <2>2 DEF PayoutsAreRecorded, RecordsAddUp, PaidOut
    <2>3. ASSUME UNCHANGED <<totalClaimed, claimedByEpoch, nextPositionId>>
          PROVE  PayoutsAreRecorded'
      BY <2>1, <2>2, <2>3, NewcomersAddNothing
    <2>4. ASSUME NEW a \in Accounts, NEW k \in Keys, NEW u \in 1 .. MaxUnits, NEW t \in Terms,
                 BondWithTerm(a, k, u, t)
          PROVE  PayoutsAreRecorded'
      <3>1. /\ UNCHANGED totalClaimed
            /\ claimedByEpoch' = WithFreshPosition(claimedByEpoch)
            /\ nextPositionId' = nextPositionId + 1
        BY <2>4 DEF BondWithTerm, OpenPosition, ledgerVars
      <3> QED
        BY <2>1, <2>2, <3>1, NewcomersAddNothing
    <2>5. ASSUME NEW a \in Accounts, NEW p \in PositionIds, ClaimPositionRewards(a, p)
          PROVE  PayoutsAreRecorded'
      <3>1. /\ SettleClaim(a, p, pendingPositionRewards(p, "global"),
                           pendingPositionRewards(p, "key"))
            /\ claimedByEpoch' = Checkpointed(p)
            /\ nextPositionId' = nextPositionId
        BY <2>5 DEF ClaimPositionRewards, unitVars
      <3>2. RecordsAddUp(Checkpointed(p))
        BY <3>1, ClaimAddsUp
      <3> QED
        BY <3>1, <3>2, CheckpointedType, NewcomersAddNothing
    <2>6. ASSUME NEW a \in Accounts, NEW p \in PositionIds, NEW k \in Keys,
                 NEW u \in 1 .. MaxUnits, NEW t \in Terms, NEW spend \in 1 .. 2 * MaxNotified,
                 NEW surplus \in 0 .. 1,
                 ClaimBuyAndBond(a, p, spend, k, u, t, u * UnitSize, u * UnitSize + surplus)
          PROVE  PayoutsAreRecorded'
      <3>1. /\ SettleClaim(a, p, pendingPositionRewards(p, "global"),
                           pendingPositionRewards(p, "key"))
            /\ claimedByEpoch' = WithFreshPosition(Checkpointed(p))
            /\ OpenPosition(a, k, u, t)
        BY <2>6, Zenon DEF ClaimBuyAndBond
      <3>2. nextPositionId' = nextPositionId + 1
        BY <3>1 DEF OpenPosition
      <3>3. RecordsAddUp(Checkpointed(p))
        BY <3>1, ClaimAddsUp
      <3> QED
        BY <3>1, <3>2, <3>3, CheckpointedType, NewcomersAddNothing
    <2> QED
      BY <2>3, <2>4, <2>5, <2>6
      DEF Next, Govern, HolderStep, Notify, TransferOwnership, SetKeyRegistry,
          SetRewardNotifier, Activate, Pause, AdvanceClock, BindKeys, UnbondPosition, CanUnbond,
          NotifyReward, nonGovVars, unitVars, ledgerVars, vars
  <1> QED
    BY <1>1, <1>2, TypeCorrect, PTL DEF Spec

(* The three books of the bond are the positions: the weights rewards are  *)
(* divided by, the rewards paid, and the MUPPETS and keys locked.          *)
THEOREM BooksMatch == Spec => []BooksMatchPositions
  BY WeightsMatchEarners, PayoutsRecorded, BondsBacked, PTL DEF BooksMatchPositions

-----------------------------------------------------------------------------
(* The rewards against the accumulators.                                   *)

\* What epoch e of stream s has distributed, scaled, and what it carries.
Distributed(s) ==
    [e \in Epochs |-> rewardPerWeightAtEpoch[s][e] * totalRewardWeightAtEpoch[s][e]
                      + rewardRemainderScaledAtEpoch[s][e]]

(* The strengthening: only a completed epoch has been paid for, so that    *)
(* the weights a payment was divided by are never changed by a new bond.   *)
OnlyCompletedEpochsArePaid ==
    \A s \in Streams, e \in Epochs :
        e >= currentEpoch => /\ rewardPerWeightAtEpoch[s][e] = 0
                             /\ rewardRemainderScaledAtEpoch[s][e] = 0

AccumulatorsInv == AccumulatorsConserveRewards /\ OnlyCompletedEpochsArePaid

\* The conservation of rewards, stream by stream.
LEMMA AccumulatorsInParts ==
    AccumulatorsConserveRewards <=>
        \A s \in Streams :
            /\ \A e \in Epochs :
                  rewardRemainderScaledAtEpoch[s][e] = 0
                  \/ rewardRemainderScaledAtEpoch[s][e] < totalRewardWeightAtEpoch[s][e]
            /\ SumFunctionOnSet(Distributed(s), Epochs) = Precision * totalNotified[s]
  BY DEF AccumulatorsConserveRewards, Distributed

(* Time only goes on.                                                      *)
LEMMA EpochsPass ==
    ASSUME TypeOK, TypeOK', [Next]_vars
    PROVE  currentEpoch \in Nat /\ currentEpoch' \in Nat /\ currentEpoch <= currentEpoch'
  <1>1. now \in Nat /\ now' \in Nat /\ now <= now'
    <2>1. now \in Nat /\ now' \in Nat
      BY DEF TypeOK
    <2>2. now' = now \/ now' > now
      BY DEF Next, Govern, HolderStep, Notify, TransferOwnership, SetKeyRegistry,
             SetRewardNotifier, Activate, Pause, AdvanceClock, BindKeys, BondWithTerm,
             UnbondPosition, CanUnbond, ClaimPositionRewards, ClaimBuyAndBond, NotifyReward,
             nonGovVars, vars
    <2> QED
      BY <2>1, <2>2
  <1>2. \A i, j \in Nat : i <= j => i \div 7 \in Nat /\ j \div 7 \in Nat /\ i \div 7 <= j \div 7
    BY DivMonotone, DivType
  <1> QED
    BY <1>1, <1>2 DEF currentEpoch, EPOCH_DURATION

(* A new bond weighs on epochs that have not begun, an unbond on none.     *)
LEMMA BondsWeighOnTheFuture ==
    ASSUME TypeOK, [Next]_vars, NEW s \in Streams, NEW e \in Epochs
    PROVE  \/ totalRewardWeightAtEpoch'[s][e] = totalRewardWeightAtEpoch[s][e]
           \/ /\ e > currentEpoch
              /\ totalRewardWeightAtEpoch[s][e] <= totalRewardWeightAtEpoch'[s][e]
  <1>1. ASSUME NEW a \in Accounts, NEW k \in Keys, NEW u \in Nat, NEW t \in Terms,
               Opens(a, k, u, t)
        PROVE  \/ totalRewardWeightAtEpoch'[s][e] = totalRewardWeightAtEpoch[s][e]
               \/ /\ e > currentEpoch
                  /\ totalRewardWeightAtEpoch[s][e] <= totalRewardWeightAtEpoch'[s][e]
    <2> DEFINE pos == NewPosition(a, k, u, t)
    <2>1. /\ pos.firstEligibleEpoch > currentEpoch
          /\ pos \in Position
      BY NewPositionTiming, NewPositionType
    <2>2. totalRewardWeightAtEpoch'[s][e] = WeightWith(pos)[s][e]
      BY <1>1 DEF Opens, OpenPosition
    <2>3. now \in Nat /\ currentEpoch \in Int
      BY DEF TypeOK, currentEpoch, EPOCH_DURATION
    <2> HIDE DEF pos
    <2>4. /\ pos.rewardWeight \in Nat /\ pos.firstEligibleEpoch \in Nat
          /\ totalRewardWeightAtEpoch[s][e] \in Nat /\ e \in Nat
      BY <2>1, FiniteEpochs DEF Position, TypeOK
    <2>5. CASE e \in EligibleEpochs(pos)
      <3>1. e > currentEpoch
        BY <2>1, <2>3, <2>4, <2>5 DEF EligibleEpochs
      <3> QED
        BY <2>2, <2>4, <3>1 DEF WeightWith
    <2>6. CASE e \notin EligibleEpochs(pos)
      BY <2>2, <2>6 DEF WeightWith
    <2> QED
      BY <2>5, <2>6
  <1> QED
    BY <1>1, PositionStep DEF Frees, KeepsPositions

(* An epoch that is not paid for keeps what it has distributed: if a bond  *)
(* changes its weight, it has distributed nothing.                         *)
LEMMA UnpaidEpochsKeep ==
    ASSUME TypeOK, TypeOK', AccumulatorsInv, [Next]_vars, UNCHANGED accVars,
           NEW s \in Streams, NEW e \in Epochs
    PROVE  /\ Distributed(s)[e] \in Int
           /\ Distributed(s)'[e] = Distributed(s)[e]
           /\ \/ rewardRemainderScaledAtEpoch'[s][e] = 0
              \/ rewardRemainderScaledAtEpoch'[s][e] < totalRewardWeightAtEpoch'[s][e]
  <1> DEFINE acc == rewardPerWeightAtEpoch[s][e]
             rem == rewardRemainderScaledAtEpoch[s][e]
             w   == totalRewardWeightAtEpoch[s][e]
             ww  == totalRewardWeightAtEpoch'[s][e]
  <1>1. acc \in Nat /\ rem \in Nat /\ w \in Nat /\ ww \in Nat
    BY DEF TypeOK
  <1>2. Distributed(s)[e] = acc * w + rem /\ Distributed(s)'[e] = acc * ww + rem
    BY DEF Distributed, accVars
  <1>3. rewardRemainderScaledAtEpoch'[s][e] = rem
    BY DEF accVars
  <1>4. rem = 0 \/ rem < w
    BY DEF AccumulatorsInv, AccumulatorsConserveRewards
  <1>5. CASE ww = w
    <2> HIDE DEF acc, rem, w
    <2>1. acc * w \in Int
      BY <1>1
    <2> QED
      BY <1>1, <1>2, <1>3, <1>4, <1>5, <2>1
  <1>6. CASE ww # w
    <2>1. e > currentEpoch
      BY <1>6, BondsWeighOnTheFuture
    <2>2. e >= currentEpoch
      BY <2>1, EpochsPass, FiniteEpochs
    <2>3. acc = 0 /\ rem = 0
      BY <2>2 DEF AccumulatorsInv, OnlyCompletedEpochsArePaid
    <2> HIDE DEF acc, rem, w, ww
    <2>4. acc * w = 0 /\ acc * ww = 0
      BY <1>1, <2>3
    <2> QED
      BY <1>2, <1>3, <2>3, <2>4
  <1> QED
    BY <1>5, <1>6

(* A step that pays no reward leaves the accumulators as they are.         *)
LEMMA UnpaidAccumulatorsKeep ==
    ASSUME TypeOK, TypeOK', AccumulatorsInv, [Next]_vars, UNCHANGED <<accVars, totalNotified>>
    PROVE  AccumulatorsInv'
  <1>1. /\ rewardPerWeightAtEpoch' = rewardPerWeightAtEpoch
        /\ rewardRemainderScaledAtEpoch' = rewardRemainderScaledAtEpoch
        /\ totalNotified' = totalNotified
    BY DEF accVars
  <1>2. ASSUME NEW s \in Streams, NEW e \in Epochs
        PROVE  /\ Distributed(s)[e] \in Int
               /\ Distributed(s)'[e] = Distributed(s)[e]
               /\ \/ rewardRemainderScaledAtEpoch'[s][e] = 0
                  \/ rewardRemainderScaledAtEpoch'[s][e] < totalRewardWeightAtEpoch'[s][e]
    BY UnpaidEpochsKeep
  <1>3. ASSUME NEW s \in Streams
        PROVE  SumFunctionOnSet(Distributed(s)', Epochs) = Precision * totalNotified'[s]
    <2> DEFINE f == Distributed(s)
               g == Distributed(s)'
    <2>1. \A e \in Epochs : f[e] = g[e]
      BY <1>2
    <2>2. SumFunctionOnSet(f, Epochs) = Precision * totalNotified[s]
      BY AccumulatorsInParts DEF AccumulatorsInv
    <2> HIDE DEF f, g
    <2>3. SumFunctionOnSet(f, Epochs) = SumFunctionOnSet(g, Epochs)
      BY <2>1, FiniteEpochs, SumSame
    <2>4. SumFunctionOnSet(g, Epochs) = Precision * totalNotified'[s]
      BY <1>1, <2>2, <2>3
    <2> QED
      BY <2>4 DEF g
  <1>4. AccumulatorsConserveRewards'
    BY <1>2, <1>3 DEF AccumulatorsConserveRewards, Distributed
  <1>5. ASSUME NEW s \in Streams, NEW e \in Epochs, e >= currentEpoch'
        PROVE  rewardPerWeightAtEpoch'[s][e] = 0 /\ rewardRemainderScaledAtEpoch'[s][e] = 0
    <2>1. e >= currentEpoch
      BY <1>5, EpochsPass, FiniteEpochs
    <2> QED
      BY <1>1, <2>1 DEF AccumulatorsInv, OnlyCompletedEpochsArePaid
  <1>6. OnlyCompletedEpochsArePaid'
    BY <1>5 DEF OnlyCompletedEpochsArePaid
  <1> QED
    BY <1>4, <1>6 DEF AccumulatorsInv

(* Division with remainder loses nothing: what a weight w is paid of n, on *)
(* top of a, and what is carried make up n.                                *)
LEMMA NothingIsLost ==
    ASSUME NEW n \in Nat, NEW w \in Nat \ {0}, NEW a \in Nat
    PROVE  /\ (a + n \div w) * w + (n % w) = a * w + n
           /\ n \div w \in Nat /\ n % w \in Nat /\ n % w < w
           /\ a * w \in Nat
  <1>1. /\ (n \div w) * w + (n % w) = n
        /\ n \div w \in Nat /\ n % w \in Nat /\ n % w < w
    OBVIOUS
  <1>2. \A i, j, c \in Int : (i + j) * c = i * c + j * c
    OBVIOUS
  <1>3. (a + n \div w) * w = a * w + (n \div w) * w
    BY <1>1, <1>2
  <1>4. a * w \in Nat /\ (n \div w) * w \in Nat
    BY <1>1
  <1> QED
    BY <1>1, <1>3, <1>4

(* A payment is spread over the weight of its epoch or carried in full,    *)
(* and touches no other epoch and no other stream.                         *)
LEMMA PaymentIsBooked ==
    ASSUME TypeOK, TypeOK', NEW n \in Notifiers, NEW r \in Streams,
           NEW d \in Epochs, NEW amount \in Rewards, NotifyReward(n, r, d, amount)
    PROVE  /\ Distributed(r)'[d] = Distributed(r)[d] + amount * Precision
           /\ rewardRemainderScaledAtEpoch'[r][d] < totalRewardWeightAtEpoch'[r][d]
           /\ \A s \in Streams, e \in Epochs :
                 /\ Distributed(s)[e] \in Int /\ Distributed(s)'[e] \in Int
                 /\ s # r \/ e # d =>
                       /\ Distributed(s)'[e] = Distributed(s)[e]
                       /\ rewardPerWeightAtEpoch'[s][e] = rewardPerWeightAtEpoch[s][e]
                       /\ rewardRemainderScaledAtEpoch'[s][e] = rewardRemainderScaledAtEpoch[s][e]
  <1> DEFINE acc == rewardPerWeightAtEpoch[r][d]
             rem == rewardRemainderScaledAtEpoch[r][d]
             w   == totalRewardWeightAtEpoch[r][d]
             scaled == amount * Precision + rem
  <1>1. /\ acc \in Nat /\ rem \in Nat /\ w \in Nat \ {0} /\ amount \in Nat
        /\ totalNotified[r] \in Nat /\ amount * Precision \in Nat /\ Precision \in Nat
    BY AgentBondAssumption DEF TypeOK, NotifyReward
  <1>2. scaled \in Nat
    BY <1>1
  <1>3. /\ rewardPerWeightAtEpoch' = [rewardPerWeightAtEpoch EXCEPT
                ![r] = [rewardPerWeightAtEpoch[r] EXCEPT ![d] = acc + scaled \div w]]
        /\ rewardRemainderScaledAtEpoch' = [rewardRemainderScaledAtEpoch EXCEPT
                ![r] = [rewardRemainderScaledAtEpoch[r] EXCEPT ![d] = scaled % w]]
        /\ totalNotified' = [totalNotified EXCEPT ![r] = totalNotified[r] + amount]
        /\ totalRewardWeightAtEpoch' = totalRewardWeightAtEpoch
        /\ now' = now /\ d < currentEpoch
    BY DEF NotifyReward, Scaled, AccumulatorWith
  <1>4. /\ (acc + scaled \div w) * w + (scaled % w) = acc * w + scaled
        /\ scaled \div w \in Nat /\ scaled % w \in Nat /\ scaled % w < w
        /\ acc * w \in Nat
    <2> HIDE DEF acc, scaled, w
    <2> QED
      BY <1>1, <1>2, NothingIsLost
  <1> HIDE DEF scaled, acc, rem, w
  <1>5. /\ rewardPerWeightAtEpoch'[r][d] = acc + scaled \div w
        /\ rewardRemainderScaledAtEpoch'[r][d] = scaled % w
        /\ totalNotified'[r] = totalNotified[r] + amount
    BY <1>3 DEF TypeOK
  <1>6. ASSUME NEW s \in Streams, NEW e \in Epochs, s # r \/ e # d
        PROVE  /\ rewardPerWeightAtEpoch'[s][e] = rewardPerWeightAtEpoch[s][e]
               /\ rewardRemainderScaledAtEpoch'[s][e] = rewardRemainderScaledAtEpoch[s][e]
    <2>1. CASE s # r
      BY <1>3, <2>1 DEF TypeOK
    <2>2. CASE s = r /\ e # d
      BY <1>3, <2>2 DEF TypeOK
    <2> QED
      BY <1>6, <2>1, <2>2
  <1>7. ASSUME NEW s \in Streams, NEW e \in Epochs
        PROVE  /\ Distributed(s)[e] \in Int /\ Distributed(s)'[e] \in Int
               /\ s # r \/ e # d => Distributed(s)'[e] = Distributed(s)[e]
    <2>1. /\ rewardPerWeightAtEpoch[s][e] \in Nat /\ rewardPerWeightAtEpoch'[s][e] \in Nat
          /\ rewardRemainderScaledAtEpoch[s][e] \in Nat
          /\ rewardRemainderScaledAtEpoch'[s][e] \in Nat
          /\ totalRewardWeightAtEpoch[s][e] \in Nat
      BY DEF TypeOK
    <2>2. /\ Distributed(s)[e] = rewardPerWeightAtEpoch[s][e] * totalRewardWeightAtEpoch[s][e]
                                 + rewardRemainderScaledAtEpoch[s][e]
          /\ Distributed(s)'[e] = rewardPerWeightAtEpoch'[s][e] * totalRewardWeightAtEpoch[s][e]
                                  + rewardRemainderScaledAtEpoch'[s][e]
      BY <1>3 DEF Distributed
    <2>3. Distributed(s)[e] \in Int /\ Distributed(s)'[e] \in Int
      BY <2>1, <2>2
    <2> QED
      BY <1>6, <2>2, <2>3
  <1>8. Distributed(r)'[d] = Distributed(r)[d] + amount * Precision
    <2>1. Distributed(r)[d] = acc * w + rem
      BY DEF Distributed, acc, w, rem
    <2>2. Distributed(r)'[d] = (acc + scaled \div w) * w + (scaled % w)
      BY <1>3, <1>5 DEF Distributed, w
    <2>3. scaled = amount * Precision + rem
      BY DEF scaled
    <2> QED
      BY <1>1, <1>4, <2>1, <2>2, <2>3
  <1> QED
    BY <1>3, <1>4, <1>5, <1>6, <1>7, <1>8 DEF w

(* A payment keeps the accumulators and what was notified in step.         *)
LEMMA PaymentIsDistributed ==
    ASSUME TypeOK, TypeOK', AccumulatorsInv, NEW n \in Notifiers, NEW r \in Streams,
           NEW d \in Epochs, NEW amount \in Rewards, NotifyReward(n, r, d, amount)
    PROVE  AccumulatorsInv'
  <1>1. /\ totalNotified[r] \in Nat /\ amount \in Nat /\ amount * Precision \in Nat
        /\ Precision \in Nat
    BY AgentBondAssumption DEF TypeOK
  <1>2. /\ totalNotified' = [totalNotified EXCEPT ![r] = totalNotified[r] + amount]
        /\ totalRewardWeightAtEpoch' = totalRewardWeightAtEpoch
        /\ now' = now /\ d < currentEpoch
    BY DEF NotifyReward
  <1>3. totalNotified'[r] = totalNotified[r] + amount
    BY <1>2 DEF TypeOK
  <1>4. ASSUME NEW s \in Streams, NEW e \in Epochs, s # r \/ e # d
        PROVE  /\ rewardPerWeightAtEpoch'[s][e] = rewardPerWeightAtEpoch[s][e]
               /\ rewardRemainderScaledAtEpoch'[s][e] = rewardRemainderScaledAtEpoch[s][e]
    BY <1>4, PaymentIsBooked
  <1>5. \A s \in Streams \ {r} : totalNotified'[s] = totalNotified[s]
    BY <1>2 DEF TypeOK
  <1>6. ASSUME NEW s \in Streams, NEW e \in Epochs
        PROVE  /\ Distributed(s)[e] \in Int /\ Distributed(s)'[e] \in Int
               /\ s # r \/ e # d => Distributed(s)'[e] = Distributed(s)[e]
    BY PaymentIsBooked
  <1>7. /\ Distributed(r)'[d] = Distributed(r)[d] + amount * Precision
        /\ rewardRemainderScaledAtEpoch'[r][d] < totalRewardWeightAtEpoch'[r][d]
    BY PaymentIsBooked
  <1>8. ASSUME NEW s \in Streams
         PROVE  SumFunctionOnSet(Distributed(s)', Epochs) = Precision * totalNotified'[s]
    <2> DEFINE f == Distributed(s)
               g == Distributed(s)'
    <2>1. SumFunctionOnSet(f, Epochs) = Precision * totalNotified[s]
      BY AccumulatorsInParts DEF AccumulatorsInv
    <2>2. \A e \in Epochs : f[e] \in Int /\ g[e] \in Int
      BY <1>6
    <2>3. CASE s = r
      <3>1. \A e \in Epochs \ {d} : f[e] = g[e]
        BY <1>6
      <3>2. g[d] = f[d] + amount * Precision /\ f[d] \in Int
        BY <1>7, <2>2, <2>3
      <3>e. IsFiniteSet(Epochs) /\ d \in Epochs
        BY FiniteEpochs
      <3>i. \A e \in Epochs : f[e] \in Int /\ g[e] \in Int
        BY <2>2
      <3> HIDE DEF f, g
      <3>3. SumFunctionOnSet(g, Epochs) = SumFunctionOnSet(f, Epochs) - f[d] + g[d]
        BY ONLY <3>e, <3>i, <3>1, SumChange
      <3>4. SumFunctionOnSet(f, Epochs) \in Int
        BY <2>2, FiniteEpochs, SumInt
      <3>5. SumFunctionOnSet(g, Epochs) = Precision * totalNotified[r] + amount * Precision
        BY <1>1, <2>1, <2>3, <3>2, <3>3, <3>4
      <3>6. \A i, j, c \in Int : c * (i + j) = c * i + j * c
        OBVIOUS
      <3>7. Precision * totalNotified'[r] = Precision * totalNotified[r] + amount * Precision
        BY <1>1, <1>3, <3>6
      <3> QED
        BY <2>3, <3>5, <3>7 DEF g
    <2>4. CASE s # r
      <3>1. \A e \in Epochs : f[e] = g[e]
        BY <1>6, <2>4
      <3> HIDE DEF f, g
      <3>2. SumFunctionOnSet(f, Epochs) = SumFunctionOnSet(g, Epochs)
        BY <3>1, FiniteEpochs, SumSame
      <3>3. totalNotified'[s] = totalNotified[s]
        BY <1>5, <2>4
      <3> QED
        BY <2>1, <3>2, <3>3 DEF g
    <2> QED
      BY <2>3, <2>4
  <1>9. ASSUME NEW s \in Streams, NEW e \in Epochs
         PROVE  \/ rewardRemainderScaledAtEpoch'[s][e] = 0
                \/ rewardRemainderScaledAtEpoch'[s][e] < totalRewardWeightAtEpoch'[s][e]
    <2>1. CASE s = r /\ e = d
      BY <1>7, <2>1
    <2>2. CASE s # r \/ e # d
      BY <1>2, <1>4, <2>2 DEF AccumulatorsInv, AccumulatorsConserveRewards
    <2> QED
      BY <2>1, <2>2
  <1>10. AccumulatorsConserveRewards'
    BY <1>8, <1>9 DEF AccumulatorsConserveRewards, Distributed
  <1>11. currentEpoch' = currentEpoch /\ currentEpoch \in Int /\ d \in Int
    BY <1>2, FiniteEpochs DEF currentEpoch, EPOCH_DURATION, TypeOK
  <1>12. ASSUME NEW s \in Streams, NEW e \in Epochs, e >= currentEpoch'
         PROVE  rewardPerWeightAtEpoch'[s][e] = 0 /\ rewardRemainderScaledAtEpoch'[s][e] = 0
    <2>1. e # d
      BY <1>2, <1>11, <1>12
    <2> QED
      BY <1>4, <1>11, <1>12, <2>1 DEF AccumulatorsInv, OnlyCompletedEpochsArePaid
  <1> QED
    BY <1>10, <1>12 DEF AccumulatorsInv, OnlyCompletedEpochsArePaid

(* The accumulators give out exactly what was notified, and an epoch       *)
(* shares it once it is over.                                              *)
THEOREM AccumulatorsConserve == Spec => []AccumulatorsInv
  <1>1. Init => AccumulatorsInv
    <2> SUFFICES ASSUME Init, NEW s \in Streams
                 PROVE  /\ \A e \in Epochs : /\ rewardPerWeightAtEpoch[s][e] = 0
                                             /\ rewardRemainderScaledAtEpoch[s][e] = 0
                        /\ SumFunctionOnSet(Distributed(s), Epochs)
                               = Precision * totalNotified[s]
      BY AccumulatorsInParts DEF AccumulatorsInv, OnlyCompletedEpochsArePaid
    <2>1. \A e \in Epochs : /\ rewardPerWeightAtEpoch[s][e] = 0
                            /\ rewardRemainderScaledAtEpoch[s][e] = 0
                            /\ totalRewardWeightAtEpoch[s][e] = 0
      BY DEF Init, BooksInit
    <2>2. \A e \in Epochs : Distributed(s)[e] = 0
      BY <2>1 DEF Distributed
    <2>3. SumFunctionOnSet(Distributed(s), Epochs) = 0
      BY <2>2, FiniteEpochs, SumZero
    <2>4. totalNotified[s] = 0 /\ Precision * 0 = 0
      BY AgentBondAssumption DEF Init, BooksInit
    <2> QED
      BY <2>1, <2>3, <2>4
  <1>2. TypeOK /\ TypeOK' /\ AccumulatorsInv /\ [Next]_vars => AccumulatorsInv'
    <2> SUFFICES ASSUME TypeOK, TypeOK', AccumulatorsInv, [Next]_vars
                 PROVE  AccumulatorsInv'
      OBVIOUS
    <2>1. CASE UNCHANGED <<accVars, totalNotified>>
      BY <2>1, UnpaidAccumulatorsKeep
    <2>2. ASSUME NEW n \in Notifiers, NEW r \in Streams, NEW d \in Epochs, NEW amount \in Rewards,
                 NotifyReward(n, r, d, amount)
          PROVE  AccumulatorsInv'
      BY <2>2, PaymentIsDistributed
    <2> QED
      BY <2>1, <2>2
      DEF Next, Govern, HolderStep, Notify, TransferOwnership, SetKeyRegistry,
          SetRewardNotifier, Activate, Pause, AdvanceClock, BindKeys, BondWithTerm,
          UnbondPosition, CanUnbond, ClaimPositionRewards, ClaimBuyAndBond, SettleClaim, CanSettle, nonGovVars,
          ledgerVars, vars
  <1> QED
    BY <1>1, <1>2, TypeCorrect, PTL DEF Spec

-----------------------------------------------------------------------------
(* Solvency.                                                               *)

(* What the claims a stream's positions have made, and could make now, say *)
(* position by position and epoch by epoch.                                *)
Share(s) ==
    [p \in ClaimantsOf(s) |-> [e \in Epochs |-> EntitledTo(p, KindOf(s), e)]]

ShareOf(s) == [p \in PositionIds |-> SumFunctionOnSet(Share(s)[p], Epochs)]

SharesAt(s) ==
    [e \in Epochs |->
        SumFunctionOnSet([p \in ClaimantsOf(s) |-> Share(s)[p][e]], ClaimantsOf(s))]

PendingOf(kind) == [p \in PositionIds |-> pendingPositionRewards(p, kind)]

(* A position's paid and pending rewards are its entitlements.             *)
LEMMA PaidAndPending ==
    ASSUME TypeOK, ClaimedWithinEntitlement, NEW s \in Streams, NEW p \in ClaimantsOf(s)
    PROVE  /\ ShareOf(s)[p] = PaidOut(claimedByEpoch, KindOf(s))[p] + PendingOf(KindOf(s))[p]
           /\ PaidOut(claimedByEpoch, KindOf(s))[p] \in Int
           /\ PendingOf(KindOf(s))[p] \in Int
           /\ \A e \in Epochs : Share(s)[p][e] \in Nat
  <1> DEFINE kind == KindOf(s)
             c == claimedByEpoch[p][kind]
             g == Gain(p, kind)
             h == Share(s)[p]
  <1>1. p \in PositionIds /\ kind \in Kinds
    BY DEF ClaimantsOf, KindOf, Kinds
  <1>2. /\ pendingPositionRewards(p, kind) = SumFunctionOnSet(g, Epochs)
        /\ \A e \in Epochs : g[e] \in Nat
        /\ pendingPositionRewards(p, kind) \in Nat
    BY <1>1, PendingIsGain
  <1>3. ASSUME NEW e \in Epochs
        PROVE  /\ c[e] \in Int /\ g[e] \in Int /\ h[e] = c[e] + g[e]
               /\ h[e] \in Nat
    <2>1. c[e] \in Nat /\ Entitlement(p, kind, e) \in Nat
      BY <1>1, EntitlementType DEF TypeOK
    <2>2. c[e] <= IF e \in EligibleEpochs(positions[p]) THEN Entitlement(p, kind, e) ELSE 0
      BY <1>1 DEF ClaimedWithinEntitlement
    <2>3. g[e] = IF e \in EligibleEpochs(positions[p]) /\ Entitlement(p, kind, e) > c[e]
                 THEN Entitlement(p, kind, e) - c[e] ELSE 0
      BY DEF Gain, Unclaimed
    <2>4. h[e] = IF e \in EligibleEpochs(positions[p]) THEN Entitlement(p, kind, e) ELSE 0
      BY DEF Share, EntitledTo
    <2> HIDE DEF c, g, h, kind
    <2> QED
      BY <2>1, <2>2, <2>3, <2>4
  <1>4. PaidOut(claimedByEpoch, kind)[p] = SumFunctionOnSet(c, Epochs)
    BY <1>1 DEF PaidOut
  <1>5. ShareOf(s)[p] = SumFunctionOnSet(h, Epochs)
    BY <1>1 DEF ShareOf
  <1>6. PendingOf(kind)[p] = pendingPositionRewards(p, kind)
    BY <1>1 DEF PendingOf
  <1>7. IsFiniteSet(Epochs)
    BY FiniteEpochs
  <1> HIDE DEF c, g, h
  <1>8. /\ SumFunctionOnSet(h, Epochs) = SumFunctionOnSet(c, Epochs) + SumFunctionOnSet(g, Epochs)
        /\ SumFunctionOnSet(c, Epochs) \in Int
    BY <1>3, <1>7, SumPlus, SumInt
  <1>9. \A e \in Epochs : Share(s)[p][e] \in Nat
    BY <1>3 DEF h
  <1> QED
    BY <1>2, <1>4, <1>5, <1>6, <1>8, <1>9

(* Rounding down divides no more than there is.                            *)
LEMMA RoundedShare ==
    ASSUME NEW x \in Nat, NEW m \in Nat \ {0}
    PROVE  x \div m \in Nat /\ m * (x \div m) \in Nat /\ m * (x \div m) <= x
  OBVIOUS

(* An epoch's shares, rounded down, do not exceed what it distributed.     *)
LEMMA SharesWithinEpoch ==
    ASSUME TypeOK, WeightIsSumOfEarners, ClaimedWithinEntitlement,
           NEW s \in Streams, NEW e \in Epochs
    PROVE  /\ SharesAt(s)[e] \in Int
           /\ Precision * SharesAt(s)[e]
                  <= rewardPerWeightAtEpoch[s][e] * totalRewardWeightAtEpoch[s][e]
  <1> DEFINE C == ClaimantsOf(s)
             E == EarnersOf(s, e)
             f == [p \in C |-> Share(s)[p][e]]
             g == [p \in C |-> Precision * f[p]]
             r == rewardPerWeightAtEpoch[s][e]
             h == [p \in C |-> r * WeightOf[p]]
  <1>1. /\ C \subseteq PositionIds /\ IsFiniteSet(C) /\ E \subseteq C /\ IsFiniteSet(E)
    BY FinitePositions, C \subseteq PositionIds, E \subseteq PositionIds, E \subseteq C
    DEF ClaimantsOf, EarnersOf, TypeOK
  <1>2. r \in Nat /\ Precision \in Nat \ {0}
    BY AgentBondAssumption DEF TypeOK
  <1>3. ASSUME NEW p \in C
        PROVE  f[p] \in Nat /\ WeightOf[p] \in Nat
    <2>1. f[p] \in Nat
      BY PaidAndPending
    <2>2. positions[p] \in Position /\ WeightOf[p] = positions[p].rewardWeight
      BY <1>1 DEF TypeOK, WeightOf
    <2> QED
      BY <2>1, <2>2 DEF Position
  <1>4. ASSUME NEW p \in E
        PROVE  g[p] \in Int /\ h[p] \in Int /\ g[p] <= h[p]
    <2>0. p \in C /\ p \in PositionIds
      BY <1>1
    <2>1. StreamOf(p, KindOf(s)) = s
      BY <2>0, AgentBondAssumption DEF StreamOf, KindOf, ClaimantsOf
    <2>2. e \in EligibleEpochs(positions[p])
      BY DEF EarnersOf
    <2>3. f[p] = (WeightOf[p] * r) \div Precision
      BY <2>0, <2>1, <2>2 DEF Share, EntitledTo, Entitlement, WeightOf
    <2>4. g[p] = Precision * f[p] /\ h[p] = r * WeightOf[p]
      BY <2>0
    <2>5. WeightOf[p] * r \in Nat /\ WeightOf[p] * r = r * WeightOf[p]
      BY <1>2, <1>3, <2>0
    <2> HIDE DEF f, g, h, r
    <2> QED
      BY <1>2, <2>3, <2>4, <2>5, RoundedShare
  <1>5. ASSUME NEW p \in C \ E
        PROVE  g[p] = 0
    <2>1. e \notin EligibleEpochs(positions[p])
      BY <1>1, <1>5 DEF EarnersOf, ClaimantsOf
    <2>2. f[p] = 0
      BY <2>1 DEF Share, EntitledTo
    <2> QED
      BY <1>2, <2>2
  <1>6. totalRewardWeightAtEpoch[s][e] = SumFunctionOnSet(WeightOf, E)
    BY DEF WeightIsSumOfEarners, WeightOf
  <1>7. SharesAt(s)[e] = SumFunctionOnSet(f, C)
    BY DEF SharesAt
  <1>8. /\ \A p \in C : f[p] \in Int /\ g[p] = Precision * f[p] /\ g[p] \in Int
        /\ \A p \in E : WeightOf[p] \in Int /\ h[p] = r * WeightOf[p]
    BY <1>1, <1>2, <1>3
  <1> HIDE DEF C, E, f, g, h, r
  <1>9. SumFunctionOnSet(g, C) = Precision * SumFunctionOnSet(f, C)
    BY <1>1, <1>2, <1>8, SumScale
  <1>10. SumFunctionOnSet(g, E) = SumFunctionOnSet(g, C)
    BY <1>1, <1>4, <1>5, SumSupport
  <1>11. SumFunctionOnSet(g, E) <= SumFunctionOnSet(h, E)
    BY <1>1, <1>4, SumAtMost
  <1>12. SumFunctionOnSet(h, E) = r * SumFunctionOnSet(WeightOf, E)
    BY <1>1, <1>2, <1>8, SumScale
  <1>13. SumFunctionOnSet(f, C) \in Int
    BY <1>1, <1>8, SumInt
  <1>14. Precision * SumFunctionOnSet(f, C) <= r * SumFunctionOnSet(WeightOf, E)
    BY <1>9, <1>10, <1>11, <1>12
  <1> QED
    BY <1>6, <1>7, <1>13, <1>14 DEF r

(* All the claims ever made on a stream and all that could be made now are *)
(* within what it was notified.                                            *)
LEMMA SharesWithinNotified ==
    ASSUME TypeOK, WeightIsSumOfEarners, AccumulatorsConserveRewards,
           ClaimedWithinEntitlement, NEW s \in Streams
    PROVE  /\ SumFunctionOnSet(ShareOf(s), ClaimantsOf(s)) \in Int
           /\ SumFunctionOnSet(ShareOf(s), ClaimantsOf(s)) <= totalNotified[s]
  <1> DEFINE C == ClaimantsOf(s)
             F == Share(s)
             G == [e \in Epochs |-> [p \in C |-> F[p][e]]]
             row == ShareOf(s)
             column == SharesAt(s)
             g == [e \in Epochs |-> Precision * column[e]]
             d == Distributed(s)
  <1>1. C \subseteq PositionIds /\ IsFiniteSet(C) /\ IsFiniteSet(Epochs)
    BY FinitePositions, FiniteEpochs, C \subseteq PositionIds DEF ClaimantsOf, TypeOK
  <1>2. \A p \in C, e \in Epochs : F[p][e] \in Int
    BY PaidAndPending
  <1>3. \A p \in C : row[p] = SumFunctionOnSet(F[p], Epochs)
    BY <1>1 DEF ShareOf
  <1>4. \A e \in Epochs : column[e] = SumFunctionOnSet(G[e], C)
    BY DEF SharesAt
  <1>t. \A p \in C, e \in Epochs : G[e][p] = F[p][e]
    OBVIOUS
  <1>5. Precision \in Nat \ {0} /\ totalNotified[s] \in Nat
    BY AgentBondAssumption DEF TypeOK
  <1>6. ASSUME NEW e \in Epochs
        PROVE  column[e] \in Int /\ g[e] \in Int /\ d[e] \in Int /\ g[e] <= d[e]
    <2> DEFINE paid == rewardPerWeightAtEpoch[s][e] * totalRewardWeightAtEpoch[s][e]
    <2>1. column[e] \in Int /\ Precision * column[e] <= paid
      BY SharesWithinEpoch
    <2>2. paid \in Nat /\ rewardRemainderScaledAtEpoch[s][e] \in Nat
      BY DEF TypeOK
    <2>3. d[e] = paid + rewardRemainderScaledAtEpoch[s][e]
      BY DEF Distributed
    <2>4. g[e] = Precision * column[e] /\ Precision * column[e] \in Int
      BY <1>5, <2>1
    <2> HIDE DEF paid, g, d, column
    <2> QED
      BY <2>1, <2>2, <2>3, <2>4
  <1>7. \A e \in Epochs : g[e] = Precision * column[e]
    OBVIOUS
  <1>8. SumFunctionOnSet(d, Epochs) = Precision * totalNotified[s]
    BY AccumulatorsInParts
  <1> HIDE DEF C, F, G, row, column, g, d
  <1>9. SumFunctionOnSet(row, C) = SumFunctionOnSet(column, Epochs)
    <2>1. RowSums(row, F, C, Epochs) /\ RowSums(column, G, Epochs, C)
      BY <1>2, <1>3, <1>4, <1>t DEF RowSums
    <2> QED
      BY <1>1, <1>t, <2>1, SumExchange
  <1>10. SumFunctionOnSet(g, Epochs) = Precision * SumFunctionOnSet(column, Epochs)
    BY <1>1, <1>5, <1>6, <1>7, SumScale
  <1>11. SumFunctionOnSet(g, Epochs) <= SumFunctionOnSet(d, Epochs)
    BY <1>1, <1>6, SumAtMost
  <1>12. SumFunctionOnSet(column, Epochs) \in Int
    BY <1>1, <1>6, SumInt
  <1>13. \A x, y \in Int : Precision * x <= Precision * y => x <= y
    BY <1>5
  <1>14. SumFunctionOnSet(column, Epochs) <= totalNotified[s]
    <2>1. Precision * SumFunctionOnSet(column, Epochs) <= Precision * totalNotified[s]
      BY <1>8, <1>10, <1>11
    <2> QED
      BY <1>5, <1>12, <1>13, <2>1
  <1> QED
    BY <1>9, <1>12, <1>14 DEF row, C

(* The claims that could be made now are within what is left.              *)
LEMMA CoveredByWhatIsLeft ==
    ASSUME TypeOK, WeightIsSumOfEarners, PayoutsAreRecorded, AccumulatorsConserveRewards,
           ClaimedWithinEntitlement
    PROVE  ClaimsAreCovered
  <1> SUFFICES ASSUME NEW s \in Streams
               PROVE  SumFunctionOnSet(PendingOf(KindOf(s)), ClaimantsOf(s))
                          <= totalNotified[s] - totalClaimed[s]
    BY DEF ClaimsAreCovered, PendingOf
  <1> DEFINE C == ClaimantsOf(s)
             f == PaidOut(claimedByEpoch, KindOf(s))
             g == PendingOf(KindOf(s))
             h == ShareOf(s)
  <1>1. IsFiniteSet(C)
    BY FinitePositions, C \subseteq PositionIds DEF ClaimantsOf, TypeOK
  <1>2. \A p \in C : f[p] \in Int /\ g[p] \in Int /\ h[p] = f[p] + g[p]
    BY PaidAndPending
  <1>3. totalClaimed[s] = SumFunctionOnSet(f, C)
    BY DEF PayoutsAreRecorded, PaidOut
  <1>4. SumFunctionOnSet(h, C) \in Int /\ SumFunctionOnSet(h, C) <= totalNotified[s]
    BY SharesWithinNotified
  <1>5. totalNotified[s] \in Int
    BY DEF TypeOK
  <1> HIDE DEF C, f, g, h
  <1>6. /\ SumFunctionOnSet(h, C) = SumFunctionOnSet(f, C) + SumFunctionOnSet(g, C)
        /\ SumFunctionOnSet(f, C) \in Int /\ SumFunctionOnSet(g, C) \in Int
    BY <1>1, <1>2, SumPlus, SumInt
  <1>7. SumFunctionOnSet(g, C) <= totalNotified[s] - totalClaimed[s]
    BY <1>3, <1>4, <1>5, <1>6
  <1> QED
    BY <1>7 DEF C, g

(* Solvency: in every reachable state, whatever was notified, rounded,     *)
(* carried and claimed before, a stream still holds all it owes.           *)
THEOREM RewardsConserved == Spec => []RewardsAreConserved
  <1>1. ASSUME TypeOK, WeightIsSumOfEarners, PayoutsAreRecorded, AccumulatorsInv,
               ClaimedWithinEntitlement
        PROVE  RewardsAreConserved
    <2>1. AccumulatorsConserveRewards
      BY <1>1 DEF AccumulatorsInv
    <2>2. ClaimsAreCovered
      BY <1>1, <2>1, CoveredByWhatIsLeft
    <2> QED
      BY <2>1, <2>2 DEF RewardsAreConserved
  <1> QED
    BY <1>1, TypeCorrect, WeightsMatchEarners, PayoutsRecorded, AccumulatorsConserve,
       ClaimsWithinEntitlement, PTL

-----------------------------------------------------------------------------
(* What the Earn page reads.                                               *)

(* What the page's subtraction and its list of Agents rely on: nobody has  *)
(* reinvested more than it claimed, and a position's keys stay bound and   *)
(* earn in at least one epoch.                                             *)
WalletsInv ==
    /\ \A a \in Accounts : accountRewardsReinvested[a] <= accountRewardsClaimed[a]
    /\ \A p \in PositionIds :
          /\ positions[p].units \in 1 .. boundBalance[positions[p].account][positions[p].key]
          /\ positions[p].firstEligibleEpoch < positions[p].lastEligibleEpochExclusive

\* Bound keys are never unbound.
LEMMA KeysStayBound ==
    ASSUME TypeOK, [Next]_vars, NEW a \in Accounts, NEW k \in Keys
    PROVE  boundBalance[a][k] <= boundBalance'[a][k]
  <1>0. boundBalance[a][k] \in Nat
    BY DEF TypeOK
  <1>1. ASSUME NEW b \in Accounts, NEW m \in Keys, NEW u \in 1 .. MaxUnits, BindKeys(b, m, u)
        PROVE  boundBalance[a][k] <= boundBalance'[a][k]
    <2>1. u \in Nat
      BY AgentBondAssumption
    <2>2. boundBalance' = [boundBalance EXCEPT ![b][m] = @ + u]
      BY <1>1 DEF BindKeys
    <2>3. boundBalance'[a][k] = IF a = b /\ k = m THEN boundBalance[a][k] + u
                                                  ELSE boundBalance[a][k]
      BY <2>2 DEF TypeOK
    <2> QED
      BY <1>0, <2>1, <2>3
  <1>2. CASE UNCHANGED boundBalance
    BY <1>0, <1>2
  <1> QED
    BY <1>1, <1>2
    DEF Next, Govern, HolderStep, Notify, TransferOwnership, SetKeyRegistry,
        SetRewardNotifier, Activate, Pause, AdvanceClock, BondWithTerm, NotifyReward,
        UnbondPosition, ClaimPositionRewards, ClaimBuyAndBond, nonGovVars, vars

\* What a bond requires of the bound keys, and what the new position earns in.
LEMMA OpenedWithBoundKeys ==
    ASSUME TypeOK, NEW a \in Accounts, NEW k \in Keys, NEW u \in Nat, NEW t \in Terms,
           OpenPosition(a, k, u, t)
    PROVE  LET pos == NewPosition(a, k, u, t)
           IN  /\ pos.account = a /\ pos.key = k
               /\ pos.units \in 1 .. boundBalance[a][k]
               /\ pos.firstEligibleEpoch < pos.lastEligibleEpochExclusive
  <1>1. CanOpenPosition(a, k, u, t)
    BY DEF OpenPosition
  <1>2. boundBalance[a][k] \in Nat /\ unitsByKey[a][k] \in Nat
    BY DEF TypeOK
  <1>3. u > 0 /\ availableBoundKeys(a, k) >= u
    BY <1>1 DEF CanOpenPosition
  <1>4. u \in 1 .. boundBalance[a][k]
    BY <1>2, <1>3 DEF availableBoundKeys
  <1>5. NewPosition(a, k, u, t).account = a /\ NewPosition(a, k, u, t).key = k
        /\ NewPosition(a, k, u, t).units = u
    BY DEF NewPosition
  <1>6. NewPosition(a, k, u, t).firstEligibleEpoch < NewPosition(a, k, u, t).lastEligibleEpochExclusive
    BY <1>1 DEF CanOpenPosition
  <1> QED
    BY <1>4, <1>5, <1>6

\* A step keeps every position within the keys its account has bound.
LEMMA PositionsStayBound ==
    ASSUME TypeOK, TypeOK', WalletsInv, [Next]_vars, NEW q \in PositionIds'
    PROVE  /\ positions'[q].units \in 1 .. boundBalance'[positions'[q].account][positions'[q].key]
           /\ positions'[q].firstEligibleEpoch < positions'[q].lastEligibleEpochExclusive
  <1> DEFINE a == positions'[q].account
             k == positions'[q].key
  <1>1. a \in Accounts /\ k \in Keys /\ positions'[q].units \in Nat
    BY DEF TypeOK, Position
  <1>2. /\ boundBalance[a][k] \in Nat /\ boundBalance'[a][k] \in Nat
        /\ boundBalance[a][k] <= boundBalance'[a][k]
    BY <1>1, KeysStayBound DEF TypeOK
  <1> SUFFICES /\ positions'[q].units \in 1 .. boundBalance[a][k]
               /\ positions'[q].firstEligibleEpoch < positions'[q].lastEligibleEpochExclusive
    BY <1>1, <1>2
  <1>3. ASSUME NEW b \in Accounts, NEW m \in Keys, NEW u \in Nat, NEW t \in Terms,
               Opens(b, m, u, t)
        PROVE  /\ positions'[q].units \in 1 .. boundBalance[a][k]
               /\ positions'[q].firstEligibleEpoch < positions'[q].lastEligibleEpochExclusive
    <2>1. CASE q = nextPositionId
      <3>1. positions'[q] = NewPosition(b, m, u, t)
        BY <1>3, <2>1, OpenedPosition
      <3>2. OpenPosition(b, m, u, t)
        BY <1>3 DEF Opens
      <3> QED
        BY <3>1, <3>2, OpenedWithBoundKeys
    <2>2. CASE q # nextPositionId
      <3>1. q \in PositionIds /\ positions'[q] = positions[q]
        BY <1>3, <2>2, OpenedPosition
      <3> QED
        BY <3>1 DEF WalletsInv
    <2> QED
      BY <2>1, <2>2
  <1>4. ASSUME NEW b \in Accounts, NEW p \in PositionIds, Frees(b, p)
        PROVE  /\ positions'[q].units \in 1 .. boundBalance[a][k]
               /\ positions'[q].firstEligibleEpoch < positions'[q].lastEligibleEpochExclusive
    <2>1. q \in PositionIds
      BY <1>4 DEF Frees, PositionIds
    <2>2. positions[q] \in Position
      BY <2>1 DEF TypeOK
    <2>3. /\ positions'[q].account = positions[q].account /\ positions'[q].key = positions[q].key
          /\ positions'[q].units = positions[q].units
          /\ positions'[q].firstEligibleEpoch = positions[q].firstEligibleEpoch
          /\ positions'[q].lastEligibleEpochExclusive = positions[q].lastEligibleEpochExclusive
      BY <1>4, <2>1, <2>2 DEF Frees, TypeOK, Position
    <2> QED
      BY <2>1, <2>3 DEF WalletsInv
  <1>5. CASE KeepsPositions
    BY <1>5 DEF KeepsPositions, PositionIds, WalletsInv
  <1> QED
    BY <1>3, <1>4, <1>5, PositionStep

(* No wallet's reinvested rewards exceed its claimed ones, and every       *)
(* position is backed by keys its account has bound.                       *)
THEOREM WalletsInvariant == Spec => []WalletsInv
  <1>1. Init => WalletsInv
    BY DEF Init, BooksInit, WalletsInv, PositionIds
  <1>2. TypeOK /\ TypeOK' /\ WalletsInv /\ [Next]_vars => WalletsInv'
    <2> SUFFICES ASSUME TypeOK, TypeOK', WalletsInv, [Next]_vars
                 PROVE  WalletsInv'
      OBVIOUS
    <2>1. ASSUME NEW a \in Accounts
          PROVE  accountRewardsReinvested'[a] <= accountRewardsClaimed'[a]
      <3>0. /\ accountRewardsReinvested[a] \in Nat /\ accountRewardsClaimed[a] \in Nat
            /\ accountRewardsReinvested[a] <= accountRewardsClaimed[a]
        BY DEF TypeOK, WalletsInv
      <3>1. ASSUME NEW b \in Accounts, NEW p \in PositionIds, ClaimPositionRewards(b, p)
            PROVE  accountRewardsReinvested'[a] <= accountRewardsClaimed'[a]
        <4> DEFINE g == pendingPositionRewards(p, "global")
                   kw == pendingPositionRewards(p, "key")
        <4>1. SettleClaim(b, p, g, kw) /\ accountRewardsReinvested' = accountRewardsReinvested
          BY <3>1 DEF ClaimPositionRewards
        <4> HIDE DEF g, kw
        <4>2. g \in Nat /\ kw \in Nat
          BY <4>1, SettleClaimType
        <4>3. accountRewardsClaimed' = [accountRewardsClaimed EXCEPT ![b] = @ + (g + kw)]
          BY <4>1 DEF SettleClaim
        <4>4. accountRewardsClaimed'[a] = IF a = b THEN accountRewardsClaimed[a] + (g + kw)
                                                   ELSE accountRewardsClaimed[a]
          BY <4>3 DEF TypeOK
        <4> QED
          BY <3>0, <4>1, <4>2, <4>4
      <3>2. ASSUME NEW b \in Accounts, NEW p \in PositionIds, NEW k \in Keys,
                   NEW u \in 1 .. MaxUnits, NEW t \in Terms, NEW spend \in 1 .. 2 * MaxNotified,
                   NEW surplus \in 0 .. 1,
                   ClaimBuyAndBond(b, p, spend, k, u, t, u * UnitSize, u * UnitSize + surplus)
            PROVE  accountRewardsReinvested'[a] <= accountRewardsClaimed'[a]
        <4> DEFINE g == pendingPositionRewards(p, "global")
                   kw == pendingPositionRewards(p, "key")
        <4>1. SettleClaim(b, p, g, kw) /\ spend <= g + kw
          BY <3>2 DEF ClaimBuyAndBond
        <4>2. accountRewardsReinvested' = [accountRewardsReinvested EXCEPT ![b] = @ + spend]
          BY <3>2 DEF ClaimBuyAndBond
        <4> HIDE DEF g, kw
        <4>3. g \in Nat /\ kw \in Nat /\ spend \in Nat
          BY <4>1, SettleClaimType, AgentBondAssumption
        <4>4. accountRewardsClaimed' = [accountRewardsClaimed EXCEPT ![b] = @ + (g + kw)]
          BY <4>1 DEF SettleClaim
        <4>5. /\ accountRewardsClaimed'[a] = IF a = b THEN accountRewardsClaimed[a] + (g + kw)
                                                      ELSE accountRewardsClaimed[a]
              /\ accountRewardsReinvested'[a] = IF a = b THEN accountRewardsReinvested[a] + spend
                                                         ELSE accountRewardsReinvested[a]
          BY <4>2, <4>4 DEF TypeOK
        <4> QED
          BY <3>0, <4>1, <4>3, <4>5
      <3>3. CASE UNCHANGED <<accountRewardsReinvested, accountRewardsClaimed>>
        BY <3>0, <3>3
      <3> QED
        BY <3>1, <3>2, <3>3
        DEF Next, Govern, HolderStep, Notify, TransferOwnership, SetKeyRegistry,
            SetRewardNotifier, Activate, Pause, AdvanceClock, BindKeys, BondWithTerm,
            NotifyReward, UnbondPosition, nonGovVars, ledgerVars, vars
    <2>2. \A q \in PositionIds' :
             /\ positions'[q].units
                   \in 1 .. boundBalance'[positions'[q].account][positions'[q].key]
             /\ positions'[q].firstEligibleEpoch < positions'[q].lastEligibleEpochExclusive
      BY PositionsStayBound
    <2> QED
      BY <2>1, <2>2 DEF WalletsInv
  <1> QED
    BY <1>1, <1>2, TypeCorrect, PTL DEF Spec

\* What the ledger holds of all streams together.
TotalsInv ==
    /\ totalRewardsNotified = SumFunctionOnSet(totalNotified, Streams)
    /\ totalRewardsClaimed = SumFunctionOnSet(totalClaimed, Streams)

\* There are finitely many streams.
LEMMA FiniteStreams == IsFiniteSet(Streams) /\ GlobalStream \in Streams /\ Keys \subseteq Streams
  <1>1. IsFiniteSet(Keys \cup {GlobalStream})
    BY AgentBondAssumption, FS_AddElement
  <1>2. Streams = Keys \cup {GlobalStream}
    BY DEF Streams
  <1> QED
    BY <1>1, <1>2

(* The ledger's totals are the sums of what its streams were notified and  *)
(* have paid.                                                              *)
THEOREM TotalsInvariant == Spec => []TotalsInv
  <1>1. Init => TotalsInv
    <2> SUFFICES ASSUME Init
                 PROVE  TotalsInv
      OBVIOUS
    <2>1. /\ totalNotified = [s \in Streams |-> 0] /\ totalClaimed = [s \in Streams |-> 0]
          /\ totalRewardsNotified = 0 /\ totalRewardsClaimed = 0
      BY DEF Init, BooksInit
    <2>2. (\A s \in Streams : totalNotified[s] = 0) /\ (\A s \in Streams : totalClaimed[s] = 0)
      BY <2>1
    <2> QED
      BY <2>1, <2>2, SumZero, FiniteStreams DEF TotalsInv
  <1>2. TypeOK /\ TypeOK' /\ TotalsInv /\ [Next]_vars => TotalsInv'
    <2> SUFFICES ASSUME TypeOK, TypeOK', TotalsInv, [Next]_vars
                 PROVE  TotalsInv'
      OBVIOUS
    <2>0. /\ totalNotified \in [Streams -> Nat] /\ totalNotified' \in [Streams -> Nat]
          /\ totalClaimed \in [Streams -> Nat] /\ totalClaimed' \in [Streams -> Nat]
          /\ totalRewardsNotified \in Nat /\ totalRewardsClaimed \in Nat
          /\ totalRewardsNotified = SumFunctionOnSet(totalNotified, Streams)
          /\ totalRewardsClaimed = SumFunctionOnSet(totalClaimed, Streams)
      BY DEF TypeOK, TotalsInv
    <2>1. ASSUME NEW n \in Notifiers, NEW s \in Streams, NEW e \in Epochs, NEW amount \in Rewards,
                 NotifyReward(n, s, e, amount)
          PROVE  TotalsInv'
      <3>1. amount \in Int
        BY AgentBondAssumption
      <3>2. /\ totalNotified' = [totalNotified EXCEPT ![s] = @ + amount]
            /\ totalRewardsNotified' = totalRewardsNotified + amount
            /\ totalClaimed' = totalClaimed /\ totalRewardsClaimed' = totalRewardsClaimed
        BY <2>1 DEF NotifyReward
      <3>3. /\ totalNotified'[s] = totalNotified[s] + amount
            /\ \A r \in Streams \ {s} : totalNotified'[r] = totalNotified[r]
        BY <2>0, <3>2
      <3>4. SumFunctionOnSet(totalNotified', Streams)
                = SumFunctionOnSet(totalNotified, Streams) + amount
        BY <2>0, <3>1, <3>3, FiniteStreams, BookMoves
      <3> QED
        BY <2>0, <3>2, <3>4 DEF TotalsInv
    <2>2. ASSUME NEW a \in Accounts, NEW p \in PositionIds, NEW g, NEW kw, SettleClaim(a, p, g, kw)
          PROVE  TotalsInv'
      <3> DEFINE k == positions[p].key
                 paid == [totalClaimed EXCEPT ![GlobalStream] = @ + g]
      <3>1. g \in Nat /\ kw \in Nat /\ k \in Keys
        BY <2>2, SettleClaimType DEF TypeOK, Position
      <3>2. /\ totalClaimed' = [totalClaimed EXCEPT ![GlobalStream] = @ + g, ![k] = @ + kw]
            /\ totalRewardsClaimed' = totalRewardsClaimed + (g + kw)
            /\ totalNotified' = totalNotified /\ totalRewardsNotified' = totalRewardsNotified
        BY <2>2 DEF SettleClaim
      <3>3. k # GlobalStream /\ k \in Streams
        BY <3>1, FiniteStreams, AgentBondAssumption
      <3>4. /\ paid \in [Streams -> Nat]
            /\ paid[GlobalStream] = totalClaimed[GlobalStream] + g
            /\ \A r \in Streams \ {GlobalStream} : paid[r] = totalClaimed[r]
        BY <2>0, <3>1, FiniteStreams
      <3>5. /\ totalClaimed'[k] = paid[k] + kw
            /\ \A r \in Streams \ {k} : totalClaimed'[r] = paid[r]
        BY <2>0, <3>2, <3>3, FiniteStreams
      <3> HIDE DEF k, paid
      <3>6. /\ SumFunctionOnSet(totalClaimed, Streams) \in Int
            /\ SumFunctionOnSet(paid, Streams) = SumFunctionOnSet(totalClaimed, Streams) + g
        <4>1. /\ totalClaimed \in [Streams -> Nat] /\ g \in Int
              /\ IsFiniteSet(Streams) /\ GlobalStream \in Streams
          BY <2>0, <3>1, FiniteStreams
        <4> QED
          BY ONLY <4>1, <3>4, BookMoves
      <3>7. SumFunctionOnSet(totalClaimed', Streams) = SumFunctionOnSet(paid, Streams) + kw
        BY <2>0, <3>1, <3>3, <3>4, <3>5, FiniteStreams, BookMoves
      <3>8. SumFunctionOnSet(totalClaimed', Streams)
                = SumFunctionOnSet(totalClaimed, Streams) + (g + kw)
        BY <3>1, <3>6, <3>7
      <3> QED
        BY <2>0, <3>2, <3>8 DEF TotalsInv
    <2>3. CASE UNCHANGED <<totalRewardsNotified, totalRewardsClaimed, totalNotified, totalClaimed>>
      BY <2>3 DEF TotalsInv
    <2>4. ASSUME NEW a \in Accounts, NEW p \in PositionIds, ClaimPositionRewards(a, p)
          PROVE  TotalsInv'
      BY <2>2, <2>4 DEF ClaimPositionRewards
    <2>5. ASSUME NEW a \in Accounts, NEW p \in PositionIds, NEW k \in Keys,
                 NEW u \in 1 .. MaxUnits, NEW t \in Terms, NEW spend \in 1 .. 2 * MaxNotified,
                 NEW surplus \in 0 .. 1,
                 ClaimBuyAndBond(a, p, spend, k, u, t, u * UnitSize, u * UnitSize + surplus)
          PROVE  TotalsInv'
      BY <2>2, <2>5 DEF ClaimBuyAndBond
    <2> QED
      BY <2>1, <2>3, <2>4, <2>5
      DEF Next, Govern, HolderStep, Notify, TransferOwnership, SetKeyRegistry,
          SetRewardNotifier, Activate, Pause, AdvanceClock, BindKeys, BondWithTerm,
          UnbondPosition, nonGovVars, ledgerVars, vars
  <1> QED
    BY <1>1, <1>2, TypeCorrect, PTL DEF Spec

(* What an epoch that is not over has paid is nothing.                     *)
LEMMA NothingPaidYet ==
    ASSUME TypeOK, OnlyCompletedEpochsArePaid, NEW p \in PositionIds, NEW kind \in Kinds,
           currentEpoch <= positions[p].firstEligibleEpoch
    PROVE  pendingPositionRewards(p, kind) = 0
  <1>1. positions[p] \in Position /\ currentEpoch \in Int
    BY DEF TypeOK, currentEpoch, EPOCH_DURATION
  <1>2. StreamOf(p, kind) \in Streams
    BY <1>1 DEF StreamOf, Streams, Position
  <1>3. ASSUME NEW e \in EligibleEpochs(positions[p])
        PROVE  Unclaimed(p, kind)[e] = 0
    <2>1. e \in Epochs /\ e \in Nat /\ positions[p].firstEligibleEpoch <= e
      BY FiniteEpochs DEF EligibleEpochs
    <2>2. e >= currentEpoch
      BY <1>1, <2>1 DEF Position
    <2>3. rewardPerWeightAtEpoch[StreamOf(p, kind)][e] = 0
      BY <1>2, <2>1, <2>2 DEF OnlyCompletedEpochsArePaid
    <2>4. positions[p].rewardWeight * 0 = 0 /\ 0 \div Precision = 0
      BY <1>1, AgentBondAssumption DEF Position
    <2>5. Entitlement(p, kind, e) = 0
      BY <2>3, <2>4 DEF Entitlement
    <2>6. claimedByEpoch[p][kind][e] \in Nat
      BY <2>1 DEF TypeOK
    <2> QED
      BY <2>5, <2>6 DEF Unclaimed
  <1>4. IsFiniteSet(EligibleEpochs(positions[p]))
    BY FiniteEpochs DEF EligibleEpochs
  <1> QED
    BY <1>3, <1>4, SumZero DEF pendingPositionRewards

\* An epoch's first day comes no later than a day if the epoch is not after it.
LEMMA EpochStarts ==
    ASSUME NEW day \in Nat, NEW e \in Nat
    PROVE  /\ day \div 7 \in Nat
           /\ e <= day \div 7 <=> e * 7 <= day
           /\ day \div 7 < e <=> day < e * 7
           /\ (day + 6) \div 7 \in Nat /\ day <= ((day + 6) \div 7) * 7
           /\ (day \div 7) * 7 <= day
  OBVIOUS

\* The dates the page is given, in their order, and what they say of the epochs.
LEMMA DatesShown ==
    ASSUME TypeOK, PositionsInv, WalletsInv, NEW p \in PositionIds
    PROVE  LET shown == EarnPosition(p)
           IN  /\ {shown.maturesAt, shown.eligibleFrom, shown.eligibleUntil, shown.unlockAt} \subseteq Nat
               /\ shown.withdrawn = positions[p].withdrawn /\ shown.withdrawn \in BOOLEAN
               /\ shown.unlockAt = positions[p].unlockAt
               /\ DatesInOrder(shown)
               /\ currentEpoch \in EligibleEpochs(positions[p])
                     <=> shown.eligibleFrom <= now /\ now < shown.eligibleUntil
               /\ now < shown.eligibleFrom => currentEpoch <= positions[p].firstEligibleEpoch
               /\ shown.withdrawn => shown.unlockAt <= now
  <1> DEFINE f == positions[p].firstEligibleEpoch
             l == positions[p].lastEligibleEpochExclusive
             m == positions[p].maturesAt
             u == positions[p].unlockAt
             shown == EarnPosition(p)
  <1>1. f \in Nat /\ l \in Nat /\ m \in Nat /\ u \in Nat /\ positions[p].withdrawn \in BOOLEAN
    BY DEF TypeOK, Position
  <1>2. f = (m + 6) \div 7 /\ l = u \div 7 /\ f < l /\ (positions[p].withdrawn => u <= now)
    BY DEF PositionsInv, WellTimed, WalletsInv
  <1>3. now \in Nat /\ now <= Horizon /\ Horizon \in Nat
    BY AgentBondAssumption DEF TypeOK
  <1>4. /\ shown.maturesAt = m /\ shown.unlockAt = u /\ shown.withdrawn = positions[p].withdrawn
        /\ shown.eligibleFrom = f * 7 /\ shown.eligibleUntil = l * 7
    BY DEF EarnPosition, EPOCH_DURATION
  <1>5. currentEpoch = now \div 7 /\ Epochs = 0 .. Horizon \div 7
    BY DEF currentEpoch, Epochs, EPOCH_DURATION
  <1>6. currentEpoch \in EligibleEpochs(positions[p])
            <=> currentEpoch \in Epochs /\ f <= currentEpoch /\ currentEpoch < l
    BY DEF EligibleEpochs
  <1> HIDE DEF f, l, m, u, shown
  <1>7. m <= f * 7 /\ f * 7 < l * 7 /\ l * 7 <= u /\ f * 7 \in Nat /\ l * 7 \in Nat
    BY <1>1, <1>2, EpochStarts
  <1>8. /\ currentEpoch \in Nat
        /\ f <= currentEpoch <=> f * 7 <= now
        /\ currentEpoch < l <=> now < l * 7
    BY <1>1, <1>3, <1>5, EpochStarts
  <1>9. currentEpoch \in Epochs
    <2>1. now \div 7 \in Nat /\ Horizon \div 7 \in Nat /\ now \div 7 <= Horizon \div 7
      BY <1>3
    <2> QED
      BY <1>5, <2>1
  <1>10. DatesInOrder(shown)
    BY <1>4, <1>7 DEF DatesInOrder
  <1>11. /\ currentEpoch \in EligibleEpochs(positions[p])
               <=> shown.eligibleFrom <= now /\ now < shown.eligibleUntil
         /\ now < shown.eligibleFrom => currentEpoch <= f
    BY <1>1, <1>3, <1>4, <1>6, <1>7, <1>8, <1>9
  <1> QED
    BY <1>1, <1>2, <1>4, <1>7, <1>10, <1>11 DEF f, l, m, u, shown

\* The phase of a position whose dates are in order, case by case.
LEMMA Phases ==
    ASSUME now \in Nat, NEW pos,
           {pos.maturesAt, pos.eligibleFrom, pos.eligibleUntil, pos.unlockAt} \subseteq Nat,
           DatesInOrder(pos), ~pos.withdrawn
    PROVE  LET phase == getEarnPositionPhase(pos)
           IN  /\ phase = ControlState(pos)
               /\ phase # "unavailable"
               /\ phase = "unlocked" <=> pos.unlockAt <= now
               /\ phase = "eligible" <=> pos.eligibleFrom <= now /\ now < pos.eligibleUntil
               /\ phase \in {"maturing", "waiting_for_epoch"} => now < pos.eligibleFrom
  <1>1. /\ pos.maturesAt \in Nat /\ pos.eligibleFrom \in Nat /\ pos.eligibleUntil \in Nat
        /\ pos.unlockAt \in Nat
        /\ pos.maturesAt <= pos.eligibleFrom /\ pos.eligibleFrom < pos.eligibleUntil
        /\ pos.eligibleUntil <= pos.unlockAt
    BY DEF DatesInOrder
  <1>2. CASE pos.unlockAt <= now
    <2>1. getEarnPositionPhase(pos) = "unlocked"
      BY <1>1, <1>2 DEF getEarnPositionPhase, Within
    <2>2. ControlState(pos) = "unlocked"
      BY <1>1, <1>2 DEF ControlState, Within
    <2> QED
      BY <1>1, <1>2, <2>1, <2>2
  <1>3. CASE pos.eligibleUntil <= now /\ now < pos.unlockAt
    <2>1. getEarnPositionPhase(pos) = "eligibility_complete"
      BY <1>1, <1>3 DEF getEarnPositionPhase, Within
    <2>2. ControlState(pos) = "eligibility_complete"
      BY <1>1, <1>3 DEF ControlState, Within
    <2> QED
      BY <1>1, <1>3, <2>1, <2>2
  <1>4. CASE pos.eligibleFrom <= now /\ now < pos.eligibleUntil
    <2>1. getEarnPositionPhase(pos) = "eligible"
      BY <1>1, <1>4 DEF getEarnPositionPhase, Within
    <2>2. ControlState(pos) = "eligible"
      BY <1>1, <1>4 DEF ControlState, Within
    <2> QED
      BY <1>1, <1>4, <2>1, <2>2
  <1>5. CASE pos.maturesAt <= now /\ now < pos.eligibleFrom
    <2>1. getEarnPositionPhase(pos) = "waiting_for_epoch"
      BY <1>1, <1>5 DEF getEarnPositionPhase, Within
    <2>2. ControlState(pos) = "waiting_for_epoch"
      BY <1>1, <1>5 DEF ControlState, Within
    <2> QED
      BY <1>1, <1>5, <2>1, <2>2
  <1>6. CASE now < pos.maturesAt
    <2>1. getEarnPositionPhase(pos) = "maturing"
      BY <1>1, <1>6 DEF getEarnPositionPhase, Within
    <2>2. ControlState(pos) = "maturing"
      BY <1>1, <1>6 DEF ControlState, Within
    <2> QED
      BY <1>1, <1>6, <2>1, <2>2
  <1> QED
    BY <1>1, <1>2, <1>3, <1>4, <1>5, <1>6

(* The page's phase is the contract's.                                     *)
LEMMA PhaseShown ==
    ASSUME TypeOK, PositionsInv, WalletsInv, OnlyCompletedEpochsArePaid, NEW p \in PositionIds
    PROVE  /\ PhaseIsTrue(p, EarnPosition(p))
           /\ ~EarnPosition(p).withdrawn
                  => (getEarnPositionPhase(EarnPosition(p)) = "unlocked"
                          <=> positions[p].unlockAt <= now)
           /\ EarnPosition(p).withdrawn = positions[p].withdrawn
           /\ EarnPosition(p).unlockAt = positions[p].unlockAt
  <1> DEFINE shown == EarnPosition(p)
             phase == getEarnPositionPhase(shown)
  <1>0. now \in Nat
    BY DEF TypeOK
  <1>1. /\ {shown.maturesAt, shown.eligibleFrom, shown.eligibleUntil, shown.unlockAt} \subseteq Nat
        /\ shown.withdrawn = positions[p].withdrawn /\ shown.withdrawn \in BOOLEAN
        /\ shown.unlockAt = positions[p].unlockAt
        /\ DatesInOrder(shown)
        /\ currentEpoch \in EligibleEpochs(positions[p])
              <=> shown.eligibleFrom <= now /\ now < shown.eligibleUntil
        /\ now < shown.eligibleFrom => currentEpoch <= positions[p].firstEligibleEpoch
        /\ shown.withdrawn => shown.unlockAt <= now
    BY DatesShown
  <1>2. now < shown.eligibleFrom => shown.claimable = 0
    <2>1. shown.claimable = pendingPositionRewards(p, "global") + pendingPositionRewards(p, "key")
      BY DEF EarnPosition
    <2>2. "global" \in Kinds /\ "key" \in Kinds
      BY DEF Kinds
    <2> QED
      BY <1>1, <2>1, <2>2, NothingPaidYet
  <1>p. PhaseIsTrue(p, shown) <=>
           /\ phase # "unavailable"
           /\ phase = ControlState(shown)
           /\ phase = "eligible" <=> currentEpoch \in EligibleEpochs(positions[p])
           /\ phase \in {"maturing", "waiting_for_epoch"} => shown.claimable = 0
    BY DEF PhaseIsTrue
  <1>3. ASSUME shown.withdrawn
        PROVE  PhaseIsTrue(p, shown)
    <2>1. phase = "withdrawn" /\ ControlState(shown) = "withdrawn"
      BY <1>1, <1>3 DEF getEarnPositionPhase, ControlState
    <2>2. ~(shown.eligibleFrom <= now /\ now < shown.eligibleUntil)
      BY <1>0, <1>1, <1>3 DEF DatesInOrder
    <2> HIDE DEF shown, phase
    <2> QED
      BY <1>1, <1>p, <2>1, <2>2
  <1>4. ASSUME ~shown.withdrawn
        PROVE  PhaseIsTrue(p, shown) /\ (phase = "unlocked" <=> shown.unlockAt <= now)
    <2> HIDE DEF shown
    <2>1. /\ phase = ControlState(shown)
          /\ phase # "unavailable"
          /\ phase = "unlocked" <=> shown.unlockAt <= now
          /\ phase = "eligible" <=> shown.eligibleFrom <= now /\ now < shown.eligibleUntil
          /\ phase \in {"maturing", "waiting_for_epoch"} => now < shown.eligibleFrom
      BY <1>0, <1>1, <1>4, Phases
    <2> HIDE DEF phase
    <2> QED
      BY <1>1, <1>2, <1>p, <1>4, <2>1
  <1> QED
    BY <1>1, <1>3, <1>4

\* What one member gives is at most what all give.
LEMMA SumMember ==
    ASSUME NEW f, NEW S, IsFiniteSet(S), \A y \in S : f[y] \in Nat, NEW x \in S
    PROVE  f[x] <= SumFunctionOnSet(f, S) /\ SumFunctionOnSet(f, S) \in Nat
  <1>1. \A y \in S : f[y] \in Int
    OBVIOUS
  <1>2. SumFunctionOnSet(f, S) = f[x] + SumFunctionOnSet(f, S \ {x})
    BY <1>1, SumRemove
  <1>3. IsFiniteSet(S \ {x}) /\ \A y \in S \ {x} : f[y] \in Nat
    BY FS_RemoveElement
  <1>4. SumFunctionOnSet(f, S \ {x}) \in Nat /\ f[x] \in Nat
    BY <1>3, SumNat
  <1> QED
    BY <1>2, <1>4

\* Two members of a sum of natural numbers are at most the whole.
LEMMA SumTwoMembers ==
    ASSUME NEW f, NEW S, IsFiniteSet(S), \A y \in S : f[y] \in Nat, NEW x \in S, NEW z \in S, x # z
    PROVE  f[x] + f[z] <= SumFunctionOnSet(f, S)
  <1>1. \A y \in S : f[y] \in Int
    OBVIOUS
  <1>2. SumFunctionOnSet(f, S) = f[x] + SumFunctionOnSet(f, S \ {x})
    BY <1>1, SumRemove
  <1>3. IsFiniteSet(S \ {x}) /\ z \in S \ {x} /\ \A y \in S \ {x} : f[y] \in Nat
    BY FS_RemoveElement
  <1>4. f[z] <= SumFunctionOnSet(f, S \ {x}) /\ SumFunctionOnSet(f, S \ {x}) \in Nat
    BY ONLY <1>3, SumMember
  <1>5. f[x] \in Nat /\ f[z] \in Nat
    OBVIOUS
  <1> QED
    BY <1>2, <1>4, <1>5

(* A claim that is worth anything is never refused: the contract owes, to  *)
(* the stream and in total, and holds at least what the claim pays.        *)
LEMMA ClaimIsCovered ==
    ASSUME TypeOK, ClaimsAreCovered, LiabilityIsBacked, TotalsInv, NEW p \in PositionIds
    PROVE  LET g == pendingPositionRewards(p, "global")
               k == pendingPositionRewards(p, "key")
           IN  /\ g \in Nat /\ k \in Nat
               /\ g + k <= rewardLiability
               /\ k <= keyRewardLiability[positions[p].key]
               /\ wethHeld = rewardLiability
  <1> DEFINE left == [s \in Streams |-> totalNotified[s] - totalClaimed[s]]
             key == positions[p].key
  <1>1. key \in Keys /\ key \in Streams /\ GlobalStream \in Streams /\ key # GlobalStream
    BY FiniteStreams, AgentBondAssumption DEF TypeOK, Position
  <1>2. \A s \in Streams : totalNotified[s] \in Nat /\ totalClaimed[s] \in Nat
    BY DEF TypeOK
  <1>3. ASSUME NEW s \in Streams
        PROVE  /\ left[s] \in Nat
               /\ p \in ClaimantsOf(s) => pendingPositionRewards(p, KindOf(s)) <= left[s]
    <2> DEFINE C == ClaimantsOf(s)
               f == [q \in PositionIds |-> pendingPositionRewards(q, KindOf(s))]
    <2>1. IsFiniteSet(C) /\ C \subseteq PositionIds
      BY FinitePositions, C \subseteq PositionIds DEF ClaimantsOf, TypeOK
    <2>2. \A q \in C : f[q] \in Nat
      BY <2>1, PendingIsGain DEF KindOf, Kinds
    <2>3. SumFunctionOnSet(f, C) <= left[s]
      BY DEF ClaimsAreCovered
    <2>4. left[s] \in Int
      BY <1>2
    <2>5. p \in C => f[p] = pendingPositionRewards(p, KindOf(s))
      OBVIOUS
    <2> HIDE DEF C, f, left
    <2>6. SumFunctionOnSet(f, C) \in Nat /\ (p \in C => f[p] <= SumFunctionOnSet(f, C) /\ f[p] \in Nat)
      BY <2>1, <2>2, SumNat, SumMember
    <2> QED
      BY <2>3, <2>4, <2>5, <2>6 DEF C
  <1>4. p \in ClaimantsOf(GlobalStream) /\ p \in ClaimantsOf(key)
    BY DEF ClaimantsOf
  <1>5. KindOf(GlobalStream) = "global" /\ KindOf(key) = "key"
    BY <1>1 DEF KindOf
  <1>6. /\ pendingPositionRewards(p, "global") \in Nat /\ pendingPositionRewards(p, "key") \in Nat
    BY PendingIsGain DEF Kinds
  <1>7. \A s \in Streams : totalNotified[s] = left[s] + totalClaimed[s]
    BY <1>2
  <1>8. left[key] = keyRewardLiability[key] /\ keyRewardLiability[key] \in Nat
    <2>1. keyRewardLiability[key] \in Nat /\ keyRewardLiability[key] + totalClaimed[key] = totalNotified[key]
      BY <1>1 DEF TypeOK, LiabilityIsBacked
    <2> QED
      BY <1>1, <1>2, <2>1
  <1> HIDE DEF left, key
  <1>9. /\ SumFunctionOnSet(totalNotified, Streams)
               = SumFunctionOnSet(left, Streams) + SumFunctionOnSet(totalClaimed, Streams)
    <2>1. \A s \in Streams : left[s] \in Int /\ totalClaimed[s] \in Int
                             /\ totalNotified[s] = left[s] + totalClaimed[s]
      BY <1>2, <1>3, <1>7
    <2> QED
      BY <2>1, FiniteStreams, SumPlus
  <1>10. left[GlobalStream] + left[key] <= SumFunctionOnSet(left, Streams)
    BY <1>1, <1>3, FiniteStreams, SumTwoMembers
  <1>11. SumFunctionOnSet(left, Streams) \in Nat
    BY <1>3, FiniteStreams, SumNat
  <1>12. SumFunctionOnSet(left, Streams) = rewardLiability /\ wethHeld = rewardLiability
    <2>1. /\ rewardLiability \in Nat /\ totalRewardsClaimed \in Nat
          /\ rewardLiability + totalRewardsClaimed = totalRewardsNotified
          /\ wethHeld = rewardLiability
      BY DEF TypeOK, LiabilityIsBacked
    <2>2. rewardLiability + totalRewardsClaimed = SumFunctionOnSet(left, Streams) + totalRewardsClaimed
      BY <1>9, <2>1 DEF TotalsInv
    <2> QED
      BY ONLY <1>11, <2>1, <2>2
  <1>13. /\ pendingPositionRewards(p, "global") <= left[GlobalStream]
         /\ pendingPositionRewards(p, "key") <= left[key]
         /\ left[GlobalStream] \in Nat /\ left[key] \in Nat
    BY <1>1, <1>3, <1>4, <1>5
  <1> QED
    BY <1>6, <1>8, <1>10, <1>11, <1>12, <1>13 DEF key

(* The units of a key are those of its holders.                            *)
KeyTotalsInv ==
    \A k \in Keys :
        totalRewardUnitsByKey[k] = SumFunctionOnSet([a \in Accounts |-> unitsByKey[a][k]], Accounts)

\* Units of one key that move in one account's book move in the key's total.
LEMMA MovedUnitsAddUp ==
    ASSUME TypeOK, TypeOK', KeyTotalsInv, NEW a \in Accounts, NEW k \in Keys, NEW d \in Int,
           unitsByKey' = [unitsByKey EXCEPT ![a] =
                             [unitsByKey[a] EXCEPT ![k] = unitsByKey[a][k] + d]],
           totalRewardUnitsByKey' =
               [totalRewardUnitsByKey EXCEPT ![k] = totalRewardUnitsByKey[k] + d]
    PROVE  KeyTotalsInv'
  <1>0. /\ unitsByKey \in [Accounts -> [Keys -> Nat]] /\ unitsByKey' \in [Accounts -> [Keys -> Nat]]
        /\ totalRewardUnitsByKey \in [Keys -> Nat] /\ IsFiniteSet(Accounts)
    BY AgentBondAssumption DEF TypeOK
  <1> SUFFICES ASSUME NEW m \in Keys
               PROVE  totalRewardUnitsByKey'[m]
                          = SumFunctionOnSet([b \in Accounts |-> unitsByKey'[b][m]], Accounts)
    BY DEF KeyTotalsInv
  <1> DEFINE before == [b \in Accounts |-> unitsByKey[b][m]]
             after  == [b \in Accounts |-> unitsByKey'[b][m]]
  <1>1. before \in [Accounts -> Nat] /\ after \in [Accounts -> Nat]
    BY <1>0
  <1>2. totalRewardUnitsByKey[m] = SumFunctionOnSet(before, Accounts)
    BY DEF KeyTotalsInv
  <1>3. ASSUME m = k
        PROVE  totalRewardUnitsByKey'[m] = SumFunctionOnSet(after, Accounts)
    <2>1. after[a] = before[a] + d /\ \A b \in Accounts \ {a} : after[b] = before[b]
      BY <1>0, <1>3
    <2>2. totalRewardUnitsByKey'[m] = totalRewardUnitsByKey[m] + d
      BY <1>0, <1>3
    <2> HIDE DEF before, after
    <2>3. SumFunctionOnSet(after, Accounts) = SumFunctionOnSet(before, Accounts) + d
      BY <1>0, <1>1, <2>1, BookMoves
    <2> QED
      BY <1>2, <2>2, <2>3
  <1>4. ASSUME m # k
        PROVE  totalRewardUnitsByKey'[m] = SumFunctionOnSet(after, Accounts)
    <2>1. \A b \in Accounts : unitsByKey'[b][m] = unitsByKey[b][m]
      <3>1. ASSUME NEW b \in Accounts, b = a
            PROVE  unitsByKey'[b][m] = unitsByKey[b][m]
        BY <1>0, <1>4, <3>1
      <3>2. ASSUME NEW b \in Accounts, b # a
            PROVE  unitsByKey'[b][m] = unitsByKey[b][m]
        BY <1>0, <3>2
      <3> QED
        BY <3>1, <3>2
    <2>2. after = before
      BY <2>1
    <2>3. totalRewardUnitsByKey'[m] = totalRewardUnitsByKey[m]
      BY <1>0, <1>4
    <2> QED
      BY <1>2, <2>2, <2>3
  <1> QED
    BY <1>3, <1>4

(* The units bonded against a key are the sum over its holders: no         *)
(* withdrawal of one holder can be refused for another's units.            *)
THEOREM KeyTotals == Spec => []KeyTotalsInv
  <1>1. Init => KeyTotalsInv
    <2> SUFFICES ASSUME Init, NEW k \in Keys
                 PROVE  totalRewardUnitsByKey[k]
                            = SumFunctionOnSet([a \in Accounts |-> unitsByKey[a][k]], Accounts)
      BY DEF KeyTotalsInv
    <2> DEFINE column == [a \in Accounts |-> unitsByKey[a][k]]
    <2>1. \A a \in Accounts : column[a] = 0
      BY DEF Init, BooksInit
    <2>2. totalRewardUnitsByKey[k] = 0
      BY DEF Init, BooksInit
    <2> HIDE DEF column
    <2>3. SumFunctionOnSet(column, Accounts) = 0
      BY <2>1, SumZero, AgentBondAssumption
    <2> QED
      BY <2>2, <2>3 DEF column
  <1>2. TypeOK /\ TypeOK' /\ KeyTotalsInv /\ [Next]_vars => KeyTotalsInv'
    <2> SUFFICES ASSUME TypeOK, TypeOK', KeyTotalsInv, [Next]_vars
                 PROVE  KeyTotalsInv'
      OBVIOUS
    <2>1. ASSUME NEW a \in Accounts, NEW k \in Keys, NEW u \in Nat, NEW t \in Terms,
                 OpenPosition(a, k, u, t)
          PROVE  KeyTotalsInv'
      <3>1. /\ unitsByKey' = [unitsByKey EXCEPT ![a] =
                                 [unitsByKey[a] EXCEPT ![k] = unitsByKey[a][k] + u]]
            /\ totalRewardUnitsByKey' =
                   [totalRewardUnitsByKey EXCEPT ![k] = totalRewardUnitsByKey[k] + u]
        BY <2>1 DEF OpenPosition
      <3>2. u \in Int
        OBVIOUS
      <3> QED
        BY <3>1, <3>2, MovedUnitsAddUp
    <2>2. ASSUME NEW a \in Accounts, NEW p \in PositionIds, UnbondPosition(a, p)
          PROVE  KeyTotalsInv'
      <3> DEFINE k == positions[p].key
                 u == positions[p].units
      <3>1. k \in Keys /\ u \in Nat /\ 0 - u \in Int
        BY DEF TypeOK, Position
      <3>2. /\ unitsByKey' = [unitsByKey EXCEPT ![a] =
                                 [unitsByKey[a] EXCEPT ![k] = unitsByKey[a][k] - u]]
            /\ totalRewardUnitsByKey' =
                   [totalRewardUnitsByKey EXCEPT ![k] = totalRewardUnitsByKey[k] - u]
        BY <2>2 DEF UnbondPosition
      <3>3. unitsByKey[a][k] \in Nat /\ totalRewardUnitsByKey[k] \in Nat
        BY <3>1 DEF TypeOK
      <3>4. \A i, j \in Int : i - j = i + (0 - j)
        OBVIOUS
      <3> HIDE DEF k, u
      <3>5. /\ unitsByKey[a][k] - u = unitsByKey[a][k] + (0 - u)
            /\ totalRewardUnitsByKey[k] - u = totalRewardUnitsByKey[k] + (0 - u)
        BY <3>1, <3>3, <3>4
      <3> QED
        BY <3>1, <3>2, <3>5, MovedUnitsAddUp
    <2>3. CASE UNCHANGED <<unitsByKey, totalRewardUnitsByKey>>
      BY <2>3 DEF KeyTotalsInv
    <2>4. ASSUME NEW a \in Accounts, NEW k \in Keys, NEW u \in 1 .. MaxUnits, NEW t \in Terms,
                 BondWithTerm(a, k, u, t)
          PROVE  KeyTotalsInv'
      BY <2>1, <2>4, AgentBondAssumption DEF BondWithTerm
    <2>5. ASSUME NEW a \in Accounts, NEW p \in PositionIds, NEW k \in Keys,
                 NEW u \in 1 .. MaxUnits, NEW t \in Terms, NEW spend \in 1 .. 2 * MaxNotified,
                 NEW surplus \in 0 .. 1,
                 ClaimBuyAndBond(a, p, spend, k, u, t, u * UnitSize, u * UnitSize + surplus)
          PROVE  KeyTotalsInv'
      BY <2>1, <2>5, AgentBondAssumption DEF ClaimBuyAndBond
    <2> QED
      BY <2>2, <2>3, <2>4, <2>5
      DEF Next, Govern, HolderStep, Notify, TransferOwnership, SetKeyRegistry,
          SetRewardNotifier, Activate, Pause, AdvanceClock, BindKeys, NotifyReward,
          ClaimPositionRewards, unitVars, nonGovVars, vars
  <1> QED
    BY <1>1, <1>2, TypeCorrect, PTL DEF Spec

\* The MUPPETS of fewer units are fewer MUPPETS.
LEMMA UnitsKeepOrder ==
    ASSUME NEW u \in Nat, NEW n \in Nat, u <= n
    PROVE  u * UnitSize <= UnitSize * n /\ u * UnitSize \in Nat /\ UnitSize * n \in Nat
  <1>1. UnitSize \in Nat
    BY AgentBondAssumption
  <1>2. UnitSize * u <= UnitSize * n /\ UnitSize * u \in Nat /\ UnitSize * n \in Nat
    BY <1>1, MulMonotone
  <1>3. u * UnitSize = UnitSize * u
    BY <1>1
  <1> QED
    BY <1>2, <1>3

(* An open position is in every book: none of the checked subtractions of  *)
(* its withdrawal can be refused.                                          *)
LEMMA OpenIsBacked ==
    ASSUME TypeOK, BondsAreBacked, KeyTotalsInv, NEW p \in PositionIds, ~positions[p].withdrawn
    PROVE  LET a == positions[p].account
               k == positions[p].key
               u == positions[p].units
           IN  /\ unitsByKey[a][k] >= u /\ rewardUnits[a] >= u /\ totalRewardUnits >= u
               /\ totalRewardUnitsByKey[k] >= u
               /\ bondedBalance[a] >= u * UnitSize
               /\ totalBondedMuppets >= u * UnitSize /\ muppetsHeld >= u * UnitSize
  <1> DEFINE a == positions[p].account
             k == positions[p].key
             u == positions[p].units
             column == [b \in Accounts |-> unitsByKey[b][k]]
  <1>0. IsFiniteSet(Accounts) /\ IsFiniteSet(Keys)
    BY AgentBondAssumption
  <1>1. a \in Accounts /\ k \in Keys /\ u \in Nat
    BY DEF TypeOK, Position
  <1>2. KeyUnits(a, k) /\ AccountUnits(a) /\ TotalUnits
    BY <1>1, BondsInParts
  <1>t. /\ \A m \in Keys : unitsByKey[a][m] \in Nat
        /\ \A b \in Accounts : rewardUnits[b] \in Nat /\ column[b] \in Nat
        /\ totalRewardUnits \in Nat /\ totalRewardUnitsByKey[k] \in Nat
    BY <1>1 DEF TypeOK
  <1>3. unitsByKey[a][k] >= u
    <2> DEFINE S == OpenPositions(a, k)
    <2>1. IsFiniteSet(S) /\ S \subseteq PositionIds /\ p \in S
      BY FinitePositions, S \subseteq PositionIds DEF OpenPositions, TypeOK
    <2>2. \A q \in S : UnitsOf[q] \in Nat
      BY <2>1 DEF UnitsOf, TypeOK, Position
    <2>3. UnitsOf[p] = u
      BY DEF UnitsOf
    <2> HIDE DEF S, u
    <2>4. u <= SumFunctionOnSet(UnitsOf, S) /\ SumFunctionOnSet(UnitsOf, S) \in Nat
      BY <2>1, <2>2, <2>3, SumMember
    <2> QED
      BY <1>1, <1>2, <2>4 DEF KeyUnits, S
  <1>4. unitsByKey[a][k] <= rewardUnits[a]
    BY <1>0, <1>1, <1>2, <1>t, SumMember DEF AccountUnits
  <1>5. rewardUnits[a] <= totalRewardUnits
    BY <1>0, <1>1, <1>2, <1>t, SumMember DEF TotalUnits
  <1>6. unitsByKey[a][k] <= totalRewardUnitsByKey[k]
    <2>1. totalRewardUnitsByKey[k] = SumFunctionOnSet(column, Accounts)
      BY <1>1 DEF KeyTotalsInv
    <2>2. column[a] = unitsByKey[a][k]
      BY <1>1
    <2> HIDE DEF column, a, k
    <2>3. column[a] <= SumFunctionOnSet(column, Accounts)
      BY <1>0, <1>1, <1>t, SumMember
    <2> QED
      BY <2>1, <2>2, <2>3
  <1> HIDE DEF a, k, u, column
  <1>7. /\ u <= rewardUnits[a] /\ u <= totalRewardUnits /\ u <= totalRewardUnitsByKey[k]
        /\ rewardUnits[a] \in Nat
    BY <1>1, <1>3, <1>4, <1>5, <1>6, <1>t
  <1>8. u * UnitSize <= UnitSize * rewardUnits[a] /\ u * UnitSize <= UnitSize * totalRewardUnits
    BY <1>1, <1>7, <1>t, UnitsKeepOrder
  <1>9. /\ bondedBalance[a] = UnitSize * rewardUnits[a]
        /\ totalBondedMuppets = UnitSize * totalRewardUnits /\ muppetsHeld = totalBondedMuppets
    BY <1>2 DEF AccountUnits, TotalUnits
  <1>10. u * UnitSize \in Nat /\ UnitSize * rewardUnits[a] \in Nat /\ UnitSize * totalRewardUnits \in Nat
    BY <1>1, <1>7, <1>t, UnitsKeepOrder
  <1>11. /\ bondedBalance[a] >= u * UnitSize
         /\ totalBondedMuppets >= u * UnitSize /\ muppetsHeld >= u * UnitSize
    BY <1>8, <1>9, <1>10
  <1>12. rewardUnits[a] >= u /\ totalRewardUnits >= u /\ totalRewardUnitsByKey[k] >= u
    BY <1>1, <1>7, <1>t
  <1> QED
    BY <1>3, <1>11, <1>12 DEF a, k, u

(* A claim or a withdrawal is offered exactly when its transaction would   *)
(* succeed.                                                                *)
LEMMA ButtonsShown ==
    ASSUME TypeOK, PositionsInv, WalletsInv, OnlyCompletedEpochsArePaid, ClaimsAreCovered,
           LiabilityIsBacked, TotalsInv, BondsAreBacked, KeyTotalsInv, NEW p \in PositionIds
    PROVE  ButtonsAreTrue(p, EarnPosition(p))
  <1> DEFINE shown == EarnPosition(p)
             account == positions[p].account
             g == pendingPositionRewards(p, "global")
             kw == pendingPositionRewards(p, "key")
  <1>1. /\ ~shown.withdrawn => (getEarnPositionPhase(shown) = "unlocked"
                                    <=> positions[p].unlockAt <= now)
        /\ shown.withdrawn = positions[p].withdrawn
        /\ shown.unlockAt = positions[p].unlockAt
    BY PhaseShown
  <1>2. shown.claimable = g + kw /\ shown.account = account
    BY DEF EarnPosition
  <1>3. ClaimOffered(shown) <=> CanSettle(account, p, g, kw)
    <2>1. /\ g \in Nat /\ kw \in Nat
          /\ g + kw <= rewardLiability
          /\ kw <= keyRewardLiability[positions[p].key]
          /\ wethHeld = rewardLiability
      BY ClaimIsCovered
    <2>2. rewardLiability \in Nat /\ keyRewardLiability[positions[p].key] \in Nat
      BY DEF TypeOK, Position
    <2> HIDE DEF g, kw
    <2>3. /\ g \in 0 .. rewardLiability /\ kw \in 0 .. keyRewardLiability[positions[p].key]
          /\ wethHeld >= g + kw /\ (g + kw \in 1 .. rewardLiability <=> g + kw # 0)
      BY <2>1, <2>2
    <2>4. CanSettle(account, p, g, kw) <=> g + kw # 0
      BY <2>3 DEF CanSettle
    <2> QED
      BY <1>2, <2>4 DEF ClaimOffered
  <1>4. unlockReady(shown) <=> WithdrawOffered(shown)
    BY <1>1 DEF unlockReady, WithdrawOffered
  <1>5. WithdrawOffered(shown) <=> CanUnbond(account, p)
    <2>1. WithdrawOffered(shown) <=> ~positions[p].withdrawn /\ positions[p].unlockAt <= now
      BY <1>1 DEF WithdrawOffered
    <2>2. ASSUME ~positions[p].withdrawn, positions[p].unlockAt <= now
          PROVE  CanUnbond(account, p)
      <3>1. positions[p].unlockAt \in Nat /\ now \in Nat
        BY DEF TypeOK, Position
      <3>2. Unlocked(positions[p])
        BY <2>2, <3>1 DEF Unlocked
      <3> QED
        BY <2>2, <3>2, OpenIsBacked DEF CanUnbond
    <2>3. ASSUME CanUnbond(account, p)
          PROVE  ~positions[p].withdrawn /\ positions[p].unlockAt <= now
      <3>1. positions[p].unlockAt \in Nat /\ now \in Nat
        BY DEF TypeOK, Position
      <3> QED
        BY <2>3, <3>1 DEF CanUnbond, Unlocked
    <2> QED
      BY <2>1, <2>2, <2>3
  <1> QED
    BY <1>2, <1>3, <1>4, <1>5 DEF ButtonsAreTrue

\* What is staked is what the open positions hold.
LEMMA StakedShown ==
    ASSUME TypeOK, BondsAreBacked, NEW account \in Accounts
    PROVE  bondedBalance[account]
               = SumFunctionOnSet([p \in PositionIds |-> EarnPosition(p).muppets],
                                  {p \in PositionsOf(account) : ~positions[p].withdrawn})
  <1> DEFINE open == {p \in PositionsOf(account) : ~positions[p].withdrawn}
             label == [p \in PositionIds |-> positions[p].key]
             part == unitsByKey[account]
             muppets == [p \in PositionIds |-> EarnPosition(p).muppets]
  <1>0. IsFiniteSet(Keys) /\ UnitSize \in Int
    BY AgentBondAssumption
  <1>1. IsFiniteSet(open) /\ open \subseteq PositionIds
    BY FinitePositions, open \subseteq PositionIds DEF PositionsOf, TypeOK
  <1>2. \A p \in open : /\ UnitsOf[p] \in Int /\ label[p] \in Keys
                        /\ muppets[p] = UnitSize * UnitsOf[p]
    <2>1. \A p \in PositionIds : positions[p].units \in Int /\ positions[p].key \in Keys
      BY DEF TypeOK, Position
    <2>2. \A p \in PositionIds : muppets[p] = UnitSize * positions[p].units
      BY DEF EarnPosition
    <2> QED
      BY <1>1, <2>1, <2>2 DEF UnitsOf
  <1>3. ASSUME NEW k \in Keys
        PROVE  part[k] = SumFunctionOnSet(UnitsOf, Labelled(open, label, k))
    <2>1. Labelled(open, label, k) = OpenPositions(account, k)
      BY DEF OpenPositions, PositionsOf, Labelled
    <2> QED
      BY <2>1, BondsInParts DEF KeyUnits
  <1>4. rewardUnits[account] = SumFunctionOnSet(part, Keys)
        /\ bondedBalance[account] = UnitSize * rewardUnits[account]
    BY BondsInParts DEF AccountUnits
  <1> HIDE DEF open, label, part, muppets
  <1>5. SumFunctionOnSet(UnitsOf, open) = SumFunctionOnSet(part, Keys)
    <2> DEFINE units == UnitsOf
    <2>1. /\ \A p \in open : units[p] \in Int /\ label[p] \in Keys
          /\ \A k \in Keys : part[k] = SumFunctionOnSet(units, Labelled(open, label, k))
      BY <1>2, <1>3
    <2> HIDE DEF units
    <2>2. SumFunctionOnSet(units, open) = SumFunctionOnSet(part, Keys)
      BY ONLY <1>0, <1>1, <2>1, SumParts
    <2> QED
      BY <2>2 DEF units
  <1>6. SumFunctionOnSet(muppets, open) = UnitSize * SumFunctionOnSet(UnitsOf, open)
    BY <1>0, <1>1, <1>2, SumScale
  <1> QED
    BY <1>4, <1>5, <1>6 DEF open, muppets

\* The positions of an account in one key.
IdsOf(account, key) == {p \in PositionsOf(account) : positions[p].key = key}

\* A wallet's positions are found under the Agents it is shown.
LEMMA PositionsListed ==
    ASSUME TypeOK, WalletsInv, NEW account \in Accounts
    PROVE  /\ PositionsOf(account) = UNION {IdsOf(account, key) : key \in walletAgents(account)}
           /\ walletAgents(account) \subseteq Keys
           /\ \A key \in Keys \ walletAgents(account) :
                 IdsOf(account, key) = {} /\ unitsByKey[account][key] = 0
  <1>1. ASSUME NEW p \in PositionsOf(account)
        PROVE  positions[p].key \in walletAgents(account)
    <2>1. p \in PositionIds /\ positions[p].account = account /\ positions[p].key \in Keys
      BY DEF PositionsOf, TypeOK, Position
    <2>2. positions[p].units \in 1 .. boundBalance[account][positions[p].key]
      BY <2>1 DEF WalletsInv
    <2>3. boundBalance[account][positions[p].key] \in Nat
      BY <2>1 DEF TypeOK
    <2>4. boundBalance[account][positions[p].key] > 0
      BY <2>2, <2>3
    <2> QED
      BY <2>1, <2>4 DEF walletAgents
  <1>2. walletAgents(account) \subseteq Keys
    BY DEF walletAgents
  <1>3. ASSUME NEW key \in Keys \ walletAgents(account)
        PROVE  unitsByKey[account][key] = 0
    <2>1. unitsByKey[account][key] \in Nat
      BY DEF TypeOK
    <2>2. ~(unitsByKey[account][key] > 0)
      BY DEF walletAgents, AgentBondKeyPosition
    <2> QED
      BY <2>1, <2>2
  <1> QED
    BY <1>1, <1>2, <1>3 DEF IdsOf

\* What the cards of single Agents offer to claim is what the wallet's offers.
LEMMA ClaimableShown ==
    ASSUME TypeOK, WalletsInv, NEW account \in Accounts
    PROVE  Claimable(account)
               = SumFunctionOnSet([key \in Keys |-> AgentBondKeyPosition(account, key).claimable],
                                  walletAgents(account))
  <1> DEFINE S == PositionsOf(account)
             claim == [p \in PositionIds |-> EarnPosition(p).claimable]
             global == [p \in PositionIds |-> pendingPositionRewards(p, "global")]
             own == [p \in PositionIds |-> pendingPositionRewards(p, "key")]
             label == [p \in PositionIds |-> positions[p].key]
             ids(key) == IdsOf(account, key)
             part == [key \in Keys |-> AgentBondKeyPosition(account, key).claimable]
             shown == walletAgents(account)
  <1>0. IsFiniteSet(Keys) /\ shown \subseteq Keys
    BY AgentBondAssumption, PositionsListed
  <1>1. IsFiniteSet(S) /\ S \subseteq PositionIds
    BY FinitePositions, S \subseteq PositionIds DEF PositionsOf, TypeOK
  <1>2. ASSUME NEW p \in PositionIds
        PROVE  /\ global[p] \in Int /\ own[p] \in Int /\ label[p] \in Keys
               /\ claim[p] = global[p] + own[p] /\ claim[p] \in Int
    <2>1. /\ pendingPositionRewards(p, "global") \in Nat /\ pendingPositionRewards(p, "key") \in Nat
      BY PendingIsGain DEF Kinds
    <2>2. positions[p].key \in Keys
      BY DEF TypeOK, Position
    <2>3. claim[p] = pendingPositionRewards(p, "global") + pendingPositionRewards(p, "key")
      BY DEF EarnPosition
    <2> QED
      BY <2>1, <2>2, <2>3
  <1>3. ASSUME NEW key \in Keys
        PROVE  /\ part[key] = SumFunctionOnSet(claim, Labelled(S, label, key))
               /\ part[key] \in Int
               /\ key \notin shown => part[key] = 0
    <2>1. ids(key) \subseteq PositionIds /\ IsFiniteSet(ids(key))
      BY <1>1, FS_Subset DEF IdsOf
    <2>2. part[key] = SumFunctionOnSet(global, ids(key)) + SumFunctionOnSet(own, ids(key))
      BY DEF AgentBondKeyPosition, IdsOf
    <2>3. Labelled(S, label, key) = ids(key)
      BY <1>1 DEF IdsOf, Labelled
    <2>4. key \notin shown => ids(key) = {}
      BY PositionsListed
    <2> HIDE DEF ids, claim, global, own, label, part, S, shown
    <2>5. SumFunctionOnSet(claim, ids(key))
              = SumFunctionOnSet(global, ids(key)) + SumFunctionOnSet(own, ids(key))
      BY <1>2, <2>1, SumPlus
    <2>6. SumFunctionOnSet(claim, ids(key)) \in Int
      BY <1>2, <2>1, SumInt
    <2> QED
      BY <2>2, <2>3, <2>4, <2>5, <2>6, SumEmpty
  <1>4. Claimable(account) = SumFunctionOnSet(claim, S)
    BY DEF Claimable
  <1> HIDE DEF ids, claim, global, own, label, part, S, shown
  <1>5. SumFunctionOnSet(claim, S) = SumFunctionOnSet(part, Keys)
    BY <1>0, <1>1, <1>2, <1>3, SumParts
  <1>6. SumFunctionOnSet(part, shown) = SumFunctionOnSet(part, Keys)
    BY <1>0, <1>3, SumSupport
  <1> QED
    BY <1>4, <1>5, <1>6 DEF part, shown

(* The wallet's totals are those of the positions and Agents listed.       *)
LEMMA TotalsShown ==
    ASSUME TypeOK, WalletsInv, BondsAreBacked, NEW account \in Accounts
    PROVE  TotalsAreTrue(account)
  <1>1. EarnWallet(account).staked
            = SumFunctionOnSet([p \in PositionIds |-> EarnPosition(p).muppets],
                               {p \in PositionsOf(account) : ~positions[p].withdrawn})
    BY StakedShown DEF EarnWallet, RevenueWallet
  <1>2. EarnWallet(account).totals.received \in Nat
    <2>1. /\ accountRewardsReinvested[account] \in Nat /\ accountRewardsClaimed[account] \in Nat
          /\ accountRewardsReinvested[account] <= accountRewardsClaimed[account]
      BY DEF TypeOK, WalletsInv
    <2> QED
      BY <2>1 DEF EarnWallet, RewardTotals
  <1>3. PositionsOf(account) =
            UNION {AgentBondKeyPosition(account, key).positions : key \in walletAgents(account)}
    BY PositionsListed DEF AgentBondKeyPosition, IdsOf
  <1>4. EarnWallet(account).claimable = SumFunctionOnSet(
            [key \in Keys |-> AgentBondKeyPosition(account, key).claimable], walletAgents(account))
    BY ClaimableShown DEF EarnWallet, RevenueWallet
  <1>5. RevenueWallet(account).units = SumFunctionOnSet(
            [key \in Keys |-> AgentBondKeyPosition(account, key).committedUnits],
            walletAgents(account))
    <2> DEFINE units == [key \in Keys |-> AgentBondKeyPosition(account, key).committedUnits]
               shown == walletAgents(account)
               book == unitsByKey[account]
    <2>1. IsFiniteSet(Keys) /\ shown \subseteq Keys
      BY AgentBondAssumption, PositionsListed
    <2>2. \A key \in Keys : units[key] = book[key] /\ book[key] \in Int
      BY DEF AgentBondKeyPosition, TypeOK
    <2>3. \A key \in Keys \ shown : book[key] = 0
      BY PositionsListed
    <2>4. RevenueWallet(account).units = SumFunctionOnSet(book, Keys)
      BY BondsInParts DEF AccountUnits, RevenueWallet
    <2> HIDE DEF units, shown, book
    <2>5. SumFunctionOnSet(units, shown) = SumFunctionOnSet(units, Keys)
      BY <2>1, <2>2, <2>3, SumSupport
    <2>6. SumFunctionOnSet(units, Keys) = SumFunctionOnSet(book, Keys)
      BY <2>1, <2>2, SumSame
    <2> QED
      BY <2>4, <2>5, <2>6 DEF units, shown
  <1> QED
    BY <1>1, <1>2, <1>3, <1>4, <1>5 DEF TotalsAreTrue

\* A position always has a whole epoch to earn in.
LEMMA TermHoldsAnEpoch ==
    ASSUME NEW day \in Nat, NEW days \in {30, 90, 180}
    PROVE  (day + 7 + 7 - 1) \div 7 < (day + days) \div 7
  OBVIOUS

\* A bond the contract would take is offered, and one that is offered is refused
\* for nothing but the approval of its key.
LEMMA BondShown ==
    ASSUME TypeOK, ActivationIsSafe, NEW account \in Accounts, NEW key \in Keys,
           NEW term \in Terms, nextPositionId <= MaxPositions, now + Duration(term) <= Horizon
    PROVE  BondIsTrue(account, key, term)
  <1> DEFINE pos == NewPosition(account, key, 1, term)
             available == availableBoundKeys(account, key)
             accepted == ~paused /\ CanOpenPosition(account, key, 1, term)
  <1>1. /\ pos.unlockAt = now + Duration(term)
        /\ pos.firstEligibleEpoch = (now + 7 + 7 - 1) \div 7
        /\ pos.lastEligibleEpochExclusive = (now + Duration(term)) \div 7
    BY DEF NewPosition, FirstEligibleEpoch, LastEligibleEpochExclusive, EPOCH_DURATION,
           MATURATION_DURATION
  <1>2. now \in Nat /\ Duration(term) \in {30, 90, 180}
    BY TermType DEF TypeOK
  <1>3. pos.firstEligibleEpoch < pos.lastEligibleEpochExclusive
    BY <1>1, <1>2, TermHoldsAnEpoch
  <1>4. /\ boundBalance[account][key] \in Nat /\ unitsByKey[account][key] \in Nat
        /\ available = IF boundBalance[account][key] > unitsByKey[account][key]
                       THEN boundBalance[account][key] - unitsByKey[account][key] ELSE 0
    BY DEF availableBoundKeys, TypeOK
  <1>5. available \in Int /\ (available > 0 => key \in walletAgents(account))
    BY <1>4 DEF walletAgents
  <1> HIDE DEF pos, available
  <1>6. accepted <=> ~paused /\ ApprovedAgentKey(key) /\ available >= 1
    BY <1>1, <1>3 DEF CanOpenPosition, pos, available
  <1>7. BondOffered(account, key)
            <=> key \in walletAgents(account) /\ canBond /\ available > 0
    BY DEF BondOffered, AgentBondKeyPosition, available
  <1>8. canBond <=> ~paused
    BY DEF canBond, ActivationIsSafe
  <1>9. available >= 1 <=> available > 0
    BY <1>5
  <1> HIDE DEF accepted
  <1>10. accepted <=> BondOffered(account, key) /\ ApprovedAgentKey(key)
    BY <1>5, <1>6, <1>7, <1>8, <1>9
  <1> QED
    BY <1>10 DEF BondIsTrue, accepted

(* Deciding from the Earn page is deciding from the contract: on every day *)
(* of a bond the phase shown agrees with the epochs the contract pays for, *)
(* a claim or a withdrawal is offered exactly when its transaction would   *)
(* succeed, the totals add up to the positions, and a bond is offered      *)
(* whenever the contract would take it.  A bond that is offered may still  *)
(* be refused: for the approval of its key or, outside this model, for     *)
(* want of MUPPETS, and for nothing else.                                  *)
THEOREM EarnShown == Spec => []EarnShowsTheBond
  <1>1. TypeOK /\ PositionsInv /\ WalletsInv /\ TotalsInv /\ KeyTotalsInv /\ AccumulatorsInv
        /\ RewardsAreConserved /\ LiabilityIsBacked /\ BondsAreBacked /\ ActivationIsSafe
            => EarnShowsTheBond
    <2> SUFFICES ASSUME TypeOK, PositionsInv, WalletsInv, TotalsInv, KeyTotalsInv,
                        AccumulatorsInv, RewardsAreConserved, LiabilityIsBacked, BondsAreBacked,
                        ActivationIsSafe
                 PROVE  EarnShowsTheBond
      OBVIOUS
    <2>1. OnlyCompletedEpochsArePaid /\ ClaimsAreCovered
      BY DEF AccumulatorsInv, RewardsAreConserved
    <2>2. ASSUME NEW p \in PositionIds
          PROVE  PhaseIsTrue(p, EarnPosition(p)) /\ ButtonsAreTrue(p, EarnPosition(p))
      BY <2>1, PhaseShown, ButtonsShown
    <2>3. ASSUME NEW account \in Accounts
          PROVE  TotalsAreTrue(account)
      BY TotalsShown
    <2>4. ASSUME NEW account \in Accounts, NEW key \in Keys, NEW term \in Terms,
                 nextPositionId <= MaxPositions, now + Duration(term) <= Horizon
          PROVE  BondIsTrue(account, key, term)
      BY <2>4, BondShown
    <2> QED
      BY <2>2, <2>3, <2>4 DEF EarnShowsTheBond
  <1> QED
    BY <1>1, TypeCorrect, PositionsInvariant, WalletsInvariant, TotalsInvariant, KeyTotals,
       AccumulatorsConserve, RewardsConserved, LiabilityBacked, BondsBacked, ActivationSafe, PTL

-----------------------------------------------------------------------------
(* Revenue from the marketplace to the bonders: router and bond together.  *)

(* The bond counts its epochs as the router counts its weeks.              *)
LEMMA WeeksAreEpochs ==
    /\ R!Weeks = Epochs
    /\ R!Streams = Streams
    /\ currentRevenueEpoch = currentEpoch
  BY DEF R!Weeks, R!Streams, Epochs, Streams, ROUTE_INTERVAL, EPOCH_DURATION,
         currentRevenueEpoch, currentEpoch

\* A receipt, as far as these proofs look into it.
LedgerEntry == [revenue : Nat, delivered : Nat, unallocated : Int, buyback : Int,
                stockReserve : Int, operations : Int, finalized : BOOLEAN]

(* What the router must keep for its weeks to reach their bonders once: a  *)
(* stream's queue is increasing and holds no future week, and only a week  *)
(* before the cursor has delivered anything.                               *)
StreamInv(s) ==
    /\ \A i \in 1 .. Len(epochQueue[s]) :
          /\ epochQueue[s][i] <= currentEpoch
          /\ receipts[s][epochQueue[s][i]].revenue # 0
    /\ \A i, j \in 1 .. Len(epochQueue[s]) : i < j => epochQueue[s][i] < epochQueue[s][j]
    /\ \A e \in Epochs :
          /\ receipts[s][e].delivered # 0 =>
                \E i \in 1 .. epochCursor[s] :
                   i \in 1 .. Len(epochQueue[s]) /\ epochQueue[s][i] = e
          /\ 2 * receipts[s][e].delivered <= receipts[s][e].revenue

LedgerType ==
    /\ receipts \in [Streams -> [Epochs -> LedgerEntry]]
    /\ epochQueue \in [Streams -> Seq(Epochs)]
    /\ epochCursor \in [Streams -> Nat]
    /\ escrowOwed \in Nat
    /\ otherPayments \in [Streams -> [Epochs -> Nat]]

LedgerInv == LedgerType /\ \A s \in Streams : StreamInv(s)

ledgerOfRouter == <<receipts, epochQueue, epochCursor>>

\* The steps of the system, by what they do to the two ledgers.
BondMoves == [Next]_vars /\ UNCHANGED <<accVars, otherPayments, ledgerOfRouter, escrowOwed>>

OtherMoves(n, s, e, amount) ==
    /\ NotifyReward(n, s, e, amount)
    /\ otherPayments' = [otherPayments EXCEPT ![s][e] = @ + amount]
    /\ UNCHANGED <<ledgerOfRouter, escrowOwed>>

Receives(s, amount) ==
    /\ R!RecordReceipt(s, amount)
    /\ escrowOwed' \in Nat
    /\ UNCHANGED <<vars, epochCursor, otherPayments>>

RouterIdles ==
    /\ escrowOwed' \in Nat
    /\ UNCHANGED <<vars, ledgerOfRouter, otherPayments>>

\* Every step of the system is one of these.
LEMMA SystemMoves ==
    ASSUME LedgerType, [SystemNext]_systemVars
    PROVE  \/ BondMoves
           \/ \E n \in Notifiers, s \in Streams, e \in Epochs, amount \in Rewards :
                 OtherMoves(n, s, e, amount)
           \/ \E s \in Streams, amount \in Nat \ {0} : Receives(s, amount)
           \/ RouterIdles
           \/ \E s \in Streams, e \in Epochs : RouteWeek(s, e)
  <1>1. CASE BondStep
    <2>1. Next /\ UNCHANGED <<routerVars, otherPayments>>
      BY <1>1 DEF BondStep, Next
    <2>2. UNCHANGED accVars
      BY <1>1
      DEF BondStep, Govern, HolderStep, TransferOwnership, SetKeyRegistry, SetRewardNotifier,
          Activate, Pause, AdvanceClock, BindKeys, BondWithTerm, UnbondPosition,
          ClaimPositionRewards, ClaimBuyAndBond, nonGovVars, accVars
    <2> QED
      BY <2>1, <2>2 DEF BondMoves, routerVars, ledgerOfRouter
  <1>2. CASE OtherPays
    BY <1>2 DEF OtherPays, OtherMoves, routerVars, ledgerOfRouter
  <1>3. CASE RouterStep
    <2>1. UNCHANGED <<vars, otherPayments>>
      BY <1>3 DEF RouterStep
    <2>2. CASE R!Govern
      <3>1. UNCHANGED <<ledgerOfRouter, escrowOwed>>
        BY <2>2 DEF R!Govern, R!SetMarketplace, R!SetKeyMarketplace, R!TransferOwnership,
           R!Activate, R!Pause, R!WithdrawFunding, R!queueVars, R!routeVars, ledgerOfRouter
      <3> QED
        BY <2>1, <3>1 DEF RouterIdles, LedgerType
    <2>3. CASE R!Receive
      <3>1. CASE R!ClaimPonsFees
        <4>1. R!RecordReceipt(GlobalStream, escrowOwed) /\ escrowOwed # 0 /\ escrowOwed' = 0
              /\ UNCHANGED epochCursor
          BY <3>1 DEF R!ClaimPonsFees, R!routeVars
        <4> QED
          BY <2>1, <4>1 DEF Receives, LedgerType, Streams
      <3>2. ASSUME NEW amount \in Amounts, NEW m \in LegacyMarketplaces,
                   R!ReceiveLegacyFee(m, amount)
            PROVE  \E s \in Streams, a \in Nat \ {0} : Receives(s, a)
        <4>1. R!RecordReceipt(GlobalStream, amount) /\ UNCHANGED <<epochCursor, escrowOwed>>
          BY <3>2 DEF R!ReceiveLegacyFee, R!routeVars
        <4> QED
          BY <2>1, <4>1, RevenueSystemAssumption DEF Receives, LedgerType, Streams
      <3>3. ASSUME NEW amount \in Amounts, R!ReceiveFunding(amount)
            PROVE  RouterIdles
        BY <2>1, <3>3
        DEF R!ReceiveFunding, R!queueVars, R!routeVars, RouterIdles, ledgerOfRouter, LedgerType
      <3>4. ASSUME NEW amount \in Amounts, NEW m \in KeyMarketplaces, NEW k \in Keys,
                   R!RecordKeyMarketplaceRevenue(m, k, amount)
            PROVE  \E s \in Streams, a \in Nat \ {0} : Receives(s, a)
        <4>1. R!RecordReceipt(k, amount) /\ UNCHANGED <<epochCursor, escrowOwed>>
          BY <3>4 DEF R!RecordKeyMarketplaceRevenue, R!routeVars
        <4> QED
          BY <2>1, <4>1, RevenueSystemAssumption DEF Receives, LedgerType, Streams
      <3> QED
        BY <2>3, <3>1, <3>2, <3>3, <3>4 DEF R!Receive
    <2>4. ASSUME NEW amount \in Amounts, R!PonsFeesAccrue(amount)
          PROVE  RouterIdles
      BY <2>1, <2>4, RevenueSystemAssumption
      DEF R!PonsFeesAccrue, R!queueVars, R!routeVars, RouterIdles, ledgerOfRouter, LedgerType
    <2> QED
      BY <1>3, <2>2, <2>3, <2>4 DEF RouterStep
  <1>4. CASE UNCHANGED systemVars
    BY <1>4 DEF systemVars, routerVars, BondMoves, ledgerOfRouter, vars
  <1> QED
    BY <1>1, <1>2, <1>3, <1>4 DEF SystemNext

\* Half of an amount, rounded down, is no more than half of it.
LEMMA HalfIsAPart ==
    ASSUME NEW amount \in Nat
    PROVE  /\ (amount * 5000) \div 10000 \in Nat
           /\ 2 * ((amount * 5000) \div 10000) <= amount
  <1> DEFINE b == (amount * 5000) \div 10000
  <1>1. b \in Nat /\ 10000 * b <= amount * 5000
    OBVIOUS
  <1> HIDE DEF b
  <1>2. 2 * b <= amount
    BY <1>1
  <1> QED
    BY <1>1, <1>2 DEF b

\* What a settled week has delivered is at most half of its revenue.
LEMMA SettledEntry ==
    ASSUME LedgerType, NEW s \in Streams, NEW e \in Epochs
    PROVE  /\ R!Settled(s, e) \in LedgerEntry
           /\ R!Settled(s, e).revenue = receipts[s][e].revenue
           /\ 2 * R!Settled(s, e).delivered <= receipts[s][e].revenue
  <1> DEFINE amount == receipts[s][e].revenue
             share == R!Shares(s, amount)
             bond == (amount * 5000) \div 10000
             weight == weightedWeeks[s][e]
             delivered == IF weight THEN share.bond ELSE 0
             unallocated == IF weight THEN 0 ELSE share.bond
  <1>1. receipts[s][e] \in LedgerEntry /\ amount \in Nat
    BY DEF LedgerType, LedgerEntry
  <1>2. bond \in Nat /\ 2 * bond <= amount
    BY <1>1, HalfIsAPart
  <1>3. share.bond = bond
    BY DEF R!Shares, R!Part, R!BPS
  <1>4. share.buyback \in Int /\ share.stock \in Int /\ share.operations \in Int
    <2> HIDE DEF amount
    <2>1. \A bps \in {1500, 2500, 3000, 5000} : R!Part(amount, bps) \in Int
      BY <1>1 DEF R!Part, R!BPS
    <2> QED
      BY <1>1, <2>1 DEF R!Shares
  <1>5. delivered \in Nat /\ unallocated \in Nat /\ 2 * delivered <= amount
    <2> HIDE DEF bond, share, amount
    <2> QED
      BY <1>1, <1>2, <1>3
  <1>6. R!Settled(s, e) = [receipts[s][e] EXCEPT
            !.delivered = delivered, !.unallocated = unallocated,
            !.buyback = share.buyback, !.stockReserve = share.stock,
            !.operations = share.operations, !.finalized = TRUE]
    BY DEF R!Settled
  <1> HIDE DEF share, delivered, unallocated
  <1>7. /\ R!Settled(s, e) \in LedgerEntry
        /\ R!Settled(s, e).revenue = amount
        /\ R!Settled(s, e).delivered = delivered
    <2> DEFINE r == receipts[s][e]
               buyback == share.buyback
               stock == share.stock
               operations == share.operations
               filled == [r EXCEPT !.delivered = delivered, !.unallocated = unallocated,
                                   !.buyback = buyback, !.stockReserve = stock,
                                   !.operations = operations, !.finalized = TRUE]
    <2>1. /\ r \in LedgerEntry /\ delivered \in Nat /\ unallocated \in Int
          /\ buyback \in Int /\ stock \in Int /\ operations \in Int
          /\ r.revenue = amount /\ R!Settled(s, e) = filled
      BY <1>1, <1>4, <1>5, <1>6
    <2> HIDE DEF r, buyback, stock, operations, amount
    <2>2. filled \in LedgerEntry /\ filled.revenue = r.revenue
          /\ filled.delivered = delivered
      BY <2>1 DEF LedgerEntry
    <2> HIDE DEF filled
    <2> QED
      BY <2>1, <2>2
  <1> QED
    BY <1>5, <1>7

(* A routing settles the week at the cursor and no other, and asks of the  *)
(* bond what any notifier may ask, or nothing.                             *)
LEMMA WeekRouted ==
    ASSUME TypeOK, LedgerType, NEW s \in Streams, NEW e \in Epochs, RouteWeek(s, e)
    PROVE  /\ epochCursor[s] + 1 \in 1 .. Len(epochQueue[s])
           /\ e = epochQueue[s][epochCursor[s] + 1]
           /\ e < currentEpoch
           /\ receipts' = [receipts EXCEPT ![s] =
                              [receipts[s] EXCEPT ![e] = R!Settled(s, e)]]
           /\ epochCursor' = [epochCursor EXCEPT ![s] = @ + 1]
           /\ UNCHANGED <<epochQueue, escrowOwed, otherPayments>>
           /\ \/ R!Settled(s, e).delivered = 0 /\ UNCHANGED vars
              \/ /\ R!Settled(s, e).delivered \in Rewards
                 /\ NotifyReward(Router, s, e, R!Settled(s, e).delivered)
  <1> DEFINE c == epochCursor[s]
             share == R!Settled(s, e).delivered
  <1>1. c \in Nat /\ Len(epochQueue[s]) \in Nat
    BY DEF LedgerType
  <1>2. /\ c + 1 \in R!ReadyWeeks(s) /\ e = epochQueue[s][c + 1]
        /\ R!RouteNext(s, 1) /\ UNCHANGED otherPayments
    BY DEF RouteWeek, R!RouteRevenue
  <1>3. c + 1 \in 1 .. Len(epochQueue[s]) /\ e < currentEpoch
    BY <1>1, <1>2, WeeksAreEpochs DEF R!ReadyWeeks, R!Completed
  <1>4. {epochQueue[s][i] : i \in c + 1 .. c + 1} = {e}
    <2>1. c + 1 .. c + 1 = {c + 1}
      BY <1>1
    <2> QED
      BY <1>2, <2>1
  <1>5. /\ epochCursor' = [epochCursor EXCEPT ![s] = c + 1]
        /\ UNCHANGED <<epochQueue, escrowOwed>>
    BY <1>2 DEF R!RouteNext, R!CursorAfter
  <1>6. receipts' = [receipts EXCEPT ![s] = [w \in Epochs |->
                        IF w = e THEN R!Settled(s, w) ELSE receipts[s][w]]]
    <2> DEFINE es == {epochQueue[s][i] : i \in c + 1 .. c + 1}
    <2>1. receipts' = [receipts EXCEPT ![s] = [w \in R!Weeks |->
              IF w \in es THEN [d \in es |-> R!Settled(s, d)][w] ELSE receipts[s][w]]]
      BY <1>2 DEF R!RouteNext
    <2> QED
      BY <1>4, <2>1, WeeksAreEpochs
  <1>7. [w \in Epochs |-> IF w = e THEN R!Settled(s, w) ELSE receipts[s][w]]
            = [receipts[s] EXCEPT ![e] = R!Settled(s, e)]
    BY DEF LedgerType
  <1>8. \/ share = 0 /\ UNCHANGED vars
        \/ share # 0 /\ NotifyReward(Router, s, e, share)
    BY DEF RouteWeek, Notifies, NotifiedEpoch
  <1>9. ASSUME share # 0, NotifyReward(Router, s, e, share)
        PROVE  share \in Rewards
    <2>1. totalNotified[s] \in Nat /\ MaxNotified \in Nat /\ share \in Nat
      BY SettledEntry, AgentBondAssumption DEF TypeOK, LedgerEntry
    <2>2. totalNotified[s] + share <= MaxNotified
      BY <1>9 DEF NotifyReward
    <2> HIDE DEF share
    <2>3. share \in 1 .. MaxNotified
      BY <1>9, <2>1, <2>2
    <2> QED
      BY <2>3, RevenueSystemAssumption
  <1> QED
    BY <1>2, <1>3, <1>5, <1>6, <1>7, <1>8, <1>9

\* The week at the cursor has delivered nothing yet.
LEMMA NotDeliveredYet ==
    ASSUME LedgerType, NEW s \in Streams, NEW e \in Epochs, StreamInv(s),
           epochCursor[s] + 1 \in 1 .. Len(epochQueue[s]),
           e = epochQueue[s][epochCursor[s] + 1]
    PROVE  receipts[s][e].delivered = 0
  <1> SUFFICES ASSUME receipts[s][e].delivered # 0
               PROVE  FALSE
    OBVIOUS
  <1>1. PICK i \in 1 .. epochCursor[s] :
            i \in 1 .. Len(epochQueue[s]) /\ epochQueue[s][i] = e
    BY DEF StreamInv
  <1>2. epochCursor[s] \in Nat /\ e \in Int
    BY FiniteEpochs DEF LedgerType
  <1>3. i < epochCursor[s] + 1
    BY <1>2
  <1>4. epochQueue[s][i] < epochQueue[s][epochCursor[s] + 1]
    BY <1>1, <1>3 DEF StreamInv
  <1> QED
    BY <1>1, <1>2, <1>4

\* A week that is over or running is one of the epochs counted.
LEMMA RunningEpoch ==
    ASSUME TypeOK
    PROVE  currentEpoch \in Epochs /\ currentEpoch \in Nat
  <1>1. now \in Nat /\ Horizon \in Nat /\ now <= Horizon
    BY AgentBondAssumption DEF TypeOK
  <1>2. now \div 7 \in Nat /\ Horizon \div 7 \in Nat /\ now \div 7 <= Horizon \div 7
    BY <1>1, DivMonotone, DivType
  <1> QED
    BY <1>2 DEF currentEpoch, Epochs, EPOCH_DURATION

\* A ledger nobody writes stays sound as weeks pass.
LEMMA LedgerRests ==
    ASSUME TypeOK, TypeOK', [Next]_vars, LedgerInv, LedgerType', UNCHANGED ledgerOfRouter
    PROVE  LedgerInv'
  <1>1. currentEpoch \in Nat /\ currentEpoch' \in Nat /\ currentEpoch <= currentEpoch'
    BY EpochsPass
  <1>2. /\ receipts' = receipts /\ epochQueue' = epochQueue /\ epochCursor' = epochCursor
    BY DEF ledgerOfRouter
  <1>3. ASSUME NEW s \in Streams
        PROVE  StreamInv(s)'
    <2>1. StreamInv(s)
      BY DEF LedgerInv
    <2>2. ASSUME NEW i \in 1 .. Len(epochQueue[s])
          PROVE  epochQueue[s][i] <= currentEpoch'
      <3>1. epochQueue[s][i] \in Epochs
        BY DEF LedgerInv, LedgerType
      <3>2. epochQueue[s][i] <= currentEpoch
        BY <2>1 DEF StreamInv
      <3>3. epochQueue[s][i] \in Int
        BY <3>1, FiniteEpochs
      <3> QED
        BY <1>1, <3>2, <3>3
    <2> QED
      BY <1>2, <2>1, <2>2 DEF StreamInv
  <1> QED
    BY <1>3 DEF LedgerInv

\* A payment is added to the receipt of the running week, which is queued
\* if it was empty.
LEMMA LedgerReceives ==
    ASSUME TypeOK, LedgerInv, NEW s \in Streams, NEW amount \in Nat \ {0}, Receives(s, amount)
    PROVE  /\ LedgerInv'
           /\ \A r \in Streams, e \in Epochs :
                 receipts'[r][e].delivered = receipts[r][e].delivered
  <1> DEFINE w == currentEpoch
             queue == epochQueue[s]
             revenue == receipts[s][w].revenue
  <1>1. w \in Epochs /\ w \in Nat /\ currentEpoch' = currentEpoch
    BY RunningEpoch DEF Receives, vars, currentEpoch
  <1>2. /\ receipts' = [receipts EXCEPT ![s][w].revenue = @ + amount]
        /\ epochQueue' = [epochQueue EXCEPT ![s] = IF revenue = 0 THEN Append(queue, w) ELSE queue]
        /\ UNCHANGED <<epochCursor, otherPayments>> /\ escrowOwed' \in Nat
    BY WeeksAreEpochs DEF Receives, R!RecordReceipt, R!QueuedWeek
  <1>3. /\ receipts \in [Streams -> [Epochs -> LedgerEntry]] /\ LedgerType
        /\ queue \in Seq(Epochs)
    BY DEF LedgerInv, LedgerType
  <1>4. revenue \in Nat /\ revenue + amount \in Nat /\ revenue + amount # 0
        /\ revenue + amount >= revenue
    <2>1. receipts[s][w] \in LedgerEntry
      BY <1>1, <1>3
    <2> HIDE DEF w
    <2> QED
      BY <2>1 DEF LedgerEntry
  <1>5. ASSUME NEW r \in Streams, NEW e \in Epochs
        PROVE  /\ receipts'[r][e] \in LedgerEntry
               /\ receipts'[r][e].delivered = receipts[r][e].delivered
               /\ receipts'[r][e].revenue =
                     IF r = s /\ e = w THEN revenue + amount ELSE receipts[r][e].revenue
    <2>1. receipts[r][e] \in LedgerEntry
      BY <1>3
    <2>2. CASE r = s /\ e = w
      <3>1. receipts'[r][e] = [receipts[r][e] EXCEPT !.revenue = revenue + amount]
        BY <1>1, <1>2, <1>3, <2>2
      <3> HIDE DEF revenue, w
      <3> QED
        BY <1>4, <2>1, <2>2, <3>1 DEF LedgerEntry
    <2>3. CASE ~(r = s /\ e = w)
      <3>1. receipts'[r][e] = receipts[r][e]
        BY <1>1, <1>2, <1>3, <2>3
      <3> HIDE DEF revenue, w
      <3> QED
        BY <2>1, <2>3, <3>1
    <2> QED
      BY <2>2, <2>3
  <1>6. receipts' \in [Streams -> [Epochs -> LedgerEntry]]
    <2>1. receipts' = [r \in Streams |-> [e \in Epochs |-> receipts'[r][e]]]
      BY <1>1, <1>2, <1>3
    <2>2. \A r \in Streams, e \in Epochs : receipts'[r][e] \in LedgerEntry
      BY <1>5
    <2> QED
      BY <2>1, <2>2
  <1>7. epochQueue' \in [Streams -> Seq(Epochs)]
    BY <1>1, <1>2, <1>3 DEF LedgerType
  <1>8. LedgerType'
    BY <1>2, <1>3, <1>6, <1>7 DEF LedgerType
  <1>9. \A r \in Streams : StreamInv(r)
    BY DEF LedgerInv
  <1>10. ASSUME NEW r \in Streams, NEW e \in Epochs
         PROVE  /\ 2 * receipts'[r][e].delivered <= receipts'[r][e].revenue
                /\ receipts[r][e].revenue # 0 => receipts'[r][e].revenue # 0
    <2>1. receipts[r][e] \in LedgerEntry /\ 2 * receipts[r][e].delivered <= receipts[r][e].revenue
      BY <1>3, <1>9 DEF StreamInv
    <2>2. receipts[r][e].delivered \in Nat /\ receipts[r][e].revenue \in Nat
      BY <2>1 DEF LedgerEntry
    <2>3. r = s /\ e = w => receipts[r][e].revenue = revenue
      OBVIOUS
    <2> HIDE DEF revenue, w
    <2> QED
      BY <1>4, <1>5, <2>1, <2>2, <2>3
  <1>11. ASSUME NEW r \in Streams, epochQueue'[r] = epochQueue[r]
         PROVE  StreamInv(r)'
    <2>1. \A i \in 1 .. Len(epochQueue[r]) : epochQueue[r][i] \in Epochs
      BY <1>3 DEF LedgerType
    <2> DEFINE q == epochQueue[r]
    <2>2. /\ \A i \in 1 .. Len(q) : q[i] <= currentEpoch /\ receipts[r][q[i]].revenue # 0
          /\ \A i, j \in 1 .. Len(q) : i < j => q[i] < q[j]
          /\ \A e \in Epochs : receipts[r][e].delivered # 0 =>
                \E i \in 1 .. epochCursor[r] : i \in 1 .. Len(q) /\ q[i] = e
      BY <1>9 DEF StreamInv
    <2>3. currentEpoch' = currentEpoch /\ epochCursor' = epochCursor
      BY <1>1, <1>2
    <2>4. epochQueue'[r] = q
      BY <1>11
    <2> HIDE DEF w, queue, revenue, q
    <2>5. \A i \in 1 .. Len(q) : receipts'[r][q[i]].revenue # 0
      BY <1>10, <2>1, <2>2 DEF q
    <2>6. \A e \in Epochs : receipts'[r][e].delivered # 0 =>
              \E i \in 1 .. epochCursor[r] : i \in 1 .. Len(q) /\ q[i] = e
      BY <1>5, <2>2
    <2> QED
      BY <1>10, <2>2, <2>3, <2>4, <2>5, <2>6 DEF StreamInv
  <1>12. CASE revenue # 0
    <2>1. \A r \in Streams : epochQueue'[r] = epochQueue[r]
      BY <1>2, <1>3, <1>12 DEF LedgerType
    <2> QED
      BY <1>5, <1>8, <1>11, <2>1 DEF LedgerInv
  <1>13. CASE revenue = 0
    <2> DEFINE longer == epochQueue'[s]
    <2>1. /\ longer = Append(queue, w)
          /\ \A r \in Streams \ {s} : epochQueue'[r] = epochQueue[r]
      BY <1>2, <1>3, <1>13 DEF LedgerType
    <2>2. Len(queue) \in Nat /\ \A i \in 1 .. Len(queue) : queue[i] \in Epochs
      BY <1>3
    <2>3. /\ Len(longer) = Len(queue) + 1
          /\ longer[Len(queue) + 1] = w
          /\ \A i \in 1 .. Len(queue) : longer[i] = queue[i]
      BY <1>1, <1>3, <2>1
    <2>4. ASSUME NEW i \in 1 .. Len(queue)
          PROVE  queue[i] \in Int /\ queue[i] < w
      <3>1. queue[i] <= w
        BY <1>9 DEF StreamInv
      <3>2. queue[i] \in Int
        BY <2>2, FiniteEpochs
      <3>3. receipts[s][queue[i]].revenue # 0
        BY <1>9 DEF StreamInv
      <3>4. queue[i] # w
        BY <1>13, <3>3
      <3> HIDE DEF queue, w
      <3> QED
        BY <1>1, <3>1, <3>2, <3>4
    <2>5. \A i \in 1 .. Len(queue) : receipts[s][queue[i]].revenue # 0
      BY <1>9 DEF StreamInv
    <2>6. \A i, j \in 1 .. Len(queue) : i < j => queue[i] < queue[j]
      BY <1>9 DEF StreamInv
    <2>7. \A e \in Epochs : receipts[s][e].delivered # 0 =>
              \E i \in 1 .. epochCursor[s] : i \in 1 .. Len(queue) /\ queue[i] = e
      BY <1>9 DEF StreamInv
    <2>8. receipts'[s][w].revenue # 0
      BY <1>1, <1>4, <1>5
    <2>9. \A i \in 1 .. Len(longer) : i \in 1 .. Len(queue) \/ i = Len(queue) + 1
      BY <2>2, <2>3
    <2>c. currentEpoch' = w
      BY <1>1
    <2> HIDE DEF longer, queue, w, revenue
    <2>10. ASSUME NEW i \in 1 .. Len(longer)
           PROVE  longer[i] <= w /\ receipts'[s][longer[i]].revenue # 0
      <3>1. CASE i \in 1 .. Len(queue)
        BY <1>1, <1>10, <2>2, <2>3, <2>4, <2>5, <3>1
      <3>2. CASE i = Len(queue) + 1
        BY <1>1, <2>3, <2>8, <3>2
      <3> QED
        BY <2>9, <3>1, <3>2
    <2>11. ASSUME NEW i \in 1 .. Len(longer), NEW j \in 1 .. Len(longer), i < j
           PROVE  longer[i] < longer[j]
      <3>1. i \in 1 .. Len(queue)
        BY <2>2, <2>3, <2>11
      <3>2. CASE j \in 1 .. Len(queue)
        BY <2>3, <2>6, <2>11, <3>1, <3>2
      <3>3. CASE j = Len(queue) + 1
        BY <2>3, <2>4, <3>1, <3>3
      <3> QED
        BY <2>9, <3>2, <3>3
    <2>12. ASSUME NEW e \in Epochs, receipts'[s][e].delivered # 0
           PROVE  \E i \in 1 .. epochCursor'[s] : i \in 1 .. Len(longer) /\ longer[i] = e
      <3>1. PICK i \in 1 .. epochCursor[s] : i \in 1 .. Len(queue) /\ queue[i] = e
        BY <1>5, <2>7, <2>12
      <3>2. i \in 1 .. Len(longer) /\ longer[i] = e
        BY <2>2, <2>3, <3>1
      <3> QED
        BY <1>2, <3>2
    <2>13. StreamInv(s)'
      BY <1>10, <2>c, <2>10, <2>11, <2>12 DEF StreamInv, longer
    <2> QED
      BY <1>5, <1>8, <1>11, <2>1, <2>13 DEF LedgerInv
  <1> QED
    BY <1>12, <1>13

\* A routing finalizes the receipt at the cursor and moves past it.
LEMMA LedgerRoutes ==
    ASSUME TypeOK, LedgerInv, NEW s \in Streams, NEW e \in Epochs, RouteWeek(s, e)
    PROVE  /\ LedgerInv'
           /\ receipts[s][e].delivered = 0
           /\ receipts'[s][e].delivered = R!Settled(s, e).delivered
           /\ \A r \in Streams, d \in Epochs :
                 r # s \/ d # e => receipts'[r][d] = receipts[r][d]
  <1> DEFINE c == epochCursor[s]
             queue == epochQueue[s]
             settled == R!Settled(s, e)
  <1>1. LedgerType /\ \A r \in Streams : StreamInv(r)
    BY DEF LedgerInv
  <1>2. /\ c + 1 \in 1 .. Len(queue)
        /\ e = queue[c + 1]
        /\ receipts' = [receipts EXCEPT ![s] = [receipts[s] EXCEPT ![e] = settled]]
        /\ epochCursor' = [epochCursor EXCEPT ![s] = @ + 1]
        /\ UNCHANGED <<epochQueue, escrowOwed, otherPayments>>
    BY <1>1, WeekRouted
  <1>3. currentEpoch' = currentEpoch
    BY DEF RouteWeek, R!RouteRevenue, R!RouteNext, R!outsideVars, currentRevenueEpoch,
           ROUTE_INTERVAL, currentEpoch, EPOCH_DURATION
  <1>4. /\ settled \in LedgerEntry /\ settled.revenue = receipts[s][e].revenue
        /\ 2 * settled.delivered <= receipts[s][e].revenue
    BY <1>1, SettledEntry
  <1>5. receipts[s][e].delivered = 0
    BY <1>1, <1>2, NotDeliveredYet
  <1> HIDE DEF settled
  <1>6. ASSUME NEW r \in Streams, NEW d \in Epochs
        PROVE  receipts'[r][d] = IF r = s /\ d = e THEN settled ELSE receipts[r][d]
    BY <1>1, <1>2 DEF LedgerType
  <1>7. LedgerType'
    <2>1. receipts' \in [Streams -> [Epochs -> LedgerEntry]]
      BY <1>1, <1>2, <1>4 DEF LedgerType
    <2>2. epochCursor' \in [Streams -> Nat]
      BY <1>1, <1>2 DEF LedgerType
    <2> QED
      BY <1>1, <1>2, <2>1, <2>2 DEF LedgerType
  <1>8. ASSUME NEW r \in Streams, NEW d \in Epochs
        PROVE  /\ receipts'[r][d].revenue = receipts[r][d].revenue
               /\ 2 * receipts'[r][d].delivered <= receipts'[r][d].revenue
    <2>1. 2 * receipts[r][d].delivered <= receipts[r][d].revenue
      BY <1>1 DEF StreamInv
    <2> QED
      BY <1>4, <1>6, <2>1
  <1>9. ASSUME NEW r \in Streams
        PROVE  StreamInv(r)'
    <2> DEFINE q == epochQueue[r]
    <2>1. /\ \A i \in 1 .. Len(q) : q[i] <= currentEpoch /\ receipts[r][q[i]].revenue # 0
          /\ \A i, j \in 1 .. Len(q) : i < j => q[i] < q[j]
          /\ \A d \in Epochs : receipts[r][d].delivered # 0 =>
                \E i \in 1 .. epochCursor[r] : i \in 1 .. Len(q) /\ q[i] = d
      BY <1>1 DEF StreamInv
    <2>2. \A i \in 1 .. Len(q) : q[i] \in Epochs
      BY <1>1 DEF LedgerType
    <2>3. epochQueue'[r] = q
      BY <1>2
    <2>4. epochCursor[r] \in Nat /\ epochCursor'[r] \in Nat /\ epochCursor[r] <= epochCursor'[r]
          /\ c \in Nat /\ (r = s => epochCursor'[r] = c + 1)
      BY <1>1, <1>2 DEF LedgerType
    <2>5. r = s => q = queue
      OBVIOUS
    <2> HIDE DEF q, queue
    <2>6. \A i \in 1 .. Len(q) : receipts'[r][q[i]].revenue # 0
      BY <1>8, <2>1, <2>2
    <2>7. ASSUME NEW d \in Epochs, receipts'[r][d].delivered # 0
          PROVE  \E i \in 1 .. epochCursor'[r] : i \in 1 .. Len(q) /\ q[i] = d
      <3>1. CASE r = s /\ d = e
        <4>1. c + 1 \in 1 .. epochCursor'[r]
          BY <2>4, <3>1
        <4> QED
          BY <1>2, <2>5, <3>1, <4>1
      <3>2. CASE ~(r = s /\ d = e)
        <4>1. receipts[r][d].delivered # 0
          BY <1>6, <2>7, <3>2
        <4>2. PICK i \in 1 .. epochCursor[r] : i \in 1 .. Len(q) /\ q[i] = d
          BY <2>1, <4>1
        <4>3. i \in 1 .. epochCursor'[r]
          BY <2>4
        <4> QED
          BY <4>2, <4>3
      <3> QED
        BY <3>1, <3>2
    <2> QED
      BY <1>3, <1>8, <2>1, <2>3, <2>6, <2>7 DEF StreamInv
  <1>10. /\ receipts'[s][e].delivered = settled.delivered
         /\ \A r \in Streams, d \in Epochs :
               r # s \/ d # e => receipts'[r][d] = receipts[r][d]
    BY <1>6
  <1> QED
    BY <1>5, <1>7, <1>9, <1>10 DEF LedgerInv, settled

-----------------------------------------------------------------------------

\* To the bond, the router is one of its notifiers.
LEMMA BondTakesItsSteps ==
    ASSUME TypeOK, LedgerType, [SystemNext]_systemVars
    PROVE  [Next]_vars
  <1>1. CASE BondMoves
    BY <1>1 DEF BondMoves
  <1>2. ASSUME NEW n \in Notifiers, NEW s \in Streams, NEW e \in Epochs, NEW amount \in Rewards,
               OtherMoves(n, s, e, amount)
        PROVE  Next
    BY <1>2 DEF OtherMoves, Next, Notify
  <1>3. ASSUME NEW s \in Streams, NEW e \in Epochs, RouteWeek(s, e)
        PROVE  [Next]_vars
    <2>1. CASE UNCHANGED vars
      BY <2>1
    <2>2. CASE /\ R!Settled(s, e).delivered \in Rewards
               /\ NotifyReward(Router, s, e, R!Settled(s, e).delivered)
      BY <2>2, RevenueSystemAssumption DEF Next, Notify
    <2> QED
      BY <1>3, <2>1, <2>2, WeekRouted
  <1>4. CASE \E s \in Streams, amount \in Nat \ {0} : Receives(s, amount)
    BY <1>4 DEF Receives
  <1>5. CASE RouterIdles
    BY <1>5 DEF RouterIdles
  <1> QED
    BY <1>1, <1>2, <1>3, <1>4, <1>5, SystemMoves

\* Both ledgers stay sound, whoever moves.
LEMMA LedgerStep ==
    ASSUME TypeOK, TypeOK', LedgerInv, [SystemNext]_systemVars
    PROVE  LedgerInv'
  <1>1. LedgerType
    BY DEF LedgerInv
  <1>2. [Next]_vars
    BY <1>1, BondTakesItsSteps
  <1>3. CASE BondMoves
    <2>1. UNCHANGED <<ledgerOfRouter, otherPayments, escrowOwed>>
      BY <1>3 DEF BondMoves
    <2>2. LedgerType'
      BY <1>1, <2>1 DEF LedgerType, ledgerOfRouter
    <2> QED
      BY <1>2, <2>1, <2>2, LedgerRests
  <1>4. ASSUME NEW n \in Notifiers, NEW s \in Streams, NEW e \in Epochs, NEW amount \in Rewards,
               OtherMoves(n, s, e, amount)
        PROVE  LedgerInv'
    <2>1. amount \in Nat
      BY AgentBondAssumption
    <2>2. LedgerType'
      BY <1>1, <1>4, <2>1 DEF OtherMoves, LedgerType, ledgerOfRouter
    <2> QED
      BY <1>2, <1>4, <2>2, LedgerRests DEF OtherMoves
  <1>5. ASSUME NEW s \in Streams, NEW amount \in Nat \ {0}, Receives(s, amount)
        PROVE  LedgerInv'
    BY <1>5, LedgerReceives
  <1>6. CASE RouterIdles
    <2>1. LedgerType'
      BY <1>1, <1>6 DEF RouterIdles, LedgerType, ledgerOfRouter
    <2> QED
      BY <1>2, <1>6, <2>1, LedgerRests DEF RouterIdles
  <1>7. ASSUME NEW s \in Streams, NEW e \in Epochs, RouteWeek(s, e)
        PROVE  LedgerInv'
    BY <1>7, LedgerRoutes
  <1> QED
    BY <1>1, <1>3, <1>4, <1>5, <1>6, <1>7, SystemMoves

(* The bond of the composed system is the bond on its own: the router does *)
(* nothing to it that a notifier may not do, and every theorem above holds *)
(* of the two together.                                                    *)
THEOREM SystemImplementsBond == SystemSpec => Spec /\ []LedgerInv
  <1>1. SystemInit => Init /\ TypeOK /\ LedgerInv
    <2> SUFFICES ASSUME SystemInit
                 PROVE  Init /\ TypeOK /\ LedgerInv
      OBVIOUS
    <2>1. Init /\ TypeOK
      BY TypeStarts DEF SystemInit
    <2>2. /\ receipts = [s \in Streams |-> [e \in Epochs |-> R!NoReceipt]]
          /\ epochQueue = [s \in Streams |-> <<>>]
          /\ epochCursor = [s \in Streams |-> 0]
          /\ escrowOwed = 0
          /\ otherPayments = [s \in Streams |-> [e \in Epochs |-> 0]]
      BY WeeksAreEpochs DEF SystemInit, R!Init, R!BooksInit
    <2>3. R!NoReceipt \in LedgerEntry /\ R!NoReceipt.delivered = 0 /\ R!NoReceipt.revenue = 0
      BY DEF R!NoReceipt, LedgerEntry
    <2>4. LedgerType
      BY <2>2, <2>3 DEF LedgerType
    <2>5. \A s \in Streams : StreamInv(s)
      BY <2>2, <2>3 DEF StreamInv
    <2> QED
      BY <2>1, <2>4, <2>5 DEF LedgerInv
  <1>2. TypeOK /\ LedgerInv /\ [SystemNext]_systemVars => [Next]_vars /\ TypeOK' /\ LedgerInv'
    <2> SUFFICES ASSUME TypeOK, LedgerInv, [SystemNext]_systemVars
                 PROVE  [Next]_vars /\ TypeOK' /\ LedgerInv'
      OBVIOUS
    <2>1. [Next]_vars
      BY BondTakesItsSteps DEF LedgerInv
    <2>2. TypeOK'
      BY <2>1, TypeStep
    <2> QED
      BY <2>1, <2>2, LedgerStep
  <1> QED
    BY <1>1, <1>2, PTL DEF SystemSpec, Spec

\* The weights of the weeks that are over stay as they are.
LEMMA CompletedWeightsStay ==
    ASSUME TypeOK, [Next]_vars, NEW s \in Streams, NEW e \in Epochs, e < currentEpoch
    PROVE  totalRewardWeightAtEpoch'[s][e] = totalRewardWeightAtEpoch[s][e]
  <1>1. currentEpoch \in Int /\ e \in Int
    BY RunningEpoch, FiniteEpochs
  <1>2. ~(e > currentEpoch)
    BY <1>1
  <1> QED
    BY <1>2, BondsWeighOnTheFuture

\* While the week lasts, the router sees the same weeks and weights.
LEMMA WeekLasts ==
    ASSUME TypeOK, [Next]_vars, currentEpoch' = currentEpoch
    PROVE  UNCHANGED <<currentRevenueEpoch, weightedWeeks>>
  <1>1. currentRevenueEpoch' = currentEpoch' /\ currentRevenueEpoch = currentEpoch
    BY DEF currentRevenueEpoch, currentEpoch, ROUTE_INTERVAL, EPOCH_DURATION
  <1>2. ASSUME NEW s \in Streams, NEW e \in Epochs
        PROVE  (e < currentEpoch /\ totalRewardWeightAtEpoch'[s][e] # 0)
               = (e < currentEpoch /\ totalRewardWeightAtEpoch[s][e] # 0)
    BY CompletedWeightsStay
  <1>3. weightedWeeks' = [s \in Streams |-> [e \in Epochs |->
            (e < currentEpoch /\ totalRewardWeightAtEpoch'[s][e] # 0)]]
    BY <1>1 DEF weightedWeeks
  <1>4. weightedWeeks = [s \in Streams |-> [e \in Epochs |->
            (e < currentEpoch /\ totalRewardWeightAtEpoch[s][e] # 0)]]
    BY <1>1 DEF weightedWeeks
  <1>5. weightedWeeks' = weightedWeeks
    BY <1>2, <1>3, <1>4
  <1> QED
    BY <1>1, <1>5

\* To the router, what the bond's owner does starts or ends an outage.
LEMMA OwnerRefuses ==
    ASSUME TypeOK, Govern, UNCHANGED routerVars
    PROVE  [R!Next]_(R!vars)
  <1>1. now' = now /\ [Next]_vars
    BY DEF Govern, TransferOwnership, SetKeyRegistry, SetRewardNotifier, Activate, Pause,
           nonGovVars, Next
  <1>2. UNCHANGED <<currentRevenueEpoch, weightedWeeks>>
    BY <1>1, WeekLasts DEF currentEpoch
  <1>3. \/ paused' = paused
        \/ rewardNotifier' = rewardNotifier
    BY DEF Govern, TransferOwnership, SetKeyRegistry, SetRewardNotifier, Activate, Pause
  <1>4. paused \in BOOLEAN /\ paused' \in BOOLEAN
    BY <1>1, TypeStep DEF TypeOK
  <1>5. CASE rewardNotifier' = rewardNotifier
    <2>1. refusals' = IF paused' THEN refusals \cup {"bondPaused"}
                                 ELSE refusals \ {"bondPaused"}
      BY <1>4, <1>5 DEF refusals
    <2>2. R!SetOutage("bondPaused", paused')
      BY <1>2, <2>1 DEF R!SetOutage, routerVars, R!allowVars, R!queueVars, R!routeVars
    <2> QED
      BY <1>4, <2>2 DEF R!Next, R!Outside
  <1>6. CASE paused' = paused
    <2> DEFINE down == rewardNotifier' # Router
    <2>1. refusals' = IF down THEN refusals \cup {"bondNotifier"}
                              ELSE refusals \ {"bondNotifier"}
      BY <1>6 DEF refusals
    <2>2. R!SetOutage("bondNotifier", down)
      BY <1>2, <2>1 DEF R!SetOutage, routerVars, R!allowVars, R!queueVars, R!routeVars
    <2>3. down \in BOOLEAN
      OBVIOUS
    <2> HIDE DEF down
    <2> QED
      BY <2>2, <2>3 DEF R!Next, R!Outside
  <1> QED
    BY <1>3, <1>5, <1>6

\* The epochs a day further on are at most as many as the days.
LEMMA WeekEnds ==
    ASSUME TypeOK, NEW day \in Instants, AdvanceClock(day),
           day \div EPOCH_DURATION <= currentEpoch + 1, UNCHANGED routerVars
    PROVE  [R!Next]_(R!vars)
  <1>1. [Next]_vars /\ TypeOK' /\ now' = day /\ now < day
    <2>1. [Next]_vars /\ now' = day /\ day > now
      BY DEF Next, AdvanceClock
    <2>2. now \in Int /\ day \in Int
      BY AgentBondAssumption DEF TypeOK
    <2> QED
      BY <2>1, <2>2, TypeStep
  <1>2. /\ currentEpoch' = day \div EPOCH_DURATION
        /\ currentEpoch \in Nat /\ currentEpoch' \in Nat /\ currentEpoch <= currentEpoch'
    BY <1>1, EpochsPass DEF currentEpoch
  <1>3. currentEpoch' = currentEpoch \/ currentEpoch' = currentEpoch + 1
    BY <1>2
  <1>4. /\ UNCHANGED <<refusals, totalRewardWeightAtEpoch>>
        /\ UNCHANGED <<routerPaused, R!allowVars, R!queueVars, R!routeVars, totalRevenue,
                       withdrawableFunding, nativeBalance, escrowOwed>>
    BY DEF AdvanceClock, govVars, refusals, routerVars, R!allowVars, R!queueVars, R!routeVars
  <1>5. CASE currentEpoch' = currentEpoch
    <2>1. UNCHANGED <<currentRevenueEpoch, weightedWeeks>>
      BY <1>1, <1>5, WeekLasts
    <2> QED
      BY <1>4, <2>1 DEF R!vars, R!outsideVars
  <1>6. CASE currentEpoch' = currentEpoch + 1
    <2> DEFINE w == currentEpoch
               eligible == {s \in Streams : totalRewardWeightAtEpoch[s][w] # 0}
    <2>1. currentRevenueEpoch = w /\ currentRevenueEpoch' = w + 1
      BY <1>6 DEF currentRevenueEpoch, currentEpoch, ROUTE_INTERVAL, EPOCH_DURATION
    <2>2. currentEpoch' \in Epochs /\ w \in Epochs
      <3>1. day \in Nat /\ Horizon \in Nat /\ day <= Horizon
        BY AgentBondAssumption
      <3>2. day \div 7 \in Nat /\ Horizon \div 7 \in Nat /\ day \div 7 <= Horizon \div 7
        BY <3>1, DivMonotone, DivType
      <3>3. currentEpoch' \in Epochs
        BY <1>2, <3>2 DEF Epochs, EPOCH_DURATION
      <3> QED
        BY <3>3, RunningEpoch
    <2>3. w < Horizon \div ROUTE_INTERVAL
      <3>1. w + 1 \in 0 .. Horizon \div ROUTE_INTERVAL
        BY <1>6, <2>2 DEF Epochs, ROUTE_INTERVAL, EPOCH_DURATION
      <3>2. Horizon \div ROUTE_INTERVAL \in Int
        BY AgentBondAssumption DEF ROUTE_INTERVAL
      <3> HIDE DEF w
      <3> QED
        BY <1>2, <3>1, <3>2 DEF w
    <2>4. ASSUME NEW s \in Streams, NEW e \in Epochs
          PROVE  (e < w + 1 /\ totalRewardWeightAtEpoch[s][e] # 0)
                 = IF e = w THEN s \in eligible
                            ELSE e < w /\ totalRewardWeightAtEpoch[s][e] # 0
      <3>1. e \in Int /\ w \in Int
        BY <1>2, FiniteEpochs
      <3>2. s \in eligible <=> totalRewardWeightAtEpoch[s][w] # 0
        OBVIOUS
      <3>3. e < w + 1 <=> e = w \/ e < w
        <4> HIDE DEF w
        <4> QED
          BY <3>1
      <3>4. ~(w < w)
        BY <3>1
      <3> HIDE DEF w, eligible
      <3> QED
        BY <3>2, <3>3, <3>4
    <2>5. weightedWeeks' = [s \in Streams |-> [e \in Epochs |->
              (e < w + 1 /\ totalRewardWeightAtEpoch[s][e] # 0)]]
      BY <1>4, <2>1 DEF weightedWeeks
    <2>6. weightedWeeks = [s \in Streams |-> [e \in Epochs |->
              (e < w /\ totalRewardWeightAtEpoch[s][e] # 0)]]
      BY <2>1 DEF weightedWeeks
    <2>7. weightedWeeks' = [s \in Streams |-> [weightedWeeks[s] EXCEPT ![w] = s \in eligible]]
      <3> HIDE DEF w, eligible
      <3> QED
        BY <2>2, <2>4, <2>5, <2>6 DEF w
    <2>8. R!AdvanceWeek(eligible)
      <3> HIDE DEF eligible
      <3> QED
        BY <1>4, <2>1, <2>3, <2>7, WeeksAreEpochs DEF R!AdvanceWeek
    <2>9. eligible \in SUBSET R!Streams
      BY WeeksAreEpochs
    <2> HIDE DEF eligible
    <2> QED
      BY <2>8, <2>9 DEF R!Next, R!Outside
  <1> QED
    BY <1>3, <1>5, <1>6

(* The router of the composed system is RevenueRouter: the bond gives it   *)
(* the weeks, the weights and the refusals RevenueRouter leaves open, and  *)
(* never changes its mind about a week that is over.                       *)
THEOREM SystemImplementsRouter == SystemSpec => R!Spec /\ RouterSteps
  <1>1. SystemInit => R!Init
    BY DEF SystemInit
  <1>2. ASSUME TypeOK, LedgerType, [SystemNext]_systemVars
        PROVE  [R!Next]_(R!vars)
    <2>1. CASE BondStep
      <3>1. UNCHANGED routerVars
        BY <2>1 DEF BondStep
      <3>2. CASE Govern
        BY <1>2, <3>1, <3>2, OwnerRefuses
      <3>3. ASSUME NEW day \in Instants, day \div EPOCH_DURATION <= currentEpoch + 1,
                   AdvanceClock(day)
            PROVE  [R!Next]_(R!vars)
        BY <1>2, <3>1, <3>3, WeekEnds
      <3>4. CASE HolderStep
        <4>1. UNCHANGED <<now, paused, rewardNotifier>> /\ [Next]_vars
          BY <3>4 DEF HolderStep, BindKeys, BondWithTerm, UnbondPosition, ClaimPositionRewards,
             ClaimBuyAndBond, govVars, Next
        <4>2. UNCHANGED <<currentRevenueEpoch, weightedWeeks, refusals>>
          BY <1>2, <4>1, WeekLasts DEF currentEpoch, refusals
        <4> QED
          BY <3>1, <4>2 DEF routerVars, R!vars, R!outsideVars, R!allowVars, R!queueVars,
             R!routeVars
      <3> QED
        BY <2>1, <3>2, <3>3, <3>4 DEF BondStep
    <2>2. CASE OtherPays
      <3>1. UNCHANGED <<routerVars, now, paused, rewardNotifier, totalRewardWeightAtEpoch>>
        BY <2>2 DEF OtherPays, NotifyReward, govVars
      <3>2. UNCHANGED <<currentRevenueEpoch, weightedWeeks, refusals>>
        BY <3>1 DEF currentRevenueEpoch, weightedWeeks, refusals
      <3> QED
        BY <3>1, <3>2 DEF routerVars, R!vars, R!outsideVars, R!allowVars, R!queueVars,
           R!routeVars
    <2>3. CASE RouterStep
      BY <2>3 DEF RouterStep, R!Next, R!Outside
    <2>4. ASSUME NEW s \in Streams, NEW e \in Epochs, RouteWeek(s, e)
          PROVE  R!Next
      BY <2>4, WeeksAreEpochs DEF RouteWeek, R!Next, R!Route
    <2>5. CASE UNCHANGED systemVars
      <3>1. UNCHANGED <<routerVars, now, paused, rewardNotifier, totalRewardWeightAtEpoch>>
        BY <2>5 DEF systemVars, vars, govVars
      <3>2. UNCHANGED <<currentRevenueEpoch, weightedWeeks, refusals>>
        BY <3>1 DEF currentRevenueEpoch, weightedWeeks, refusals
      <3> QED
        BY <3>1, <3>2 DEF routerVars, R!vars, R!outsideVars, R!allowVars, R!queueVars,
           R!routeVars
    <2> QED
      BY <1>2, <2>1, <2>2, <2>3, <2>4, <2>5 DEF SystemNext
  <1>3. TypeOK /\ LedgerInv /\ [SystemNext]_systemVars => [R!Next]_(R!vars)
    BY <1>2 DEF LedgerInv
  <1> QED
    BY <1>1, <1>3, SystemImplementsBond, TypeCorrect, PTL DEF SystemSpec, R!Spec,
       RouterSteps

\* The two ledgers agree on every wei delivered: epoch by epoch.
LEMMA WeeksReachInParts ==
    WeeksReachTheirBonders <=>
        \A s \in Streams, e \in Epochs :
            Distributed(s)[e] = Precision * (receipts[s][e].delivered + otherPayments[s][e])
  BY DEF WeeksReachTheirBonders, Distributed

\* A step that pays nothing keeps them in step.
LEMMA UnpaidWeeksReach ==
    ASSUME TypeOK, TypeOK', AccumulatorsInv, [Next]_vars, WeeksReachTheirBonders,
           UNCHANGED <<accVars, otherPayments>>,
           \A s \in Streams, e \in Epochs :
              receipts'[s][e].delivered = receipts[s][e].delivered
    PROVE  WeeksReachTheirBonders'
  <1>1. \A s \in Streams, e \in Epochs : Distributed(s)'[e] = Distributed(s)[e]
    BY UnpaidEpochsKeep
  <1>2. \A s \in Streams, e \in Epochs :
            Distributed(s)'[e] = Precision * (receipts'[s][e].delivered + otherPayments'[s][e])
    BY <1>1, WeeksReachInParts
  <1> QED
    BY <1>2 DEF WeeksReachTheirBonders, Distributed


\* A payment reaches the epoch it is entered for, by the router or another.
LEMMA PaidWeeksReach ==
    ASSUME TypeOK, TypeOK', LedgerType, LedgerType', WeeksReachTheirBonders,
           NEW n \in Notifiers, NEW r \in Streams, NEW d \in Epochs, NEW amount \in Rewards,
           NotifyReward(n, r, d, amount),
           receipts'[r][d].delivered + otherPayments'[r][d]
               = receipts[r][d].delivered + otherPayments[r][d] + amount,
           \A s \in Streams, e \in Epochs : s # r \/ e # d =>
              /\ receipts'[s][e].delivered = receipts[s][e].delivered
              /\ otherPayments'[s][e] = otherPayments[s][e]
    PROVE  WeeksReachTheirBonders'
  <1>1. \A s \in Streams, e \in Epochs :
            Distributed(s)[e] = Precision * (receipts[s][e].delivered + otherPayments[s][e])
    BY WeeksReachInParts
  <1>2. Distributed(r)'[d] = Distributed(r)[d] + amount * Precision
    BY PaymentIsBooked
  <1>3. \A s \in Streams, e \in Epochs : s # r \/ e # d =>
            Distributed(s)'[e] = Distributed(s)[e]
    BY PaymentIsBooked
  <1>4. Distributed(r)'[d]
            = Precision * (receipts'[r][d].delivered + otherPayments'[r][d])
    <2> DEFINE a == receipts[r][d].delivered
               b == otherPayments[r][d]
               aa == receipts'[r][d].delivered
               bb == otherPayments'[r][d]
               x == Distributed(r)[d]
               y == Distributed(r)'[d]
    <2>1. a \in Int /\ b \in Int /\ aa \in Int /\ bb \in Int
      <3>1. receipts[r][d] \in LedgerEntry /\ receipts'[r][d] \in LedgerEntry
        BY DEF LedgerType
      <3>2. b \in Nat /\ bb \in Nat
        BY DEF LedgerType
      <3> QED
        BY <3>1, <3>2 DEF LedgerEntry
    <2>2. amount \in Int /\ Precision \in Int
      BY AgentBondAssumption
    <2>3. x = Precision * (a + b) /\ y = x + amount * Precision /\ aa + bb = a + b + amount
      BY <1>1, <1>2
    <2> HIDE DEF a, b, aa, bb, x, y
    <2>4. \A i, j, c \in Int : c * (i + j) = c * i + j * c
      OBVIOUS
    <2>5. y = Precision * (aa + bb)
      BY <2>1, <2>2, <2>3, <2>4
    <2> QED
      BY <2>5 DEF aa, bb, y
  <1>5. ASSUME NEW s \in Streams, NEW e \in Epochs
        PROVE  Distributed(s)'[e]
                   = Precision * (receipts'[s][e].delivered + otherPayments'[s][e])
    <2>1. CASE s # r \/ e # d
      BY <1>1, <1>3, <2>1
    <2>2. CASE s = r /\ e = d
      BY <1>4, <2>2
    <2> QED
      BY <2>1, <2>2
  <1> QED
    BY <1>5 DEF WeeksReachTheirBonders, Distributed

(* Every wei the router took for a week's bonders is in that week's        *)
(* accumulator, and nothing else is.                                       *)
THEOREM WeeksReach == SystemSpec => []WeeksReachTheirBonders
  <1>1. SystemInit => WeeksReachTheirBonders
    <2> SUFFICES ASSUME SystemInit, NEW s \in Streams, NEW e \in Epochs
                 PROVE  Distributed(s)[e]
                            = Precision * (receipts[s][e].delivered + otherPayments[s][e])
      BY WeeksReachInParts
    <2>1. Distributed(s)[e] = 0
      BY DEF SystemInit, Init, BooksInit, Distributed
    <2>2. receipts[s][e].delivered = 0 /\ otherPayments[s][e] = 0
      BY WeeksAreEpochs DEF SystemInit, R!Init, R!BooksInit, R!NoReceipt
    <2> QED
      BY <2>1, <2>2, AgentBondAssumption
  <1>2. ASSUME TypeOK, TypeOK', AccumulatorsInv, LedgerInv, LedgerInv', WeeksReachTheirBonders,
               [SystemNext]_systemVars
        PROVE  WeeksReachTheirBonders'
    <2>1. LedgerType /\ LedgerType' /\ [Next]_vars
      BY <1>2, BondTakesItsSteps DEF LedgerInv
    <2>2. CASE BondMoves
      <3>1. receipts' = receipts
        BY <2>2 DEF BondMoves, ledgerOfRouter
      <3> QED
        BY <1>2, <2>1, <2>2, <3>1, UnpaidWeeksReach DEF BondMoves
    <2>3. ASSUME NEW n \in Notifiers, NEW r \in Streams, NEW d \in Epochs, NEW amount \in Rewards,
                 OtherMoves(n, r, d, amount)
          PROVE  WeeksReachTheirBonders'
      <3>1. /\ NotifyReward(n, r, d, amount)
            /\ receipts' = receipts
            /\ otherPayments' = [otherPayments EXCEPT ![r][d] = @ + amount]
        BY <2>3 DEF OtherMoves, ledgerOfRouter
      <3>2. \A s \in Streams, e \in Epochs : otherPayments'[s][e] =
                IF s = r /\ e = d THEN otherPayments[r][d] + amount ELSE otherPayments[s][e]
        BY <2>1, <3>1 DEF LedgerType
      <3>3. receipts[r][d].delivered \in Int /\ otherPayments[r][d] \in Int /\ amount \in Int
        <4>1. receipts[r][d] \in LedgerEntry /\ otherPayments[r][d] \in Nat
          BY <2>1 DEF LedgerType
        <4> QED
          BY <4>1, AgentBondAssumption DEF LedgerEntry
      <3>4. receipts'[r][d].delivered + otherPayments'[r][d]
                = receipts[r][d].delivered + otherPayments[r][d] + amount
        BY <3>1, <3>2, <3>3
      <3> QED
        BY <1>2, <2>1, <3>1, <3>2, <3>4, PaidWeeksReach
    <2>4. ASSUME NEW s \in Streams, NEW amount \in Nat \ {0}, Receives(s, amount)
          PROVE  WeeksReachTheirBonders'
      <3>1. UNCHANGED <<accVars, otherPayments>>
        BY <2>4 DEF Receives, vars
      <3>2. \A r \in Streams, e \in Epochs :
                receipts'[r][e].delivered = receipts[r][e].delivered
        BY <1>2, <2>4, LedgerReceives
      <3> QED
        BY <1>2, <2>1, <3>1, <3>2, UnpaidWeeksReach
    <2>5. CASE RouterIdles
      <3>1. UNCHANGED <<accVars, otherPayments, receipts>>
        BY <2>5 DEF RouterIdles, vars, ledgerOfRouter
      <3> QED
        BY <1>2, <2>1, <3>1, UnpaidWeeksReach
    <2>6. ASSUME NEW s \in Streams, NEW e \in Epochs, RouteWeek(s, e)
          PROVE  WeeksReachTheirBonders'
      <3> DEFINE share == R!Settled(s, e).delivered
      <3>1. /\ receipts[s][e].delivered = 0
            /\ receipts'[s][e].delivered = share
            /\ \A r \in Streams, d \in Epochs :
                  r # s \/ d # e => receipts'[r][d] = receipts[r][d]
        BY <1>2, <2>6, LedgerRoutes
      <3>2. /\ UNCHANGED otherPayments
            /\ \/ share = 0 /\ UNCHANGED vars
               \/ share \in Rewards /\ NotifyReward(Router, s, e, share)
        BY <1>2, <2>1, <2>6, WeekRouted
      <3>3. CASE share = 0 /\ UNCHANGED vars
        <4>1. UNCHANGED <<accVars, otherPayments>>
          BY <3>2, <3>3 DEF vars
        <4>2. \A r \in Streams, d \in Epochs :
                  receipts'[r][d].delivered = receipts[r][d].delivered
          BY <3>1, <3>3
        <4> QED
          BY <1>2, <2>1, <4>1, <4>2, UnpaidWeeksReach
      <3>4. CASE share \in Rewards /\ NotifyReward(Router, s, e, share)
        <4>1. otherPayments[s][e] \in Int /\ share \in Int
          <5>1. otherPayments[s][e] \in Nat
            BY <2>1 DEF LedgerType
          <5>2. Rewards \subseteq Nat
            BY AgentBondAssumption
          <5> HIDE DEF share
          <5> QED
            BY <3>4, <5>1, <5>2
        <4>2. receipts'[s][e].delivered + otherPayments'[s][e]
                  = receipts[s][e].delivered + otherPayments[s][e] + share
          <5> HIDE DEF share
          <5> QED
            BY <3>1, <3>2, <4>1
        <4> HIDE DEF share
        <4> QED
          BY <1>2, <2>1, <3>1, <3>2, <3>4, <4>2, RevenueSystemAssumption, PaidWeeksReach
      <3> QED
        BY <3>2, <3>3, <3>4
    <2> QED
      BY <1>2, <2>1, <2>2, <2>3, <2>4, <2>5, <2>6, SystemMoves
  <1>3. TypeOK /\ TypeOK' /\ AccumulatorsInv /\ LedgerInv /\ LedgerInv' /\ WeeksReachTheirBonders
        /\ [SystemNext]_systemVars => WeeksReachTheirBonders'
    BY <1>2
  <1> QED
    BY <1>1, <1>3, SystemImplementsBond, TypeCorrect, AccumulatorsConserve, PTL DEF SystemSpec

(* What holders have been paid for a week is at most half of what came in  *)
(* for it, and what others gave.                                           *)
THEOREM PayoutsWithinRevenue == SystemSpec => []PayoutsStayWithinRevenue
  <1>1. ASSUME TypeOK, WeightIsSumOfEarners, ClaimedWithinEntitlement, LedgerInv,
               WeeksReachTheirBonders
        PROVE  PayoutsStayWithinRevenue
    <2> SUFFICES ASSUME NEW s \in Streams, NEW e \in Epochs
                 PROVE  2 * ClaimedFor(s, e) <= receipts[s][e].revenue + 2 * otherPayments[s][e]
      BY DEF PayoutsStayWithinRevenue
    <2> DEFINE C == ClaimantsOf(s)
               f == [p \in PositionIds |-> claimedByEpoch[p][KindOf(s)][e]]
               g == [p \in C |-> Share(s)[p][e]]
               delivered == receipts[s][e].delivered
               revenue == receipts[s][e].revenue
               other == otherPayments[s][e]
               paid == rewardPerWeightAtEpoch[s][e] * totalRewardWeightAtEpoch[s][e]
               rem == rewardRemainderScaledAtEpoch[s][e]
    <2>1. C \subseteq PositionIds /\ IsFiniteSet(C)
      BY <1>1, FinitePositions, C \subseteq PositionIds DEF ClaimantsOf, TypeOK
    <2>2. ASSUME NEW p \in C
          PROVE  f[p] \in Int /\ g[p] \in Int /\ f[p] <= g[p]
      <3>1. p \in PositionIds /\ KindOf(s) \in Kinds
        BY <2>1 DEF KindOf, Kinds
      <3>2. f[p] \in Nat
        BY <1>1, <3>1 DEF TypeOK
      <3>3. g[p] \in Nat
        BY <1>1, PaidAndPending
      <3>4. f[p] <= g[p]
        BY <1>1, <3>1 DEF ClaimedWithinEntitlement, Share, EntitledTo
      <3> QED
        BY <3>2, <3>3, <3>4
    <2>3. SharesAt(s)[e] \in Int /\ Precision * SharesAt(s)[e] <= paid
      BY <1>1, SharesWithinEpoch
    <2>4. paid + rem = Precision * (delivered + other)
      BY <1>1 DEF WeeksReachTheirBonders
    <2>5. /\ delivered \in Nat /\ revenue \in Nat /\ other \in Nat /\ rem \in Nat /\ paid \in Nat
          /\ 2 * delivered <= revenue
      <3>1. receipts[s][e] \in LedgerEntry /\ other \in Nat /\ 2 * delivered <= revenue
        BY <1>1 DEF LedgerInv, LedgerType, StreamInv
      <3>2. rem \in Nat /\ paid \in Nat
        BY <1>1 DEF TypeOK
      <3> QED
        BY <3>1, <3>2 DEF LedgerEntry
    <2>6. Precision \in Nat \ {0}
      BY AgentBondAssumption
    <2>7. SharesAt(s)[e] = SumFunctionOnSet(g, C) /\ ClaimedFor(s, e) = SumFunctionOnSet(f, C)
      BY DEF SharesAt, ClaimedFor
    <2> HIDE DEF C, f, g, delivered, revenue, other, paid, rem
    <2>8. SumFunctionOnSet(f, C) <= SumFunctionOnSet(g, C) /\ SumFunctionOnSet(f, C) \in Int
      BY <2>1, <2>2, SumAtMost, SumInt
    <2>9. \A x, y \in Int : Precision * x <= Precision * y => x <= y
      BY <2>6
    <2>10. SharesAt(s)[e] <= delivered + other
      <3> DEFINE x == Precision * SharesAt(s)[e]
                 y == Precision * (delivered + other)
      <3>1. x <= y
        <4>1. x \in Int /\ y \in Int
          BY <2>3, <2>5, <2>6
        <4>2. x <= paid /\ paid + rem = y
          BY <2>3, <2>4
        <4> HIDE DEF x, y
        <4> QED
          BY <2>5, <4>1, <4>2
      <3>2. delivered + other \in Int
        BY <2>5
      <3> QED
        BY <2>3, <2>9, <3>1, <3>2
    <2>11. 2 * ClaimedFor(s, e) <= revenue + 2 * other
      BY <2>3, <2>5, <2>7, <2>8, <2>10
    <2> QED
      BY <2>11 DEF revenue, other
  <1> QED
    BY <1>1, SystemImplementsBond, TypeCorrect, WeightsMatchEarners, ClaimsWithinEntitlement,
       WeeksReach, PTL

(* From the marketplace to the wallet: a week's revenue reaches those who  *)
(* bonded through it, and they are paid out of nothing else.               *)
THEOREM RevenueReaches == SystemSpec => []RevenueReachesItsBonders
  <1>1. WeeksReachTheirBonders /\ PayoutsStayWithinRevenue => RevenueReachesItsBonders
    BY DEF RevenueReachesItsBonders
  <1> QED
    BY <1>1, WeeksReach, PayoutsWithinRevenue, PTL
=============================================================================
