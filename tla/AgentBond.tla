------------------------------ MODULE AgentBond ------------------------------
(***************************************************************************)
(* MuppetAgentBond.sol: MUPPETS locked against permanently bound Agent     *)
(* Keys, and WETH rewards distributed by completed epoch.                  *)
(*                                                                         *)
(* Every external function is one atomic transaction, so one action.  A    *)
(* revert is an action that is not enabled; Solidity's checked subtraction *)
(* is a guard.  Time is counted in days: every duration of the contract is *)
(* a whole number of days.  A mapping that exists once for all holders and *)
(* once per key (weights, accumulators, remainders, totals) is one         *)
(* function over Streams, where GlobalStream stands for the first.         *)
(***************************************************************************)
EXTENDS Integers, FiniteSets, Functions

CONSTANTS
    Accounts,       \* wallets that hold keys and bond
    Keys,           \* Agent Key token contracts
    GlobalStream,   \* the stream every position shares
    Registries,     \* key registries (the factories)
    ApprovedKeys,   \* ApprovedKeys[r]: the keys registry r approves
    Notifiers,      \* contracts that may become the reward notifier
    NoAddress,      \* address(0)
    Owners,         \* possible owners of the contract
    ContractOwners, \* the owners that have code
    Terms,          \* the bond terms in use
    UnitSize,       \* UNIT_SIZE, MUPPETS per bonded key
    Precision,      \* PRECISION, the accumulator's scale
    Rewards,        \* amounts a notifier pays at once
    Instants,       \* the days on which transactions are sent
    Horizon,        \* bound: the last day of a behaviour
    MaxPositions,   \* bound: positions ever opened
    MaxUnits,       \* bound: keys an account binds of one Agent Key
    MaxNotified     \* bound: WETH notified to one stream

ASSUME AgentBondAssumption ==
    /\ IsFiniteSet(Accounts)     \* an address has 160 bits
    /\ IsFiniteSet(Keys)
    /\ GlobalStream \notin Keys
    /\ ApprovedKeys \in [Registries -> SUBSET Keys]
    /\ NoAddress \notin Notifiers
    /\ ContractOwners \subseteq Owners
    /\ Terms \subseteq {"THIRTY_DAYS", "NINETY_DAYS", "ONE_EIGHTY_DAYS"}
    /\ UnitSize \in Nat \ {0}
    /\ Precision \in Nat \ {0}
    /\ Rewards \subseteq Nat
    /\ Horizon \in Nat
    /\ Instants \subseteq 0 .. Horizon
    /\ MaxPositions \in Nat
    /\ MaxUnits \in Nat
    /\ MaxNotified \in Nat

VARIABLES
    now,                  \* block.timestamp, in days
    paused, owner, rewardNotifier,
    keyRegistries,        \* the registries now allowed
    boundBalance,         \* AgentKey.boundBalance, per account and key
    nextPositionId, positions,
    unitsByKey, rewardUnits, bondedBalance, lockedUntil,
    totalRewardUnits, totalRewardUnitsByKey, totalBondedMuppets,
    totalRewardWeightAtEpoch,     \* per stream and epoch
    rewardPerWeightAtEpoch,       \* per stream and epoch
    rewardRemainderScaledAtEpoch, \* per stream and epoch
    claimedByEpoch,               \* per position, kind and epoch
    rewardLiability, keyRewardLiability,
    totalRewardsNotified, totalRewardsClaimed,
    totalNotified, totalClaimed,  \* per stream
    accountRewardsClaimed, accountRewardsReinvested,
    muppetsHeld, wethHeld         \* token balances of the contract

govVars    == <<paused, owner, rewardNotifier, keyRegistries>>
unitVars   == <<nextPositionId, positions, unitsByKey, rewardUnits, bondedBalance,
                lockedUntil, totalRewardUnits, totalRewardUnitsByKey,
                totalBondedMuppets>>
accVars    == <<rewardPerWeightAtEpoch, rewardRemainderScaledAtEpoch>>
ledgerVars == <<rewardLiability, keyRewardLiability, totalRewardsNotified,
                totalRewardsClaimed, totalNotified, totalClaimed,
                accountRewardsClaimed>>
vars == <<now, govVars, boundBalance, unitVars, totalRewardWeightAtEpoch, accVars,
          claimedByEpoch, ledgerVars, accountRewardsReinvested, muppetsHeld, wethHeld>>

EPOCH_DURATION      == 7
MATURATION_DURATION == 7
LOCK_DURATION       == 30

Streams == {GlobalStream} \cup Keys
Kinds   == {"global", "key"}
Epochs  == 0 .. Horizon \div EPOCH_DURATION

Duration(term) ==
    CASE term = "THIRTY_DAYS"     -> LOCK_DURATION
      [] term = "NINETY_DAYS"     -> 3 * LOCK_DURATION
      [] term = "ONE_EIGHTY_DAYS" -> 6 * LOCK_DURATION

MultiplierBps(term) ==
    CASE term = "THIRTY_DAYS"     -> 10000
      [] term = "NINETY_DAYS"     -> 12500
      [] term = "ONE_EIGHTY_DAYS" -> 15000

currentEpoch == now \div EPOCH_DURATION

PositionIds == 1 .. nextPositionId - 1

Position == [account : Accounts, key : Keys, units : Nat, rewardWeight : Nat,
             bondedAt : Nat, maturesAt : Nat, unlockAt : Nat,
             firstEligibleEpoch : Nat, lastEligibleEpochExclusive : Nat,
             term : Terms, withdrawn : BOOLEAN]

(* The epochs a position earns in: the loop bounds of bond and claim.      *)
EligibleEpochs(pos) ==
    {e \in Epochs : /\ pos.firstEligibleEpoch <= e
                    /\ e < pos.lastEligibleEpochExclusive}

(* The constructor pauses the contract.                                    *)
GovernanceInit ==
    /\ paused = TRUE
    /\ owner \in Owners
    /\ rewardNotifier = NoAddress
    /\ keyRegistries = {}

BooksInit ==
    /\ now = 0
    /\ nextPositionId = 1
    /\ positions = [p \in PositionIds |-> {}]
    /\ unitsByKey = [a \in Accounts |-> [k \in Keys |-> 0]]
    /\ rewardUnits = [a \in Accounts |-> 0]
    /\ bondedBalance = [a \in Accounts |-> 0]
    /\ lockedUntil = [a \in Accounts |-> [k \in Keys |-> 0]]
    /\ totalRewardUnits = 0
    /\ totalRewardUnitsByKey = [k \in Keys |-> 0]
    /\ totalBondedMuppets = 0
    /\ totalRewardWeightAtEpoch = [s \in Streams |-> [e \in Epochs |-> 0]]
    /\ rewardPerWeightAtEpoch = [s \in Streams |-> [e \in Epochs |-> 0]]
    /\ rewardRemainderScaledAtEpoch = [s \in Streams |-> [e \in Epochs |-> 0]]
    /\ claimedByEpoch = [p \in PositionIds |-> {}]
    /\ rewardLiability = 0
    /\ keyRewardLiability = [k \in Keys |-> 0]
    /\ totalRewardsNotified = 0
    /\ totalRewardsClaimed = 0
    /\ totalNotified = [s \in Streams |-> 0]
    /\ totalClaimed = [s \in Streams |-> 0]
    /\ accountRewardsClaimed = [a \in Accounts |-> 0]
    /\ accountRewardsReinvested = [a \in Accounts |-> 0]
    /\ muppetsHeld = 0
    /\ wethHeld = 0

Init ==
    /\ GovernanceInit
    /\ BooksInit
    /\ boundBalance = [a \in Accounts |-> [k \in Keys |-> 0]]

-----------------------------------------------------------------------------
(* Governance.                                                             *)

governanceReady  == owner \in ContractOwners
HasActiveRegistry == keyRegistries # {}
ApprovedAgentKey(key) == \E r \in keyRegistries : key \in ApprovedKeys[r]

nonGovVars == <<now, boundBalance, unitVars, totalRewardWeightAtEpoch, accVars,
                claimedByEpoch, ledgerVars, accountRewardsReinvested,
                muppetsHeld, wethHeld>>

TransferOwnership(caller, newOwner) ==
    /\ caller = owner
    /\ newOwner \in ContractOwners
    /\ owner' = newOwner
    /\ UNCHANGED <<paused, rewardNotifier, keyRegistries, nonGovVars>>

SetKeyRegistry(caller, registry, allowed) ==
    /\ caller = owner
    /\ paused
    /\ keyRegistries' = IF allowed THEN keyRegistries \cup {registry}
                                   ELSE keyRegistries \ {registry}
    /\ UNCHANGED <<paused, owner, rewardNotifier, nonGovVars>>

SetRewardNotifier(caller, notifier) ==
    /\ caller = owner
    /\ paused
    /\ rewardNotifier' = notifier
    /\ UNCHANGED <<paused, owner, keyRegistries, nonGovVars>>

Activate(caller) ==
    /\ caller = owner
    /\ governanceReady
    /\ rewardNotifier # NoAddress
    /\ HasActiveRegistry
    /\ paused
    /\ paused' = FALSE
    /\ UNCHANGED <<owner, rewardNotifier, keyRegistries, nonGovVars>>

Pause(caller) ==
    /\ caller = owner
    /\ ~paused
    /\ paused' = TRUE
    /\ UNCHANGED <<owner, rewardNotifier, keyRegistries, nonGovVars>>

-----------------------------------------------------------------------------
(* The environment: time, and keys bound for good in AgentKey.             *)

AdvanceClock(day) ==
    /\ day > now
    /\ now' = day
    /\ UNCHANGED <<govVars, boundBalance, unitVars, totalRewardWeightAtEpoch,
                   accVars, claimedByEpoch, ledgerVars, accountRewardsReinvested,
                   muppetsHeld, wethHeld>>

BindKeys(account, key, units) ==
    /\ boundBalance[account][key] + units <= MaxUnits
    /\ boundBalance' = [boundBalance EXCEPT ![account][key] = @ + units]
    /\ UNCHANGED <<now, govVars, unitVars, totalRewardWeightAtEpoch, accVars,
                   claimedByEpoch, ledgerVars, accountRewardsReinvested,
                   muppetsHeld, wethHeld>>

-----------------------------------------------------------------------------
(* Bonding.                                                                *)

\* Mutants: the first whole epoch after bonding, not after maturity; the
\* epoch in which the position matures.
FirstEpochAfterBonding(maturesAt) ==
    (maturesAt - MATURATION_DURATION + EPOCH_DURATION - 1) \div EPOCH_DURATION
FirstEpochRoundedDown(maturesAt) == maturesAt \div EPOCH_DURATION

(* The first epoch that starts at or after the maturity, and the first     *)
(* that is not over at the unlock time.                                    *)
FirstEligibleEpoch(maturesAt) == (maturesAt + EPOCH_DURATION - 1) \div EPOCH_DURATION
LastEligibleEpochExclusive(unlockAt) == unlockAt \div EPOCH_DURATION

NewPosition(account, key, units, term) ==
    LET maturesAt == now + MATURATION_DURATION
        unlockAt  == now + Duration(term)
    IN  [account |-> account, key |-> key, units |-> units,
         rewardWeight |-> units * MultiplierBps(term),
         bondedAt |-> now, maturesAt |-> maturesAt, unlockAt |-> unlockAt,
         firstEligibleEpoch |-> FirstEligibleEpoch(maturesAt),
         lastEligibleEpochExclusive |-> LastEligibleEpochExclusive(unlockAt),
         term |-> term, withdrawn |-> FALSE]

availableBoundKeys(account, key) ==
    IF boundBalance[account][key] > unitsByKey[account][key]
    THEN boundBalance[account][key] - unitsByKey[account][key]
    ELSE 0

(* What _bond requires.  Horizon and MaxPositions keep instances finite.   *)
CanOpenPosition(account, key, units, term) ==
    LET pos == NewPosition(account, key, units, term)
    IN  /\ nextPositionId <= MaxPositions
        /\ pos.unlockAt <= Horizon
        /\ units > 0
        /\ ApprovedAgentKey(key)
        /\ availableBoundKeys(account, key) >= units
        /\ pos.firstEligibleEpoch < pos.lastEligibleEpochExclusive

LaterLock(before, unlockAt) == IF unlockAt > before THEN unlockAt ELSE before

\* Mutant: a position weighs in epochs that are over, too.
WeightFromTheStart(pos) ==
    [s \in Streams |-> [e \in Epochs |->
        IF s \in {GlobalStream, pos.key} /\ e < pos.lastEligibleEpochExclusive
        THEN totalRewardWeightAtEpoch[s][e] + pos.rewardWeight
        ELSE totalRewardWeightAtEpoch[s][e]]]

(* The weights with a position's share in each of its epochs.              *)
WeightWith(pos) ==
    [s \in Streams |-> [e \in Epochs |->
        IF s \in {GlobalStream, pos.key} /\ e \in EligibleEpochs(pos)
        THEN totalRewardWeightAtEpoch[s][e] + pos.rewardWeight
        ELSE totalRewardWeightAtEpoch[s][e]]]

(* The new position with everything _bond adds to the books.               *)
OpenPosition(account, key, units, term) ==
    LET pos == NewPosition(account, key, units, term)
        amount == units * UnitSize
    IN  /\ CanOpenPosition(account, key, units, term)
        /\ nextPositionId' = nextPositionId + 1
        /\ positions' = [p \in 1 .. nextPositionId |->
                            IF p = nextPositionId THEN pos ELSE positions[p]]
        /\ unitsByKey' = [unitsByKey EXCEPT ![account][key] = @ + units]
        /\ rewardUnits' = [rewardUnits EXCEPT ![account] = @ + units]
        /\ bondedBalance' = [bondedBalance EXCEPT ![account] = @ + amount]
        /\ totalRewardUnits' = totalRewardUnits + units
        /\ totalRewardUnitsByKey' = [totalRewardUnitsByKey EXCEPT ![key] = @ + units]
        /\ totalBondedMuppets' = totalBondedMuppets + amount
        /\ lockedUntil' = [lockedUntil EXCEPT ![account][key] = LaterLock(@, pos.unlockAt)]
        /\ totalRewardWeightAtEpoch' = WeightWith(pos)

\* Mutant: a claim that is reinvested is not recorded.
WithUnrecordedClaim(claims) ==
    [p \in 1 .. nextPositionId |->
        IF p = nextPositionId THEN [kind \in Kinds |-> [e \in Epochs |-> 0]]
                              ELSE claimedByEpoch[p]]

(* Nothing is claimed of a new position.                                   *)
WithFreshPosition(claims) ==
    [p \in 1 .. nextPositionId |->
        IF p = nextPositionId THEN [kind \in Kinds |-> [e \in Epochs |-> 0]]
                              ELSE claims[p]]

(* bond and bondWithTerm: the wallet pays for the position.                *)
BondWithTerm(account, key, units, term) ==
    /\ ~paused
    /\ OpenPosition(account, key, units, term)
    /\ claimedByEpoch' = WithFreshPosition(claimedByEpoch)
    /\ muppetsHeld' = muppetsHeld + units * UnitSize
    /\ UNCHANGED <<now, govVars, boundBalance, accVars, ledgerVars,
                   accountRewardsReinvested, wethHeld>>

\* Mutant: locked in while the contract is paused.
UnlockedWhenLive(pos) == ~paused /\ now >= pos.unlockAt

Unlocked(pos) == now >= pos.unlockAt

(* What unbondPosition requires, the checked subtractions included.        *)
CanUnbond(account, p) ==
    LET pos == positions[p]
        amount == pos.units * UnitSize
    IN  /\ pos.account = account
        /\ ~pos.withdrawn
        /\ Unlocked(pos)
        /\ unitsByKey[account][pos.key] >= pos.units
        /\ rewardUnits[account] >= pos.units
        /\ bondedBalance[account] >= amount
        /\ totalRewardUnits >= pos.units
        /\ totalRewardUnitsByKey[pos.key] >= pos.units
        /\ totalBondedMuppets >= amount
        /\ muppetsHeld >= amount

(* Not gated by pause.  The epoch weights are left as they are: every      *)
(* epoch of the position is complete by the time it unlocks.               *)
UnbondPosition(account, p) ==
    LET pos == positions[p]
        amount == pos.units * UnitSize
    IN  /\ CanUnbond(account, p)
        /\ positions' = [positions EXCEPT ![p].withdrawn = TRUE]
        /\ unitsByKey' = [unitsByKey EXCEPT ![account][pos.key] = @ - pos.units]
        /\ rewardUnits' = [rewardUnits EXCEPT ![account] = @ - pos.units]
        /\ bondedBalance' = [bondedBalance EXCEPT ![account] = @ - amount]
        /\ totalRewardUnits' = totalRewardUnits - pos.units
        /\ totalRewardUnitsByKey' = [totalRewardUnitsByKey EXCEPT ![pos.key] = @ - pos.units]
        /\ totalBondedMuppets' = totalBondedMuppets - amount
        /\ muppetsHeld' = muppetsHeld - amount
        /\ UNCHANGED <<now, govVars, boundBalance, nextPositionId, lockedUntil,
                       totalRewardWeightAtEpoch, accVars, claimedByEpoch, ledgerVars,
                       accountRewardsReinvested, wethHeld>>

-----------------------------------------------------------------------------
(* Rewards.                                                                *)

Scaled(stream, epoch, amount) ==
    amount * Precision + rewardRemainderScaledAtEpoch[stream][epoch]

\* Mutant: a second payment for an epoch replaces the first.
AccumulatorReplaced(stream, epoch, part) == part

AccumulatorWith(stream, epoch, part) == rewardPerWeightAtEpoch[stream][epoch] + part

\* Mutant: the key's own liability is forgotten.
KeyLiabilityForgotten(stream, amount) == keyRewardLiability

KeyLiabilityWith(stream, amount) ==
    [k \in Keys |-> IF k = stream THEN keyRewardLiability[k] + amount
                                  ELSE keyRewardLiability[k]]

(* notifyReward (stream = GlobalStream) and notifyKeyReward (stream = the  *)
(* key): WETH for one completed epoch, spread over the weight of that      *)
(* epoch, the indivisible rest carried to the next payment.                *)
NotifyReward(caller, stream, epoch, amount) ==
    LET weight == totalRewardWeightAtEpoch[stream][epoch]
        scaled == Scaled(stream, epoch, amount)
    IN  /\ totalNotified[stream] + amount <= MaxNotified
        /\ ~paused
        /\ caller = rewardNotifier
        /\ amount # 0
        /\ epoch < currentEpoch
        /\ weight # 0
        /\ rewardPerWeightAtEpoch' =
              [rewardPerWeightAtEpoch EXCEPT ![stream][epoch] =
                  AccumulatorWith(stream, epoch, scaled \div weight)]
        /\ rewardRemainderScaledAtEpoch' =
              [rewardRemainderScaledAtEpoch EXCEPT ![stream][epoch] = scaled % weight]
        /\ keyRewardLiability' = KeyLiabilityWith(stream, amount)
        /\ rewardLiability' = rewardLiability + amount
        /\ totalNotified' = [totalNotified EXCEPT ![stream] = @ + amount]
        /\ totalRewardsNotified' = totalRewardsNotified + amount
        /\ wethHeld' = wethHeld + amount
        /\ UNCHANGED <<now, govVars, boundBalance, unitVars, totalRewardWeightAtEpoch,
                       claimedByEpoch, totalRewardsClaimed, totalClaimed,
                       accountRewardsClaimed, accountRewardsReinvested, muppetsHeld>>

StreamOf(p, kind) == IF kind = "global" THEN GlobalStream ELSE positions[p].key

\* Mutant: shares are rounded up.
EntitlementRoundedUp(p, kind, e) ==
    (positions[p].rewardWeight * rewardPerWeightAtEpoch[StreamOf(p, kind)][e] + Precision - 1)
        \div Precision

Entitlement(p, kind, e) ==
    (positions[p].rewardWeight * rewardPerWeightAtEpoch[StreamOf(p, kind)][e]) \div Precision

(* What a claim of position p pays per eligible epoch.                     *)
Unclaimed(p, kind) ==
    [e \in EligibleEpochs(positions[p]) |->
        IF Entitlement(p, kind, e) > claimedByEpoch[p][kind][e]
        THEN Entitlement(p, kind, e) - claimedByEpoch[p][kind][e]
        ELSE 0]

pendingPositionRewards(p, kind) ==
    SumFunctionOnSet(Unclaimed(p, kind), EligibleEpochs(positions[p]))

\* Mutant: only the global claim is recorded.
CheckpointedGlobalOnly(p) ==
    [claimedByEpoch EXCEPT ![p]["global"] = [e \in Epochs |->
        IF e \in EligibleEpochs(positions[p]) /\ Entitlement(p, "global", e) > @[e]
        THEN Entitlement(p, "global", e)
        ELSE @[e]]]

Checkpointed(p) ==
    [claimedByEpoch EXCEPT ![p] =
        [kind \in Kinds |-> [e \in Epochs |->
            IF e \in EligibleEpochs(positions[p]) /\ Entitlement(p, kind, e) > @[kind][e]
            THEN Entitlement(p, kind, e)
            ELSE @[kind][e]]]]

(* What a claim requires: the ranges are the refusal of an empty claim and *)
(* the checked subtractions, the last conjunct is the transfer of WETH.    *)
CanSettle(account, p, globalWeth, keyWeth) ==
    /\ positions[p].account = account
    /\ globalWeth \in 0 .. rewardLiability
    /\ keyWeth \in 0 .. keyRewardLiability[positions[p].key]
    /\ globalWeth + keyWeth \in 1 .. rewardLiability
    /\ wethHeld >= globalWeth + keyWeth

(* _claimPositionRewards: the ledger side of a claim.                      *)
SettleClaim(account, p, globalWeth, keyWeth) ==
    LET key    == positions[p].key
        amount == globalWeth + keyWeth
    IN  /\ globalWeth = pendingPositionRewards(p, "global")
        /\ keyWeth = pendingPositionRewards(p, "key")
        /\ CanSettle(account, p, globalWeth, keyWeth)
        /\ rewardLiability' = rewardLiability - amount
        /\ keyRewardLiability' = [keyRewardLiability EXCEPT ![key] = @ - keyWeth]
        /\ totalClaimed' = [totalClaimed EXCEPT ![GlobalStream] = @ + globalWeth,
                                                ![key] = @ + keyWeth]
        /\ totalRewardsClaimed' = totalRewardsClaimed + amount
        /\ accountRewardsClaimed' = [accountRewardsClaimed EXCEPT ![account] = @ + amount]
        /\ UNCHANGED <<totalRewardsNotified, totalNotified>>

(* Not gated by pause, and open to withdrawn positions.                    *)
ClaimPositionRewards(account, p) ==
    LET globalWeth == pendingPositionRewards(p, "global")
        keyWeth    == pendingPositionRewards(p, "key")
    IN  /\ SettleClaim(account, p, globalWeth, keyWeth)
        /\ claimedByEpoch' = Checkpointed(p)
        /\ wethHeld' = wethHeld - (globalWeth + keyWeth)
        /\ UNCHANGED <<now, govVars, boundBalance, unitVars, totalRewardWeightAtEpoch,
                       accVars, accountRewardsReinvested, muppetsHeld>>

\* Mutant: what is claimed and not spent stays with the contract.
WethSpent(claimed, wethToSpend) == wethToSpend

(* The WETH of a claim that is reinvested: the purchase, and the rest.     *)
WethPaidOut(claimed, wethToSpend) == wethToSpend + (claimed - wethToSpend)

(* Claims position p, buys MUPPETS with wethToSpend of it and bonds units  *)
(* of them; the rest of both tokens goes back to the account.  bought is   *)
(* the measured output of the swap.  The deadline (minutes) is below the   *)
(* clock's grain.                                                          *)
ClaimBuyAndBond(account, p, wethToSpend, key, units, term, minimumOutput, bought) ==
    LET globalWeth    == pendingPositionRewards(p, "global")
        keyWeth       == pendingPositionRewards(p, "key")
        claimed       == globalWeth + keyWeth
        muppetsToBond == units * UnitSize
    IN  /\ ~paused
        /\ wethToSpend # 0
        /\ minimumOutput >= muppetsToBond
        /\ bought >= minimumOutput
        /\ OpenPosition(account, key, units, term)
        /\ wethToSpend <= claimed
        /\ SettleClaim(account, p, globalWeth, keyWeth)
        /\ claimedByEpoch' = WithFreshPosition(Checkpointed(p))
        /\ wethHeld' = wethHeld - WethPaidOut(claimed, wethToSpend)
        /\ muppetsHeld' = muppetsHeld + bought - (bought - muppetsToBond)
        /\ accountRewardsReinvested' =
              [accountRewardsReinvested EXCEPT ![account] = @ + wethToSpend]
        /\ UNCHANGED <<now, govVars, boundBalance, accVars>>

-----------------------------------------------------------------------------

Govern ==
    \E caller \in Owners :
        \/ \E new \in Owners : TransferOwnership(caller, new)
        \/ \E r \in Registries, allowed \in BOOLEAN : SetKeyRegistry(caller, r, allowed)
        \/ \E n \in Notifiers : SetRewardNotifier(caller, n)
        \/ Activate(caller)
        \/ Pause(caller)

HolderStep ==
    \E a \in Accounts :
        \/ \E k \in Keys, u \in 1 .. MaxUnits :
              \/ BindKeys(a, k, u)
              \/ \E t \in Terms : BondWithTerm(a, k, u, t)
        \/ \E p \in PositionIds :
              \/ UnbondPosition(a, p)
              \/ ClaimPositionRewards(a, p)
              \* The least minimumOutput the code accepts allows every outcome
              \* a larger one does; the swap may return more.
              \/ \E k \in Keys, u \in 1 .. MaxUnits, t \in Terms,
                    spend \in 1 .. 2 * MaxNotified, surplus \in 0 .. 1 :
                    ClaimBuyAndBond(a, p, spend, k, u, t, u * UnitSize,
                                    u * UnitSize + surplus)

Notify ==
    \E n \in Notifiers, s \in Streams, e \in Epochs, amount \in Rewards :
        NotifyReward(n, s, e, amount)

Next ==
    \/ Govern
    \/ \E day \in Instants : AdvanceClock(day)
    \/ HolderStep
    \/ Notify

Spec == Init /\ [][Next]_vars

-----------------------------------------------------------------------------
(* Type correctness: the books never leave the naturals, no subtraction of *)
(* the contract wraps, and positions are well-formed.                      *)
TypeOK ==
    /\ now \in 0 .. Horizon
    /\ paused \in BOOLEAN
    /\ owner \in Owners
    /\ rewardNotifier \in Notifiers \cup {NoAddress}
    /\ keyRegistries \in SUBSET Registries
    /\ boundBalance \in [Accounts -> [Keys -> Nat]]
    /\ nextPositionId \in Nat \ {0}
    /\ positions \in [PositionIds -> Position]
    /\ unitsByKey \in [Accounts -> [Keys -> Nat]]
    /\ rewardUnits \in [Accounts -> Nat]
    /\ bondedBalance \in [Accounts -> Nat]
    /\ lockedUntil \in [Accounts -> [Keys -> Nat]]
    /\ totalRewardUnits \in Nat
    /\ totalRewardUnitsByKey \in [Keys -> Nat]
    /\ totalBondedMuppets \in Nat
    /\ totalRewardWeightAtEpoch \in [Streams -> [Epochs -> Nat]]
    /\ rewardPerWeightAtEpoch \in [Streams -> [Epochs -> Nat]]
    /\ rewardRemainderScaledAtEpoch \in [Streams -> [Epochs -> Nat]]
    /\ claimedByEpoch \in [PositionIds -> [Kinds -> [Epochs -> Nat]]]
    /\ rewardLiability \in Nat
    /\ keyRewardLiability \in [Keys -> Nat]
    /\ totalRewardsNotified \in Nat
    /\ totalRewardsClaimed \in Nat
    /\ totalNotified \in [Streams -> Nat]
    /\ totalClaimed \in [Streams -> Nat]
    /\ accountRewardsClaimed \in [Accounts -> Nat]
    /\ accountRewardsReinvested \in [Accounts -> Nat]
    /\ muppetsHeld \in Nat
    /\ wethHeld \in Nat

(* Governance order: the contract is never live without an owner that has  *)
(* code, a notifier and an allowed registry, whatever sequence of          *)
(* setKeyRegistry, setRewardNotifier, activate, pause and                  *)
(* transferOwnership led here.                                             *)
ActivationIsSafe ==
    ~paused => governanceReady /\ rewardNotifier # NoAddress /\ HasActiveRegistry

(* A position earns only in whole epochs that start at or after its        *)
(* maturity and end no later than its unlock time (the @dev promise of the *)
(* contract), for every day of the week it is opened on.                   *)
EarnsOnlyMaturedLockedEpochs ==
    \A p \in PositionIds : \A e \in EligibleEpochs(positions[p]) :
        /\ positions[p].maturesAt <= e * EPOCH_DURATION
        /\ (e + 1) * EPOCH_DURATION <= positions[p].unlockAt

(* Whoever still earns in the running or a later epoch has its MUPPETS     *)
(* locked: unbondPosition, which leaves the weights alone, never frees a   *)
(* position whose weight still counts.                                     *)
WithdrawnEarnsNoMore ==
    \A p \in PositionIds :
        positions[p].withdrawn => positions[p].lastEligibleEpochExclusive <= currentEpoch

EarnersOf(s, e) ==
    {p \in PositionIds : /\ s \in {GlobalStream, positions[p].key}
                         /\ e \in EligibleEpochs(positions[p])}

(* The weight a reward is divided by is the weight of the positions that   *)
(* can claim it, globally and per key: no share is lost or promised twice. *)
WeightIsSumOfEarners ==
    \A s \in Streams, e \in Epochs :
        totalRewardWeightAtEpoch[s][e] =
            SumFunctionOnSet([p \in PositionIds |-> positions[p].rewardWeight],
                             EarnersOf(s, e))

(* The accumulators give out exactly what was notified: the parts and the  *)
(* carried remainder add up, and the remainder is always smaller than the  *)
(* weight, so an epoch's share does not depend on how payments were split. *)
AccumulatorsConserveRewards ==
    \A s \in Streams :
        /\ \A e \in Epochs :
              rewardRemainderScaledAtEpoch[s][e] = 0
              \/ rewardRemainderScaledAtEpoch[s][e] < totalRewardWeightAtEpoch[s][e]
        /\ SumFunctionOnSet([e \in Epochs |->
                  rewardPerWeightAtEpoch[s][e] * totalRewardWeightAtEpoch[s][e]
                  + rewardRemainderScaledAtEpoch[s][e]], Epochs)
           = Precision * totalNotified[s]

(* pendingPositionRewards, which subtracts without a test, cannot revert:  *)
(* no claim ever recorded more than the position is entitled to, and none  *)
(* outside its epochs.                                                     *)
ClaimedWithinEntitlement ==
    \A p \in PositionIds, kind \in Kinds, e \in Epochs :
        claimedByEpoch[p][kind][e] <=
            IF e \in EligibleEpochs(positions[p]) THEN Entitlement(p, kind, e) ELSE 0

ClaimantsOf(s) == {p \in PositionIds : s \in {GlobalStream, positions[p].key}}
KindOf(s) == IF s = GlobalStream THEN "global" ELSE "key"

(* Solvency: everything all positions could claim now, from the global     *)
(* stream and from each key's own, is covered by what that stream still    *)
(* holds, so no claim can revert and no key is paid with another's money.  *)
ClaimsAreCovered ==
    \A s \in Streams :
        SumFunctionOnSet([p \in PositionIds |-> pendingPositionRewards(p, KindOf(s))],
                         ClaimantsOf(s))
            <= totalNotified[s] - totalClaimed[s]

(* Rewards are conserved from the notification to the last claim, whatever *)
(* the rounding, the number of payments and the order of the claims.       *)
RewardsAreConserved == AccumulatorsConserveRewards /\ ClaimsAreCovered

(* Every WETH paid out is recorded against the position and epoch it was   *)
(* earned in, also when the claim is spent by claimBuyAndBond.             *)
PayoutsAreRecorded ==
    \A s \in Streams :
        totalClaimed[s] =
            SumFunctionOnSet([p \in PositionIds |->
                SumFunctionOnSet(claimedByEpoch[p][KindOf(s)], Epochs)], ClaimantsOf(s))

(* The WETH in the contract is the liability, and the liability is what    *)
(* was notified and not claimed: in total and per key.                     *)
LiabilityIsBacked ==
    /\ wethHeld = rewardLiability
    /\ rewardLiability + totalRewardsClaimed = totalRewardsNotified
    /\ \A k \in Keys : keyRewardLiability[k] + totalClaimed[k] = totalNotified[k]

OpenPositions(a, k) ==
    {p \in PositionIds : /\ ~positions[p].withdrawn
                         /\ positions[p].account = a /\ positions[p].key = k}

(* One bound key backs one unit at a time, and every open position is      *)
(* backed by its MUPPETS: the contract's balance, the per-account and the  *)
(* total books all equal the sum over the open positions.                  *)
BondsAreBacked ==
    LET units == [p \in PositionIds |-> positions[p].units] IN
    /\ \A a \in Accounts, k \in Keys :
          /\ unitsByKey[a][k] = SumFunctionOnSet(units, OpenPositions(a, k))
          /\ unitsByKey[a][k] <= boundBalance[a][k]
    /\ \A a \in Accounts :
          /\ rewardUnits[a] = SumFunctionOnSet(unitsByKey[a], Keys)
          /\ bondedBalance[a] = UnitSize * rewardUnits[a]
    /\ totalRewardUnits = SumFunctionOnSet(rewardUnits, Accounts)
    /\ totalRewardUnits = SumFunctionOnSet(totalRewardUnitsByKey, Keys)
    /\ totalBondedMuppets = UnitSize * totalRewardUnits
    /\ muppetsHeld = totalBondedMuppets

(* The three books against the positions: weights, payouts and bonds.      *)
BooksMatchPositions == WeightIsSumOfEarners /\ PayoutsAreRecorded /\ BondsAreBacked

(* lockedUntil is an upper bound of every open position's unlock time.     *)
LockedUntilCoversPositions ==
    \A p \in PositionIds :
        positions[p].unlockAt <= lockedUntil[positions[p].account][positions[p].key]

(* The weights of the running and of every past epoch are final: nobody    *)
(* who bonds late shares in what an epoch earned.                          *)
StartedEpochsAreFrozen ==
    [][\A s \in Streams, e \in Epochs :
          e <= currentEpoch =>
              totalRewardWeightAtEpoch'[s][e] = totalRewardWeightAtEpoch[s][e]]_vars

(* What a position has earned in an epoch never goes down: not when others *)
(* bond, unbond or claim, not when more rewards arrive.                    *)
EntitlementsNeverShrink ==
    [][\A p \in PositionIds, kind \in Kinds, e \in Epochs :
          Entitlement(p, kind, e) <= Entitlement(p, kind, e)']_vars

-----------------------------------------------------------------------------
(* Liveness.  Time passes, and a holder who may unbond eventually does.    *)
(* Nothing is assumed of the owner, who may pause for ever.                *)

FairSpec ==
    /\ Spec
    /\ WF_vars(\E day \in Instants : AdvanceClock(day))
    /\ \A p \in 1 .. MaxPositions :
          WF_vars(p \in PositionIds /\ \E a \in Accounts : UnbondPosition(a, p))

(* Every bond ends with its MUPPETS returned, paused or not.               *)
LockedMuppetsReturn ==
    \A p \in 1 .. MaxPositions :
        (p \in PositionIds) ~> (p \in PositionIds /\ positions[p].withdrawn)
=============================================================================
