--------------------------- MODULE EarnPositions ----------------------------
(***************************************************************************)
(* What the Earn page shows of the bonds of MuppetAgentBond.sol and what   *)
(* it offers to do with them: lib/earn.ts, components/EarnWallet.tsx, the  *)
(* controls of RevenuePage.tsx and the records the API hands them.  The    *)
(* page keeps none of this: every operator reads the contract's books, and *)
(* the page's clock is the chain's.                                        *)
(***************************************************************************)
EXTENDS AgentBond

\* A position as the API reports it: epochs as the days on which they start.
EarnPosition(p) ==
    LET pos == positions[p]
    IN  [account |-> pos.account, key |-> pos.key, muppets |-> UnitSize * pos.units,
         maturesAt |-> pos.maturesAt, unlockAt |-> pos.unlockAt,
         eligibleFrom |-> pos.firstEligibleEpoch * EPOCH_DURATION,
         eligibleUntil |-> pos.lastEligibleEpochExclusive * EPOCH_DURATION,
         withdrawn |-> pos.withdrawn,
         claimable |-> pendingPositionRewards(p, "global")
                       + pendingPositionRewards(p, "key")]

\* The open and the withdrawn positions of a wallet.
PositionsOf(account) == {p \in PositionIds : positions[p].account = account}

Claimable(account) ==
    SumFunctionOnSet([p \in PositionIds |-> EarnPosition(p).claimable], PositionsOf(account))

\* The wallet card: what the contract's books say of the account.
RevenueWallet(account) ==
    [units   |-> rewardUnits[account],
     bonded  |-> bondedBalance[account],
     pending |-> Claimable(account)]

\* The lifetime totals, which a refused subtraction would leave unavailable.
RewardTotals(account) ==
    [claimed    |-> accountRewardsClaimed[account],
     reinvested |-> accountRewardsReinvested[account],
     received   |-> accountRewardsClaimed[account] - accountRewardsReinvested[account]]

\* The record the page is given for a wallet.
EarnWallet(account) ==
    [staked    |-> RevenueWallet(account).bonded,
     claimable |-> RevenueWallet(account).pending,
     totals    |-> RewardTotals(account),
     positions |-> {EarnPosition(p) : p \in PositionsOf(account)}]

\* What the page reads from the bond itself of one key of the account.
AgentBondKeyPosition(account, key) ==
    LET ids == {p \in PositionsOf(account) : positions[p].key = key}
        pending(kind) == SumFunctionOnSet(
                             [p \in PositionIds |-> pendingPositionRewards(p, kind)], ids)
    IN  [committedUnits     |-> unitsByKey[account][key],
         availableBoundKeys |-> availableBoundKeys(account, key),
         claimable          |-> pending("global") + pending("key"),
         positions          |-> ids]

\* The Agents listed with controls: those whose keys the wallet bound or bonds.
walletAgents(account) ==
    {key \in Keys : \/ boundBalance[account][key] > 0
                    \/ AgentBondKeyPosition(account, key).committedUnits > 0}

-----------------------------------------------------------------------------
(* The wallet card of EarnWallet.tsx.                                      *)

DatesInOrder(pos) ==
    /\ pos.maturesAt <= pos.eligibleFrom
    /\ pos.eligibleFrom < pos.eligibleUntil
    /\ pos.eligibleUntil <= pos.unlockAt

Within(from, until) == from <= now /\ now < until

\* Mutant: a position is eligible until it unlocks.
PhaseUntilUnlock(pos) ==
    IF ~DatesInOrder(pos) THEN "unavailable" ELSE
    IF pos.withdrawn THEN "withdrawn" ELSE
    CASE now >= pos.unlockAt                     -> "unlocked"
      [] Within(pos.eligibleFrom, pos.unlockAt)  -> "eligible"
      [] Within(pos.maturesAt, pos.eligibleFrom) -> "waiting_for_epoch"
      [] now < pos.maturesAt                     -> "maturing"

getEarnPositionPhase(pos) ==
    IF ~DatesInOrder(pos) THEN "unavailable" ELSE
    IF pos.withdrawn THEN "withdrawn" ELSE
    CASE now >= pos.unlockAt                         -> "unlocked"
      [] Within(pos.eligibleUntil, pos.unlockAt)     -> "eligibility_complete"
      [] Within(pos.eligibleFrom, pos.eligibleUntil) -> "eligible"
      [] Within(pos.maturesAt, pos.eligibleFrom)     -> "waiting_for_epoch"
      [] now < pos.maturesAt                         -> "maturing"

(* The buttons of a position that a page with a wallet, a configuration    *)
(* and nothing under way enables.                                          *)
ClaimOffered(pos)    == pos.claimable # 0
WithdrawOffered(pos) == ~pos.withdrawn /\ getEarnPositionPhase(pos) = "unlocked"

-----------------------------------------------------------------------------
(* The Agent controls of RevenuePage.tsx, which ask the contract itself.   *)

ControlState(pos) ==
    LET locked == Within(pos.maturesAt, pos.unlockAt)
    IN  IF pos.withdrawn THEN "withdrawn" ELSE
        CASE now < pos.maturesAt                            -> "maturing"
          [] pos.maturesAt <= now /\ pos.unlockAt <= now    -> "unlocked"
          [] locked /\ now < pos.eligibleFrom               -> "waiting_for_epoch"
          [] locked /\ pos.eligibleFrom <= now
                    /\ pos.eligibleUntil <= now             -> "eligibility_complete"
          [] locked /\ Within(pos.eligibleFrom, pos.eligibleUntil) -> "eligible"

unlockReady(pos) == ~pos.withdrawn /\ pos.unlockAt <= now

\* Mutant: a paused bond counts as live.
LivePaused == governanceReady /\ HasActiveRegistry

\* Bonding is offered while the bond is live and not paused, one unit at a time.
canBond == governanceReady /\ HasActiveRegistry /\ ~paused
BondOffered(account, key) ==
    /\ key \in walletAgents(account)
    /\ canBond
    /\ AgentBondKeyPosition(account, key).availableBoundKeys > 0

-----------------------------------------------------------------------------
(* What the page promises and what the contract would do are the same.     *)

\* The phase shown is the contract's own view of the position's epochs, on
\* both cards of the page.
PhaseIsTrue(p, pos) ==
    LET phase == getEarnPositionPhase(pos)
    IN  /\ phase # "unavailable"
        /\ phase = ControlState(pos)
        /\ phase = "eligible" <=> currentEpoch \in EligibleEpochs(positions[p])
        /\ phase \in {"maturing", "waiting_for_epoch"} => pos.claimable = 0

\* The claim and withdrawal buttons of a position are enabled exactly when
\* their transactions would succeed: when the contract has nothing to refuse.
ButtonsAreTrue(p, pos) ==
    /\ ClaimOffered(pos) <=> CanSettle(pos.account, p, pendingPositionRewards(p, "global"),
                                       pendingPositionRewards(p, "key"))
    /\ WithdrawOffered(pos) <=> CanUnbond(pos.account, p)
    /\ unlockReady(pos) <=> WithdrawOffered(pos)

\* The totals are those of the positions listed below them, and no position
\* is left without controls.
TotalsAreTrue(account) ==
    LET wallet == EarnWallet(account)
        open   == {p \in PositionsOf(account) : ~positions[p].withdrawn}
        shown  == walletAgents(account)
    IN  /\ wallet.staked = SumFunctionOnSet(
                               [p \in PositionIds |-> EarnPosition(p).muppets], open)
        /\ wallet.totals.received \in Nat
        /\ PositionsOf(account) =
               UNION {AgentBondKeyPosition(account, key).positions : key \in shown}
        /\ wallet.claimable = SumFunctionOnSet(
               [key \in Keys |-> AgentBondKeyPosition(account, key).claimable], shown)
        /\ RevenueWallet(account).units = SumFunctionOnSet(
               [key \in Keys |-> AgentBondKeyPosition(account, key).committedUnits], shown)

\* The bond button asks neither whether an allowed registry still approves the
\* key nor whether the wallet holds the MUPPETS of a unit.  A unit the contract
\* would take is always offered; one that is offered can be refused, but beside
\* the MUPPETS only for the key's approval.
BondIsTrue(account, key, term) ==
    LET accepted == ~paused /\ CanOpenPosition(account, key, 1, term)
    IN  /\ accepted => BondOffered(account, key)
        /\ BondOffered(account, key) /\ ~accepted => ~ApprovedAgentKey(key)

(* Deciding from the Earn page is deciding from the contract: on every day *)
(* of a bond the phase shown agrees with the epochs the contract pays for, *)
(* a claim or a withdrawal is offered exactly when its transaction would   *)
(* succeed, and the totals add up to the positions.  A bond is offered     *)
(* whenever the contract would take it, but also for a key whose registry  *)
(* was dropped, which the contract then refuses; the wallet's own MUPPETS, *)
(* which neither the page's button nor this model looks at, are the one    *)
(* other reason.  Bonds beyond the model's bounds are not compared.        *)
EarnShowsTheBond ==
    /\ \A p \in PositionIds :
          PhaseIsTrue(p, EarnPosition(p)) /\ ButtonsAreTrue(p, EarnPosition(p))
    /\ \A account \in Accounts :
          /\ TotalsAreTrue(account)
          /\ \A key \in Keys, term \in Terms :
                nextPositionId <= MaxPositions /\ now + Duration(term) <= Horizon
                    => BondIsTrue(account, key, term)
=============================================================================
