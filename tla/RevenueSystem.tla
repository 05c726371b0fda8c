---------------------------- MODULE RevenueSystem ----------------------------
(***************************************************************************)
(* MuppetRevenueRouter.sol and MuppetAgentBond.sol together: revenue       *)
(* recorded by week, routed, and paid out to those who bonded through that *)
(* week.  The bond's variables are AgentBond's, and what RevenueRouter     *)
(* leaves to its environment (the week, which weeks have weight, what the  *)
(* bond refuses) is read from them.  A routing and the calls it makes are  *)
(* one transaction.  A batch (routeRevenueEpochs) goes through the states  *)
(* of the single routings it is made of, and stops earlier if one fails.   *)
(***************************************************************************)
EXTENDS AgentBond

CONSTANTS
    Router,               \* the address of the router
    LegacyMarketplaces, KeyMarketplaces, Amounts, MaxReceived, MaxFunding

ASSUME RevenueSystemAssumption ==
    /\ Router \in Notifiers
    /\ 1 .. MaxNotified \subseteq Rewards     \* the router pays what comes in
    /\ Amounts \subseteq Nat \ {0}
    /\ MaxReceived \in Nat
    /\ MaxFunding \in Nat

VARIABLES
    routerPaused, ownerIsContract, marketplaces, keyMarketplaces,
    receipts, epochQueue, epochCursor, totalRevenue, totalRouted, unallocatedNative,
    totalUnallocatedBondRewardsNative, totalBondRewardsDelivered, totalBuybackRouted,
    totalStockReserveRouted, totalOperationsRouted, withdrawableFunding,
    nativeBalance, escrowOwed,
    otherPayments         \* what other notifiers paid, per stream and epoch

routerVars == <<routerPaused, ownerIsContract, marketplaces, keyMarketplaces,
                receipts, epochQueue, epochCursor, totalRevenue, totalRouted,
                unallocatedNative, totalUnallocatedBondRewardsNative,
                totalBondRewardsDelivered, totalBuybackRouted, totalStockReserveRouted,
                totalOperationsRouted, withdrawableFunding, nativeBalance, escrowOwed>>
systemVars == <<vars, routerVars, otherPayments>>

ROUTE_INTERVAL == 7

currentRevenueEpoch == now \div ROUTE_INTERVAL

(* What the bond refuses the router now.  The buyback vault, outside this   *)
(* module, accepts: RevenueRouter has the routings it delays.              *)
refusals ==
    (IF paused THEN {"bondPaused"} ELSE {})
    \cup (IF rewardNotifier # Router THEN {"bondNotifier"} ELSE {})

(* The completed weeks in which the bond has weight for a stream.          *)
weightedWeeks ==
    [s \in Streams |-> [e \in Epochs |->
        e < currentRevenueEpoch /\ totalRewardWeightAtEpoch[s][e] # 0]]

R == INSTANCE RevenueRouter
     WITH week <- currentRevenueEpoch, paused <- routerPaused, outages <- refusals,
          weighted <- weightedWeeks, MaxWeek <- Horizon \div ROUTE_INTERVAL,
          Outages <- {"bondPaused", "bondNotifier"}

SystemInit ==
    /\ Init
    /\ otherPayments = [s \in Streams |-> [e \in Epochs |-> 0]]
    /\ R!Init

-----------------------------------------------------------------------------
(* The bond on its own.  No behaviour lets a week pass without a step in   *)
(* it, so that the clock meets every week's end.                           *)
BondStep ==
    /\ \/ Govern
       \/ \E day \in Instants :
             day \div EPOCH_DURATION <= currentEpoch + 1 /\ AdvanceClock(day)
       \/ HolderStep
    /\ UNCHANGED <<routerVars, otherPayments>>

(* Whoever else the owner made the notifier pays for an epoch.             *)
OtherPays ==
    \E n \in Notifiers \ {Router}, s \in Streams, e \in Epochs, amount \in Rewards :
        /\ NotifyReward(n, s, e, amount)
        /\ otherPayments' = [otherPayments EXCEPT ![s][e] = @ + amount]
        /\ UNCHANGED routerVars

(* The router on its own: all it does but route.                           *)
RouterStep ==
    /\ UNCHANGED <<vars, otherPayments>>
    /\ \/ R!Govern
       \/ R!Receive
       \/ \E amount \in Amounts : R!PonsFeesAccrue(amount)

\* Mutant: the share goes to the week that ended last.
LastCompletedWeek(e) == currentRevenueEpoch - 1

(* The epoch the bond is notified of: the week of the receipt.             *)
NotifiedEpoch(e) == e

(* _deliverBondRewards, _deliverKeyBondRewards: a zero share makes no call. *)
Notifies(s, e, share) ==
    IF share = 0 THEN UNCHANGED vars ELSE NotifyReward(Router, s, NotifiedEpoch(e), share)

(* routeRevenue, routeKeyRevenue: week e of s is finalized, its bond share *)
(* notified and the rest paid out, all or nothing.                         *)
RouteWeek(s, e) ==
    /\ epochCursor[s] + 1 \in R!ReadyWeeks(s)
    /\ e = epochQueue[s][epochCursor[s] + 1]
    /\ Notifies(s, e, R!Settled(s, e).delivered)
    /\ UNCHANGED otherPayments
    /\ R!RouteRevenue(s)

SystemNext ==
    \/ BondStep
    \/ OtherPays
    \/ RouterStep
    \/ \E s \in Streams, e \in Epochs : RouteWeek(s, e)

SystemSpec == SystemInit /\ [][SystemNext]_systemVars

-----------------------------------------------------------------------------
(* The router in this system behaves as RevenueRouter, whose environment   *)
(* fixes for good, as a week ends, which streams had holders in it: the    *)
(* weights of MuppetAgentBond do not move once the router reads them.      *)
RouterSteps == [][R!Next]_(R!vars)

(* What the bonders of a week share is that week's revenue and nothing     *)
(* else: bond and router agree, for every stream and week, on every wei    *)
(* delivered, whatever was bonded, paused or routed late in between.       *)
WeeksReachTheirBonders ==
    \A s \in Streams, e \in Epochs :
        rewardPerWeightAtEpoch[s][e] * totalRewardWeightAtEpoch[s][e]
            + rewardRemainderScaledAtEpoch[s][e]
        = Precision * (receipts[s][e].delivered + otherPayments[s][e])

(* What the holders of s have claimed for epoch e.                         *)
ClaimedFor(s, e) ==
    SumFunctionOnSet([p \in PositionIds |-> claimedByEpoch[p][KindOf(s)][e]], ClaimantsOf(s))

(* From the marketplace to the wallet: what holders have been paid for a   *)
(* week is at most half of what came in for it (besides what others gave), *)
(* however often and in whatever order weeks are routed and claimed.       *)
PayoutsStayWithinRevenue ==
    \A s \in Streams, e \in Epochs :
        2 * ClaimedFor(s, e) <= receipts[s][e].revenue + 2 * otherPayments[s][e]

(* Both at once: a week's revenue reaches those who bonded through it, and *)
(* they are paid out of nothing else.                                      *)
RevenueReachesItsBonders == WeeksReachTheirBonders /\ PayoutsStayWithinRevenue
=============================================================================
