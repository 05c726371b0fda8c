---------------------------- MODULE RevenueRouter ----------------------------
(***************************************************************************)
(* MuppetRevenueRouter.sol: fee receipts recorded by week, and routed, one *)
(* completed week at a time and oldest first, to the bond, the buyback     *)
(* vault, the stock reserve and operations.                                *)
(*                                                                         *)
(* The global ledger (Pons creator fees and legacy marketplace fees) and   *)
(* the ledger of each key have the same shape; both are functions over     *)
(* Streams, GlobalStream being the first.  The clock counts weeks.  Bond   *)
(* and vault are seen through what the router asks of them: whether a      *)
(* completed epoch has weight, and whether a call succeeds.  That a        *)
(* completed epoch's weight is final is AgentBond!StartedEpochsAreFrozen.  *)
(***************************************************************************)
EXTENDS Integers, Sequences, FiniteSets, Functions

CONSTANTS
    Keys,
    GlobalStream,
    LegacyMarketplaces,  \* marketplaces that pay by plain transfer
    KeyMarketplaces,     \* marketplaces that call recordKeyMarketplaceRevenue
    Outages,             \* subset of OutageKinds that may happen
    Amounts,             \* what one payment may carry, in wei
    MaxWeek,             \* bound: the last week of a behaviour
    MaxReceived,         \* bound: wei received by one stream
    MaxFunding           \* bound: withdrawableFunding

OutageKinds == {"bondPaused", "bondNotifier", "vaultRouter"}

ASSUME RevenueRouterAssumption ==
    /\ IsFiniteSet(Keys)     \* an address has 160 bits
    /\ GlobalStream \notin Keys
    /\ Outages \subseteq OutageKinds
    /\ Amounts \subseteq Nat \ {0}
    /\ MaxWeek \in Nat
    /\ MaxReceived \in Nat
    /\ MaxFunding \in Nat

VARIABLES
    week,                 \* currentRevenueEpoch
    paused,
    ownerIsContract,      \* governanceReady
    marketplaces, keyMarketplaces, \* the allowed callers
    outages,              \* what bond and vault refuse now
    weighted,             \* weighted[s][e]: the bond had weight for s in e
    receipts,             \* receipts[s][e]: RevenueEpochAccount
    epochQueue,           \* globalRevenueEpochs, keyRevenueEpochs[key]
    epochCursor,          \* globalEpochCursor, keyEpochCursor[key]
    totalRevenue,         \* per stream
    totalRouted,          \* per stream
    unallocatedNative,    \* pendingBondRewardsNative, per stream
    totalUnallocatedBondRewardsNative,
    totalBondRewardsDelivered, totalBuybackRouted,
    totalStockReserveRouted, totalOperationsRouted,
    withdrawableFunding,
    nativeBalance,        \* the router's ETH
    escrowOwed            \* what the Pons escrow owes the router

outsideVars == <<week, outages, weighted>>
allowVars   == <<ownerIsContract, marketplaces, keyMarketplaces>>
queueVars   == <<receipts, epochQueue>>
routeVars   == <<epochCursor, totalRouted, unallocatedNative,
                 totalUnallocatedBondRewardsNative, totalBondRewardsDelivered,
                 totalBuybackRouted, totalStockReserveRouted, totalOperationsRouted>>
vars == <<outsideVars, paused, allowVars, queueVars, routeVars, totalRevenue,
          withdrawableFunding, nativeBalance, escrowOwed>>

Streams == {GlobalStream} \cup Keys
Weeks   == 0 .. MaxWeek

BPS == 10000

Part(amount, bps) == (amount * bps) \div BPS

\* Mutant: operations gets its rounded share, and the dust is nobody's.
RoundedShares(s, amount) ==
    IF s = GlobalStream
    THEN [bond |-> Part(amount, 5000), buyback |-> 0,
          stock |-> Part(amount, 3000), operations |-> Part(amount, 2000)]
    ELSE [bond |-> Part(amount, 5000), buyback |-> Part(amount, 2500),
          stock |-> Part(amount, 1500), operations |-> Part(amount, 1000)]

(* 50/30/20 of global revenue, 50/25/15/10 of a key's; operations takes    *)
(* what rounding leaves.                                                   *)
Shares(s, amount) ==
    LET bond    == Part(amount, 5000)
        buyback == IF s = GlobalStream THEN 0 ELSE Part(amount, 2500)
        stock   == Part(amount, IF s = GlobalStream THEN 3000 ELSE 1500)
    IN  [bond |-> bond, buyback |-> buyback, stock |-> stock,
         operations |-> amount - bond - buyback - stock]

NoReceipt == [revenue |-> 0, delivered |-> 0, unallocated |-> 0, buyback |-> 0,
              stockReserve |-> 0, operations |-> 0, finalized |-> FALSE]

(* The constructor; marketplaces are allowed later.                        *)
GovernanceInit ==
    /\ paused = TRUE
    /\ ownerIsContract \in BOOLEAN
    /\ marketplaces = {}
    /\ keyMarketplaces = {}

BooksInit ==
    /\ week = 0
    /\ outages \in SUBSET Outages
    /\ weighted = [s \in Streams |-> [e \in Weeks |-> FALSE]]
    /\ receipts = [s \in Streams |-> [e \in Weeks |-> NoReceipt]]
    /\ epochQueue = [s \in Streams |-> <<>>]
    /\ epochCursor = [s \in Streams |-> 0]
    /\ totalRevenue = [s \in Streams |-> 0]
    /\ totalRouted = [s \in Streams |-> 0]
    /\ unallocatedNative = [s \in Streams |-> 0]
    /\ totalUnallocatedBondRewardsNative = 0
    /\ totalBondRewardsDelivered = 0
    /\ totalBuybackRouted = 0
    /\ totalStockReserveRouted = 0
    /\ totalOperationsRouted = 0
    /\ withdrawableFunding = 0
    /\ nativeBalance = 0
    /\ escrowOwed = 0

Init == GovernanceInit /\ BooksInit

-----------------------------------------------------------------------------
(* Outside the router.                                                     *)

(* A week ends; the bond's weights for it are final, and eligible are the  *)
(* streams for which they are not zero.                                    *)
AdvanceWeek(eligible) ==
    /\ week < MaxWeek
    /\ week' = week + 1
    /\ weighted' = [s \in Streams |-> [weighted[s] EXCEPT ![week] = s \in eligible]]
    /\ UNCHANGED <<outages, paused, allowVars, queueVars, routeVars,
                   totalRevenue, withdrawableFunding, nativeBalance, escrowOwed>>

(* The bond is paused or pointed at another notifier, the vault at another *)
(* router; or that is undone.                                              *)
SetOutage(kind, down) ==
    /\ outages' = IF down THEN outages \cup {kind} ELSE outages \ {kind}
    /\ UNCHANGED <<week, weighted, paused, allowVars, queueVars, routeVars,
                   totalRevenue, withdrawableFunding, nativeBalance, escrowOwed>>

PonsFeesAccrue(amount) ==
    /\ totalRevenue[GlobalStream] + escrowOwed + amount <= MaxReceived
    /\ escrowOwed' = escrowOwed + amount
    /\ UNCHANGED <<outsideVars, paused, allowVars, queueVars, routeVars,
                   totalRevenue, withdrawableFunding, nativeBalance>>

-----------------------------------------------------------------------------
(* Governance.                                                             *)

TransferOwnership ==
    /\ ownerIsContract' = TRUE
    /\ UNCHANGED <<outsideVars, paused, marketplaces, keyMarketplaces, queueVars,
                   routeVars, totalRevenue, withdrawableFunding, nativeBalance, escrowOwed>>

SetMarketplace(marketplace, allowed) ==
    /\ paused
    /\ marketplaces' = IF allowed THEN marketplaces \cup {marketplace}
                                  ELSE marketplaces \ {marketplace}
    /\ UNCHANGED <<outsideVars, paused, ownerIsContract, keyMarketplaces, queueVars,
                   routeVars, totalRevenue, withdrawableFunding, nativeBalance, escrowOwed>>

SetKeyMarketplace(marketplace, allowed) ==
    /\ paused
    /\ keyMarketplaces' = IF allowed THEN keyMarketplaces \cup {marketplace}
                                     ELSE keyMarketplaces \ {marketplace}
    /\ UNCHANGED <<outsideVars, paused, ownerIsContract, marketplaces, queueVars,
                   routeVars, totalRevenue, withdrawableFunding, nativeBalance, escrowOwed>>

Activate ==
    /\ paused
    /\ ownerIsContract
    /\ {"bondNotifier", "vaultRouter"} \cap outages = {}
    /\ paused' = FALSE
    /\ UNCHANGED <<outsideVars, allowVars, queueVars, routeVars,
                   totalRevenue, withdrawableFunding, nativeBalance, escrowOwed>>

Pause ==
    /\ ~paused
    /\ paused' = TRUE
    /\ UNCHANGED <<outsideVars, allowVars, queueVars, routeVars,
                   totalRevenue, withdrawableFunding, nativeBalance, escrowOwed>>

IsFunding(amount) == amount <= withdrawableFunding

WithdrawFunding(amount) ==
    /\ paused
    /\ IsFunding(amount)
    /\ withdrawableFunding' = withdrawableFunding - amount
    /\ nativeBalance' = nativeBalance - amount
    /\ UNCHANGED <<outsideVars, paused, allowVars, queueVars, routeVars,
                   totalRevenue, escrowOwed>>

-----------------------------------------------------------------------------
(* Receipts.                                                               *)

\* Mutant: the week is queued with every payment.
RequeuedWeek(s) == Append(epochQueue[s], week)

(* A week is queued with its first payment.                                *)
QueuedWeek(s) ==
    IF receipts[s][week].revenue = 0 THEN Append(epochQueue[s], week) ELSE epochQueue[s]

RecordReceipt(s, amount) ==
    /\ totalRevenue' = [totalRevenue EXCEPT ![s] = @ + amount]
    /\ epochQueue' = [epochQueue EXCEPT ![s] = QueuedWeek(s)]
    /\ receipts' = [receipts EXCEPT ![s][week].revenue = @ + amount]
    /\ nativeBalance' = nativeBalance + amount

(* claimPonsFees: the escrow pays what it owes through receive().  It is   *)
(* open to anyone and not gated by pause.                                  *)
ClaimPonsFees ==
    /\ escrowOwed # 0
    /\ RecordReceipt(GlobalStream, escrowOwed)
    /\ escrowOwed' = 0
    /\ UNCHANGED <<outsideVars, paused, allowVars, routeVars, withdrawableFunding>>

(* receive() from an allowed legacy marketplace.                           *)
ReceiveLegacyFee(marketplace, amount) ==
    /\ totalRevenue[GlobalStream] + escrowOwed + amount <= MaxReceived
    /\ marketplace \in marketplaces
    /\ RecordReceipt(GlobalStream, amount)
    /\ UNCHANGED <<outsideVars, paused, allowVars, routeVars, withdrawableFunding,
                   escrowOwed>>

(* fund(), or receive() from anyone else, a marketplace that is no longer  *)
(* allowed included.                                                       *)
ReceiveFunding(amount) ==
    /\ withdrawableFunding + amount <= MaxFunding
    /\ withdrawableFunding' = withdrawableFunding + amount
    /\ nativeBalance' = nativeBalance + amount
    /\ UNCHANGED <<outsideVars, paused, allowVars, queueVars, routeVars,
                   totalRevenue, escrowOwed>>

RecordKeyMarketplaceRevenue(marketplace, key, amount) ==
    /\ totalRevenue[key] + amount <= MaxReceived
    /\ ~paused
    /\ marketplace \in keyMarketplaces
    /\ RecordReceipt(key, amount)
    /\ UNCHANGED <<outsideVars, paused, allowVars, routeVars, withdrawableFunding,
                   escrowOwed>>

-----------------------------------------------------------------------------
(* Routing.                                                                *)

\* Mutant: the week that just ended is not routed yet.
CompletedLongAgo(e) == e + 1 < week

Completed(e) == e < week

(* The receipt of a week once routed: its bond share goes to that week's   *)
(* bonders, or, when there were none, is kept unallocated for good.        *)
Settled(s, e) ==
    LET share == Shares(s, receipts[s][e].revenue) IN
    [receipts[s][e] EXCEPT
        !.delivered = IF weighted[s][e] THEN share.bond ELSE 0,
        !.unallocated = IF weighted[s][e] THEN 0 ELSE share.bond,
        !.buyback = share.buyback, !.stockReserve = share.stock,
        !.operations = share.operations, !.finalized = TRUE]

(* The queued weeks a call finds complete, oldest first.                   *)
ReadyWeeks(s) ==
    {i \in epochCursor[s] + 1 .. Len(epochQueue[s]) : Completed(epochQueue[s][i])}

(* What bond and vault must accept for weeks es of s to be routed: a zero  *)
(* share makes no call.                                                    *)
CallsSucceed(s, es) ==
    /\ (\E e \in es : Settled(s, e).delivered # 0)
          => {"bondPaused", "bondNotifier"} \cap outages = {}
    /\ (\E e \in es : Settled(s, e).buyback # 0) => "vaultRouter" \notin outages

CursorAfter(s, n) == epochCursor[s] + n

(* The next n queued weeks of s are finalized and paid out, or none is.    *)
RouteNext(s, n) ==
    LET es == {epochQueue[s][i] : i \in epochCursor[s] + 1 .. epochCursor[s] + n}
        settled == [e \in es |-> Settled(s, e)]
        Sum(part(_)) == SumFunctionOnSet([e \in es |-> part(settled[e])], es)
        amount == Sum(LAMBDA r : r.revenue)
        delivered == Sum(LAMBDA r : r.delivered)
        unallocated == Sum(LAMBDA r : r.unallocated)
        buyback == Sum(LAMBDA r : r.buyback)
        stock == Sum(LAMBDA r : r.stockReserve)
        operations == Sum(LAMBDA r : r.operations)
    IN  /\ CallsSucceed(s, es)
        /\ epochCursor' = [epochCursor EXCEPT ![s] = CursorAfter(s, n)]
        /\ receipts' = [receipts EXCEPT ![s] = [e \in Weeks |->
                           IF e \in es THEN settled[e] ELSE receipts[s][e]]]
        /\ totalRouted' = [totalRouted EXCEPT ![s] = @ + amount]
        /\ unallocatedNative' = [unallocatedNative EXCEPT ![s] = @ + unallocated]
        /\ totalUnallocatedBondRewardsNative' =
              totalUnallocatedBondRewardsNative + unallocated
        /\ totalBondRewardsDelivered' = totalBondRewardsDelivered + delivered
        /\ totalBuybackRouted' = totalBuybackRouted + buyback
        /\ totalStockReserveRouted' = totalStockReserveRouted + stock
        /\ totalOperationsRouted' = totalOperationsRouted + operations
        /\ nativeBalance >= delivered + buyback + stock + operations
        /\ nativeBalance' = nativeBalance - delivered - buyback - stock - operations
        /\ UNCHANGED <<outsideVars, paused, allowVars, epochQueue, totalRevenue,
                       withdrawableFunding, escrowOwed>>

(* routeRevenue, routeKeyRevenue: anyone may call.                         *)
RouteRevenue(s) ==
    /\ ~paused
    /\ epochCursor[s] + 1 \in ReadyWeeks(s)
    /\ RouteNext(s, 1)

(* routeRevenueEpochs, routeKeyRevenueEpochs: as many complete weeks as    *)
(* there are, up to maxEpochs, in one transaction.                         *)
RouteRevenueEpochs(s, maxEpochs) ==
    LET ready == Cardinality(ReadyWeeks(s))
    IN  /\ ~paused
        /\ ready # 0
        /\ RouteNext(s, IF ready < maxEpochs THEN ready ELSE maxEpochs)

-----------------------------------------------------------------------------

Outside ==
    \/ \E eligible \in SUBSET Streams : AdvanceWeek(eligible)
    \/ \E kind \in Outages, down \in BOOLEAN : SetOutage(kind, down)
    \/ \E amount \in Amounts : PonsFeesAccrue(amount)

Govern ==
    \/ \E m \in LegacyMarketplaces, allowed \in BOOLEAN : SetMarketplace(m, allowed)
    \/ \E m \in KeyMarketplaces, allowed \in BOOLEAN : SetKeyMarketplace(m, allowed)
    \/ TransferOwnership
    \/ Activate
    \/ Pause
    \/ \E amount \in Amounts : WithdrawFunding(amount)

Receive ==
    \/ ClaimPonsFees
    \/ \E amount \in Amounts :
          \/ \E m \in LegacyMarketplaces : ReceiveLegacyFee(m, amount)
          \/ ReceiveFunding(amount)
          \/ \E m \in KeyMarketplaces, k \in Keys : RecordKeyMarketplaceRevenue(m, k, amount)

Route(s) ==
    \/ RouteRevenue(s)
    \/ \E maxEpochs \in 1 .. MaxWeek : RouteRevenueEpochs(s, maxEpochs)

Next ==
    \/ Outside
    \/ Govern
    \/ Receive
    \/ \E s \in Streams : Route(s)

Spec == Init /\ [][Next]_vars

-----------------------------------------------------------------------------
TypeOK ==
    /\ week \in Weeks
    /\ paused \in BOOLEAN
    /\ ownerIsContract \in BOOLEAN
    /\ marketplaces \in SUBSET LegacyMarketplaces
    /\ keyMarketplaces \in SUBSET KeyMarketplaces
    /\ outages \in SUBSET Outages
    /\ weighted \in [Streams -> [Weeks -> BOOLEAN]]
    /\ receipts \in [Streams -> [Weeks ->
          [revenue : Nat, delivered : Nat, unallocated : Nat, buyback : Nat,
           stockReserve : Nat, operations : Nat, finalized : BOOLEAN]]]
    /\ epochQueue \in [Streams -> Seq(Weeks)]
    /\ epochCursor \in [Streams -> Nat]
    /\ {totalRevenue, totalRouted, unallocatedNative} \subseteq [Streams -> Nat]
    /\ {totalUnallocatedBondRewardsNative, totalBondRewardsDelivered, totalBuybackRouted,
        totalStockReserveRouted, totalOperationsRouted, withdrawableFunding,
        nativeBalance, escrowOwed} \subseteq Nat

(* Everyone who still has a claim on the router's ETH can be paid: it      *)
(* always holds what is not routed yet and the unallocated shares, and the *)
(* rest is the funding, so withdrawing funding never takes revenue.        *)
BalanceIsAccountedFor ==
    LET kept == SumFunctionOnSet([s \in Streams |-> totalRevenue[s] - totalRouted[s]], Streams)
                + totalUnallocatedBondRewardsNative
    IN  /\ kept <= nativeBalance
        /\ nativeBalance = kept + withdrawableFunding

(* A routed week leaves nothing behind: its shares add up to its revenue.  *)
WeeksAreRoutedInFull ==
    \A s \in Streams, e \in Weeks :
        LET r == receipts[s][e] IN
        r.finalized => r.delivered + r.unallocated + r.buyback + r.stockReserve + r.operations
                       = r.revenue

(* Every wei received is to be found: in the balance until it is routed,   *)
(* then in the four shares of the week it was received in.                 *)
RevenueIsAccountedFor == BalanceIsAccountedFor /\ WeeksAreRoutedInFull

(* The queue of a stream names each week that received something exactly   *)
(* once and in order, and its cursor splits it into the weeks routed and   *)
(* those still to route: none is skipped, routed early or routed twice.    *)
QueueIsFaithful ==
    \A s \in Streams :
        LET queue == epochQueue[s] IN
        /\ epochCursor[s] <= Len(queue)
        /\ \A i, j \in 1 .. Len(queue) : i < j => queue[i] < queue[j]
        /\ Range(queue) = {e \in Weeks : receipts[s][e].revenue # 0}
        /\ {queue[i] : i \in 1 .. epochCursor[s]} = {e \in Weeks : receipts[s][e].finalized}
        /\ \A e \in Weeks : receipts[s][e].finalized => e < week

(* The share of a week without eligible bonders is never paid to bonders   *)
(* of another week: what a week delivers is at most half of its own        *)
(* revenue, and nothing where it had no weight.                            *)
SharesStayInTheirWeek ==
    \A s \in Streams, e \in Weeks :
        /\ 2 * receipts[s][e].delivered <= receipts[s][e].revenue
        /\ ~weighted[s][e] => receipts[s][e].delivered = 0

(* A finalized week is history: no later payment, routing or pause changes *)
(* its receipt.                                                            *)
FinalizedWeeksAreHistory ==
    [][\A s \in Streams, e \in Weeks :
          receipts[s][e].finalized => receipts'[s][e] = receipts[s][e]]_vars

-----------------------------------------------------------------------------
(* Liveness.  Weeks pass, and anyone may route and somebody keeps trying.  *)
Fairness ==
    /\ WF_vars(\E eligible \in SUBSET Streams : AdvanceWeek(eligible))
    /\ \A s \in Streams : WF_vars(Route(s))

FairSpec == Spec /\ Fairness

(* Pauses and outages only delay routing: if they end at all, whatever     *)
(* they interrupted, the revenue of every week that ends is routed.        *)
RevenueIsEventuallyRouted ==
    <>[](~paused /\ outages = {}) =>
        \A s \in Streams, e \in 0 .. MaxWeek - 1 :
            receipts[s][e].revenue # 0 ~> receipts[s][e].finalized
=============================================================================
