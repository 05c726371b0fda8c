---------------------------- MODULE RouterProofs ----------------------------
(* Theorems about RevenueRouter for every value of its constants.          *)
EXTENDS RevenueRouter, SumLemmas, TLAPS

Receipt == [revenue : Nat, delivered : Nat, unallocated : Nat, buyback : Nat,
            stockReserve : Nat, operations : Nat, finalized : BOOLEAN]

(* There are finitely many streams, and of weeks, too.                     *)
LEMMA FiniteStreams ==
    /\ IsFiniteSet(Streams) /\ GlobalStream \in Streams /\ Keys \subseteq Streams
    /\ Weeks \subseteq Nat /\ IsFiniteSet(Weeks) /\ \A W \in SUBSET Weeks : IsFiniteSet(W)
  <1>1. IsFiniteSet(Keys \cup {GlobalStream})
    BY RevenueRouterAssumption, FS_AddElement
  <1>2. Keys \cup {GlobalStream} = Streams
    BY DEF Streams
  <1>3. IsFiniteSet(Weeks)
    BY RevenueRouterAssumption, FS_Interval DEF Weeks
  <1>4. Weeks \subseteq Nat
    BY RevenueRouterAssumption DEF Weeks
  <1>5. \A W \in SUBSET Weeks : IsFiniteSet(W)
    BY <1>3, FS_Subset, Zenon
  <1> QED
    BY <1>1, <1>2, <1>3, <1>4, <1>5

-----------------------------------------------------------------------------
(* The steps of the router, by what they do to its books.                  *)

WeekPasses(eligible) ==
    /\ week < MaxWeek
    /\ week' = week + 1
    /\ weighted' = [s \in Streams |-> [weighted[s] EXCEPT ![week] = s \in eligible]]
    /\ UNCHANGED <<queueVars, routeVars, totalRevenue, withdrawableFunding, nativeBalance>>

FundingMoves ==
    /\ \/ UNCHANGED <<withdrawableFunding, nativeBalance>>
       \/ \E amount \in Nat : \/ /\ withdrawableFunding' = withdrawableFunding + amount
                                 /\ nativeBalance' = nativeBalance + amount
                              \/ /\ amount <= withdrawableFunding
                                 /\ withdrawableFunding' = withdrawableFunding - amount
                                 /\ nativeBalance' = nativeBalance - amount
    /\ UNCHANGED <<week, weighted, queueVars, routeVars, totalRevenue>>

Receives(s, amount) ==
    /\ RecordReceipt(s, amount)
    /\ UNCHANGED <<week, weighted, routeVars, withdrawableFunding>>

Routes(s, n) ==
    /\ n <= Cardinality(ReadyWeeks(s))
    /\ RouteNext(s, n)

(* The queued weeks that are complete can be counted.                      *)
LEMMA ReadyWeeksAreFinite ==
    ASSUME TypeOK, NEW s \in Streams
    PROVE  /\ IsFiniteSet(ReadyWeeks(s)) /\ Cardinality(ReadyWeeks(s)) \in Nat
           /\ epochCursor[s] \in Nat /\ Len(epochQueue[s]) \in Nat
           /\ epochQueue[s] \in Seq(Weeks)
           /\ \A i \in 1 .. Len(epochQueue[s]) : epochQueue[s][i] \in Weeks
           /\ \A i \in 1 .. Len(epochQueue[s]) : epochQueue[s][i] \in Int
  <1> DEFINE I == epochCursor[s] + 1 .. Len(epochQueue[s])
  <1>1. /\ epochCursor[s] \in Nat /\ Len(epochQueue[s]) \in Nat
        /\ epochQueue[s] \in Seq(Weeks)
    BY DEF TypeOK
  <1>2. IsFiniteSet(I)
    <2>1. epochCursor[s] + 1 \in Int /\ Len(epochQueue[s]) \in Int
      BY <1>1
    <2> QED
      BY <2>1, FS_Interval
  <1>3. ReadyWeeks(s) \subseteq I
    BY DEF ReadyWeeks
  <1>4. IsFiniteSet(ReadyWeeks(s))
    BY <1>2, <1>3, FS_Subset, Zenon
  <1>5. \A i \in 1 .. Len(epochQueue[s]) : epochQueue[s][i] \in Weeks
    BY <1>1
  <1>6. \A i \in 1 .. Len(epochQueue[s]) : epochQueue[s][i] \in Int
    <2>1. Weeks \subseteq Int
      BY RevenueRouterAssumption DEF Weeks
    <2> QED
      BY <1>5, <2>1, Zenon
  <1> QED
    BY <1>1, <1>4, <1>5, <1>6, FS_CardinalityType

(* A step ends a week, records a receipt, routes weeks that are ready, or  *)
(* moves funding only.                                                     *)
LEMMA RouterStep ==
    ASSUME TypeOK, [Next]_vars
    PROVE  \/ \E eligible \in SUBSET Streams : WeekPasses(eligible)
           \/ FundingMoves
           \/ \E s \in Streams, amount \in Nat \ {0} : Receives(s, amount)
           \/ \E s \in Streams, n \in Nat : Routes(s, n)
  <1>0. Amounts \subseteq Nat \ {0} /\ escrowOwed \in Nat
    BY RevenueRouterAssumption DEF TypeOK
  <1>1. CASE Outside
    <2>1. ASSUME NEW eligible \in SUBSET Streams, AdvanceWeek(eligible)
          PROVE  WeekPasses(eligible)
      BY <2>1 DEF AdvanceWeek, WeekPasses
    <2>2. ASSUME NEW kind \in Outages, NEW down \in BOOLEAN, SetOutage(kind, down)
          PROVE  FundingMoves
      BY <2>2 DEF SetOutage, FundingMoves
    <2>3. ASSUME NEW amount \in Amounts, PonsFeesAccrue(amount)
          PROVE  FundingMoves
      BY <2>3 DEF PonsFeesAccrue, FundingMoves, outsideVars
    <2> QED
      BY <1>1, <2>1, <2>2, <2>3 DEF Outside
  <1>2. CASE Govern
    <2>1. ASSUME NEW amount \in Amounts, WithdrawFunding(amount)
          PROVE  FundingMoves
      BY <1>0, <2>1 DEF WithdrawFunding, IsFunding, FundingMoves, outsideVars
    <2>2. CASE ~\E amount \in Amounts : WithdrawFunding(amount)
      BY <1>2, <2>2
      DEF Govern, SetMarketplace, SetKeyMarketplace, TransferOwnership, Activate, Pause,
          FundingMoves, outsideVars
    <2> QED
      BY <2>1, <2>2
  <1>3. CASE Receive
    <2>1. CASE ClaimPonsFees
      <3>1. escrowOwed \in Nat \ {0} /\ Receives(GlobalStream, escrowOwed)
        BY <1>0, <2>1 DEF ClaimPonsFees, Receives, outsideVars
      <3> QED
        BY <3>1, FiniteStreams
    <2>2. ASSUME NEW amount \in Amounts, NEW m \in LegacyMarketplaces,
                 ReceiveLegacyFee(m, amount)
          PROVE  amount \in Nat \ {0} /\ Receives(GlobalStream, amount)
      BY <1>0, <2>2 DEF ReceiveLegacyFee, Receives, outsideVars
    <2>3. ASSUME NEW amount \in Amounts, ReceiveFunding(amount)
          PROVE  FundingMoves
      BY <1>0, <2>3 DEF ReceiveFunding, FundingMoves, outsideVars
    <2>4. ASSUME NEW amount \in Amounts, NEW m \in KeyMarketplaces, NEW k \in Keys,
                 RecordKeyMarketplaceRevenue(m, k, amount)
          PROVE  amount \in Nat \ {0} /\ Receives(k, amount)
      BY <1>0, <2>4 DEF RecordKeyMarketplaceRevenue, Receives, outsideVars
    <2> QED
      BY <1>3, <2>1, <2>2, <2>3, <2>4, FiniteStreams DEF Receive
  <1>4. ASSUME NEW s \in Streams, Route(s)
        PROVE  \E n \in Nat : Routes(s, n)
    <2>1. IsFiniteSet(ReadyWeeks(s)) /\ Cardinality(ReadyWeeks(s)) \in Nat
      BY ReadyWeeksAreFinite
    <2>2. CASE RouteRevenue(s)
      <3>1. Cardinality(ReadyWeeks(s)) # 0
        BY <2>1, <2>2, FS_EmptySet DEF RouteRevenue
      <3> QED
        BY <2>1, <2>2, <3>1 DEF RouteRevenue, Routes
    <2>3. ASSUME NEW maxEpochs \in 1 .. MaxWeek, RouteRevenueEpochs(s, maxEpochs)
          PROVE  \E n \in Nat : Routes(s, n)
      <3> DEFINE ready == Cardinality(ReadyWeeks(s))
                 n == IF ready < maxEpochs THEN ready ELSE maxEpochs
      <3>1. RouteNext(s, n)
        BY <2>3, Zenon DEF RouteRevenueEpochs
      <3>2. n \in Nat /\ n <= ready
        BY <2>1, RevenueRouterAssumption
      <3> HIDE DEF n
      <3> QED
        BY <3>1, <3>2 DEF Routes
    <2> QED
      BY <1>4, <2>2, <2>3 DEF Route
  <1>5. CASE UNCHANGED vars
    BY <1>5 DEF vars, FundingMoves, outsideVars
  <1> QED
    BY <1>1, <1>2, <1>3, <1>4, <1>5 DEF Next

-----------------------------------------------------------------------------
(* The books.                                                              *)

(* The receipt of week e: settled in full, once, and only when it is over. *)
ReceiptIsSound(s, e) ==
    LET r == receipts[s][e] IN
    /\ r.finalized
          => /\ r.delivered + r.unallocated + r.buyback + r.stockReserve + r.operations
                    = r.revenue
             /\ e < week
    /\ 2 * r.delivered <= r.revenue
    /\ ~r.finalized \/ ~weighted[s][e] => r.delivered = 0
    /\ r.revenue # 0 => e <= week

(* A queue of weeks against its cursor and the receipts of its stream.     *)
Faithful(queue, cursor, book) ==
    /\ cursor <= Len(queue)
    /\ \A i, j \in 1 .. Len(queue) : i < j => queue[i] < queue[j]
    /\ Range(queue) = {e \in Weeks : book[e].revenue # 0}
    /\ {queue[i] : i \in 1 .. cursor} = {e \in Weeks : book[e].finalized}

QueueIsSound(s) == Faithful(epochQueue[s], epochCursor[s], receipts[s])

RevenueOf(s) == [e \in Weeks |-> receipts[s][e].revenue]

RoutedOf(s) ==
    [e \in Weeks |-> IF receipts[s][e].finalized THEN receipts[s][e].revenue ELSE 0]

(* The totals of a stream are the sums over its weeks.                     *)
TotalsAreSound(s) ==
    /\ totalRevenue[s] = SumFunctionOnSet(RevenueOf(s), Weeks)
    /\ totalRouted[s] = SumFunctionOnSet(RoutedOf(s), Weeks)

ToRoute == [s \in Streams |-> totalRevenue[s] - totalRouted[s]]

BalanceIsSound ==
    nativeBalance = SumFunctionOnSet(ToRoute, Streams) + totalUnallocatedBondRewardsNative
                    + withdrawableFunding

(* The strengthening of all the properties: the books of every stream are  *)
(* its queue and its receipts, and the balance is the books.               *)
RouterInv ==
    /\ TypeOK
    /\ \A s \in Streams : QueueIsSound(s) /\ TotalsAreSound(s)
    /\ \A s \in Streams, e \in Weeks : ReceiptIsSound(s, e)
    /\ BalanceIsSound

(* Rounding down leaves nothing out: what it takes from three shares       *)
(* operations gets, and the bond's share is at most a half.                *)
LEMMA SharesSplit ==
    ASSUME NEW s, NEW amount \in Nat
    PROVE  LET share == Shares(s, amount) IN
           /\ share.bond \in Nat /\ share.buyback \in Nat
           /\ share.stock \in Nat /\ share.operations \in Nat
           /\ share.bond + share.buyback + share.stock + share.operations = amount
           /\ 2 * share.bond <= amount
  <1> DEFINE b == (amount * 5000) \div 10000
             k == (amount * 2500) \div 10000
             c == (amount * 3000) \div 10000
             d == (amount * 1500) \div 10000
  <1>1. /\ b \in Nat /\ k \in Nat /\ c \in Nat /\ d \in Nat
        /\ 10000 * b <= amount * 5000 /\ 10000 * k <= amount * 2500
        /\ 10000 * c <= amount * 3000 /\ 10000 * d <= amount * 1500
    OBVIOUS
  <1>2. /\ Part(amount, 5000) = b /\ Part(amount, 2500) = k
        /\ Part(amount, 3000) = c /\ Part(amount, 1500) = d
    BY DEF Part, BPS
  <1> HIDE DEF b, k, c, d
  <1>3. CASE s = GlobalStream
    <2>1. Shares(s, amount) = [bond |-> b, buyback |-> 0, stock |-> c,
                               operations |-> amount - b - 0 - c]
      BY <1>2, <1>3 DEF Shares
    <2> QED
      BY <1>1, <2>1
  <1>4. CASE s # GlobalStream
    <2>1. Shares(s, amount) = [bond |-> b, buyback |-> k, stock |-> d,
                               operations |-> amount - b - k - d]
      BY <1>2, <1>4 DEF Shares
    <2> QED
      BY <1>1, <2>1
  <1> QED
    BY <1>3, <1>4

(* A week once routed: all of its revenue is in its parts, and its bond    *)
(* share went to its own bonders or to nobody.                             *)
LEMMA SettledReceipt ==
    ASSUME NEW s, NEW e, receipts[s][e] \in Receipt, weighted[s][e] \in BOOLEAN
    PROVE  LET r == Settled(s, e) IN
           /\ r \in Receipt /\ r.revenue = receipts[s][e].revenue /\ r.finalized
           /\ r.delivered + r.unallocated + r.buyback + r.stockReserve + r.operations
                  = r.revenue
           /\ 2 * r.delivered <= r.revenue
           /\ ~weighted[s][e] => r.delivered = 0
  <1> DEFINE share == Shares(s, receipts[s][e].revenue)
             r == Settled(s, e)
  <1>1. receipts[s][e].revenue \in Nat
    BY DEF Receipt
  <1>2. /\ share.bond \in Nat /\ share.buyback \in Nat
        /\ share.stock \in Nat /\ share.operations \in Nat
        /\ share.bond + share.buyback + share.stock + share.operations
               = receipts[s][e].revenue
        /\ 2 * share.bond <= receipts[s][e].revenue
    BY <1>1, SharesSplit
  <1>3. /\ r.revenue = receipts[s][e].revenue /\ r.finalized = TRUE
        /\ r.delivered = IF weighted[s][e] THEN share.bond ELSE 0
        /\ r.unallocated = IF weighted[s][e] THEN 0 ELSE share.bond
        /\ r.buyback = share.buyback /\ r.stockReserve = share.stock
        /\ r.operations = share.operations
    <2> HIDE DEF share
    <2> QED
      BY DEF Settled, Receipt, share
  <1>4. r \in Receipt
    <2>1. r = [receipts[s][e] EXCEPT
                  !.delivered = IF weighted[s][e] THEN share.bond ELSE 0,
                  !.unallocated = IF weighted[s][e] THEN 0 ELSE share.bond,
                  !.buyback = share.buyback, !.stockReserve = share.stock,
                  !.operations = share.operations, !.finalized = TRUE]
      BY DEF Settled
    <2> HIDE DEF share, r
    <2> QED
      BY <1>2, <2>1 DEF Receipt
  <1> HIDE DEF share, r
  <1>5. /\ r.delivered + r.unallocated + r.buyback + r.stockReserve + r.operations = r.revenue
        /\ 2 * r.delivered <= r.revenue
    BY <1>1, <1>2, <1>3
  <1> QED
    BY <1>3, <1>4, <1>5 DEF r

\* The weeks a call that routes n weeks of s settles.
SettledBy(s, n) == {epochQueue[s][i] : i \in epochCursor[s] + 1 .. epochCursor[s] + n}

(* The complete weeks stand first in the rest of the queue: as many as     *)
(* there are can be routed from the cursor on.                             *)
LEMMA ReadyWeeksComeFirst ==
    ASSUME TypeOK, NEW s \in Streams, QueueIsSound(s), NEW n \in Nat,
           n <= Cardinality(ReadyWeeks(s)), NEW i \in epochCursor[s] + 1 .. epochCursor[s] + n
    PROVE  i \in ReadyWeeks(s)
  <1> DEFINE queue == epochQueue[s]
             c == epochCursor[s]
             R == ReadyWeeks(s)
  <1>1. /\ IsFiniteSet(R) /\ Cardinality(R) \in Nat
        /\ c \in Nat /\ Len(queue) \in Nat /\ queue \in Seq(Weeks)
        /\ \A k \in 1 .. Len(queue) : queue[k] \in Int
    BY ReadyWeeksAreFinite
  <1>2. i \in Int /\ c + 1 <= i /\ i <= c + n
    BY <1>1
  <1>3. SUFFICES ASSUME i \notin R PROVE FALSE
    OBVIOUS
  <1>4. ASSUME NEW j \in R
        PROVE  j \in c + 1 .. i - 1
    <2>1. j \in c + 1 .. Len(queue) /\ queue[j] < week
      BY DEF ReadyWeeks, Completed
    <2>2. CASE j < i
      BY <1>1, <1>2, <2>1, <2>2
    <2>3. CASE j >= i
      <3>1. i \in c + 1 .. Len(queue) /\ i \in 1 .. Len(queue) /\ j \in 1 .. Len(queue)
        BY <1>1, <1>2, <2>1, <2>3
      <3>2. queue[i] \in Int /\ queue[j] \in Int /\ week \in Int
        <4>1. week \in Int
          BY FiniteStreams DEF TypeOK
        <4> QED
          BY <1>1, <3>1, <4>1
      <3>3. i = j \/ queue[i] < queue[j]
        BY <2>1, <2>3, <3>1 DEF QueueIsSound, Faithful
      <3>4. queue[i] < week
        BY <2>1, <3>2, <3>3
      <3> QED
        BY <1>3, <3>1, <3>4 DEF ReadyWeeks, Completed
    <2> QED
      BY <1>1, <1>2, <2>1, <2>2, <2>3
  <1>5. R \subseteq c + 1 .. i - 1
    BY <1>4
  <1>6. /\ IsFiniteSet(c + 1 .. i - 1)
        /\ Cardinality(c + 1 .. i - 1) = i - 1 - c
    <2>1. c + 1 \in Int /\ i - 1 \in Int
      BY <1>1, <1>2
    <2>2. /\ IsFiniteSet(c + 1 .. i - 1)
          /\ Cardinality(c + 1 .. i - 1) = IF c + 1 > i - 1 THEN 0 ELSE (i - 1) - (c + 1) + 1
      BY <2>1, FS_Interval
    <2> QED
      BY <1>1, <1>2, <2>2
  <1>7. Cardinality(R) <= i - 1 - c
    <2>1. Cardinality(R) <= Cardinality(c + 1 .. i - 1)
      BY <1>5, <1>6, FS_Subset, Zenon
    <2> QED
      BY <1>6, <2>1
  <1> QED
    BY <1>1, <1>2, <1>7

(* A call routes weeks that are over, have revenue and were not routed.    *)
LEMMA RoutedWeeks ==
    ASSUME TypeOK, NEW s \in Streams, QueueIsSound(s), NEW n \in Nat, Routes(s, n)
    PROVE  /\ SettledBy(s, n) \subseteq Weeks /\ IsFiniteSet(SettledBy(s, n))
           /\ \A e \in SettledBy(s, n) : e < week /\ ~receipts[s][e].finalized
           /\ epochCursor[s] + n <= Len(epochQueue[s])
  <1> DEFINE queue == epochQueue[s]
             c == epochCursor[s]
  <1>1. /\ c \in Nat /\ Len(queue) \in Nat /\ queue \in Seq(Weeks)
        /\ \A k \in 1 .. Len(queue) : queue[k] \in Int
    BY ReadyWeeksAreFinite
  <1>2. \A i \in c + 1 .. c + n : i \in ReadyWeeks(s)
    BY ReadyWeeksComeFirst DEF Routes
  <1>3. \A i \in c + 1 .. c + n :
            /\ i \in 1 .. Len(queue) /\ queue[i] \in Weeks /\ queue[i] < week
    BY <1>1, <1>2 DEF ReadyWeeks, Completed
  <1>4. SettledBy(s, n) \subseteq Weeks
    BY <1>3 DEF SettledBy
  <1>5. IsFiniteSet(SettledBy(s, n))
    BY <1>4, FiniteStreams
  <1>6. ASSUME NEW i \in c + 1 .. c + n
        PROVE  ~receipts[s][queue[i]].finalized
    <2>1. SUFFICES ASSUME receipts[s][queue[i]].finalized PROVE FALSE
      OBVIOUS
    <2>2. queue[i] \in {queue[j] : j \in 1 .. c}
      BY <1>3, <2>1 DEF QueueIsSound, Faithful
    <2>3. PICK j \in 1 .. c : queue[i] = queue[j]
      BY <2>2
    <2>4. j \in 1 .. Len(queue) /\ i \in 1 .. Len(queue) /\ j < i
      BY <1>1, <1>3 DEF QueueIsSound, Faithful
    <2>5. queue[j] < queue[i]
      BY <2>4 DEF QueueIsSound, Faithful
    <2>6. queue[i] \in Int
      BY <1>1, <2>4
    <2> QED
      BY <2>3, <2>5, <2>6
  <1>7. c + n <= Len(queue)
    <2>1. CASE n = 0
      BY <1>1, <2>1 DEF QueueIsSound, Faithful
    <2>2. CASE n # 0
      <3>1. c + n \in c + 1 .. c + n
        BY <1>1, <2>2
      <3> QED
        BY <1>1, <1>3, <3>1
    <2> QED
      BY <2>1, <2>2
  <1> QED
    BY <1>3, <1>4, <1>5, <1>6, <1>7 DEF SettledBy

(* What a call writes.                                                     *)
LEMMA RoutedReceipts ==
    ASSUME TypeOK, NEW s \in Streams, QueueIsSound(s), NEW n \in Nat, Routes(s, n)
    PROVE  /\ \A e \in SettledBy(s, n) : receipts'[s][e] = Settled(s, e)
           /\ \A e \in Weeks \ SettledBy(s, n) : receipts'[s][e] = receipts[s][e]
           /\ \A o \in Streams \ {s} : /\ receipts'[o] = receipts[o]
                                       /\ totalRouted'[o] = totalRouted[o]
                                       /\ epochCursor'[o] = epochCursor[o]
           /\ epochCursor'[s] = epochCursor[s] + n
           /\ UNCHANGED <<week, weighted, epochQueue, totalRevenue, withdrawableFunding>>
  <1>1. SettledBy(s, n) \subseteq Weeks
    BY RoutedWeeks
  <1>2. RouteNext(s, n)
    BY DEF Routes
  <1>3. receipts' = [receipts EXCEPT ![s] = [e \in Weeks |->
                        IF e \in SettledBy(s, n)
                        THEN [d \in SettledBy(s, n) |-> Settled(s, d)][e]
                        ELSE receipts[s][e]]]
    BY <1>2 DEF RouteNext, SettledBy
  <1>4. /\ epochCursor' = [epochCursor EXCEPT ![s] = epochCursor[s] + n]
        /\ UNCHANGED <<outsideVars, epochQueue, totalRevenue, withdrawableFunding>>
    BY <1>2 DEF RouteNext, CursorAfter
  <1>5. \E amount : totalRouted' = [totalRouted EXCEPT ![s] = amount]
    BY <1>2 DEF RouteNext
  <1>6. DOMAIN receipts = Streams /\ DOMAIN totalRouted = Streams /\ DOMAIN epochCursor = Streams
    BY DEF TypeOK
  <1>7. receipts'[s] = [e \in Weeks |->
                        IF e \in SettledBy(s, n)
                        THEN [d \in SettledBy(s, n) |-> Settled(s, d)][e]
                        ELSE receipts[s][e]]
    BY <1>3, <1>6
  <1>8. /\ \A e \in SettledBy(s, n) : receipts'[s][e] = Settled(s, e)
        /\ \A e \in Weeks \ SettledBy(s, n) : receipts'[s][e] = receipts[s][e]
    BY <1>1, <1>7
  <1>9. \A o \in Streams \ {s} : receipts'[o] = receipts[o]
    BY <1>3, <1>6
  <1>10. \A o \in Streams \ {s} : totalRouted'[o] = totalRouted[o]
    BY <1>5, <1>6
  <1>11. /\ \A o \in Streams \ {s} : epochCursor'[o] = epochCursor[o]
         /\ epochCursor'[s] = epochCursor[s] + n
    BY <1>4, <1>6
  <1> QED
    BY <1>4, <1>8, <1>9, <1>10, <1>11 DEF outsideVars

(* What a payment writes: the running week's receipt.                      *)
LEMMA ReceivedReceipts ==
    ASSUME TypeOK, NEW s \in Streams, NEW amount \in Nat \ {0}, Receives(s, amount)
    PROVE  /\ week \in Weeks /\ receipts[s][week] \in Receipt
           /\ receipts'[s][week] = [receipts[s][week] EXCEPT
                                       !.revenue = receipts[s][week].revenue + amount]
           /\ \A e \in Weeks \ {week} : receipts'[s][e] = receipts[s][e]
           /\ \A o \in Streams \ {s} : /\ receipts'[o] = receipts[o]
                                       /\ totalRevenue'[o] = totalRevenue[o]
                                       /\ epochQueue'[o] = epochQueue[o]
           /\ totalRevenue'[s] = totalRevenue[s] + amount
           /\ epochQueue'[s] = QueuedWeek(s)
           /\ nativeBalance' = nativeBalance + amount
           /\ UNCHANGED <<week, weighted, routeVars, withdrawableFunding>>
  <1>1. /\ totalRevenue' = [totalRevenue EXCEPT ![s] = totalRevenue[s] + amount]
        /\ epochQueue' = [epochQueue EXCEPT ![s] = QueuedWeek(s)]
        /\ nativeBalance' = nativeBalance + amount
        /\ UNCHANGED <<week, weighted, routeVars, withdrawableFunding>>
    BY DEF Receives, RecordReceipt
  <1>2. receipts' = [receipts EXCEPT ![s] = [receipts[s] EXCEPT ![week] =
                        [receipts[s][week] EXCEPT !.revenue = receipts[s][week].revenue + amount]]]
    BY DEF Receives, RecordReceipt
  <1>3. /\ DOMAIN receipts = Streams /\ DOMAIN totalRevenue = Streams
        /\ DOMAIN epochQueue = Streams /\ receipts \in [Streams -> [Weeks -> Receipt]]
        /\ week \in Weeks
    BY DEF TypeOK, Receipt
  <1> DEFINE new == [receipts[s][week] EXCEPT !.revenue = receipts[s][week].revenue + amount]
  <1>4. receipts' = [receipts EXCEPT ![s] = [receipts[s] EXCEPT ![week] = new]]
    BY <1>2
  <1> HIDE DEF new
  <1>5. receipts'[s] = [receipts[s] EXCEPT ![week] = new]
    BY <1>3, <1>4
  <1>6. receipts'[s][week] = new /\ \A e \in Weeks \ {week} : receipts'[s][e] = receipts[s][e]
    BY <1>3, <1>5
  <1>7. \A o \in Streams \ {s} : receipts'[o] = receipts[o]
    BY <1>3, <1>4
  <1> QED
    BY <1>1, <1>3, <1>6, <1>7 DEF new

-----------------------------------------------------------------------------
(* The receipts.                                                           *)

(* Every step keeps every receipt sound: a payment reaches the running     *)
(* week only, a call the weeks it settles.                                 *)
LEMMA ReceiptsStep ==
    ASSUME RouterInv, [Next]_vars, NEW o \in Streams, NEW e \in Weeks
    PROVE  receipts'[o][e] \in Receipt /\ ReceiptIsSound(o, e)'
  <1> USE DEF RouterInv
  <1>1. /\ receipts[o][e] \in Receipt /\ ReceiptIsSound(o, e)
        /\ week \in Nat /\ e \in Nat /\ weighted[o][e] \in BOOLEAN
    <2>1. receipts[o][e] \in Receipt /\ weighted[o][e] \in BOOLEAN
      BY DEF TypeOK, Receipt
    <2>2. week \in Weeks
      BY DEF TypeOK
    <2> QED
      BY <2>1, <2>2, FiniteStreams
  <1>2. ASSUME receipts'[o][e] = receipts[o][e], weighted'[o][e] = weighted[o][e], week' = week
        PROVE  receipts'[o][e] \in Receipt /\ ReceiptIsSound(o, e)'
    BY <1>1, <1>2 DEF ReceiptIsSound
  <1>3. ASSUME NEW eligible \in SUBSET Streams, WeekPasses(eligible)
        PROVE  receipts'[o][e] \in Receipt /\ ReceiptIsSound(o, e)'
    <2>1. receipts' = receipts /\ week' = week + 1
      BY <1>3 DEF WeekPasses, queueVars
    <2>2. e # week => weighted'[o][e] = weighted[o][e]
      BY <1>3 DEF WeekPasses, TypeOK
    <2>3. e = week => ~receipts[o][e].finalized
      BY <1>1 DEF ReceiptIsSound
    <2>4. receipts[o][e].finalized => e < week'
      BY <1>1, <2>1 DEF ReceiptIsSound
    <2>5. receipts[o][e].revenue # 0 => e <= week'
      BY <1>1, <2>1 DEF ReceiptIsSound
    <2>6. ~receipts[o][e].finalized \/ ~weighted'[o][e] => receipts[o][e].delivered = 0
      BY <1>1, <2>2, <2>3 DEF ReceiptIsSound
    <2> QED
      BY <1>1, <2>1, <2>4, <2>5, <2>6 DEF ReceiptIsSound
  <1>4. CASE FundingMoves
    BY <1>2, <1>4 DEF FundingMoves, queueVars
  <1>5. ASSUME NEW s \in Streams, NEW amount \in Nat \ {0}, Receives(s, amount)
        PROVE  receipts'[o][e] \in Receipt /\ ReceiptIsSound(o, e)'
    <2>1. CASE o = s /\ e = week
      <3> DEFINE r == receipts[s][week]
      <3>1. receipts'[s][week] = [r EXCEPT !.revenue = r.revenue + amount]
        BY <1>5, ReceivedReceipts
      <3>2. week' = week /\ weighted' = weighted
        BY <1>5, ReceivedReceipts
      <3>3. r \in Receipt /\ ReceiptIsSound(s, week)
        BY <1>1, <2>1
      <3>4. ~r.finalized /\ r.delivered = 0
        BY <1>1, <3>3 DEF ReceiptIsSound
      <3> HIDE DEF r
      <3>5. receipts'[s][week] \in Receipt
        BY <3>1, <3>3 DEF Receipt
      <3>6. ~receipts'[s][week].finalized /\ receipts'[s][week].delivered = 0
            /\ receipts'[s][week].revenue \in Nat
        BY <3>1, <3>3, <3>4 DEF Receipt
      <3>7. ReceiptIsSound(s, week)'
        BY <1>1, <3>2, <3>6 DEF ReceiptIsSound
      <3> QED
        BY <2>1, <3>2, <3>5, <3>7 DEF ReceiptIsSound
    <2>2. CASE o # s \/ e # week
      <3>1. receipts'[o][e] = receipts[o][e] /\ week' = week /\ weighted' = weighted
        <4>1. /\ \A d \in Weeks \ {week} : receipts'[s][d] = receipts[s][d]
              /\ \A p \in Streams \ {s} : receipts'[p] = receipts[p]
              /\ week' = week /\ weighted' = weighted
          BY <1>5, ReceivedReceipts
        <4>2. CASE o = s
          BY <2>2, <4>1, <4>2
        <4>3. CASE o # s
          BY <4>1, <4>3
        <4> QED
          BY <4>2, <4>3
      <3> QED
        BY <1>2, <3>1
    <2> QED
      BY <2>1, <2>2
  <1>6. ASSUME NEW s \in Streams, NEW n \in Nat, Routes(s, n)
        PROVE  receipts'[o][e] \in Receipt /\ ReceiptIsSound(o, e)'
    <2>0. QueueIsSound(s)
      OBVIOUS
    <2>1. CASE o = s /\ e \in SettledBy(s, n)
      <3>1. /\ receipts'[s][e] = Settled(s, e)
            /\ week' = week /\ weighted' = weighted
        BY <1>6, <2>0, <2>1, RoutedReceipts
      <3>2. e < week
        BY <1>6, <2>0, <2>1, RoutedWeeks
      <3> DEFINE r == Settled(s, e)
      <3>3. /\ r \in Receipt /\ r.finalized
            /\ r.delivered + r.unallocated + r.buyback + r.stockReserve + r.operations
                   = r.revenue
            /\ 2 * r.delivered <= r.revenue
            /\ ~weighted[s][e] => r.delivered = 0
        BY <1>1, <2>1, SettledReceipt
      <3> HIDE DEF r
      <3>4. receipts'[o][e] = r /\ week' = week /\ weighted'[o][e] = weighted[s][e]
        BY <2>1, <3>1 DEF r
      <3> QED
        BY <1>1, <3>2, <3>3, <3>4 DEF ReceiptIsSound
    <2>2. CASE o # s \/ e \notin SettledBy(s, n)
      <3>1. receipts'[o][e] = receipts[o][e] /\ week' = week /\ weighted' = weighted
        BY <1>6, <2>0, <2>2, RoutedReceipts
      <3> QED
        BY <1>2, <3>1
    <2> QED
      BY <2>1, <2>2
  <1> QED
    BY <1>3, <1>4, <1>5, <1>6, RouterStep

-----------------------------------------------------------------------------
(* The queue.                                                              *)

(* Every step keeps the queue faithful: it grows by the running week, and  *)
(* the cursor moves over the weeks a call settles.                         *)
LEMMA QueueStep ==
    ASSUME RouterInv, [Next]_vars, NEW o \in Streams
    PROVE  QueueIsSound(o)' /\ epochQueue'[o] \in Seq(Weeks) /\ epochCursor'[o] \in Nat
  <1>0. /\ TypeOK /\ QueueIsSound(o)
        /\ epochQueue[o] \in Seq(Weeks) /\ epochCursor[o] \in Nat
    BY DEF RouterInv, TypeOK
  <1>1. ASSUME receipts'[o] = receipts[o], epochQueue'[o] = epochQueue[o],
               epochCursor'[o] = epochCursor[o]
        PROVE  QueueIsSound(o)' /\ epochQueue'[o] \in Seq(Weeks) /\ epochCursor'[o] \in Nat
    BY <1>0, <1>1 DEF QueueIsSound, Faithful
  <1>2. ASSUME NEW eligible \in SUBSET Streams, WeekPasses(eligible)
        PROVE  QueueIsSound(o)' /\ epochQueue'[o] \in Seq(Weeks) /\ epochCursor'[o] \in Nat
    BY <1>1, <1>2 DEF WeekPasses, queueVars, routeVars
  <1>3. CASE FundingMoves
    BY <1>1, <1>3 DEF FundingMoves, queueVars, routeVars
  <1>4. ASSUME NEW s \in Streams, NEW amount \in Nat \ {0}, Receives(s, amount)
        PROVE  QueueIsSound(o)' /\ epochQueue'[o] \in Seq(Weeks) /\ epochCursor'[o] \in Nat
    <2>1. CASE o # s
      <3>1. /\ receipts'[o] = receipts[o] /\ epochQueue'[o] = epochQueue[o]
            /\ epochCursor'[o] = epochCursor[o]
        BY <1>0, <1>4, <2>1, ReceivedReceipts DEF routeVars
      <3> QED
        BY <1>1, <3>1
    <2>2. CASE o = s
      <3> DEFINE q == epochQueue[s]
                 qq == epochQueue'[s]
                 r == receipts[s][week]
      <3>1. /\ week \in Weeks /\ r \in Receipt
            /\ receipts'[s][week] = [r EXCEPT !.revenue = r.revenue + amount]
            /\ \A e \in Weeks \ {week} : receipts'[s][e] = receipts[s][e]
            /\ qq = QueuedWeek(s)
            /\ epochCursor' = epochCursor
        BY <1>0, <1>4, ReceivedReceipts DEF routeVars
      <3>2. r.revenue \in Nat
        BY <3>1 DEF Receipt
      <3>3. /\ receipts'[s][week].revenue # 0
            /\ receipts'[s][week].finalized = receipts[s][week].finalized
        <4> HIDE DEF r
        <4>1. receipts'[s][week].revenue = r.revenue + amount
              /\ receipts'[s][week].finalized = r.finalized
          BY <3>1 DEF Receipt
        <4> QED
          BY <3>2, <4>1 DEF r
      <3>4. {e \in Weeks : receipts'[s][e].revenue # 0}
                = {e \in Weeks : receipts[s][e].revenue # 0} \cup {week}
        BY <3>1, <3>3
      <3>5. {e \in Weeks : receipts'[s][e].finalized} = {e \in Weeks : receipts[s][e].finalized}
        BY <3>1, <3>3
      <3>6. /\ q \in Seq(Weeks) /\ Len(q) \in Nat /\ epochCursor[s] \in Nat
            /\ epochCursor[s] <= Len(q)
            /\ \A i, j \in 1 .. Len(q) : i < j => q[i] < q[j]
            /\ Range(q) = {e \in Weeks : receipts[s][e].revenue # 0}
            /\ {q[i] : i \in 1 .. epochCursor[s]} = {e \in Weeks : receipts[s][e].finalized}
        BY <1>0, <2>2 DEF QueueIsSound, Faithful
      <3>7. CASE receipts[s][week].revenue # 0
        <4>1. qq = q
          BY <3>1, <3>7 DEF QueuedWeek
        <4>2. {e \in Weeks : receipts'[s][e].revenue # 0}
                  = {e \in Weeks : receipts[s][e].revenue # 0}
          BY <3>1, <3>4, <3>7
        <4> QED
          BY <2>2, <3>1, <3>5, <3>6, <4>1, <4>2 DEF QueueIsSound, Faithful
      <3>8. CASE receipts[s][week].revenue = 0
        <4>1. qq = Append(q, week)
          BY <3>1, <3>8 DEF QueuedWeek
        <4> HIDE DEF q, qq, r
        <4>2. /\ qq \in Seq(Weeks) /\ Len(qq) = Len(q) + 1 /\ qq[Len(q) + 1] = week
              /\ \A i \in 1 .. Len(q) : qq[i] = q[i]
          BY <3>1, <3>6, <4>1
        <4>3. \A i \in 1 .. Len(q) : q[i] \in Range(q) /\ q[i] \in Weeks
          BY <3>6 DEF Range
        <4>4. ASSUME NEW i \in 1 .. Len(q)
              PROVE  q[i] < week
          <5>1. q[i] \in Weeks /\ receipts[s][q[i]].revenue # 0
            BY <3>6, <4>3
          <5>2. q[i] <= week /\ q[i] # week
            BY <3>8, <5>1 DEF RouterInv, ReceiptIsSound
          <5> QED
            BY <3>1, <5>1, <5>2, FiniteStreams
        <4>5. ASSUME NEW i \in 1 .. Len(qq), NEW j \in 1 .. Len(qq), i < j
              PROVE  qq[i] < qq[j]
          <5>1. CASE j \in 1 .. Len(q)
            BY <3>6, <4>2, <4>5, <5>1
          <5>2. CASE j = Len(q) + 1
            BY <3>6, <4>2, <4>4, <4>5, <5>2
          <5> QED
            BY <3>6, <4>2, <5>1, <5>2
        <4>6. Range(qq) = Range(q) \cup {week}
          <5>1. DOMAIN qq = DOMAIN q \cup {Len(q) + 1} /\ DOMAIN q = 1 .. Len(q)
            BY <3>6, <4>2
          <5> QED
            BY <4>2, <5>1 DEF Range
        <4>7. {qq[i] : i \in 1 .. epochCursor[s]} = {q[i] : i \in 1 .. epochCursor[s]}
          BY <3>6, <4>2
        <4>8. epochCursor[s] <= Len(qq)
          BY <3>6, <4>2
        <4> DEFINE book == receipts'[s]
                   c == epochCursor[s]
        <4>9. Range(qq) = {e \in Weeks : book[e].revenue # 0}
          BY <3>4, <3>6, <4>6
        <4>10. {qq[i] : i \in 1 .. c} = {e \in Weeks : book[e].finalized}
          BY <3>5, <3>6, <4>7
        <4>11. c <= Len(qq) /\ \A i, j \in 1 .. Len(qq) : i < j => qq[i] < qq[j]
          BY <4>5, <4>8
        <4> HIDE DEF book, c
        <4>12. Faithful(qq, c, book)
          BY <4>9, <4>10, <4>11 DEF Faithful
        <4>13. epochCursor'[s] = c /\ c \in Nat
          BY <3>1, <3>6 DEF c
        <4> QED
          BY <2>2, <4>2, <4>12, <4>13 DEF QueueIsSound, qq, book
      <3> QED
        BY <3>7, <3>8
    <2> QED
      BY <2>1, <2>2
  <1>5. ASSUME NEW s \in Streams, NEW n \in Nat, Routes(s, n)
        PROVE  QueueIsSound(o)' /\ epochQueue'[o] \in Seq(Weeks) /\ epochCursor'[o] \in Nat
    <2>0. QueueIsSound(s) /\ epochCursor[s] \in Nat /\ Len(epochQueue[s]) \in Nat
      BY <1>0, ReadyWeeksAreFinite DEF RouterInv
    <2>1. CASE o # s
      <3>1. /\ receipts'[o] = receipts[o] /\ epochQueue'[o] = epochQueue[o]
            /\ epochCursor'[o] = epochCursor[o]
        BY <1>0, <1>5, <2>0, <2>1, RoutedReceipts
      <3> QED
        BY <1>1, <3>1
    <2>2. CASE o = s
      <3> DEFINE q == epochQueue[s]
                 c == epochCursor[s]
                 es == SettledBy(s, n)
      <3>1. /\ \A e \in es : receipts'[s][e] = Settled(s, e)
            /\ \A e \in Weeks \ es : receipts'[s][e] = receipts[s][e]
            /\ epochCursor'[s] = c + n /\ epochQueue' = epochQueue
        BY <1>0, <1>5, <2>0, RoutedReceipts
      <3>2. es \subseteq Weeks /\ c + n <= Len(q)
        BY <1>0, <1>5, <2>0, RoutedWeeks
      <3>3. ASSUME NEW e \in es
            PROVE  /\ receipts'[s][e].revenue = receipts[s][e].revenue
                   /\ receipts'[s][e].finalized
        <4>1. receipts[s][e] \in Receipt /\ weighted[s][e] \in BOOLEAN
          BY <1>0, <3>2 DEF TypeOK, Receipt
        <4>2. Settled(s, e).revenue = receipts[s][e].revenue /\ Settled(s, e).finalized
          BY <4>1, SettledReceipt
        <4> QED
          BY <3>1, <4>2
      <3>4. {e \in Weeks : receipts'[s][e].revenue # 0} = {e \in Weeks : receipts[s][e].revenue # 0}
        BY <3>1, <3>3
      <3>5. {e \in Weeks : receipts'[s][e].finalized}
                = {e \in Weeks : receipts[s][e].finalized} \cup es
        BY <3>1, <3>2, <3>3
      <3>6. {q[i] : i \in 1 .. c + n} = {q[i] : i \in 1 .. c} \cup es
        <4>1. 1 .. c + n = (1 .. c) \cup (c + 1 .. c + n)
          BY <2>0
        <4> QED
          BY <4>1 DEF SettledBy
      <3>7. c + n \in Nat
        BY <2>0
      <3>8. Faithful(q, c, receipts[s])
        BY <2>0 DEF QueueIsSound
      <3> DEFINE book == receipts'[s]
      <3>9. q \in Seq(Weeks)
        BY <1>0, <2>2
      <3> HIDE DEF q, c, es
      <3>10. Range(q) = {e \in Weeks : book[e].revenue # 0}
        BY <3>4, <3>8 DEF Faithful
      <3>11. {q[i] : i \in 1 .. c + n} = {e \in Weeks : book[e].finalized}
        BY <3>5, <3>6, <3>8 DEF Faithful
      <3> HIDE DEF book
      <3>12. Faithful(q, c + n, book)
        BY <3>2, <3>8, <3>10, <3>11 DEF Faithful
      <3> QED
        BY <2>2, <3>1, <3>7, <3>9, <3>12 DEF QueueIsSound, q, book
    <2> QED
      BY <2>1, <2>2
  <1> QED
    BY <1>0, <1>2, <1>3, <1>4, <1>5, RouterStep

-----------------------------------------------------------------------------
(* The totals.                                                             *)

\* What one part of the receipts of weeks W of s comes to, once settled.
PartOf(s, W, part) == SumFunctionOnSet([e \in W |-> Settled(s, e)[part]], W)

(* A call adds up each part of the weeks it routes.                        *)
LEMMA RoutedTotals ==
    ASSUME TypeOK, NEW s \in Streams, NEW n \in Nat, Routes(s, n), NEW W, W = SettledBy(s, n)
    PROVE  /\ totalRouted'[s] = totalRouted[s] + PartOf(s, W, "revenue")
           /\ unallocatedNative' = [unallocatedNative EXCEPT
                                       ![s] = @ + PartOf(s, W, "unallocated")]
           /\ totalUnallocatedBondRewardsNative'
                  = totalUnallocatedBondRewardsNative + PartOf(s, W, "unallocated")
           /\ totalBondRewardsDelivered' = totalBondRewardsDelivered + PartOf(s, W, "delivered")
           /\ totalBuybackRouted' = totalBuybackRouted + PartOf(s, W, "buyback")
           /\ totalStockReserveRouted' = totalStockReserveRouted + PartOf(s, W, "stockReserve")
           /\ totalOperationsRouted' = totalOperationsRouted + PartOf(s, W, "operations")
           /\ nativeBalance' = nativeBalance - PartOf(s, W, "delivered")
                                - PartOf(s, W, "buyback") - PartOf(s, W, "stockReserve")
                                - PartOf(s, W, "operations")
           /\ nativeBalance >= PartOf(s, W, "delivered") + PartOf(s, W, "buyback")
                                + PartOf(s, W, "stockReserve") + PartOf(s, W, "operations")
  <1> DEFINE settled == [d \in SettledBy(s, n) |-> Settled(s, d)]
  <1>1. RouteNext(s, n)
    BY DEF Routes
  <1>2. ASSUME NEW part
        PROVE  SumFunctionOnSet([e \in SettledBy(s, n) |-> settled[e][part]], SettledBy(s, n))
                   = PartOf(s, W, part)
    <2>1. [e \in SettledBy(s, n) |-> settled[e][part]] = [e \in W |-> Settled(s, e)[part]]
      OBVIOUS
    <2> QED
      BY <2>1 DEF PartOf
  <1> DEFINE Sum(part) == SumFunctionOnSet([e \in SettledBy(s, n) |-> settled[e][part]],
                                           SettledBy(s, n))
  <1>3. /\ totalRouted' = [totalRouted EXCEPT ![s] = @ + Sum("revenue")]
        /\ unallocatedNative' = [unallocatedNative EXCEPT ![s] = @ + Sum("unallocated")]
        /\ totalUnallocatedBondRewardsNative'
               = totalUnallocatedBondRewardsNative + Sum("unallocated")
        /\ totalBondRewardsDelivered' = totalBondRewardsDelivered + Sum("delivered")
        /\ totalBuybackRouted' = totalBuybackRouted + Sum("buyback")
        /\ totalStockReserveRouted' = totalStockReserveRouted + Sum("stockReserve")
        /\ totalOperationsRouted' = totalOperationsRouted + Sum("operations")
        /\ nativeBalance' = nativeBalance - Sum("delivered") - Sum("buyback")
                                - Sum("stockReserve") - Sum("operations")
        /\ nativeBalance >= Sum("delivered") + Sum("buyback")
                                + Sum("stockReserve") + Sum("operations")
    BY <1>1 DEF RouteNext, SettledBy
  <1>4. \A part : Sum(part) = PartOf(s, W, part)
    BY <1>2
  <1>5. DOMAIN totalRouted = Streams
    BY DEF TypeOK
  <1> HIDE DEF Sum
  <1> QED
    BY <1>3, <1>4, <1>5

(* The parts of the weeks a call routes add up to their revenue.           *)
LEMMA PartsAddUp ==
    ASSUME TypeOK, NEW s \in Streams, NEW W, W \subseteq Weeks
    PROVE  /\ PartOf(s, W, "revenue") \in Nat /\ PartOf(s, W, "delivered") \in Nat
           /\ PartOf(s, W, "unallocated") \in Nat /\ PartOf(s, W, "buyback") \in Nat
           /\ PartOf(s, W, "stockReserve") \in Nat /\ PartOf(s, W, "operations") \in Nat
           /\ PartOf(s, W, "revenue")
                = PartOf(s, W, "delivered") + PartOf(s, W, "unallocated")
                  + PartOf(s, W, "buyback") + PartOf(s, W, "stockReserve")
                  + PartOf(s, W, "operations")
  <1> DEFINE F(part) == [e \in W |-> Settled(s, e)[part]]
             d == F("delivered")
             u == F("unallocated")
             b == F("buyback")
             k == F("stockReserve")
             o == F("operations")
             r == F("revenue")
             du == [e \in W |-> d[e] + u[e]]
             dub == [e \in W |-> du[e] + b[e]]
             dubk == [e \in W |-> dub[e] + k[e]]
  <1>1. IsFiniteSet(W)
    BY FiniteStreams
  <1>2. ASSUME NEW e \in W
        PROVE  /\ d[e] \in Nat /\ u[e] \in Nat /\ b[e] \in Nat /\ k[e] \in Nat
               /\ o[e] \in Nat /\ r[e] \in Nat
               /\ d[e] + u[e] + b[e] + k[e] + o[e] = r[e]
    <2>1. receipts[s][e] \in Receipt /\ weighted[s][e] \in BOOLEAN
      BY DEF TypeOK, Receipt
    <2> DEFINE x == Settled(s, e)
    <2>2. /\ x \in Receipt
          /\ x.delivered + x.unallocated + x.buyback + x.stockReserve + x.operations = x.revenue
      BY <2>1, SettledReceipt
    <2>3. /\ d[e] = x.delivered /\ u[e] = x.unallocated /\ b[e] = x.buyback
          /\ k[e] = x.stockReserve /\ o[e] = x.operations /\ r[e] = x.revenue
      OBVIOUS
    <2> HIDE DEF x, d, u, b, k, o, r
    <2> QED
      BY <2>2, <2>3 DEF Receipt
  <1>3. /\ \A e \in W : du[e] = d[e] + u[e]
        /\ \A e \in W : dub[e] = du[e] + b[e]
        /\ \A e \in W : dubk[e] = dub[e] + k[e]
    OBVIOUS
  <1>4. /\ PartOf(s, W, "delivered") = SumFunctionOnSet(d, W)
        /\ PartOf(s, W, "unallocated") = SumFunctionOnSet(u, W)
        /\ PartOf(s, W, "buyback") = SumFunctionOnSet(b, W)
        /\ PartOf(s, W, "stockReserve") = SumFunctionOnSet(k, W)
        /\ PartOf(s, W, "operations") = SumFunctionOnSet(o, W)
        /\ PartOf(s, W, "revenue") = SumFunctionOnSet(r, W)
    BY DEF PartOf
  <1> HIDE DEF d, u, b, k, o, r, du, dub, dubk
  <1>5. /\ SumFunctionOnSet(d, W) \in Nat /\ SumFunctionOnSet(u, W) \in Nat
        /\ SumFunctionOnSet(b, W) \in Nat /\ SumFunctionOnSet(k, W) \in Nat
        /\ SumFunctionOnSet(o, W) \in Nat
    BY <1>1, <1>2, SumNat
  <1>6. \A e \in W : d[e] \in Int /\ u[e] \in Int /\ du[e] = d[e] + u[e] /\ du[e] \in Int
    BY <1>2, <1>3
  <1>7. SumFunctionOnSet(du, W) = SumFunctionOnSet(d, W) + SumFunctionOnSet(u, W)
    BY <1>1, <1>6, SumPlus
  <1>8. \A e \in W : b[e] \in Int /\ dub[e] = du[e] + b[e] /\ dub[e] \in Int
    BY <1>2, <1>3, <1>6
  <1>9. SumFunctionOnSet(dub, W) = SumFunctionOnSet(du, W) + SumFunctionOnSet(b, W)
    BY <1>1, <1>6, <1>8, SumPlus
  <1>10. \A e \in W : k[e] \in Int /\ dubk[e] = dub[e] + k[e] /\ dubk[e] \in Int
    BY <1>2, <1>3, <1>8
  <1>11. SumFunctionOnSet(dubk, W) = SumFunctionOnSet(dub, W) + SumFunctionOnSet(k, W)
    BY <1>1, <1>8, <1>10, SumPlus
  <1>12. \A e \in W : o[e] \in Int /\ r[e] = dubk[e] + o[e] /\ r[e] \in Int
    BY <1>2, <1>3
  <1>13. SumFunctionOnSet(r, W) = SumFunctionOnSet(dubk, W) + SumFunctionOnSet(o, W)
    BY <1>1, <1>10, <1>12, SumPlus
  <1> QED
    BY <1>4, <1>5, <1>7, <1>9, <1>11, <1>13

(* A call moves the revenue of the weeks it routes to totalRouted.         *)
LEMMA RoutedSum ==
    ASSUME RouterInv, NEW s \in Streams, NEW n \in Nat, Routes(s, n)
    PROVE  TotalsAreSound(s)'
  <1> DEFINE W == SettledBy(s, n)
             f == RoutedOf(s)
             g == RoutedOf(s)'
             m == [e \in Weeks |-> IF e \in W THEN receipts[s][e].revenue ELSE 0]
             w == [e \in W |-> Settled(s, e)["revenue"]]
  <1>1. TypeOK /\ QueueIsSound(s) /\ TotalsAreSound(s)
    BY DEF RouterInv
  <1>2. W \subseteq Weeks /\ \A e \in W : ~receipts[s][e].finalized
    BY <1>1, RoutedWeeks
  <1>3. /\ \A e \in W : receipts'[s][e] = Settled(s, e)
        /\ \A e \in Weeks \ W : receipts'[s][e] = receipts[s][e]
        /\ totalRevenue' = totalRevenue
    BY <1>1, RoutedReceipts
  <1>4. \A e \in Weeks : receipts[s][e] \in Receipt /\ weighted[s][e] \in BOOLEAN
                         /\ receipts[s][e].revenue \in Int
    <2>1. \A e \in Weeks : receipts[s][e] \in Receipt /\ weighted[s][e] \in BOOLEAN
      BY <1>1 DEF TypeOK, Receipt
    <2> QED
      BY <2>1 DEF Receipt
  <1>5. \A e \in W : /\ Settled(s, e).revenue = receipts[s][e].revenue
                     /\ Settled(s, e).finalized
    BY <1>2, <1>4, SettledReceipt
  <1>6. \A e \in Weeks : receipts'[s][e].revenue = receipts[s][e].revenue
    BY <1>3, <1>5
  <1>7. RevenueOf(s)' = RevenueOf(s)
    BY <1>6 DEF RevenueOf
  <1>8. \A e \in Weeks : f[e] \in Int /\ m[e] \in Int /\ g[e] = f[e] + m[e]
    BY <1>2, <1>3, <1>4, <1>5 DEF RoutedOf
  <1>9. \A e \in W : m[e] \in Int /\ w[e] = m[e]
    BY <1>2, <1>4, <1>5
  <1>10. \A e \in Weeks \ W : m[e] = 0
    OBVIOUS
  <1>11. PartOf(s, W, "revenue") = SumFunctionOnSet(w, W)
    BY DEF PartOf
  <1>12. totalRouted'[s] = totalRouted[s] + PartOf(s, W, "revenue")
    BY <1>1, RoutedTotals
  <1>13. IsFiniteSet(Weeks) /\ IsFiniteSet(W)
    BY <1>2, FiniteStreams
  <1> HIDE DEF W, f, g, m, w
  <1>14. SumFunctionOnSet(g, Weeks) = SumFunctionOnSet(f, Weeks) + SumFunctionOnSet(m, Weeks)
    BY <1>8, <1>13, SumPlus
  <1>15. SumFunctionOnSet(m, W) = SumFunctionOnSet(m, Weeks)
    BY <1>2, <1>9, <1>10, <1>13, SumSupport
  <1>16. SumFunctionOnSet(w, W) = SumFunctionOnSet(m, W)
    BY <1>9, <1>13, SumSame
  <1>17. totalRouted'[s] = SumFunctionOnSet(g, Weeks)
    BY <1>1, <1>11, <1>12, <1>14, <1>15, <1>16 DEF TotalsAreSound, f
  <1> QED
    BY <1>1, <1>3, <1>7, <1>17 DEF TotalsAreSound, g

(* Every step keeps the totals of every stream the sums over its weeks.    *)
LEMMA TotalsStep ==
    ASSUME RouterInv, [Next]_vars, NEW o \in Streams
    PROVE  TotalsAreSound(o)'
  <1>0. TypeOK /\ TotalsAreSound(o)
    BY DEF RouterInv
  <1>1. ASSUME receipts'[o] = receipts[o], totalRevenue'[o] = totalRevenue[o],
               totalRouted'[o] = totalRouted[o]
        PROVE  TotalsAreSound(o)'
    <2>1. RevenueOf(o)' = RevenueOf(o) /\ RoutedOf(o)' = RoutedOf(o)
      BY <1>1 DEF RevenueOf, RoutedOf
    <2> QED
      BY <1>0, <1>1, <2>1 DEF TotalsAreSound
  <1>2. ASSUME NEW eligible \in SUBSET Streams, WeekPasses(eligible)
        PROVE  TotalsAreSound(o)'
    BY <1>1, <1>2 DEF WeekPasses, queueVars, routeVars
  <1>3. CASE FundingMoves
    BY <1>1, <1>3 DEF FundingMoves, queueVars, routeVars
  <1>4. ASSUME NEW s \in Streams, NEW amount \in Nat \ {0}, Receives(s, amount)
        PROVE  TotalsAreSound(o)'
    <2>1. totalRouted' = totalRouted
      BY <1>0, <1>4, ReceivedReceipts DEF routeVars
    <2>2. CASE o # s
      <3>1. receipts'[o] = receipts[o] /\ totalRevenue'[o] = totalRevenue[o]
        BY <1>0, <1>4, <2>2, ReceivedReceipts
      <3> QED
        BY <1>1, <2>1, <3>1
    <2>3. CASE o = s
      <3> DEFINE r == receipts[s][week]
                 f == RevenueOf(s)
                 g == RevenueOf(s)'
      <3>1. /\ week \in Weeks /\ r \in Receipt
            /\ receipts'[s][week] = [r EXCEPT !.revenue = r.revenue + amount]
            /\ \A e \in Weeks \ {week} : receipts'[s][e] = receipts[s][e]
            /\ totalRevenue'[s] = totalRevenue[s] + amount
        BY <1>0, <1>4, ReceivedReceipts
      <3>2. /\ receipts'[s][week].revenue = r.revenue + amount
            /\ receipts'[s][week].finalized = r.finalized
            /\ r.revenue \in Nat
        <4> HIDE DEF r
        <4> QED
          BY <3>1 DEF Receipt
      <3>3. ~r.finalized
        <4>1. week \in Nat
          BY <3>1, FiniteStreams
        <4> QED
          BY <3>1, <4>1 DEF RouterInv, ReceiptIsSound
      <3>4. \A e \in Weeks : receipts[s][e].revenue \in Nat
        <4>1. \A e \in Weeks : receipts[s][e] \in Receipt
          BY <1>0 DEF TypeOK, Receipt
        <4> QED
          BY <4>1 DEF Receipt
      <3>5. RoutedOf(s)' = RoutedOf(s)
        <4>1. ASSUME NEW e \in Weeks
              PROVE  RoutedOf(s)'[e] = RoutedOf(s)[e]
          <5>1. CASE e = week
            BY <3>2, <3>3, <5>1 DEF RoutedOf
          <5>2. CASE e # week
            BY <3>1, <5>2 DEF RoutedOf
          <5> QED
            BY <5>1, <5>2
        <4>2. RoutedOf(s)' = [e \in Weeks |-> RoutedOf(s)'[e]]
              /\ RoutedOf(s) = [e \in Weeks |-> RoutedOf(s)[e]]
          BY DEF RoutedOf
        <4> QED
          BY <4>1, <4>2
      <3>6. /\ f[week] = r.revenue /\ g[week] = r.revenue + amount
            /\ \A e \in Weeks : f[e] \in Int /\ g[e] \in Int
            /\ \A e \in Weeks \ {week} : f[e] = g[e]
        <4> HIDE DEF r
        <4>1. \A e \in Weeks : f[e] = receipts[s][e].revenue /\ g[e] = receipts'[s][e].revenue
          BY DEF RevenueOf
        <4>2. f[week] = r.revenue /\ g[week] = r.revenue + amount
          BY <3>1, <3>2, <4>1 DEF r
        <4>3. \A e \in Weeks \ {week} : f[e] = g[e]
          BY <3>1, <4>1
        <4>4. \A e \in Weeks : f[e] \in Int
          BY <3>4, <4>1
        <4>5. g[week] \in Int
          BY <3>2, <4>2
        <4> HIDE DEF f, g
        <4> QED
          BY <4>2, <4>3, <4>4, <4>5
      <3> HIDE DEF r, f, g
      <3>7. SumFunctionOnSet(g, Weeks) = SumFunctionOnSet(f, Weeks) - f[week] + g[week]
        BY <3>1, <3>6, FiniteStreams, SumChange
      <3>8. SumFunctionOnSet(f, Weeks) \in Int
        BY <3>6, FiniteStreams, SumInt
      <3>9. totalRevenue'[s] = SumFunctionOnSet(g, Weeks)
        BY <1>0, <2>3, <3>1, <3>2, <3>6, <3>7, <3>8 DEF TotalsAreSound, f
      <3> QED
        BY <1>0, <2>1, <2>3, <3>5, <3>9 DEF TotalsAreSound, g
    <2> QED
      BY <2>2, <2>3
  <1>5. ASSUME NEW s \in Streams, NEW n \in Nat, Routes(s, n)
        PROVE  TotalsAreSound(o)'
    <2>1. CASE o = s
      BY <1>5, <2>1, RoutedSum
    <2>2. CASE o # s
      <3>1. /\ receipts'[o] = receipts[o] /\ totalRouted'[o] = totalRouted[o]
            /\ totalRevenue' = totalRevenue
        BY <1>0, <1>5, <2>2, RoutedReceipts DEF RouterInv
      <3> QED
        BY <1>1, <3>1
    <2> QED
      BY <2>1, <2>2
  <1> QED
    BY <1>0, <1>2, <1>3, <1>4, <1>5, RouterStep

-----------------------------------------------------------------------------
(* The balance.                                                            *)

(* What is to be routed is not negative: totalRouted sums up some of the   *)
(* weeks that totalRevenue sums up.                                        *)
LEMMA NothingOverRouted ==
    ASSUME TypeOK, \A s \in Streams : TotalsAreSound(s)
    PROVE  /\ \A s \in Streams : ToRoute[s] \in Nat
           /\ SumFunctionOnSet(ToRoute, Streams) \in Nat
  <1>1. ASSUME NEW s \in Streams
        PROVE  ToRoute[s] \in Nat
    <2> DEFINE f == RoutedOf(s)
               g == RevenueOf(s)
    <2>1. \A e \in Weeks : receipts[s][e].revenue \in Nat
      <3>1. \A e \in Weeks : receipts[s][e] \in Receipt
        BY DEF TypeOK, Receipt
      <3> QED
        BY <3>1 DEF Receipt
    <2>2. \A e \in Weeks : f[e] \in Int /\ g[e] \in Int /\ f[e] <= g[e]
      BY <2>1 DEF RoutedOf, RevenueOf
    <2>3. totalRevenue[s] \in Nat /\ totalRouted[s] \in Nat
      BY DEF TypeOK
    <2>4. /\ totalRevenue[s] = SumFunctionOnSet(g, Weeks)
          /\ totalRouted[s] = SumFunctionOnSet(f, Weeks)
      BY DEF TotalsAreSound
    <2> HIDE DEF f, g
    <2>5. SumFunctionOnSet(f, Weeks) <= SumFunctionOnSet(g, Weeks)
      BY <2>2, FiniteStreams, SumAtMost
    <2>6. ToRoute[s] = totalRevenue[s] - totalRouted[s]
      BY DEF ToRoute
    <2> QED
      BY <2>3, <2>4, <2>5, <2>6
  <1>2. IsFiniteSet(Streams)
    BY FiniteStreams
  <1> QED
    BY <1>1, <1>2, SumNat

(* Every step keeps the balance what the books say: a payment adds to      *)
(* both, a call takes from both what it pays out, and keeps, unallocated,  *)
(* what it does not.                                                       *)
LEMMA BalanceStep ==
    ASSUME RouterInv, [Next]_vars
    PROVE  BalanceIsSound'
  <1>0. /\ TypeOK /\ BalanceIsSound
        /\ nativeBalance \in Int /\ totalUnallocatedBondRewardsNative \in Int
        /\ withdrawableFunding \in Int
    BY DEF RouterInv, TypeOK
  <1>1. \A s \in Streams : totalRevenue[s] \in Int /\ totalRouted[s] \in Int
    BY <1>0 DEF TypeOK
  <1>2. \A s \in Streams : /\ ToRoute[s] = totalRevenue[s] - totalRouted[s]
                           /\ ToRoute'[s] = totalRevenue'[s] - totalRouted'[s]
    BY DEF ToRoute
  <1>3. IsFiniteSet(Streams)
    BY FiniteStreams
  <1>4. \A s \in Streams : ToRoute[s] \in Int
    BY <1>1, <1>2
  <1> DEFINE f == ToRoute
             g == ToRoute'
  <1>5. SumFunctionOnSet(f, Streams) \in Int
    BY <1>3, <1>4, SumInt
  <1>6. ASSUME NEW s \in Streams, NEW d \in Int, g[s] = f[s] + d,
               \A o \in Streams \ {s} : g[o] = f[o]
        PROVE  SumFunctionOnSet(g, Streams) = SumFunctionOnSet(f, Streams) + d
    <2>1. g[s] \in Int /\ \A o \in Streams : f[o] \in Int
      BY <1>4, <1>6
    <2> HIDE DEF f, g
    <2>2. \A o \in Streams : f[o] \in Int /\ g[o] \in Int
      <3>1. ASSUME NEW o \in Streams
            PROVE  g[o] \in Int
        <4>1. CASE o = s
          BY <2>1, <4>1
        <4>2. CASE o # s
          BY <1>6, <2>1, <4>2
        <4> QED
          BY <4>1, <4>2
      <3> QED
        BY <2>1, <3>1
    <2>3. SumFunctionOnSet(g, Streams) = SumFunctionOnSet(f, Streams) - f[s] + g[s]
      BY <1>3, <1>6, <2>2, SumChange
    <2> QED
      BY <1>5, <1>6, <2>1, <2>3
  <1>7. ASSUME totalRevenue' = totalRevenue, totalRouted' = totalRouted
        PROVE  g = f
    BY <1>7 DEF ToRoute
  <1>8. ASSUME NEW eligible \in SUBSET Streams, WeekPasses(eligible)
        PROVE  BalanceIsSound'
    BY <1>0, <1>7, <1>8 DEF WeekPasses, routeVars, BalanceIsSound
  <1>9. CASE FundingMoves
    <2>1. g = f /\ totalUnallocatedBondRewardsNative' = totalUnallocatedBondRewardsNative
      BY <1>7, <1>9 DEF FundingMoves, routeVars
    <2>2. nativeBalance' - withdrawableFunding' = nativeBalance - withdrawableFunding
          /\ nativeBalance' \in Int /\ withdrawableFunding' \in Int
      BY <1>0, <1>9 DEF FundingMoves
    <2> HIDE DEF f, g
    <2> QED
      BY <1>0, <1>5, <2>1, <2>2 DEF BalanceIsSound, f, g
  <1>10. ASSUME NEW s \in Streams, NEW amount \in Nat \ {0}, Receives(s, amount)
         PROVE  BalanceIsSound'
    <2>1. /\ \A o \in Streams \ {s} : totalRevenue'[o] = totalRevenue[o]
          /\ totalRevenue'[s] = totalRevenue[s] + amount
          /\ nativeBalance' = nativeBalance + amount
          /\ totalRouted' = totalRouted
          /\ totalUnallocatedBondRewardsNative' = totalUnallocatedBondRewardsNative
          /\ withdrawableFunding' = withdrawableFunding
      BY <1>0, <1>10, ReceivedReceipts DEF routeVars
    <2>2. g[s] = f[s] + amount /\ \A o \in Streams \ {s} : g[o] = f[o]
      BY <1>1, <1>2, <2>1
    <2>3. SumFunctionOnSet(g, Streams) = SumFunctionOnSet(f, Streams) + amount
      BY <1>6, <2>2
    <2> HIDE DEF f, g
    <2> QED
      BY <1>0, <1>5, <2>1, <2>3 DEF BalanceIsSound, f, g
  <1>11. ASSUME NEW s \in Streams, NEW n \in Nat, Routes(s, n)
         PROVE  BalanceIsSound'
    <2> DEFINE W == SettledBy(s, n)
    <2>1. QueueIsSound(s)
      BY DEF RouterInv
    <2>2. W \subseteq Weeks
      BY <1>0, <1>11, <2>1, RoutedWeeks
    <2>3. /\ \A o \in Streams \ {s} : totalRouted'[o] = totalRouted[o]
          /\ totalRevenue' = totalRevenue
          /\ withdrawableFunding' = withdrawableFunding
      BY <1>0, <1>11, <2>1, RoutedReceipts
    <2>4. /\ totalRouted'[s] = totalRouted[s] + PartOf(s, W, "revenue")
          /\ totalUnallocatedBondRewardsNative'
                 = totalUnallocatedBondRewardsNative + PartOf(s, W, "unallocated")
          /\ nativeBalance' = nativeBalance - PartOf(s, W, "delivered")
                - PartOf(s, W, "buyback") - PartOf(s, W, "stockReserve")
                - PartOf(s, W, "operations")
      BY <1>0, <1>11, RoutedTotals
    <2> HIDE DEF W
    <2>5. /\ PartOf(s, W, "revenue") \in Int /\ PartOf(s, W, "delivered") \in Int
          /\ PartOf(s, W, "unallocated") \in Int /\ PartOf(s, W, "buyback") \in Int
          /\ PartOf(s, W, "stockReserve") \in Int /\ PartOf(s, W, "operations") \in Int
          /\ PartOf(s, W, "revenue")
               = PartOf(s, W, "delivered") + PartOf(s, W, "unallocated")
                 + PartOf(s, W, "buyback") + PartOf(s, W, "stockReserve")
                 + PartOf(s, W, "operations")
      BY <1>0, <2>2, PartsAddUp
    <2>6. g[s] = f[s] - PartOf(s, W, "revenue") /\ \A o \in Streams \ {s} : g[o] = f[o]
      BY <1>1, <1>2, <2>3, <2>4, <2>5
    <2>7. g[s] = f[s] + (0 - PartOf(s, W, "revenue"))
      BY <1>4, <2>5, <2>6
    <2>8. SumFunctionOnSet(g, Streams)
              = SumFunctionOnSet(f, Streams) + (0 - PartOf(s, W, "revenue"))
      BY <1>6, <2>5, <2>6, <2>7
    <2> HIDE DEF f, g
    <2> QED
      BY <1>0, <1>5, <2>3, <2>4, <2>5, <2>8 DEF BalanceIsSound, f, g
  <1> QED
    BY <1>0, <1>8, <1>9, <1>10, <1>11, RouterStep

-----------------------------------------------------------------------------
(* Types.                                                                  *)

(* Every step keeps the types of what is not in the books: the clock, the  *)
(* switches, the allowed callers, the bond's weights and the escrow.       *)
LEMMA SwitchesStep ==
    ASSUME TypeOK, [Next]_vars
    PROVE  /\ week' \in Weeks /\ paused' \in BOOLEAN /\ ownerIsContract' \in BOOLEAN
           /\ marketplaces' \in SUBSET LegacyMarketplaces
           /\ keyMarketplaces' \in SUBSET KeyMarketplaces
           /\ outages' \in SUBSET Outages
           /\ weighted' \in [Streams -> [Weeks -> BOOLEAN]]
           /\ escrowOwed' \in Nat
  <1>0. /\ week \in Weeks /\ paused \in BOOLEAN /\ ownerIsContract \in BOOLEAN
        /\ marketplaces \in SUBSET LegacyMarketplaces
        /\ keyMarketplaces \in SUBSET KeyMarketplaces
        /\ outages \in SUBSET Outages
        /\ weighted \in [Streams -> [Weeks -> BOOLEAN]]
        /\ escrowOwed \in Nat
        /\ Amounts \subseteq Nat /\ MaxWeek \in Nat
    BY RevenueRouterAssumption DEF TypeOK
  <1>1. ASSUME NEW eligible \in SUBSET Streams, AdvanceWeek(eligible)
        PROVE  week' \in Weeks /\ weighted' \in [Streams -> [Weeks -> BOOLEAN]]
    BY <1>0, <1>1 DEF AdvanceWeek, Weeks
  <1>2. CASE Outside
    <2>1. CASE \E eligible \in SUBSET Streams : AdvanceWeek(eligible)
      <3>1. week' \in Weeks /\ weighted' \in [Streams -> [Weeks -> BOOLEAN]]
        BY <1>1, <2>1
      <3>2. UNCHANGED <<outages, paused, allowVars, escrowOwed>>
        BY <2>1 DEF AdvanceWeek
      <3> QED
        BY <1>0, <3>1, <3>2 DEF allowVars
    <2>2. CASE \E kind \in Outages, down \in BOOLEAN : SetOutage(kind, down)
      BY <1>0, <2>2 DEF SetOutage, allowVars
    <2>3. CASE \E amount \in Amounts : PonsFeesAccrue(amount)
      BY <1>0, <2>3 DEF PonsFeesAccrue, allowVars, outsideVars
    <2> QED
      BY <1>2, <2>1, <2>2, <2>3 DEF Outside
  <1>3. CASE Govern
    BY <1>0, <1>3
    DEF Govern, SetMarketplace, SetKeyMarketplace, TransferOwnership, Activate, Pause,
        WithdrawFunding, allowVars, outsideVars
  <1>4. CASE Receive
    BY <1>0, <1>4
    DEF Receive, ClaimPonsFees, ReceiveLegacyFee, ReceiveFunding,
        RecordKeyMarketplaceRevenue, allowVars, outsideVars
  <1>5. ASSUME NEW s \in Streams, Route(s)
        PROVE  UNCHANGED <<outsideVars, paused, allowVars, escrowOwed>>
    <2>1. ASSUME NEW n, RouteNext(s, n)
          PROVE  UNCHANGED <<outsideVars, paused, allowVars, escrowOwed>>
      BY <2>1 DEF RouteNext
    <2> QED
      BY <1>5, <2>1 DEF Route, RouteRevenue, RouteRevenueEpochs
  <1>6. CASE \E s \in Streams : Route(s)
    BY <1>0, <1>5, <1>6 DEF allowVars, outsideVars
  <1>7. CASE UNCHANGED vars
    BY <1>0, <1>7 DEF vars, allowVars, outsideVars
  <1> QED
    BY <1>2, <1>3, <1>4, <1>6, <1>7 DEF Next

(* The books keep their types: what a call takes from the balance was in   *)
(* it, and so was the funding that the owner withdraws.                    *)
LEMMA BooksTypeStep ==
    ASSUME RouterInv, [Next]_vars
    PROVE  /\ receipts' \in [Streams -> [Weeks -> Receipt]]
           /\ epochQueue' \in [Streams -> Seq(Weeks)]
           /\ epochCursor' \in [Streams -> Nat]
           /\ totalRevenue' \in [Streams -> Nat]
           /\ totalRouted' \in [Streams -> Nat]
           /\ unallocatedNative' \in [Streams -> Nat]
           /\ totalUnallocatedBondRewardsNative' \in Nat /\ totalBondRewardsDelivered' \in Nat
           /\ totalBuybackRouted' \in Nat /\ totalStockReserveRouted' \in Nat
           /\ totalOperationsRouted' \in Nat
           /\ withdrawableFunding' \in Nat /\ nativeBalance' \in Nat
  <1>0. /\ receipts \in [Streams -> [Weeks -> Receipt]]
        /\ epochQueue \in [Streams -> Seq(Weeks)] /\ epochCursor \in [Streams -> Nat]
        /\ totalRevenue \in [Streams -> Nat] /\ totalRouted \in [Streams -> Nat]
        /\ unallocatedNative \in [Streams -> Nat]
        /\ totalUnallocatedBondRewardsNative \in Nat /\ totalBondRewardsDelivered \in Nat
        /\ totalBuybackRouted \in Nat /\ totalStockReserveRouted \in Nat
        /\ totalOperationsRouted \in Nat
        /\ withdrawableFunding \in Nat /\ nativeBalance \in Nat
    BY DEF RouterInv, TypeOK, Receipt
  <1>1. /\ TypeOK /\ BalanceIsSound /\ \A s \in Streams : QueueIsSound(s)
        /\ \A s \in Streams : TotalsAreSound(s)
    BY DEF RouterInv
  <1>2. ASSUME receipts' \in [Streams -> [Weeks -> Receipt]] \/ UNCHANGED receipts,
               epochQueue' \in [Streams -> Seq(Weeks)] \/ UNCHANGED epochQueue
        PROVE  /\ receipts' \in [Streams -> [Weeks -> Receipt]]
               /\ epochQueue' \in [Streams -> Seq(Weeks)]
    BY <1>0, <1>2
  <1>3. CASE \E eligible \in SUBSET Streams : WeekPasses(eligible)
    BY <1>0, <1>3 DEF WeekPasses, queueVars, routeVars
  <1>4. CASE FundingMoves
    <2>1. SumFunctionOnSet(ToRoute, Streams) \in Nat
      BY <1>1, NothingOverRouted
    <2>2. withdrawableFunding <= nativeBalance
      BY <1>0, <1>1, <2>1 DEF BalanceIsSound
    <2>3. withdrawableFunding' \in Nat /\ nativeBalance' \in Nat
      BY <1>0, <1>4, <2>2 DEF FundingMoves
    <2> QED
      BY <1>0, <1>4, <2>3 DEF FundingMoves, queueVars, routeVars
  <1>5. ASSUME NEW new, NEW s \in Streams, receipts' = [receipts EXCEPT ![s] = new],
               DOMAIN new = Weeks, new = [e \in Weeks |-> new[e]]
        PROVE  receipts' \in [Streams -> [Weeks -> Receipt]]
    <2>1. receipts'[s] = new
      BY <1>0, <1>5
    <2>2. \A e \in Weeks : receipts'[s][e] \in Receipt
      BY ReceiptsStep
    <2>3. new \in [Weeks -> Receipt]
      BY <1>5, <2>1, <2>2
    <2> QED
      BY <1>0, <1>5, <2>3
  <1>6. ASSUME NEW s \in Streams, NEW amount \in Nat \ {0}, Receives(s, amount)
        PROVE  /\ receipts' \in [Streams -> [Weeks -> Receipt]]
               /\ epochQueue' \in [Streams -> Seq(Weeks)]
               /\ totalRevenue' \in [Streams -> Nat]
               /\ nativeBalance' \in Nat
               /\ UNCHANGED <<routeVars, withdrawableFunding>>
    <2>1. /\ totalRevenue' = [totalRevenue EXCEPT ![s] = totalRevenue[s] + amount]
          /\ epochQueue' = [epochQueue EXCEPT ![s] = QueuedWeek(s)]
          /\ nativeBalance' = nativeBalance + amount
          /\ UNCHANGED <<routeVars, withdrawableFunding>>
      BY <1>6 DEF Receives, RecordReceipt
    <2> DEFINE new == [receipts[s] EXCEPT ![week] = [receipts[s][week] EXCEPT
                                              !.revenue = receipts[s][week].revenue + amount]]
    <2>2. receipts' = [receipts EXCEPT ![s] = new]
      BY <1>6 DEF Receives, RecordReceipt
    <2>3. DOMAIN new = Weeks /\ new = [e \in Weeks |-> new[e]]
      BY <1>0
    <2> HIDE DEF new
    <2>4. receipts' \in [Streams -> [Weeks -> Receipt]]
      BY <1>5, <2>2, <2>3
    <2>5. epochQueue'[s] \in Seq(Weeks)
      BY QueueStep
    <2>6. QueuedWeek(s) \in Seq(Weeks)
      BY <1>0, <2>1, <2>5
    <2>7. epochQueue' \in [Streams -> Seq(Weeks)]
      BY <1>0, <2>1, <2>6
    <2>8. totalRevenue' \in [Streams -> Nat] /\ nativeBalance' \in Nat
      BY <1>0, <2>1
    <2> QED
      BY <2>1, <2>4, <2>7, <2>8
  <1>7. CASE \E s \in Streams, amount \in Nat \ {0} : Receives(s, amount)
    BY <1>0, <1>6, <1>7 DEF routeVars
  <1>8. ASSUME NEW s \in Streams, NEW n \in Nat, Routes(s, n)
        PROVE  /\ receipts' \in [Streams -> [Weeks -> Receipt]]
               /\ epochQueue' = epochQueue /\ epochCursor' \in [Streams -> Nat]
               /\ totalRevenue' = totalRevenue /\ totalRouted' \in [Streams -> Nat]
               /\ unallocatedNative' \in [Streams -> Nat]
               /\ totalUnallocatedBondRewardsNative' \in Nat
               /\ totalBondRewardsDelivered' \in Nat
               /\ totalBuybackRouted' \in Nat /\ totalStockReserveRouted' \in Nat
               /\ totalOperationsRouted' \in Nat
               /\ withdrawableFunding' = withdrawableFunding /\ nativeBalance' \in Nat
    <2> DEFINE W == SettledBy(s, n)
    <2>1. W \subseteq Weeks
      BY <1>1, <1>8, RoutedWeeks
    <2>2. RouteNext(s, n)
      BY <1>8 DEF Routes
    <2> DEFINE new == [e \in Weeks |->
                         IF e \in SettledBy(s, n)
                         THEN [d \in SettledBy(s, n) |-> Settled(s, d)][e]
                         ELSE receipts[s][e]]
    <2>3. receipts' = [receipts EXCEPT ![s] = new]
      BY <2>2 DEF RouteNext, SettledBy
    <2>4. DOMAIN new = Weeks /\ new = [e \in Weeks |-> new[e]]
      OBVIOUS
    <2> HIDE DEF new
    <2>5. receipts' \in [Streams -> [Weeks -> Receipt]]
      BY <1>5, <2>3, <2>4
    <2>6. /\ epochCursor' = [epochCursor EXCEPT ![s] = epochCursor[s] + n]
          /\ epochQueue' = epochQueue /\ totalRevenue' = totalRevenue
          /\ withdrawableFunding' = withdrawableFunding
          /\ \E amount : totalRouted' = [totalRouted EXCEPT ![s] = amount]
      BY <2>2 DEF RouteNext, CursorAfter
    <2>7. epochCursor' \in [Streams -> Nat]
      BY <1>0, <2>6
    <2> HIDE DEF W
    <2>8. /\ PartOf(s, W, "revenue") \in Nat /\ PartOf(s, W, "delivered") \in Nat
          /\ PartOf(s, W, "unallocated") \in Nat /\ PartOf(s, W, "buyback") \in Nat
          /\ PartOf(s, W, "stockReserve") \in Nat /\ PartOf(s, W, "operations") \in Nat
      BY <1>1, <2>1, PartsAddUp
    <2>9. /\ totalRouted'[s] = totalRouted[s] + PartOf(s, W, "revenue")
          /\ unallocatedNative' = [unallocatedNative EXCEPT
                                      ![s] = unallocatedNative[s] + PartOf(s, W, "unallocated")]
          /\ totalUnallocatedBondRewardsNative'
                 = totalUnallocatedBondRewardsNative + PartOf(s, W, "unallocated")
          /\ totalBondRewardsDelivered' = totalBondRewardsDelivered + PartOf(s, W, "delivered")
          /\ totalBuybackRouted' = totalBuybackRouted + PartOf(s, W, "buyback")
          /\ totalStockReserveRouted' = totalStockReserveRouted + PartOf(s, W, "stockReserve")
          /\ totalOperationsRouted' = totalOperationsRouted + PartOf(s, W, "operations")
          /\ nativeBalance' = nativeBalance - PartOf(s, W, "delivered")
                - PartOf(s, W, "buyback") - PartOf(s, W, "stockReserve")
                - PartOf(s, W, "operations")
          /\ nativeBalance >= PartOf(s, W, "delivered") + PartOf(s, W, "buyback")
                + PartOf(s, W, "stockReserve") + PartOf(s, W, "operations")
      BY <1>1, <1>8, RoutedTotals DEF W
    <2>10. totalRouted' \in [Streams -> Nat]
      <3>1. PICK amount : totalRouted' = [totalRouted EXCEPT ![s] = amount]
        BY <2>6
      <3>2. amount = totalRouted[s] + PartOf(s, W, "revenue")
        BY <1>0, <2>9, <3>1
      <3>3. amount \in Nat
        BY <1>0, <2>8, <3>2
      <3> QED
        BY <1>0, <3>1, <3>3
    <2>11. unallocatedNative' \in [Streams -> Nat]
      <3> DEFINE u == unallocatedNative[s] + PartOf(s, W, "unallocated")
      <3>1. u \in Nat
        BY <1>0, <2>8
      <3>2. unallocatedNative' = [unallocatedNative EXCEPT ![s] = u]
        BY <2>9, Zenon
      <3> HIDE DEF u
      <3> QED
        BY ONLY <1>0, <3>1, <3>2
    <2>12. /\ totalUnallocatedBondRewardsNative' \in Nat
           /\ totalBondRewardsDelivered' \in Nat /\ totalBuybackRouted' \in Nat
           /\ totalStockReserveRouted' \in Nat /\ totalOperationsRouted' \in Nat
           /\ nativeBalance' \in Nat
      <3> DEFINE d == PartOf(s, W, "delivered")
                 u == PartOf(s, W, "unallocated")
                 b == PartOf(s, W, "buyback")
                 k == PartOf(s, W, "stockReserve")
                 o == PartOf(s, W, "operations")
      <3>1. d \in Nat /\ u \in Nat /\ b \in Nat /\ k \in Nat /\ o \in Nat
        BY <2>8
      <3>2. /\ totalUnallocatedBondRewardsNative' = totalUnallocatedBondRewardsNative + u
            /\ totalBondRewardsDelivered' = totalBondRewardsDelivered + d
            /\ totalBuybackRouted' = totalBuybackRouted + b
            /\ totalStockReserveRouted' = totalStockReserveRouted + k
            /\ totalOperationsRouted' = totalOperationsRouted + o
        BY <2>9, Zenon
      <3>3. /\ nativeBalance' = nativeBalance - d - b - k - o
            /\ nativeBalance >= d + b + k + o
        BY <2>9, Zenon
      <3> HIDE DEF d, u, b, k, o
      <3>4. nativeBalance' \in Nat
        BY ONLY <1>0, <3>1, <3>3
      <3> QED
        BY ONLY <1>0, <3>1, <3>2, <3>4
    <2> QED
      BY <2>5, <2>6, <2>7, <2>10, <2>11, <2>12
  <1>9. CASE \E s \in Streams, n \in Nat : Routes(s, n)
    BY <1>0, <1>8, <1>9
  <1> QED
    BY <1>1, <1>3, <1>4, <1>7, <1>9, RouterStep

-----------------------------------------------------------------------------
(* The theorems.                                                           *)

(* The router starts with empty books.                                     *)
LEMMA RouterStarts ==
    ASSUME Init
    PROVE  RouterInv
  <1>1. /\ week = 0 /\ receipts = [s \in Streams |-> [e \in Weeks |-> NoReceipt]]
        /\ epochQueue = [s \in Streams |-> <<>>]
        /\ epochCursor = [s \in Streams |-> 0]
        /\ totalRevenue = [s \in Streams |-> 0] /\ totalRouted = [s \in Streams |-> 0]
        /\ totalUnallocatedBondRewardsNative = 0
        /\ withdrawableFunding = 0 /\ nativeBalance = 0
    BY DEF Init, BooksInit
  <1>2. 0 \in Weeks
    BY RevenueRouterAssumption DEF Weeks
  <1>3. TypeOK
    <2>1. NoReceipt \in Receipt
      BY DEF NoReceipt, Receipt
    <2>2. receipts \in [Streams -> [Weeks -> Receipt]]
      BY <1>1, <2>1
    <2>3. /\ epochQueue \in [Streams -> Seq(Weeks)] /\ epochCursor \in [Streams -> Nat]
          /\ totalRevenue \in [Streams -> Nat] /\ totalRouted \in [Streams -> Nat]
      BY <1>1
    <2>4. /\ weighted \in [Streams -> [Weeks -> BOOLEAN]]
          /\ unallocatedNative \in [Streams -> Nat] /\ outages \in SUBSET Outages
          /\ totalBondRewardsDelivered = 0 /\ totalBuybackRouted = 0
          /\ totalStockReserveRouted = 0 /\ totalOperationsRouted = 0 /\ escrowOwed = 0
      BY DEF Init, BooksInit
    <2>5. /\ paused \in BOOLEAN /\ ownerIsContract \in BOOLEAN
          /\ marketplaces \in SUBSET LegacyMarketplaces
          /\ keyMarketplaces \in SUBSET KeyMarketplaces
      BY DEF Init, GovernanceInit
    <2> QED
      BY <1>1, <1>2, <2>2, <2>3, <2>4, <2>5 DEF TypeOK, Receipt
  <1>4. ASSUME NEW s \in Streams
        PROVE  QueueIsSound(s)
    <2>1. epochQueue[s] = <<>> /\ epochCursor[s] = 0
          /\ \A e \in Weeks : receipts[s][e].revenue = 0 /\ ~receipts[s][e].finalized
      BY <1>1 DEF NoReceipt
    <2>2. Range(<<>>) = {}
      BY DEF Range
    <2>3. {e \in Weeks : receipts[s][e].revenue # 0} = {}
          /\ {e \in Weeks : receipts[s][e].finalized} = {}
      BY <2>1
    <2> QED
      BY <2>1, <2>2, <2>3 DEF QueueIsSound, Faithful
  <1>5. ASSUME NEW s \in Streams
        PROVE  TotalsAreSound(s)
    <2>1. /\ \A e \in Weeks : RevenueOf(s)[e] = 0 /\ RoutedOf(s)[e] = 0
      BY <1>1 DEF RevenueOf, RoutedOf, NoReceipt
    <2>2. /\ SumFunctionOnSet(RevenueOf(s), Weeks) = 0
          /\ SumFunctionOnSet(RoutedOf(s), Weeks) = 0
      BY <2>1, FiniteStreams, SumZero
    <2> QED
      BY <1>1, <2>2 DEF TotalsAreSound
  <1>6. ASSUME NEW s \in Streams, NEW e \in Weeks
        PROVE  ReceiptIsSound(s, e)
    BY <1>1 DEF ReceiptIsSound, NoReceipt
  <1>7. BalanceIsSound
    <2>1. \A s \in Streams : ToRoute[s] = 0
      BY <1>1 DEF ToRoute
    <2>2. SumFunctionOnSet(ToRoute, Streams) = 0
      BY <2>1, FiniteStreams, SumZero
    <2> QED
      BY <1>1, <2>2 DEF BalanceIsSound
  <1> QED
    BY <1>3, <1>4, <1>5, <1>6, <1>7 DEF RouterInv

(* Every step keeps the invariant.                                         *)
LEMMA RouterInvStep ==
    ASSUME RouterInv, [Next]_vars
    PROVE  RouterInv'
  <1>1. TypeOK
    BY DEF RouterInv
  <1>2. /\ week' \in Weeks /\ paused' \in BOOLEAN /\ ownerIsContract' \in BOOLEAN
        /\ marketplaces' \in SUBSET LegacyMarketplaces
        /\ keyMarketplaces' \in SUBSET KeyMarketplaces
        /\ outages' \in SUBSET Outages
        /\ weighted' \in [Streams -> [Weeks -> BOOLEAN]]
        /\ escrowOwed' \in Nat
    BY <1>1, SwitchesStep
  <1>3. /\ receipts' \in [Streams -> [Weeks -> Receipt]]
        /\ epochQueue' \in [Streams -> Seq(Weeks)]
        /\ epochCursor' \in [Streams -> Nat]
        /\ totalRevenue' \in [Streams -> Nat]
        /\ totalRouted' \in [Streams -> Nat]
        /\ unallocatedNative' \in [Streams -> Nat]
        /\ totalUnallocatedBondRewardsNative' \in Nat /\ totalBondRewardsDelivered' \in Nat
        /\ totalBuybackRouted' \in Nat /\ totalStockReserveRouted' \in Nat
        /\ totalOperationsRouted' \in Nat
        /\ withdrawableFunding' \in Nat /\ nativeBalance' \in Nat
    BY BooksTypeStep
  <1>4. TypeOK'
    BY <1>2, <1>3 DEF TypeOK, Receipt
  <1>5. \A s \in Streams : QueueIsSound(s)' /\ TotalsAreSound(s)'
    BY QueueStep, TotalsStep
  <1>6. \A s \in Streams, e \in Weeks : ReceiptIsSound(s, e)'
    BY ReceiptsStep
  <1>7. BalanceIsSound'
    BY BalanceStep
  <1> QED
    BY <1>4, <1>5, <1>6, <1>7 DEF RouterInv

(* The books of the router are sound: its queues, receipts, totals and     *)
(* balance agree in every reachable state.                                 *)
THEOREM RouterCorrect == Spec => []RouterInv
  <1>1. Init => RouterInv
    BY RouterStarts
  <1>2. RouterInv /\ [Next]_vars => RouterInv'
    BY RouterInvStep
  <1> QED
    BY <1>1, <1>2, PTL DEF Spec

(* TypeOK holds of every reachable state.                                  *)
THEOREM RouterTypes == Spec => []TypeOK
  <1>1. RouterInv => TypeOK
    BY DEF RouterInv
  <1> QED
    BY <1>1, RouterCorrect, PTL

(* The queues and cursors of _routeGlobal and _routeKey skip no week that  *)
(* received revenue, and route none early or twice.                        *)
THEOREM QueueFaithful == Spec => []QueueIsFaithful
  <1>1. ASSUME RouterInv PROVE QueueIsFaithful
    <2>1. ASSUME NEW s \in Streams
          PROVE  Faithful(epochQueue[s], epochCursor[s], receipts[s])
                 /\ \A e \in Weeks : receipts[s][e].finalized => e < week
      BY <1>1 DEF RouterInv, QueueIsSound, ReceiptIsSound
    <2> QED
      BY <2>1 DEF QueueIsFaithful, Faithful
  <1> QED
    BY <1>1, RouterCorrect, PTL

(* What the bond is notified of for a week is from that week's revenue, at *)
(* most a half of it, and nothing when the week had no weight.             *)
THEOREM SharesStay == Spec => []SharesStayInTheirWeek
  <1>1. RouterInv => SharesStayInTheirWeek
    BY DEF RouterInv, ReceiptIsSound, SharesStayInTheirWeek
  <1> QED
    BY <1>1, RouterCorrect, PTL

(* The router can always pay what it has not routed yet and the shares no  *)
(* bonder was there for; what is left is the funding that withdrawFunding  *)
(* gives back, and a routed week was paid out to the last wei.             *)
THEOREM RevenueAccounted == Spec => []RevenueIsAccountedFor
  <1>1. ASSUME RouterInv PROVE RevenueIsAccountedFor
    <2>1. /\ SumFunctionOnSet(ToRoute, Streams) \in Nat
      BY <1>1, NothingOverRouted DEF RouterInv
    <2>2. /\ withdrawableFunding \in Nat /\ nativeBalance \in Nat
          /\ totalUnallocatedBondRewardsNative \in Nat
      BY <1>1 DEF RouterInv, TypeOK
    <2> DEFINE kept == SumFunctionOnSet(ToRoute, Streams) + totalUnallocatedBondRewardsNative
    <2>3. kept <= nativeBalance /\ nativeBalance = kept + withdrawableFunding
      BY <1>1, <2>1, <2>2 DEF RouterInv, BalanceIsSound
    <2>4. BalanceIsAccountedFor
      BY <2>3 DEF BalanceIsAccountedFor, ToRoute
    <2>5. WeeksAreRoutedInFull
      BY <1>1 DEF RouterInv, ReceiptIsSound, WeeksAreRoutedInFull
    <2> QED
      BY <2>4, <2>5 DEF RevenueIsAccountedFor
  <1> QED
    BY <1>1, RouterCorrect, PTL

(* Nothing rewrites the receipt of a week that was routed: payments reach  *)
(* the running week only, and a call the weeks after the cursor.           *)
THEOREM FinalizedHistory == Spec => FinalizedWeeksAreHistory
  <1>1. ASSUME RouterInv, [Next]_vars, NEW o \in Streams, NEW e \in Weeks,
               receipts[o][e].finalized
        PROVE  receipts'[o][e] = receipts[o][e]
    <2>1. TypeOK /\ e < week /\ week \in Nat /\ \A s \in Streams : QueueIsSound(s)
      <3>1. week \in Weeks
        BY <1>1 DEF RouterInv, TypeOK
      <3>2. week \in Nat
        BY <3>1, FiniteStreams
      <3> QED
        BY <1>1, <3>2 DEF RouterInv, ReceiptIsSound
    <2>2. ASSUME NEW eligible \in SUBSET Streams, WeekPasses(eligible)
          PROVE  receipts' = receipts
      BY <2>2 DEF WeekPasses, queueVars
    <2>3. CASE FundingMoves
      BY <2>3 DEF FundingMoves, queueVars
    <2>4. ASSUME NEW s \in Streams, NEW amount \in Nat \ {0}, Receives(s, amount)
          PROVE  receipts'[o][e] = receipts[o][e]
      <3>1. e \in Weeks \ {week}
        BY <2>1
      <3>2. \A d \in Weeks \ {week} : receipts'[s][d] = receipts[s][d]
        BY <2>1, <2>4, ReceivedReceipts
      <3>3. \A p \in Streams \ {s} : receipts'[p] = receipts[p]
        BY <2>1, <2>4, ReceivedReceipts
      <3>4. CASE o = s
        BY <3>1, <3>2, <3>4
      <3>5. CASE o # s
        BY <3>3, <3>5
      <3> QED
        BY <3>4, <3>5
    <2>5. ASSUME NEW s \in Streams, NEW n \in Nat, Routes(s, n)
          PROVE  receipts'[o][e] = receipts[o][e]
      <3>1. /\ \A d \in Weeks \ SettledBy(s, n) : receipts'[s][d] = receipts[s][d]
            /\ \A p \in Streams \ {s} : receipts'[p] = receipts[p]
        BY <2>1, <2>5, RoutedReceipts
      <3>2. \A d \in SettledBy(s, n) : ~receipts[s][d].finalized
        BY <2>1, <2>5, RoutedWeeks
      <3>3. CASE o = s
        BY <1>1, <3>1, <3>2, <3>3
      <3>4. CASE o # s
        BY <3>1, <3>4
      <3> QED
        BY <3>3, <3>4
    <2> QED
      BY <1>1, <2>1, <2>2, <2>3, <2>4, <2>5, RouterStep
  <1>2. RouterInv /\ [Next]_vars
            => [\A s \in Streams, e \in Weeks :
                   receipts[s][e].finalized => receipts'[s][e] = receipts[s][e]]_vars
    BY <1>1
  <1> QED
    BY <1>2, RouterCorrect, PTL DEF Spec, FinalizedWeeksAreHistory
=============================================================================
