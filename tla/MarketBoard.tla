------------------------------ MODULE MarketBoard ------------------------------
(* The market page's board: which Muppets it lists, which two are compared,  *)
(* whose drawer is open, and the Key orders sent from the drawer.  An order  *)
(* names a listing or an offer by its number in one of two markets, with the *)
(* price and the fee of the snapshot on display, and reaches the market when *)
(* others have traded and the owner may have changed the fee.                *)
EXTENDS Naturals, Sequences, FiniteSets

CONSTANTS
    Agents,         \* Muppets of the factory, each with its own Key
    LegacyAgents,   \* those traded in the legacy market
    Prices,         \* unit prices
    MarketFees,     \* fees, in tenths of the price
    MaxOrders,      \* bound on the orders of a market
    MaxTrades,      \* bound on what others do
    MaxMoves        \* bound on filters, openings, comparisons, lost snapshots

VARIABLES
    listings, offers,     \* market |-> its listings, its offers
    fees,           \* market |-> its fee
    trades,
    board,          \* the page: snapshot, filter, comparison, drawer
    order,          \* the Key order in the wallet
    receipts,       \* the orders that settled, with what they moved
    moves

markets == <<listings, offers, fees, trades>>
vars == <<markets, board, order, receipts, moves>>
------------------------------------------------------------------------------
Markets == {"legacy", "current"}
NoOrder == [pc |-> "none"]
NoneOpen == 0
NoBest == [id |-> 0, price |-> 0]

Fee(price, fee) == (price * fee) \div 10

agentMarket(m) == IF m \in LegacyAgents THEN "legacy" ELSE "current"

Move == moves < MaxMoves /\ moves' = moves + 1
------------------------------------------------------------------------------
(* The markets: single Keys are offered, taken and withdrawn by number.      *)

Traded == trades < MaxTrades /\ trades' = trades + 1
Page == <<board, order, receipts, moves>>

\* A market knows the Keys its own factory launched, and no others.
Knows(market, m) == market = agentMarket(m)

createListing(market, m, price) ==
    /\ Traded /\ Knows(market, m)
    /\ Len(listings[market]) < MaxOrders
    /\ listings' = [listings EXCEPT ![market] = Append(@, [key |-> m, price |-> price, active |-> TRUE])]
    /\ UNCHANGED <<offers, fees, Page>>

createOffer(market, m, price) ==
    /\ Traded /\ Knows(market, m)
    /\ Len(offers[market]) < MaxOrders
    /\ offers' = [offers EXCEPT ![market] = Append(@, [key |-> m, price |-> price, active |-> TRUE])]
    /\ UNCHANGED <<listings, fees, Page>>

\* Bought, sold or cancelled by others.
Taken(market) ==
    /\ Traded
    /\ \/ \E id \in DOMAIN listings[market] :
            /\ listings[market][id].active
            /\ listings' = [listings EXCEPT ![market][id].active = FALSE] /\ UNCHANGED offers
       \/ \E id \in DOMAIN offers[market] :
            /\ offers[market][id].active
            /\ offers' = [offers EXCEPT ![market][id].active = FALSE] /\ UNCHANGED listings
    /\ UNCHANGED <<fees, Page>>

setFee(market, fee) ==
    /\ Traded /\ fee # fees[market]
    /\ fees' = [fees EXCEPT ![market] = fee]
    /\ UNCHANGED <<listings, offers, Page>>
------------------------------------------------------------------------------
(* The snapshot.                                                             *)

\* Mutant: orders of the market, whichever Key they are for.
OfMarket(rows, m, market) == {row \in rows : row.active /\ row.market = market}

\* The active orders of the Key in its Muppet's own market.
Own(rows, m, market) == {row \in rows : row.active /\ row.key = m /\ row.market = market}

Rows(orders) ==
    UNION {{[id |-> id, market |-> market, key |-> orders[market][id].key,
             price |-> orders[market][id].price, active |-> orders[market][id].active] :
            id \in DOMAIN orders[market]} : market \in Markets}

\* The earliest of equally good orders.
First(rows) ==
    IF rows = {} THEN NoBest
    ELSE LET row == CHOOSE r \in rows : \A s \in rows : r.id <= s.id
         IN [id |-> row.id, price |-> row.price]
Floor(rows) == First({r \in rows : \A s \in rows : r.price <= s.price})
TopBid(rows) == First({r \in rows : \A s \in rows : r.price >= s.price})

\* The page shows one fee, that of the current market, for both.
Snapshot ==
    [fee |-> fees["current"],
     floor |-> [m \in Agents |-> Floor(Own(Rows(listings), m, agentMarket(m)))],
     topBid |-> [m \in Agents |-> TopBid(Own(Rows(offers), m, agentMarket(m)))]]
NoSnapshot == [fee |-> 0]

agents(b) == IF b.snapshot = NoSnapshot THEN {} ELSE Agents
visible(b) == agents(b) \cap b.filter
selected(b) == IF b.picked \in agents(b) THEN b.picked ELSE NoneOpen

\* The comparison's effect: it keeps what is visible.
Pruned(b) == [b EXCEPT !.compared = @ \cap visible(b)]

\* A drawer that comes or goes is a new one, with nothing under way.
Shows(b) ==
    board' = [Pruned(b) EXCEPT !.busy = b.busy /\ selected(b) # NoneOpen /\ selected(board) # NoneOpen]

refreshAll ==
    /\ board.snapshot # Snapshot
    /\ Shows([board EXCEPT !.snapshot = Snapshot])
    /\ UNCHANGED <<markets, order, receipts, moves>>

SnapshotLost ==
    /\ board.snapshot # NoSnapshot
    /\ Move
    /\ Shows([board EXCEPT !.snapshot = NoSnapshot])
    /\ UNCHANGED <<markets, order, receipts>>

\* By task or by words, all or one; the drawer stays, whatever is hidden.
setFilter(f) ==
    /\ f # board.filter
    /\ Move
    /\ Shows([board EXCEPT !.filter = f])
    /\ UNCHANGED <<markets, order, receipts>>
------------------------------------------------------------------------------
(* The comparison and the drawer.                                            *)

compareLimitReached(m) == Cardinality(board.compared) >= 2 /\ m \notin board.compared

\* The table of the compared and the comparable, the order book and the cards:
\* a row opens its Muppet, and only the table's compares it.
PerformanceRow(m) ==
    [listed |-> m \in visible(board), opens |-> m, comparable |-> ~compareLimitReached(m)]
ChainMarketBoard == visible(board)

toggleComparison(m) ==
    /\ PerformanceRow(m).listed /\ PerformanceRow(m).comparable
    /\ Move
    /\ board' = [board EXCEPT !.compared =
          IF m \in @ THEN @ \ {m} ELSE IF Cardinality(@) < 2 THEN @ \cup {m} ELSE @]
    /\ UNCHANGED <<markets, order, receipts>>

onClearComparison ==
    /\ board.compared # {}
    /\ Move
    /\ board' = [board EXCEPT !.compared = {}]
    /\ UNCHANGED <<markets, order, receipts>>

\* From a row, the order book or a card, also by keyboard behind the drawer,
\* which goes on with another Muppet.
onOpenAgent(m) ==
    /\ m \in ChainMarketBoard /\ m # board.picked
    /\ Move
    /\ Shows([board EXCEPT !.picked = PerformanceRow(m).opens])
    /\ UNCHANGED <<markets, order, receipts>>

onClose ==
    /\ selected(board) # NoneOpen
    /\ Shows([board EXCEPT !.picked = NoneOpen])
    /\ UNCHANGED <<markets, order, receipts, moves>>
------------------------------------------------------------------------------
(* Key orders of the drawer, one in the wallet at a time.                    *)

Presses(kind, best) ==
    LET m == selected(board) IN
    /\ m # NoneOpen /\ ~board.busy /\ order = NoOrder
    /\ best # NoBest
    /\ board' = [board EXCEPT !.busy = TRUE]
    /\ order' = [pc |-> "signed", kind |-> kind, agent |-> m, market |-> agentMarket(m),
                 id |-> best.id, shown |-> best.price,
                 value |-> best.price + Fee(best.price, board.snapshot.fee)]
    /\ UNCHANGED <<markets, receipts, moves>>

buyFloorKeys ==
    selected(board) # NoneOpen /\ Presses("buy", board.snapshot.floor[selected(board)])

sellIntoTopBid ==
    selected(board) # NoneOpen /\ Presses("sell", board.snapshot.topBid[selected(board)])

ExactValue(o, ask) == o.value = ask.price + Fee(ask.price, fees[o.market])

Settles(key, price) ==
    /\ receipts' = receipts \cup {[order |-> order, key |-> key, price |-> price]}
    /\ order' = NoOrder
    /\ board' = [board EXCEPT !.busy = FALSE]

buy ==
    LET ask == listings[order.market][order.id] IN
    /\ order # NoOrder /\ order.kind = "buy"
    /\ ask.active /\ ExactValue(order, ask)
    /\ listings' = [listings EXCEPT ![order.market][order.id].active = FALSE]
    /\ Settles(ask.key, ask.price)
    /\ UNCHANGED <<offers, fees, trades, moves>>

acceptOffer ==
    LET bid == offers[order.market][order.id] IN
    /\ order # NoOrder /\ order.kind = "sell"
    /\ bid.active
    /\ offers' = [offers EXCEPT ![order.market][order.id].active = FALSE]
    /\ Settles(bid.key, bid.price)
    /\ UNCHANGED <<listings, fees, trades, moves>>

\* Refused in the wallet, or by a market that has changed since.
OrderFails ==
    /\ order # NoOrder
    /\ order' = NoOrder
    /\ board' = [board EXCEPT !.busy = FALSE]
    /\ UNCHANGED <<markets, receipts, moves>>
------------------------------------------------------------------------------
Init ==
    /\ listings = [market \in Markets |-> << >>]
    /\ offers = [market \in Markets |-> << >>]
    /\ \E fee \in MarketFees : fees = [market \in Markets |-> fee]
    /\ trades = 0
    /\ board = [snapshot |-> NoSnapshot, filter |-> Agents, compared |-> {},
                picked |-> NoneOpen, busy |-> FALSE]
    /\ order = NoOrder
    /\ receipts = {}
    /\ moves = 0

Next ==
    \/ \E market \in Markets :
          \/ \E m \in Agents, price \in Prices :
                createListing(market, m, price) \/ createOffer(market, m, price)
          \/ Taken(market)
          \/ \E fee \in MarketFees : setFee(market, fee)
    \/ refreshAll \/ SnapshotLost
    \/ \E f \in {Agents} \cup {{m} : m \in Agents} : setFilter(f)
    \/ \E m \in Agents : toggleComparison(m) \/ onOpenAgent(m)
    \/ onClearComparison \/ onClose
    \/ buyFloorKeys \/ sellIntoTopBid
    \/ buy \/ acceptOffer \/ OrderFails

Spec == Init /\ [][Next]_vars
------------------------------------------------------------------------------
\* A Key order settles for the Key of the Muppet whose drawer sent it and at the
\* unit price that drawer showed, whatever was traded, listed, filtered, closed
\* or charged in the meantime and whichever market the number counts in; and
\* the comparison never holds what the board does not list.
BoardIsTrue ==
    /\ \A r \in receipts : r.key = r.order.agent /\ r.price = r.order.shown
    /\ Cardinality(board.compared) <= 2 /\ board.compared \subseteq visible(board)
=============================================================================
