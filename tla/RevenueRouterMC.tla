--------------------------- MODULE RevenueRouterMC ---------------------------
(* Small instances of RevenueRouter for TLC: two in one state graph, with no *)
(* step between them.  In the governed one everything happens around one     *)
(* payment to a stream; the other goes on from go-live, governance is not    *)
(* heard of again, and payments pile up.                                     *)
EXTENDS RevenueRouter

CONSTANT MaxGoverned    \* bound: wei received by one stream under governance

VARIABLE governed

LiveInit ==
    /\ BooksInit
    /\ outages = {}
    /\ paused = FALSE
    /\ ownerIsContract = TRUE
    /\ marketplaces = LegacyMarketplaces
    /\ keyMarketplaces = KeyMarketplaces

LiveNext ==
    \/ \E eligible \in SUBSET Streams : AdvanceWeek(eligible)
    \/ \E amount \in Amounts : PonsFeesAccrue(amount)
    \/ Receive
    \/ \E s \in Streams : Route(s)

GovernedNext ==
    /\ Next
    /\ escrowOwed' + totalRevenue'[GlobalStream] <= MaxGoverned
    /\ \A k \in Keys : totalRevenue'[k] <= MaxGoverned

MCInit == \/ governed = TRUE /\ Init
          \/ governed = FALSE /\ LiveInit

MCNext ==
    /\ UNCHANGED governed
    /\ \/ governed /\ GovernedNext
       \/ ~governed /\ LiveNext

MCSpec == MCInit /\ [][MCNext]_<<vars, governed>> /\ Fairness
=============================================================================
