----------------------------- MODULE WebClientMC -----------------------------
(* Small instances of the web client's parts for TLC, side by side: each     *)
(* behaviour is one of `part`, the others stay as they begin.  The parts     *)
(* meet in the contracts and in the backend, not in each other's state.      *)
EXTENDS StockDrops, Integers

CONSTANTS
    Positions, BuyTasks, Amounts, Earned, BoundKeys, QuoteLife, MaxClock, MaxPurchases, MaxMishaps,
    Accounts, Kinds, Loads, Requests, MaxHead, MaxSlips,
    Subjects, Asks, MaxAsked, MaxFacts,
    Muppets, Tracked, Windows, Monitors, MaxFollows, MaxAlerts, MaxTime,
    Signers, NoSigner, Handles, NoHandle, Nonces, Reads, MaxTroubles,
    Deposits, Purse, Quotes, MaxTargets, MaxFundings, MaxHiccups,
    Agents, LegacyAgents, Prices, MarketFees, MaxOrders, MaxTrades, MaxMoves

VARIABLES
    part,
    clock, rewards, boundKeys, purchases, guard, kept, shownRewards, shownKeys, form, busy,
    tasks, crossed, mishaps,
    head, world, proxy, snapshots, shared, tab, loads, doing, slips,
    viewed, subject, facts, asks, asked, showing, loading, failed,
    now, stored, copies, unheard, summaries, pulse, loaded, follows, marked,
    profiles, claims, requests, account, restoring, handle, reads, claimed, overtaken, troubles,
    purse, allowance, deposited, card, quotes, funding, funded, hiccups,
    listings, offers, fees, trades, board, order, receipts, moves

\* Every allocation is one token, but the second drop leaves a holder out.
OneTokenEach == [c \in (1..MaxDrops) \X Holders |-> IF c = <<2, 2>> THEN 0 ELSE 1]

Reinvest == INSTANCE Reinvestment
Data == INSTANCE LiveData
Views == INSTANCE LiveViews
Watch == INSTANCE Watchlist
Profile == INSTANCE Profiles
Funding == INSTANCE LaunchFunding
Board == INSTANCE MarketBoard

ASSUME InstanceIsProvable ==
    /\ DropsAssumption
    /\ Profile!ProfilesAssumption
    /\ Funding!FundingAssumption
    /\ Reinvest!ReinvestmentAssumption
    /\ Watch!WatchlistAssumption
    /\ Views!ViewsAssumption
    /\ Data!DataAssumption

\* vars are those of StockDrops, which the module extends.
purchaseVars == <<clock, rewards, boundKeys, purchases, guard, kept, shownRewards, shownKeys,
                  form, busy, tasks, crossed, mishaps>>
dataVars == <<head, world, proxy, snapshots, shared, tab, loads, doing, slips>>
viewVars == <<viewed, subject, facts, asks, asked, showing, loading, failed>>
watchVars == <<now, stored, copies, unheard, summaries, pulse, loaded, follows, marked>>
profileVars == <<profiles, claims, requests, account, restoring, handle, reads, claimed,
                 overtaken, troubles>>
fundingVars == <<purse, allowance, deposited, card, quotes, funding, funded, hiccups>>
boardVars == <<listings, offers, fees, trades, board, order, receipts, moves>>
------------------------------------------------------------------------------
WebInit ==
    /\ part \in {"drops", "reinvest", "data", "views", "watch", "profiles", "funding", "board"}
    /\ Init /\ Reinvest!Init /\ Data!Init /\ Views!Init /\ Watch!Init /\ Profile!Init
    /\ Funding!Init /\ Board!Init
    /\ part # "data" => tab.view = "earn"
    /\ part # "views" => viewed = Views!Proof
    /\ part # "funding" => \A amount \in Deposits : card.planned <= amount
    /\ part # "board" => \A market \in DOMAIN fees, fee \in MarketFees : fees[market] <= fee

WebNext ==
    /\ UNCHANGED part
    /\ \/ /\ part = "drops" /\ Next
          /\ UNCHANGED <<purchaseVars, dataVars, viewVars, watchVars, profileVars,
                        fundingVars, boardVars>>
       \/ /\ part = "reinvest" /\ Reinvest!Next
          /\ UNCHANGED <<vars, dataVars, viewVars, watchVars, profileVars,
                        fundingVars, boardVars>>
       \/ /\ part = "data" /\ Data!Next
          /\ UNCHANGED <<vars, purchaseVars, viewVars, watchVars, profileVars,
                        fundingVars, boardVars>>
       \/ /\ part = "views" /\ Views!Next
          /\ UNCHANGED <<vars, purchaseVars, dataVars, watchVars, profileVars,
                        fundingVars, boardVars>>
       \/ /\ part = "watch" /\ Watch!Next
          /\ UNCHANGED <<vars, purchaseVars, dataVars, viewVars, profileVars,
                        fundingVars, boardVars>>
       \/ /\ part = "profiles" /\ Profile!Next
          /\ UNCHANGED <<vars, purchaseVars, dataVars, viewVars, watchVars,
                        fundingVars, boardVars>>
       \/ /\ part = "funding" /\ Funding!Next
          /\ UNCHANGED <<vars, purchaseVars, dataVars, viewVars, watchVars,
                        profileVars, boardVars>>
       \/ /\ part = "board" /\ Board!Next
          /\ UNCHANGED <<vars, purchaseVars, dataVars, viewVars, watchVars,
                        profileVars, fundingVars>>

webVars == <<part, vars, purchaseVars, dataVars, viewVars, watchVars, profileVars,
             fundingVars, boardVars>>

WebSpec == WebInit /\ [][WebNext]_webVars
------------------------------------------------------------------------------
\* An invariant of one part says nothing of the others' behaviours.
PurchasesAreGuarded == part = "reinvest" => Reinvest!PurchasesAreGuarded
LoadedViewsAreCurrent == part = "data" => Data!LoadedViewsAreCurrent
AnswersComeInOrder == Views!AnswersComeInOrder
FollowsAreKept == part = "watch" => Watch!FollowsAreKept
HandlesAreTrue == part = "profiles" => Profile!HandlesAreTrue
DepositsAreAsPreviewed == part = "funding" => Funding!DepositsAreAsPreviewed
BoardIsTrue == part = "board" => Board!BoardIsTrue
=============================================================================
