-------------------------- MODULE KeyMarketplaceMC ---------------------------
(* A small instance for TLC of the market of an agent's keys, and one of the *)
(* backend's index.  They share nothing here: a behaviour is of the market   *)
(* or of the index.                                                          *)
EXTENDS KeyMarketplace, ActivityIndexer

VARIABLE part

marketVars == vars

MCInit ==
    /\ part \in {"market", "index"}
    /\ Init /\ IndexInit
    /\ part = "index" => routerOpen /\ \A fee \in Fees : feeBps <= fee

MCNext ==
    /\ UNCHANGED part
    /\ \/ part = "market" /\ Next /\ UNCHANGED indexVars
       \/ part = "index" /\ IndexNext /\ UNCHANGED marketVars

(* The fairness of both: a buyer who cancels, blocks that keep coming, and   *)
(* the scheduled refresh.                                                    *)
Cancels(id) ==
    part = "market" /\ id \in DOMAIN offers /\ CancelOffer(id) /\ UNCHANGED <<part, indexVars>>
Indexes(A) == part = "index" /\ A /\ UNCHANGED <<part, marketVars>>

MCSpec ==
    /\ MCInit
    /\ [][MCNext]_<<part, marketVars, indexVars>>
    /\ \A id \in 1 .. MaxOffers : WF_marketVars(Cancels(id))
    /\ WF_indexVars(Indexes(MineAny))
    /\ WF_indexVars(Indexes(RefreshStep))
=============================================================================
