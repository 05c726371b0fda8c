---------------------------- MODULE BuybackVaultMC ----------------------------
(* Small instances for TLC of the two places where routed revenue is spent:  *)
(* the buyback vault, and the stock reserve with its keeper.  They share     *)
(* nothing; a behaviour is one of the vault, one of the reserve's round with *)
(* its owner as the buyer, or one of the keeper's runs of a single route.    *)
EXTENDS BuybackVault

CONSTANTS
    Tokens, FirstToken, MAX_ROUTES, MAX_COOLDOWN, Fees, MaxReceived, MaxCycles,
    MaxSettings, MaxOutages, MaxClock, Runs, RunInterval, MaxTxs, MaxMisses

VARIABLES
    part,
    clock, routes, limits, reservePaused, keeperAllowed, balance, received, lastCycleAt,
    nextRouteIndex, cycles, outages, settings, faults,
    runs, lastRun, txs, rows, lost, misses

\* Single wei at any time, or two with a tick between.
CycleLimits == {[minimum |-> 1, maximum |-> 1, cooldown |-> 0],
                [minimum |-> 2, maximum |-> 2, cooldown |-> 1]}

Reserve == INSTANCE ReserveKeeper WITH paused <- reservePaused

ASSUME ReserveIsProvable ==
    /\ Reserve!ReserveAssumption
    /\ FirstToken \in Tokens

reserveVars == <<clock, routes, limits, reservePaused, keeperAllowed, balance, received,
                 lastCycleAt, nextRouteIndex, cycles, outages, settings, faults>>
keeperVars == <<runs, lastRun, txs, rows, lost, misses>>
------------------------------------------------------------------------------
(* The reserve as its owner leaves it to the keeper, but for one call.       *)
LiveInit ==
    /\ Reserve!BooksInit
    /\ routes = <<[token |-> FirstToken, enabled |-> TRUE]>>
    /\ keeperAllowed = TRUE
    /\ settings = MaxSettings - 1
    /\ Reserve!RunsInit

SpendingInit ==
    /\ Init
    /\ \/ part \in {"vault", "round"} /\ Reserve!KeeperInit /\ limits.maximum = 1
       \/ part = "runs" /\ LiveInit

(* The round: routes come, go and fail while the owner buys.                 *)
RoundNext ==
    /\ UNCHANGED <<keeperVars, clock, limits, keeperAllowed>>
    /\ Reserve!OwnerCalls \/ Reserve!Around

(* The runs: whatever the owner does, with one route.                        *)
RunsNext ==
    /\ Reserve!KeeperNext
    /\ \A i \in DOMAIN routes' : routes'[i].token = FirstToken
    /\ \A token \in Tokens \ {FirstToken} : outages'[token] = "none"
    /\ received' < MaxReceived

SpendingNext ==
    /\ UNCHANGED part
    /\ \/ part = "vault" /\ Next /\ UNCHANGED <<reserveVars, keeperVars>>
       \/ part = "round" /\ RoundNext /\ UNCHANGED vars
       \/ part = "runs" /\ RunsNext /\ UNCHANGED vars

spendingVars == <<part, vars, reserveVars, keeperVars>>

SpendingSpec ==
    /\ SpendingInit
    /\ [][SpendingNext]_spendingVars
    /\ WF_vars(part = "vault" /\ Tick /\ UNCHANGED <<part, reserveVars, keeperVars>>)
    /\ \A start \in 0 .. MaxLots - 1 :
          WF_vars(/\ part = "vault" /\ ReleaseMuppets(start, 1)
                  /\ UNCHANGED <<part, reserveVars, keeperVars>>)
------------------------------------------------------------------------------
RoutesTakeTurns == Reserve!RoutesTakeTurns
RunsAreRecorded == Reserve!RunsAreRecorded
=============================================================================
