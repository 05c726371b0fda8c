----------------------------- MODULE FeeRwaReserve -----------------------------
(* FeeRwaReserve.sol: what arrives in ETH buys stock tokens, one token a       *)
(* cycle, in turn over the routes the owner has set.  A route whose token is   *)
(* paused by its oracle, whose price is stale or whose pool is empty is passed *)
(* over.  The venues of a cycle deliver at least the minimum or revert it.     *)
EXTENDS Naturals, Sequences

CONSTANTS
    Tokens,            \* stock tokens
    MAX_ROUTES, MAX_COOLDOWN,
    CycleLimits,       \* limits the owner asks for: minimum, maximum, cooldown
    Fees,              \* wei of one payment, and of one cycle the owner asks for
    MaxReceived,       \* bound: wei the reserve ever receives
    MaxCycles,         \* bound: purchases
    MaxSettings,       \* bound: calls of the owner
    MaxOutages,        \* bound: feeds, oracles and pools that fail or recover
    MaxClock           \* bound: the clock

VARIABLES
    clock,
    routes, limits, paused, keeperAllowed,
    balance, received,
    lastCycleAt, nextRouteIndex,
    cycles,            \* the StockTokenPurchased events, with the usable routes
    outages,           \* token |-> why its route is unusable, or "none"
    settings, faults

owned == <<routes, limits, paused, keeperAllowed, settings>>
turns == <<lastCycleAt, nextRouteIndex, cycles>>
markets == <<outages, faults>>
reserve == <<clock, owned, balance, received, turns, markets>>
------------------------------------------------------------------------------
\* What BuybackProofs needs of the constants.
ReserveAssumption ==
    /\ Fees \subseteq Nat
    /\ CycleLimits \subseteq [minimum : Nat, maximum : Nat, cooldown : Nat]

_setLimits(next) ==
    /\ next.minimum # 0 /\ next.maximum >= next.minimum
    /\ next.cooldown <= MAX_COOLDOWN

BooksInit ==
    /\ clock = 1
    /\ limits \in CycleLimits /\ _setLimits(limits)
    /\ paused = FALSE
    /\ balance = 0 /\ received = 0
    /\ lastCycleAt = 0
    /\ nextRouteIndex = 0
    /\ cycles = <<>>
    /\ outages = [token \in Tokens |-> "none"]
    /\ faults = 0

Init ==
    /\ BooksInit
    /\ routes = <<>>
    /\ keeperAllowed = FALSE
    /\ settings = 0
------------------------------------------------------------------------------
(* The owner.                                                                *)

Set == settings < MaxSettings /\ settings' = settings + 1
Untouched == UNCHANGED <<clock, balance, received, turns, markets>>

\* A known token keeps its place in the round; a new one comes last.
_setRoute(token, enabled) ==
    LET known == {i \in DOMAIN routes : routes[i].token = token}
        route == [token |-> token, enabled |-> enabled]
    IN
    /\ outages[token] # "pool"
    /\ IF known # {}
       THEN routes' = [i \in DOMAIN routes |-> IF i \in known THEN route ELSE routes[i]]
       ELSE Len(routes) < MAX_ROUTES /\ routes' = Append(routes, route)

\* An array of routes is as many of these in one transaction.
setRoutes(token, enabled) ==
    /\ Set /\ _setRoute(token, enabled)
    /\ Untouched /\ UNCHANGED <<limits, paused, keeperAllowed>>

setLimits(next) ==
    /\ Set /\ _setLimits(next) /\ limits' = next
    /\ Untouched /\ UNCHANGED <<routes, paused, keeperAllowed>>

setPaused(paused_) ==
    /\ Set /\ paused' = paused_
    /\ Untouched /\ UNCHANGED <<routes, limits, keeperAllowed>>

setKeeper(allowed) ==
    /\ Set /\ keeperAllowed' = allowed
    /\ Untouched /\ UNCHANGED <<routes, limits, paused>>

rescueNative(amount) ==
    /\ Set /\ paused /\ amount <= balance
    /\ balance' = balance - amount
    /\ UNCHANGED <<routes, limits, paused, keeperAllowed, clock, received, turns, markets>>
------------------------------------------------------------------------------
(* Payments, purchases, and the world around.                                *)

receive(amount) ==
    /\ received + amount <= MaxReceived
    /\ received' = received + amount
    /\ balance' = balance + amount
    /\ UNCHANGED <<clock, owned, turns, markets>>

availableCycleAmount ==
    LET amount == IF balance > limits.maximum THEN limits.maximum ELSE balance
    IN  IF amount < limits.minimum THEN 0 ELSE amount

\* The route at an index that counts from zero.
routeAt(index) == routes[index + 1]

_routeState(route) == route.enabled /\ outages[route.token] = "none"

UsableRoutes == {i \in 0 .. Len(routes) - 1 : _routeState(routeAt(i))}
Ahead(i) == (i + Len(routes) - nextRouteIndex) % Len(routes)

\* The usable route that comes first from nextRouteIndex on.
nextUsableRoute ==
    CHOOSE i \in UsableRoutes : \A other \in UsableRoutes : Ahead(i) <= Ahead(other)

CooldownOver == lastCycleAt = 0 \/ clock >= lastCycleAt + limits.cooldown

CycleAllowed(nativeAmount) ==
    /\ ~paused
    /\ limits.minimum <= nativeAmount /\ nativeAmount <= limits.maximum
    /\ nativeAmount <= balance
    /\ CooldownOver
    /\ UsableRoutes # {}

\* Mutant: the next turn is the one after the turn that was looked for.
TurnAfterStart(bought) == (nextRouteIndex + 1) % Len(routes)

TurnAfter(bought) == (bought + 1) % Len(routes)

_executeCycle(nativeAmount) ==
    /\ Len(cycles) < MaxCycles
    /\ CycleAllowed(nativeAmount)
    /\ lastCycleAt' = clock
    /\ nextRouteIndex' = TurnAfter(nextUsableRoute)
    /\ balance' = balance - nativeAmount
    /\ cycles' = Append(cycles,
                    [token |-> routeAt(nextUsableRoute).token, spent |-> nativeAmount,
                     usable |-> {routeAt(i).token : i \in UsableRoutes}])
    /\ UNCHANGED <<clock, owned, received, markets>>

\* The owner, who may always act as a keeper.
executeCycle(nativeAmount) == _executeCycle(nativeAmount)

executeAvailableCycle ==
    /\ keeperAllowed /\ availableCycleAmount # 0
    /\ _executeCycle(availableCycleAmount)

\* An oracle pauses, a price grows stale, a pool empties, or recovers.
OutageChanges(token, why) ==
    /\ faults < MaxOutages /\ faults' = faults + 1
    /\ outages[token] # why /\ outages' = [outages EXCEPT ![token] = why]
    /\ UNCHANGED <<clock, owned, balance, received, turns>>

Tick ==
    /\ clock < MaxClock /\ clock' = clock + 1
    /\ UNCHANGED <<owned, balance, received, turns, markets>>

OwnerCalls ==
    \/ \E token \in Tokens, enabled \in BOOLEAN : setRoutes(token, enabled)
    \/ \E next \in CycleLimits : setLimits(next)
    \/ \E yes \in BOOLEAN : setPaused(yes) \/ setKeeper(yes)
    \/ \E amount \in Fees : rescueNative(amount) \/ executeCycle(amount)

Around ==
    \/ \E amount \in Fees : receive(amount)
    \/ \E token \in Tokens, why \in {"none", "oracle", "pool"} : OutageChanges(token, why)
    \/ Tick
------------------------------------------------------------------------------
\* Between two purchases of one token every other whose route was usable all
\* the while had its turn, however routes fail and recover around the round,
\* are disabled or added to it, and whoever calls.
RoutesTakeTurns ==
    \A i, j \in DOMAIN cycles : i < j /\ cycles[i].token = cycles[j].token =>
        \A token \in Tokens :
            (\A k \in i .. j : token \in cycles[k].usable) =>
                \E k \in i .. j : cycles[k].token = token
=============================================================================
