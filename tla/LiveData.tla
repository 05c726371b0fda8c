------------------------------- MODULE LiveData -------------------------------
(* The chain as the market, portfolio and Earn pages show it, and the         *)
(* transactions they build from it.  A page loads a snapshot with each       *)
(* connection of a wallet and after its confirmed actions.  Loads overlap:   *)
(* calls outlive the effect that started them, snapshots are shared for some *)
(* seconds by whoever asks for the same wallet, and the backend answers      *)
(* repeated chain reads from a cache of its own unless they ask for fresh    *)
(* ones.  A snapshot or a reading stands for the oldest of its reads.        *)
EXTENDS Naturals, FiniteSets

CONSTANTS
    Accounts,       \* wallets the page may be connected to
    Kinds,          \* wallet actions tried, of AllKinds
    Loads,          \* identities of effects' calls, so a bound on them
    Requests,       \* identities of snapshot requests, so a bound on them
    MaxHead,        \* bound on changes of the chain
    MaxSlips        \* bound on lost answers, expiries, refreshes, departures

VARIABLES
    head,           \* changes of the chain so far
    world,          \* what there is now: asks, bids, shares, vault balances
    proxy,          \* account |-> the backend's cached reading
    snapshots,      \* request |-> its account, stage and reading
    shared,         \* account |-> the request in snapshotCache
    tab,            \* the page: view, wallet, refreshes, what it shows
    loads,          \* effects' calls in flight
    doing,          \* the wallet action in flight
    slips

chainState == <<head, world>>
caches == <<proxy, snapshots, shared>>
vars == <<chainState, caches, tab, loads, doing, slips>>
------------------------------------------------------------------------------
NoAccount == "public"
Readers == Accounts \cup {NoAccount}
NoRequest == 0
NoReading == [head |-> 0, world |-> {}, account |-> "none"]

\* What WebClientProofs needs of the constants: no wallet has the name of none.
DataAssumption == "none" \notin Accounts

\* A reading has the orders of the markets and the vaults of the agents.
loadListings == world \cap {"ask"}
loadOffers == world \cap {"bid"}
enrichAgent == world \cap {"idle", "deployed", "shares"}
Reading(a) == [head |-> head, account |-> a,
               world |-> loadListings \cup loadOffers \cup enrichAgent]
Slip == slips < MaxSlips /\ slips' = slips + 1

NoLoad == [pc |-> "none"]
Asked(l) == loads[l].pc # "none"
NoAction == [pc |-> "none"]

Pages == {"market", "portfolio", "earn"}
NewTab(view) == [view |-> view, account |-> NoAccount, refreshed |-> FALSE, asOf |-> 0,
                 loading |-> FALSE, error |-> FALSE, shown |-> NoReading, positions |-> NoReading]
------------------------------------------------------------------------------
(* Wallet actions: what each needs to be there, what it may leave behind.    *)

Market == {"buy", "list", "offer", "sell"}
Vault == {"deposit", "redeem", "cycle", "recall", "recenter"}
Bond == {"bond", "unbond", "claim"}
AllKinds == Market \cup Vault \cup Bond \cup {"bind"}

\* Two confirmations: an approval, and the action itself.
Approves == {"list", "sell", "deposit", "bond"}

Needs(kind) ==
    CASE kind = "buy" -> {"ask"}
      [] kind = "sell" -> {"bid"}
      [] kind = "redeem" -> {"shares"}
      [] kind = "cycle" -> {"idle"}
      [] kind \in {"recall", "recenter"} -> {"deployed"}
      [] OTHER -> {}

\* What may be left of world after each: others' orders may be filled in part
\* or at all, a cycle may take some of the idle assets or all.
buyFloorKeys  == {world, world \ {"ask"}}
listKeys      == {world \cup {"ask"}}
placeKeyOffer == {world \cup {"bid"}}
sellIntoTopBid == {world, world \ {"bid"}}
bindKeys      == {world}
depositToVault == {world \cup {"idle", "shares"}}
redeemAll     == {world \ {"shares"}, world \ {"shares", "idle", "deployed"}}
runAgentCycle == {world \cup {"deployed"}, (world \ {"idle"}) \cup {"deployed"}}
recallAgent   == {(world \ {"deployed"}) \cup {"idle"}}
recenterRange == {world}
bondAgentKeyUnit == {world}
unbondAgentPosition == {world}
claimAgentBondPositionRewards == {world}

Outcomes(kind) ==
    CASE kind = "buy" -> buyFloorKeys
      [] kind = "list" -> listKeys
      [] kind = "offer" -> placeKeyOffer
      [] kind = "sell" -> sellIntoTopBid
      [] kind = "bind" -> bindKeys
      [] kind = "deposit" -> depositToVault
      [] kind = "redeem" -> redeemAll
      [] kind = "cycle" -> runAgentCycle
      [] kind = "recall" -> recallAgent
      [] kind = "recenter" -> recenterRange
      [] kind = "bond" -> bondAgentKeyUnit
      [] kind = "unbond" -> unbondAgentPosition
      [] kind = "claim" -> claimAgentBondPositionRewards

Changed(kind) ==
    /\ head < MaxHead /\ head' = head + 1
    /\ Needs(kind) \subseteq world
    /\ world' \in Outcomes(kind)

\* Other holders act as well.
ChainMoves ==
    /\ Slip
    /\ \E kind \in Kinds : Changed(kind)
    /\ UNCHANGED <<caches, tab, loads, doing>>
------------------------------------------------------------------------------
(* Loads.                                                                    *)

\* Without a wallet the Earn page loads nothing and shows nothing.
enabled(t) == t.view # "earn" \/ t.account # NoAccount

\* What earlier effects still wait for is ignored from now on.
Ignored(pcs) ==
    [l \in Loads |-> IF loads[l].pc \in pcs THEN [loads[l] EXCEPT !.active = FALSE] ELSE loads[l]]
OfSnapshots == {"config", "snapshot"}
OfPositions == {"positions", "answered"}

\* Mutant: a refresh may be answered from the shared snapshot.
NeverForced(t) == FALSE

\* After a refresh every load asks for a snapshot of its own.
Forced(t) == t.refreshed

\* The effect of useProtocol, with the wallet and the refreshes of t; that of
\* the positions goes with the wallet or the page.
Effect(t, anew) ==
    LET ignored == Ignored(OfSnapshots \cup IF anew THEN OfPositions ELSE {}) IN
    IF enabled(t)
    THEN /\ tab' = [t EXCEPT !.loading = TRUE, !.error = FALSE]
         /\ \E l \in Loads :
              /\ ~Asked(l)
              /\ \A k \in Loads : ~Asked(k) => l <= k
              /\ loads' = [ignored EXCEPT ![l] =
                    [pc |-> "config", account |-> t.account, force |-> Forced(t),
                     active |-> TRUE, request |-> NoRequest, reading |-> NoReading]]
    ELSE /\ tab' = [t EXCEPT !.loading = FALSE, !.error = FALSE, !.shown = NoReading,
                             !.positions = NoReading]
         /\ loads' = ignored

Mount(view) ==
    /\ Slip
    /\ Effect([NewTab(view) EXCEPT !.account = tab.account], TRUE)
    /\ doing' = IF doing = NoAction THEN NoAction ELSE [doing EXCEPT !.mounted = FALSE]
    /\ UNCHANGED <<chainState, caches>>

\* While the wallet is asked to connect, the page has none.
Disconnect ==
    /\ tab.account # NoAccount
    /\ Slip
    /\ Effect([tab EXCEPT !.account = NoAccount], TRUE)
    /\ UNCHANGED <<chainState, caches, doing>>

Connect(a) ==
    /\ tab.account = NoAccount
    /\ Effect([tab EXCEPT !.account = a], TRUE)
    /\ UNCHANGED <<chainState, caches, doing, slips>>

\* The refresh buttons: the portfolio's is for a wallet, the market page also
\* offers a retry under an error; the Earn page has none for its snapshot.
refresh ==
    /\ tab.view # "earn" /\ ~tab.loading
    /\ tab.view = "portfolio" => tab.account # NoAccount
    /\ Slip
    /\ Effect([tab EXCEPT !.refreshed = TRUE], FALSE)
    /\ UNCHANGED <<chainState, caches, doing>>

\* loadProtocolSnapshot: join the shared request, or ask anew and share that.
loadProtocolSnapshot(l) ==
    LET load == loads[l]
        joined == shared[load.account]
    IN
    /\ load.pc = "config" /\ load.active
    /\ IF ~load.force /\ joined # NoRequest
       THEN /\ loads' = [loads EXCEPT ![l].pc = "snapshot", ![l].request = joined]
            /\ UNCHANGED <<snapshots, shared>>
       ELSE \E r \in Requests :
              /\ snapshots[r].pc = "unused"
              /\ \A q \in Requests : snapshots[q].pc = "unused" => r <= q
              /\ snapshots' = [snapshots EXCEPT ![r] =
                    [pc |-> "asked", account |-> load.account, fresh |-> load.force,
                     reading |-> NoReading]]
              /\ shared' = [shared EXCEPT ![load.account] = r]
              /\ loads' = [loads EXCEPT ![l].pc = "snapshot", ![l].request = r]
    /\ UNCHANGED <<chainState, proxy, tab, doing, slips>>

\* Configuration and tasks could not be read: an error, over what was shown.
ConfigFails(l) ==
    /\ loads[l].pc = "config" /\ loads[l].active
    /\ Slip
    /\ tab' = [tab EXCEPT !.loading = FALSE, !.error = TRUE]
    /\ loads' = [loads EXCEPT ![l] = NoLoad]
    /\ UNCHANGED <<chainState, caches, doing>>

\* The backend reads the chain, or repeats what it read for the same call.
ProxyRead(r) ==
    LET s == snapshots[r]
        reading == IF s.fresh \/ proxy[s.account] = NoReading
                   THEN Reading(s.account) ELSE proxy[s.account]
    IN
    /\ s.pc = "asked"
    /\ proxy' = [proxy EXCEPT ![s.account] = reading]
    /\ snapshots' = [snapshots EXCEPT ![r].pc = "read", ![r].reading = reading]
    /\ UNCHANGED <<chainState, shared, tab, loads, doing, slips>>

\* A failed request is shared no longer, unless a newer one is.
SnapshotFails(r) ==
    LET a == snapshots[r].account IN
    /\ snapshots[r].pc = "asked"
    /\ Slip
    /\ snapshots' = [snapshots EXCEPT ![r].pc = "failed"]
    /\ shared' = IF shared[a] = r THEN [shared EXCEPT ![a] = NoRequest] ELSE shared
    /\ UNCHANGED <<chainState, proxy, tab, loads, doing>>

\* Both caches keep an entry for fifteen seconds.
Expire(a) ==
    /\ Slip
    /\ \/ /\ shared[a] # NoRequest
          /\ shared' = [shared EXCEPT ![a] = NoRequest] /\ UNCHANGED proxy
       \/ /\ proxy[a] # NoReading
          /\ proxy' = [proxy EXCEPT ![a] = NoReading] /\ UNCHANGED shared
    /\ UNCHANGED <<chainState, snapshots, tab, loads, doing>>

\* The snapshot, or its failure, reaches the page; on the Earn page the bond
\* positions of the wallet are read next.
Shown(l) ==
    LET load == loads[l]
        answer == snapshots[load.request]
    IN
    /\ load.pc = "snapshot" /\ answer.pc \in {"read", "failed"}
    /\ tab' = IF ~load.active THEN tab
              ELSE IF answer.pc = "failed"
              THEN [tab EXCEPT !.loading = FALSE, !.error = TRUE, !.shown = NoReading,
                               !.positions = NoReading]
              ELSE [tab EXCEPT !.loading = FALSE, !.shown = answer.reading]
    /\ loads' = IF ~load.active THEN [loads EXCEPT ![l] = NoLoad]
                ELSE IF answer.pc = "read" /\ tab.view = "earn"
                THEN [Ignored(OfPositions) EXCEPT ![l].pc = "positions"]
                ELSE [Ignored(OfPositions) EXCEPT ![l] = NoLoad]
    /\ UNCHANGED <<chainState, caches, doing, slips>>

\* The answer is to the wallet and refresh the page has now.
Wanted(l) == loads[l].active

\* readAgentBondKeyPosition asks for fresh reads, after the snapshot.
readPositions(l) ==
    /\ loads[l].pc = "positions"
    /\ loads' = [loads EXCEPT ![l].pc = "answered", ![l].reading = Reading(loads[l].account)]
    /\ UNCHANGED <<chainState, caches, tab, doing, slips>>

PositionsShown(l) ==
    /\ loads[l].pc = "answered"
    /\ tab' = IF Wanted(l) THEN [tab EXCEPT !.positions = loads[l].reading] ELSE tab
    /\ loads' = [loads EXCEPT ![l] = NoLoad]
    /\ UNCHANGED <<chainState, caches, doing, slips>>

\* A dropped call ends without a word; lost positions leave the old ones.
Dropped(l) ==
    /\ \/ loads[l].pc = "config" /\ ~loads[l].active /\ UNCHANGED slips
       \/ loads[l].pc = "positions" /\ Slip
    /\ loads' = [loads EXCEPT ![l] = NoLoad]
    /\ UNCHANGED <<chainState, caches, tab, doing>>

LoadStep(l) ==
    \/ loadProtocolSnapshot(l)
    \/ Shown(l)
    \/ readPositions(l)
    \/ PositionsShown(l)
    \/ Dropped(l)
------------------------------------------------------------------------------
(* Actions from the page.                                                    *)

Offered(kind) ==
    /\ doing = NoAction
    /\ tab.account # NoAccount /\ tab.shown # NoReading
    /\ Needs(kind) \subseteq tab.shown.world
    /\ \/ tab.view = "market" /\ kind \notin Bond
       \/ /\ tab.view = "earn" /\ kind \in Bond \cup {"bind"}
          /\ kind \in Bond => tab.positions # NoReading

\* perform in the market's drawer, runAction on the Earn page.
perform(kind) ==
    /\ Offered(kind)
    /\ doing' = [pc |-> IF kind \in Approves THEN "approve" ELSE "send", kind |-> kind,
                 mounted |-> TRUE]
    /\ UNCHANGED <<chainState, caches, tab, loads, slips>>

Approved ==
    /\ doing.pc = "approve"
    /\ doing' = [doing EXCEPT !.pc = "send"]
    /\ UNCHANGED <<chainState, caches, tab, loads, slips>>

Mined ==
    /\ doing.pc = "send"
    /\ Changed(doing.kind)
    /\ doing' = [doing EXCEPT !.pc = "receipt"]
    /\ UNCHANGED <<caches, tab, loads, slips>>

\* The receipt: the page that acted refreshes all it shows.
Settled ==
    /\ doing.pc = "receipt"
    /\ doing' = NoAction
    /\ IF doing.mounted
       THEN Effect([tab EXCEPT !.refreshed = TRUE, !.asOf = head], FALSE)
       ELSE UNCHANGED <<tab, loads>>
    /\ UNCHANGED <<chainState, caches, slips>>

\* Declined, reverted or no receipt in time: nothing is read again.
ActionFails ==
    /\ doing # NoAction
    /\ Slip
    /\ doing' = NoAction
    /\ UNCHANGED <<chainState, caches, tab, loads>>
------------------------------------------------------------------------------
Init ==
    /\ head = 0
    /\ world = {"ask", "idle"}
    /\ proxy = [a \in Readers |-> NoReading]
    /\ snapshots = [r \in Requests |-> [pc |-> "unused"]]
    /\ shared = [a \in Readers |-> NoRequest]
    /\ \E view \in Pages : tab = NewTab(view)
    /\ loads = [l \in Loads |-> NoLoad]
    /\ doing = NoAction
    /\ slips = 0

Next ==
    \/ ChainMoves
    \/ \E view \in Pages : Mount(view)
    \/ Disconnect \/ refresh
    \/ \E a \in Accounts : Connect(a)
    \/ \E l \in Loads : Asked(l) /\ (LoadStep(l) \/ ConfigFails(l))
    \/ \E r \in Requests : ProxyRead(r) \/ SnapshotFails(r)
    \/ \E a \in Readers : Expire(a)
    \/ \E kind \in Kinds : perform(kind)
    \/ Approved \/ Mined \/ Settled \/ ActionFails

Spec == Init /\ [][Next]_vars
------------------------------------------------------------------------------
\* The portfolio lists the wallet's positions in the snapshot, and when there
\* are none says so, also under the error of a snapshot it could not get.
PortfolioPage(t) ==
    [positions |-> t.shown.world \cap {"shares"},
     empty |-> /\ t.account # NoAccount /\ ~t.loading
               /\ t.shown.world \cap {"shares"} = {}]

\* Once a page has loaded without an error, it shows the connected wallet's
\* own snapshot, and one that includes every action it has confirmed, whatever
\* earlier loads, shared snapshots and cached reads were still around; so a
\* portfolio that calls the wallet empty then has looked.  Bond positions a
\* page never shows to another wallet than their owner's.
LoadedViewsAreCurrent ==
    /\ ~tab.loading /\ ~tab.error /\ tab.shown # NoReading =>
         /\ tab.shown.account = tab.account
         /\ tab.shown.head >= tab.asOf
    /\ tab.view = "portfolio" /\ PortfolioPage(tab).empty /\ ~tab.error =>
         tab.shown # NoReading
    /\ tab.positions # NoReading => tab.positions.account = tab.account
=============================================================================
