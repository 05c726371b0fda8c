--------------------------- MODULE RevenueSystemMC ---------------------------
(* Small instances of RevenueSystem for TLC: two in one state graph, with no *)
(* step between them, both from go-live on with the keys bound.              *)
(*   books:  no revenue comes in, a keeper is the notifier, and two holders  *)
(*           share what it pays, repeatedly for one epoch.  Either reinvests *)
(*           a claim in a further position, which earns in its turn.         *)
(*   system: one holder with one key, and revenue routed in time or late.    *)
(*           Governance interrupts one week: the router is paused, or the    *)
(*           bond is and its notifier changes; all is undone by its end.     *)
EXTENDS RevenueSystem, TLC

\* Every registry approves every key; holders are interchangeable.
MCApprovedKeys == [r \in Registries |-> Keys]
MCSymmetry == Permutations(Accounts)

CONSTANTS
    BookDays,         \* the days on which the holders of the books act
    SystemDays,       \* the days on which anyone acts in the system
    LastUnlock,       \* bound: the last day on which a bond of the system ends
    InterruptedWeek,
    MaxPaid,          \* bound: wei paid to one stream of the system
    MaxRevenue        \* bound: wei received by all streams together

VARIABLE books        \* which of the two

LiveInit ==
    /\ BooksInit
    /\ paused = FALSE
    /\ owner \in ContractOwners
    /\ keyRegistries = Registries
    /\ otherPayments = [s \in Streams |-> [e \in Epochs |-> 0]]
    /\ R!BooksInit
    /\ routerPaused = FALSE
    /\ ownerIsContract = TRUE
    /\ keyMarketplaces = KeyMarketplaces

BoundTo(holders, units) ==
    [a \in Accounts |-> [k \in Keys |-> IF a \in holders THEN units ELSE 0]]

BooksAlone ==
    /\ rewardNotifier \in Notifiers \ {Router}
    /\ marketplaces = {}
    /\ boundBalance = BoundTo(Accounts, MaxUnits)

WholeSystem ==
    /\ rewardNotifier = Router
    /\ marketplaces = LegacyMarketplaces
    /\ \E a \in Accounts : boundBalance = BoundTo({a}, 1)

MCInit ==
    /\ \/ books = TRUE /\ BooksAlone
       \/ books = FALSE /\ WholeSystem
    /\ LiveInit

(* A position beyond one for each holder is opened with a claim.             *)
Opened == nextPositionId' # nextPositionId
Reinvested == accountRewardsReinvested' # accountRewardsReinvested
OpensAtMost(positionsBonded) ==
    Opened /\ nextPositionId > positionsBonded => Reinvested

(* The days between, on which a week begins, only pass.                      *)
BooksNext ==
    /\ BondStep \/ OtherPays
    /\ OpensAtMost(Cardinality(Accounts))
    /\ UNCHANGED govVars
    /\ now \in BookDays \/ now' # now
    /\ \E day \in BookDays : now' <= day

BondUndisturbed == ~paused /\ rewardNotifier = Router
Undisturbed == BondUndisturbed /\ ~routerPaused

WholeNext ==
    /\ SystemNext
    /\ now' \in SystemDays
    /\ \A p \in PositionIds' : positions'[p].unlockAt <= LastUnlock
    /\ UNCHANGED <<keyRegistries, marketplaces, keyMarketplaces>>
    /\ \A s \in Streams : totalNotified'[s] <= MaxPaid
    /\ SumFunctionOnSet(totalRevenue', Streams) + escrowOwed' <= MaxRevenue
    /\ Undisturbed \/ now' = now
    /\ routerPaused' => BondUndisturbed'
    /\ UNCHANGED <<paused, routerPaused, rewardNotifier>> \/ currentEpoch = InterruptedWeek

MCNext ==
    /\ UNCHANGED <<boundBalance, books>>
    /\ \/ books /\ BooksNext
       \/ ~books /\ WholeNext

MCSpec == MCInit /\ [][MCNext]_<<systemVars, books>>
=============================================================================
