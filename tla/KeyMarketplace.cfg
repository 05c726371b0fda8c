\* Two offers and a listing of one key, filled in parts while the fee changes;
\* two chunks and more per refresh of the index, the deepest reorganisation the
\* window is for, failures and restarts between any two steps.
CONSTANTS
    Accounts = {alice, bob}
    Keys = {key}
    Creator = alice
    RefusesEth = {bob}
    Supply = 3
    Fees = {0, 1000, 1500}
    Prices = {15}
    MaxListings = 1
    MaxOffers = 2
    Agents = {agent}
    Confirmations = 1
    Window = 2
    ChunkSize = 2
    ReorgDepth = 3
    MaxHead = 6
    MaxReorgs = 2
    MaxFailures = 1
SPECIFICATION MCSpec
INVARIANTS
    EscrowIsExact
    EscrowCoversOffers
    SettledRowsAreRight
PROPERTIES
    OrdersKeepTheirTerms
    OffersCanAlwaysLeave
    IndexCatchesUp
CHECK_DEADLOCK FALSE
