\* Two holders share the rewards of one key: weights, rounding, repeated
\* payments for one epoch, claims in every order, a claim reinvested on day 14
\* in a bond that earns beside theirs by day 28.  And weeks without holders
\* and with one, with payments to both streams, routed in time or late.
CONSTANTS
    Accounts = {alice, bob}
    Keys = {key}
    GlobalStream = global
    Registries = {factory}
    ApprovedKeys <- MCApprovedKeys
    Notifiers = {router, keeper}
    Router = router
    NoAddress = noAddress
    Owners = {multisig}
    ContractOwners = {multisig}
    Terms = {"THIRTY_DAYS"}
    UnitSize = 2
    Precision = 20000
    Rewards = {1, 2, 3}
    Instants = {7, 14, 21, 28, 30}
    Horizon = 44
    MaxPositions = 3
    MaxUnits = 2
    MaxNotified = 3
    LegacyMarketplaces = {}
    KeyMarketplaces = {market}
    Amounts = {2}
    MaxReceived = 4
    MaxFunding = 0
    BookDays = {0, 14, 28}
    SystemDays = {0, 7, 14, 21, 30}
    LastUnlock = 37
    MaxPaid = 2
    MaxRevenue = 4
    InterruptedWeek = 2
SYMMETRY MCSymmetry
SPECIFICATION MCSpec
INVARIANTS
    BooksMatchPositions
    LiabilityIsBacked
    RewardsAreConserved
    RevenueReachesItsBonders
PROPERTIES
    StartedEpochsAreFrozen
    EntitlementsNeverShrink
    RouterSteps
CHECK_DEADLOCK FALSE
