\* Two keys' budgets spent in overlapping lots, while the owner pauses, limits and
\* recovers, and anyone releases; a reserve of three routes, and two runs of it.
CONSTANTS
    Keys = {key1, key2}
    KeeperAccounts = {keeper}
    VESTING_DURATION = 3
    MAX_RELEASE_LOTS = 2
    MIN_BUYBACK_WEI = 1
    ABSOLUTE_MAX_BUYBACK_WEI = 2
    MIN_BUYBACK_COOLDOWN = 1
    Amounts = {1, 2}
    Cooldowns = {1}
    Outputs = {4}
    MaxFunded = 3
    MaxLots = 2
    LastPurchase = 3
    MaxTime = 6
    Tokens = {"t1", "t2", "t3"}
    FirstToken = "t1"
    MAX_ROUTES = 3
    MAX_COOLDOWN = 1
    Fees = {1, 2}
    MaxReceived = 3
    MaxCycles = 3
    MaxSettings = 4
    MaxOutages = 1
    MaxClock = 2
    Runs = {1, 2}
    RunInterval = 1
    MaxTxs = 2
    MaxMisses = 1
SPECIFICATION SpendingSpec
INVARIANTS
    BooksAreBacked
    VestingIsLinear
    RoutesTakeTurns
    RunsAreRecorded
PROPERTIES
    EveryLotIsReleased
CHECK_DEADLOCK FALSE
