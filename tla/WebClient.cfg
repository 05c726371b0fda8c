\* One browser: a wallet and a page for purchases, two wallets for drops,
\* snapshots and handles, two tabs for the watchlist.
CONSTANTS
    Tabs = {tab1}
    Holders = {1, 2}
    NoHolder = 0
    Jobs = {1, 2}
    Budgets = {2}
    MaxDrops = 2
    Allocation <- OneTokenEach
    MaxClaims = 2
    MaxUpsets = 1
    Positions = {1, 2}
    BuyTasks = {1, 2}
    Amounts = {0, 1}
    Earned = 1
    BoundKeys = 2
    QuoteLife = 1
    MaxClock = 1
    MaxPurchases = 2
    MaxMishaps = 1
    Accounts = {"alice", "bob"}
    Kinds = {"buy", "deposit", "bond"}
    Loads = {1, 2}
    Requests = {1, 2, 3}
    MaxHead = 2
    MaxSlips = 1
    Subjects = {1, 2}
    Asks = {1, 2, 3}
    MaxAsked = 3
    MaxFacts = 2
    Muppets = {1, 2}
    Tracked = {1}
    Windows = {1, 2}
    Monitors = {1}
    MaxFollows = 1
    MaxAlerts = 1
    MaxTime = 2
    Signers = {1, 2}
    NoSigner = 0
    Handles = {1}
    NoHandle = 0
    Nonces = {1, 2}
    Reads = {1, 2}
    MaxTroubles = 1
    Deposits = {1, 2}
    Purse = 3
    Quotes = {1, 2}
    MaxTargets = 2
    MaxFundings = 2
    MaxHiccups = 1
    Agents = {1, 2, 3}
    LegacyAgents = {1}
    Prices = {10, 20}
    MarketFees = {0, 1}
    MaxOrders = 2
    MaxTrades = 2
    MaxMoves = 2
SPECIFICATION WebSpec
INVARIANTS
    PurchasesAreGuarded
    LoadedViewsAreCurrent
    FollowsAreKept
    HandlesAreTrue
    DepositsAreAsPreviewed
    BoardIsTrue
PROPERTIES
    ImplementsLedger
    ClaimsSpareOtherDrops
    AnswersComeInOrder
CHECK_DEADLOCK FALSE
