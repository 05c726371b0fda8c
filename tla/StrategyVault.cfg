\* An exact adapter and one that loses an asset on a movement: every call, every
\* rounding, with yield and losses.  Leashed, limits that let a position be
\* recentered, and a cooldown of a quarter of the day.
CONSTANTS
    Holders = {alice, bob}
    Depositor = alice
    VirtualShares = 2
    DepositCap = 6
    Amounts = {1, 2, 3}
    Slippages = {0, 1}
    Values = {0, 1, 3, 8}
    MaxAssets = 8
    MaxShares = 14
    creator = creator
    owner = owner
    KeeperAccounts = {keeper}
    maxSingleBps = 6000
    maxDailyBps = 7500
    maxAllocationBps = 6000
    cooldownSeconds = 1
    Moves = {1, 3}
    Day = 4
    Year = 4
    Expiries = {3, 6}
    MaxTime = 6
    MaxActions = 3
SPECIFICATION MCSpec
PROPERTIES
    OthersPayOnlySlippage
    LastShareClosesPosition
    DepositorsCanLeave
    OnlyLeashedDeployments
CHECK_DEADLOCK FALSE
