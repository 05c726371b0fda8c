\* The "defensive" preset: a 20 % action, a 60 % target and a one day cooldown.
CONSTANTS
    Holders = {alice}
    VirtualShares = 1
    DepositCap = 10
    Amounts = {10}
    Slippages = {0}
    Values = {}
    MaxAssets = 10
    MaxShares = 10
    creator = creator
    owner = owner
    KeeperAccounts = {keeper}
    maxSingleBps = 2000
    maxDailyBps = 3000
    maxAllocationBps = 6000
    cooldownSeconds = 4
    Moves = {2}
    Day = 4
    Year = 4
    Expiries = {4, 7}
    MaxTime = 7
    MaxActions = 2
SPECIFICATION Spec
INVARIANTS
    CreatorCanRecenter
CHECK_DEADLOCK FALSE
