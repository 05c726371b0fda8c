\* Three purchases of a page from two positions, while the clock stands still.
CONSTANTS
    Positions = {1, 2}
    BuyTasks = {1, 2}
    Amounts = {1}
    Earned = 1
    BoundKeys = 2
    QuoteLife = 1
    MaxClock = 0
    MaxPurchases = 3
    MaxMishaps = 2
SPECIFICATION Spec
INVARIANTS
    OnePurchasePerPage
CHECK_DEADLOCK FALSE
