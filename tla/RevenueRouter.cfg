\* The whole specification around one payment, and payments to two streams
\* from go-live on.
CONSTANTS
    Keys = {key}
    GlobalStream = global
    LegacyMarketplaces = {marketV1}
    KeyMarketplaces = {marketV2}
    Outages = {"bondPaused", "vaultRouter"}
    Amounts = {5}
    MaxWeek = 2
    MaxReceived = 10
    MaxFunding = 5
    MaxGoverned = 5
SPECIFICATION MCSpec
INVARIANTS
    RevenueIsAccountedFor
    QueueIsFaithful
PROPERTIES
    RevenueIsEventuallyRouted
CHECK_DEADLOCK FALSE
