\* One page and one wallet, with every disruption the bounds allow.
CONSTANTS
    Wallets = {alice}
    NoWallet = noWallet
    Tabs = {tab}
    Calls = {1, 2}
    Plans = {stable}
    Quantities = {1}
    Supply = 1
    Slots = 1
    MaxTxs = 3
    MaxGlitches = 3
SPECIFICATION FairSpec
INVARIANTS
    StoredRecordsAreTrue
    ResumeNeverDuplicates
PROPERTIES
    StartedLaunchesAreResolved
CHECK_DEADLOCK FALSE
