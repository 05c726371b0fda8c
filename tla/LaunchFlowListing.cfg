\* The Key market of one launch, with a quantity to choose.
CONSTANTS
    Wallets = {alice}
    NoWallet = noWallet
    Tabs = {tab}
    Calls = {1, 2}
    Plans = {stable}
    Quantities = {1, 2}
    Supply = 3
    Slots = 2
    MaxTxs = 3
    MaxGlitches = 1
SPECIFICATION Spec
INVARIANTS
    ListingsUseTheirApproval
CHECK_DEADLOCK FALSE
