\* All of governance beside the holders: activation order, pausing for ever,
\* and the way out.
CONSTANTS
    Accounts = {alice}
    Keys = {key}
    GlobalStream = global
    Registries = {factory, other}
    factory = factory
    ApprovedKeys <- MCApprovedKeys
    Notifiers = {router}
    NoAddress = noAddress
    Owners = {multisig, wallet}
    ContractOwners = {multisig}
    Terms = {"THIRTY_DAYS", "NINETY_DAYS"}
    UnitSize = 2
    Precision = 20000
    Rewards = {1}
    Instants = {5, 13, 29, 31, 95}
    Horizon = 100
    MaxPositions = 2
    MaxUnits = 2
    MaxNotified = 1
SPECIFICATION FairSpec
INVARIANTS
    EarnsOnlyMaturedLockedEpochs
    EarnShowsTheBond
PROPERTIES
    LockedMuppetsReturn
CHECK_DEADLOCK FALSE
