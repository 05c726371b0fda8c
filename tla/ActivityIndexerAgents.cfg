\* Two agents, either of which may be the first, and a reorganisation.
CONSTANTS
    Agents = {agent1, agent2}
    Confirmations = 1
    Window = 2
    ChunkSize = 6
    ReorgDepth = 1
    MaxHead = 6
    MaxReorgs = 1
    MaxFailures = 0
SPECIFICATION IndexSpec
INVARIANTS
    CachedAgentsAreRegistered
CHECK_DEADLOCK FALSE
