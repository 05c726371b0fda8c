--------------------------- MODULE ActivityIndexer ---------------------------
(***************************************************************************)
(* services/activity.py and database.py: the backend's index of what the   *)
(* contracts logged.  A refresh loads the list of agents, reads the head,  *)
(* and commits the confirmed blocks chunk by chunk, the first chunk        *)
(* together with the deletion of a short window that is read again.  The   *)
(* chain grows and is reorganised between any two of its calls; calls      *)
(* fail; the process restarts.  A lock admits one refresh at a time.       *)
(*                                                                         *)
(* Blocks count from 1, the deployment block.  A transaction launches an   *)
(* agent, logged by the factory, or uses one, logged by the agent's own    *)
(* vault or key, which is tracked only when the agent is known.            *)
(***************************************************************************)
EXTENDS Integers, Sequences, FiniteSets, Functions

CONSTANTS
    Agents,
    Confirmations,  \* activity_confirmation_blocks
    Window,         \* activity_reorg_window_blocks
    ChunkSize,      \* activity_block_chunk_size
    ReorgDepth,     \* how far below the highest head blocks are replaced
    MaxHead,        \* bound: blocks
    MaxReorgs,      \* bound: reorganisations
    MaxFailures     \* bound: failed calls and restarts

ASSUME ActivityIndexerAssumption ==
    /\ {Confirmations, Window, MaxHead, MaxReorgs, MaxFailures} \subseteq Nat
    /\ ChunkSize \in Nat \ {0}
    /\ ReorgDepth \in 0 .. Confirmations + Window

NoBlock == 0

Transactions == [kind : {"launch", "use"}, agent : Agents]

VARIABLES
    chain,          \* the transactions of each block
    peak,           \* the highest head so far
    reorgs, failures,
    activityEvents, \* block_number of each row, by the transaction that is its id
    nextBlock,      \* next_block, NoBlock while there is no state row
    agents,         \* the cached agents, by id
    phase,          \* of the refresh under way
    count,          \* agentCount as it was read
    safeHead, chunkStart, pendingRewind,
    decoded         \* what the logs of the chunk were decoded to

chainVars   == <<chain, peak, reorgs>>
databaseVars == <<activityEvents, nextBlock>>
refreshVars == <<phase, count, safeHead, chunkStart, pendingRewind, decoded>>
indexVars == <<chainVars, failures, databaseVars, agents, refreshVars>>

Nothing == [t \in {} |-> NoBlock]

IndexInit ==
    /\ chain = <<>>
    /\ peak = 0
    /\ reorgs = 0
    /\ failures = 0
    /\ activityEvents = Nothing
    /\ nextBlock = NoBlock
    /\ agents = <<>>
    /\ phase = "idle"
    /\ count = 0
    /\ safeHead = NoBlock
    /\ chunkStart = NoBlock
    /\ pendingRewind = NoBlock
    /\ decoded = Nothing

-----------------------------------------------------------------------------
(* The chain.                                                              *)

Mined == UNION Range(chain)

Mine(txs) ==
    /\ Len(chain) < MaxHead
    /\ txs \cap Mined = {}
    /\ \A t \in txs : t.kind = "use" => [t EXCEPT !.kind = "launch"] \in Mined
    /\ chain' = Append(chain, txs)
    /\ peak' = IF Len(chain) < peak THEN peak ELSE peak + 1
    /\ UNCHANGED <<reorgs, failures, databaseVars, agents, refreshVars>>

(* The newest blocks give way to others; or the provider pool falls back   *)
(* on an endpoint that is behind.                                          *)
Reorganise(length) ==
    /\ reorgs < MaxReorgs
    /\ length < Len(chain)
    /\ length + ReorgDepth >= peak
    /\ chain' = SubSeq(chain, 1, length)
    /\ reorgs' = reorgs + 1
    /\ UNCHANGED <<peak, failures, databaseVars, agents, refreshVars>>

(* What the factory's registry holds: the agents in order of launch.       *)
Registry ==
    LET Launches(txs) == {t \in txs : t.kind = "launch"}
        blocks == SelectSeq(chain, LAMBDA txs : Launches(txs) # {})
    IN  [id \in DOMAIN blocks |-> (CHOOSE t \in Launches(blocks[id]) : TRUE).agent]

-----------------------------------------------------------------------------
(* A refresh.                                                              *)

EndRefresh ==
    /\ phase' = "idle"
    /\ count' = 0
    /\ safeHead' = NoBlock
    /\ chunkStart' = NoBlock
    /\ pendingRewind' = NoBlock
    /\ decoded' = Nothing

(* _load_agents: a cache longer than the registry is emptied.              *)
StartRefresh ==
    /\ phase = "idle"
    /\ phase' = "loading"
    /\ count' = Len(Registry)
    /\ agents' = IF Len(agents) > Len(Registry) THEN <<>> ELSE agents
    /\ UNCHANGED <<chainVars, failures, databaseVars, safeHead, chunkStart,
                   pendingRewind, decoded>>

(* getAgent for the next id, which reverts when it is gone meanwhile.      *)
LoadAgent ==
    /\ phase = "loading"
    /\ Len(agents) < count
    /\ IF Len(agents) < Len(Registry)
       THEN /\ agents' = Append(agents, Registry[Len(agents) + 1])
            /\ UNCHANGED refreshVars
       ELSE /\ EndRefresh
            /\ UNCHANGED agents
    /\ UNCHANGED <<chainVars, failures, databaseVars>>

SafeHead == IF Len(chain) - Confirmations > 1 THEN Len(chain) - Confirmations ELSE 1

\* Mutant: nothing is read again.
NoRewind == nextBlock

RewindFrom == IF nextBlock - Window > 1 THEN nextBlock - Window ELSE 1

ReadHead ==
    /\ phase = "loading"
    /\ Len(agents) >= count
    /\ phase' = "reading"
    /\ safeHead' = SafeHead
    /\ pendingRewind' = IF nextBlock = NoBlock THEN NoBlock ELSE RewindFrom
    /\ chunkStart' = IF nextBlock = NoBlock THEN 1 ELSE RewindFrom
    /\ UNCHANGED <<chainVars, failures, databaseVars, agents, count, decoded>>

ChunkEnd ==
    IF chunkStart + ChunkSize - 1 < safeHead THEN chunkStart + ChunkSize - 1 ELSE safeHead

(* The addresses asked for are the contracts of the settings and those of  *)
(* the agents known.                                                       *)
IsTracked(t) == t.kind = "launch" \/ t.agent \in Range(agents)

ReadChunk ==
    LET blocks == chunkStart .. (IF ChunkEnd < Len(chain) THEN ChunkEnd ELSE Len(chain))
    IN  /\ phase = "reading"
        /\ chunkStart <= safeHead
        /\ phase' = "committing"
        /\ decoded' = [t \in {t \in UNION {chain[b] : b \in blocks} : IsTracked(t)} |->
                          CHOOSE b \in blocks : t \in chain[b]]
        /\ UNCHANGED <<chainVars, failures, databaseVars, agents, count, safeHead,
                       chunkStart, pendingRewind>>

(* The rows that survive the deletion of the window.                       *)
KeptRows ==
    {t \in DOMAIN activityEvents :
        pendingRewind # NoBlock => activityEvents[t] < pendingRewind}

\* Mutant: the whole refresh is recorded with its first chunk.
CursorAtSafeHead == safeHead + 1

Cursor == ChunkEnd + 1

(* commit_activity_index: one database transaction.                        *)
CommitChunk ==
    /\ phase = "committing"
    /\ activityEvents' = [t \in KeptRows \cup DOMAIN decoded |->
                             IF t \in DOMAIN decoded THEN decoded[t] ELSE activityEvents[t]]
    /\ nextBlock' = Cursor
    /\ pendingRewind' = NoBlock
    /\ chunkStart' = ChunkEnd + 1
    /\ decoded' = Nothing
    /\ phase' = "reading"
    /\ UNCHANGED <<chainVars, failures, agents, count, safeHead>>

FinishRefresh ==
    /\ phase = "reading"
    /\ chunkStart > safeHead
    /\ EndRefresh
    /\ UNCHANGED <<chainVars, failures, databaseVars, agents>>

(* A call fails at every endpoint.  What was committed stays, as does the  *)
(* cache of agents; the retry, at once or later, starts from the database. *)
FailRefresh ==
    /\ phase # "idle"
    /\ failures < MaxFailures
    /\ failures' = failures + 1
    /\ EndRefresh
    /\ UNCHANGED <<chainVars, databaseVars, agents>>

Restart ==
    /\ failures < MaxFailures
    /\ failures' = failures + 1
    /\ agents' = <<>>
    /\ EndRefresh
    /\ UNCHANGED <<chainVars, databaseVars>>

-----------------------------------------------------------------------------
MineAny == Mine({}) \/ \E t \in Transactions : Mine({t})

RefreshStep ==
    \/ StartRefresh
    \/ LoadAgent
    \/ ReadHead
    \/ ReadChunk
    \/ CommitChunk
    \/ FinishRefresh

IndexNext ==
    \/ MineAny
    \/ \E length \in 0 .. MaxHead : Reorganise(length)
    \/ RefreshStep
    \/ FailRefresh
    \/ Restart

IndexSpec == IndexInit /\ [][IndexNext]_indexVars

(* Blocks keep coming, and the scheduled refresh gets on.                  *)
IndexFairSpec == IndexSpec /\ WF_indexVars(MineAny) /\ WF_indexVars(RefreshStep)

-----------------------------------------------------------------------------
(* Types; and a row is never ahead of the block to be read next, also      *)
(* between the chunks of a refresh that has gone back by the window.       *)
IndexTypeOK ==
    /\ chain \in Seq(SUBSET Transactions)
    /\ {peak, reorgs, failures, nextBlock, count, safeHead, chunkStart, pendingRewind}
         \subseteq Nat
    /\ \A rows \in {activityEvents, decoded} :
          DOMAIN rows \subseteq Transactions /\ Range(rows) \subseteq Nat
    /\ \A t \in DOMAIN activityEvents : activityEvents[t] < nextBlock
    /\ agents \in Seq(Agents)
    /\ phase \in {"idle", "loading", "reading", "committing"}

InBlock(t, b) == b \in DOMAIN chain /\ t \in chain[b]

(* The blocks that no refresh will read again.                             *)
Settled == {b \in DOMAIN chain : b + Window < nextBlock}

(* What is below the window is final: whatever was reorganised, failed or  *)
(* interrupted between the chunks of a refresh, each row there is in its   *)
(* block of the chain, and no launch of these blocks is missing.           *)
SettledRowsAreRight ==
    /\ \A t \in DOMAIN activityEvents :
          activityEvents[t] + Window < nextBlock => InBlock(t, activityEvents[t])
    /\ \A b \in Settled : \A t \in chain[b] :
          t.kind = "launch" => t \in DOMAIN activityEvents /\ activityEvents[t] = b

(* "Immutable agent metadata ... are cached": docs/MVP.md.  The cache       *)
(* agrees with the registry on every agent launched below the window, so   *)
(* that its vault and key are tracked.                                     *)
CachedAgentsAreRegistered ==
    \A id \in DOMAIN agents \cap DOMAIN Registry :
        (\E b \in Settled : InBlock([kind |-> "launch", agent |-> Registry[id]], b))
            => agents[id] = Registry[id]

(* The launches of the confirmed blocks.                                   *)
ConfirmedLaunches ==
    UNION {{<<t, b>> : t \in {t \in chain[b] : t.kind = "launch"}} :
              b \in {b \in DOMAIN chain : b <= SafeHead}}

(* The index catches up: once the reorganisations, failures and restarts   *)
(* are over, it holds the launches of the confirmed blocks and no others.  *)
IndexCatchesUp ==
    <>[]({<<t, activityEvents[t]>> : t \in {t \in DOMAIN activityEvents : t.kind = "launch"}}
           = ConfirmedLaunches)
=============================================================================
