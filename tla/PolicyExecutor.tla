---------------------------- MODULE PolicyExecutor ----------------------------
(***************************************************************************)
(* PolicyExecutor.sol: the leash on one registered vault.  Keepers and the *)
(* creator move idle assets into the adapter within a cooldown and limits  *)
(* per action, per day and on the whole allocation; the owner, too, may    *)
(* recall.  Composed with the vault, whose executor this is.               *)
(***************************************************************************)
EXTENDS StrategyVault, Sequences, FiniteSetsExt

CONSTANTS
    creator, owner, \* of the policy and of the contract
    KeeperAccounts, \* accounts the owner may make keepers
    maxSingleBps, maxDailyBps, maxAllocationBps, cooldownSeconds,
    Moves,          \* assets of one allocation or recall
    Day, Year,      \* 1 days and 365 days
    Expiries,       \* the expiries registered or renewed to
    MaxTime,        \* bound: the clock
    MaxActions      \* bound: allocations

BPS == 10000

ASSUME PolicyExecutorAssumption ==
    /\ {maxSingleBps, maxDailyBps, maxAllocationBps} \subseteq 1 .. BPS
    /\ cooldownSeconds \in Nat
    /\ Moves \subseteq Nat
    /\ {Day, Year} \subseteq Nat \ {0}
    /\ Expiries \subseteq Nat

VARIABLES
    now,          \* block.timestamp
    keepers,
    paused, expiresAt, lastActionAt, dayStartedAt, spentToday,
    history       \* the AllocationExecuted events, with the day's budget

policyVars == <<keepers, paused, expiresAt, lastActionAt, dayStartedAt, spentToday, history>>
vars == <<vaultVars, now, policyVars>>

Callers == {creator, owner} \union KeeperAccounts

MayAllocate(caller) == caller \in keepers \union {creator}
MayRecall(caller)   == caller \in keepers \union {creator, owner}

Share(assets, bps) == (assets * bps) \div BPS

\* registerVault, in the transaction that creates the vault.
Init ==
    /\ VaultInit
    /\ now = 1
    /\ keepers = {}
    /\ paused = FALSE
    /\ expiresAt \in {e \in Expiries : e > now}
    /\ lastActionAt = 0
    /\ dayStartedAt = now
    /\ spentToday = 0
    /\ history = <<>>

Tick ==
    /\ now < MaxTime
    /\ now' = now + 1
    /\ UNCHANGED <<vaultVars, policyVars>>

-----------------------------------------------------------------------------
SetKeeper(keeper, allowed) ==
    /\ keepers' = IF allowed THEN keepers \union {keeper} ELSE keepers \ {keeper}
    /\ UNCHANGED <<vaultVars, now, paused, expiresAt, lastActionAt, dayStartedAt, spentToday, history>>

(* The creator or the owner pauses or resumes.                             *)
SetPaused(flag) ==
    /\ paused' = flag
    /\ UNCHANGED <<vaultVars, now, keepers, expiresAt, lastActionAt, dayStartedAt, spentToday, history>>

(* The creator or the owner renews; an expired policy, too.                *)
RenewPolicy(expiry) ==
    /\ expiry > now
    /\ expiry <= now + Year
    /\ expiresAt' = expiry
    /\ UNCHANGED <<vaultVars, now, keepers, paused, lastActionAt, dayStartedAt, spentToday, history>>

-----------------------------------------------------------------------------

Live == ~paused /\ now < expiresAt

CooldownOver == lastActionAt = 0 \/ now >= lastActionAt + cooldownSeconds

DayOver == now >= dayStartedAt + Day

\* Mutant: every action starts a day.
SpentThisAction == 0

SpentSoFar == IF DayOver THEN 0 ELSE spentToday

\* Mutant: the allocation limit forgets what is deployed already.
EachWithinLimits(assets, total, already) ==
    /\ assets # 0
    /\ assets <= Share(total, maxSingleBps)
    /\ SpentSoFar + assets <= Share(total, maxDailyBps)
    /\ assets <= Share(total, maxAllocationBps)

WithinLimits(assets, total, already) ==
    /\ assets # 0
    /\ assets <= Share(total, maxSingleBps)
    /\ SpentSoFar + assets <= Share(total, maxDailyBps)
    /\ already + assets <= Share(total, maxAllocationBps)

(* _executeAllocate, but for the vault's call: the vault holds total, of   *)
(* which already is deployed.                                              *)
RecordAllocation(caller, assets, total, already) ==
    /\ MayAllocate(caller)
    /\ Live
    /\ CooldownOver
    /\ WithinLimits(assets, total, already)
    /\ Len(history) < MaxActions
    /\ dayStartedAt' = IF DayOver THEN now ELSE dayStartedAt
    /\ spentToday' = SpentSoFar + assets
    /\ lastActionAt' = now
    /\ history' = Append(history, [at |-> now, assets |-> assets, budget |-> Share(total, maxDailyBps),
                                   keeper |-> caller])
    /\ UNCHANGED <<now, keepers, paused, expiresAt>>

ExecuteAllocate(caller, assets) ==
    /\ RecordAllocation(caller, assets, totalAssets, deployed)
    /\ AllocateToAdapter(assets)

(* Recalls all and allocates the target again, or does nothing.            *)
ExecuteRecenter(caller) ==
    /\ MayRecall(caller)
    /\ \E lost \in Losses :
          LET total == idle + Realized(deployed, lost)
              target == Share(total, maxAllocationBps)
          IN  /\ AdapterPays(deployed, lost)
              /\ RecordAllocation(caller, target, total, 0)
              /\ idle' = total - target
              /\ deployed' \in {d \in 0 .. target : d + slippage >= target}
    /\ UNCHANGED <<shareVars, adapterVars>>

ExecuteRecall(caller, assets) ==
    /\ MayRecall(caller)
    /\ RecallFromAdapter(assets)
    /\ UNCHANGED <<now, policyVars>>

ExecuteRecallAll(caller) == deployed # 0 /\ ExecuteRecall(caller, deployed)

PolicyStep ==
    \/ \E keeper \in KeeperAccounts, allowed \in BOOLEAN : SetKeeper(keeper, allowed)
    \/ \E flag \in BOOLEAN : SetPaused(flag)
    \/ \E expiry \in Expiries : RenewPolicy(expiry)
    \/ \E caller \in Callers :
          \/ \E n \in Moves : ExecuteAllocate(caller, n) \/ ExecuteRecall(caller, n)
          \/ ExecuteRecenter(caller)
          \/ ExecuteRecallAll(caller)

Next ==
    \/ PolicyStep
    \/ (HolderStep \/ AdapterStep) /\ UNCHANGED <<now, policyVars>>
    \/ Tick

Spec == Init /\ [][Next]_vars

-----------------------------------------------------------------------------
(* What the allocations of some entries moved.                             *)
MovedIn(entries) == MapThenSumSet(LAMBDA j : history[j].assets, entries)

(* The day of the daily limit starts with an allocation, not at midnight:  *)
(* any day moves at most two budgets.                                      *)
AnyDayMovesTwoBudgets ==
    \A i \in DOMAIN history :
        LET day == {j \in 1 .. i : history[j].at > history[i].at - Day}
        IN  \E k \in day : MovedIn(day) <= 2 * history[k].budget

Deploys == idle' < idle /\ deployed' > deployed

(* Assets reach the adapter only under a live policy and by a keeper or    *)
(* the creator, never the owner alone, and then at most the target share   *)
(* is deployed.                                                            *)
LeashedDeployment ==
    Len(history') > Len(history) \/ Deploys =>
        /\ ~paused /\ now < expiresAt
        /\ history' # <<>> /\ history'[Len(history')].keeper \in keepers \union {creator}
        /\ deployed' <= Share(totalAssets' + slippage, maxAllocationBps)

(* "The creator can recall the position or atomically recenter it":        *)
(* docs/MVP.md.  With a live policy, an open adapter, the cooldown over    *)
(* and the day unspent, the creator can recenter.                          *)
CreatorCanRecenter ==
    Live /\ adapterOpen /\ deployed # 0 /\ CooldownOver /\ DayOver /\ Len(history) < MaxActions
        => ENABLED ExecuteRecenter(creator)
=============================================================================
