# Liquid Muppets: TLA+ models and proofs

Liquid Muppets is a launchpad for strategy vaults. A creator launches a vault
together with a token of whole-unit *Agent Keys*; keys are traded on a
marketplace; fees of the trades and of the MUPPETS pool are collected and shared
out every week to people who bond MUPPETS against keys, to a buyback vault, to a
stock reserve and to operations; the stocks bought are given away in drops;
keepers move the assets of a vault within the limits of its policy. The money is
moved by Solidity contracts (`src/contracts/src`), read and driven by a Python
backend (`src/backend/app`) and a TypeScript front end (`src/src`).

This directory models three layers:

- the contracts that hold other people's money. They run without supervision,
  cannot be corrected once deployed, and are called in any order by anyone;
- the parts of the backend whose state outlives a call and depends on the order
  of events: the activity indexer, the keeper's runs of the reserve, the claims
  of handles;
- the parts of the web client that decide about money or identity from what
  they remember and from what they read earlier: launch, funding, reinvestment,
  Key orders, drop claims, snapshots, polled views, followed Muppets.

To check a model: `tlc -workers 2 -config AgentBondExit.cfg AgentBondMC.tla`.
To check the proofs: `tlapm AgentBondProofs.tla`, and so on for each `...Proofs` and `SumLemmas`.

## 1. Inventory

`PROJECT.json` lists every component with its sources and status, every hazard
with its line, and for every definition the lines it models.

### Modelled

| component | state | operations | correct when |
|---|---|---|---|
| `MuppetAgentBond`, with the Earn page | positions; per-epoch weights, accumulators and remainders, for all holders and per key; what each position claimed; liabilities and totals; governance | `bond(WithTerm)`, `unbondPosition`, `claimPositionRewards`, `claimBuyAndBond`, `notifyReward`, `notifyKeyReward`, governance, `activate`, `pause`; the page's phases and buttons | a reward is shared among exactly the positions that earned in its epoch, every claim is covered, nobody's MUPPETS stay locked, the page shows what the contract grants and withholds nothing it would accept |
| `MuppetRevenueRouter` | a receipt per stream and week, a queue of weeks with a cursor, totals, unallocated shares, withdrawable funding | `receive`, `fund`, `claimPonsFees`, `recordKeyMarketplaceRevenue`, four routing calls, governance, `withdrawFunding` | every week is routed once, in order and in full; a week's bond share stays with that week; funding withdrawals never touch revenue |
| `KeyMarketplaceV2` | listings, offers with escrow and fee snapshot, fee, approved keys | create, cancel, buy, accept; `setFee`, `registerKey`, `setFactory`, `setRevenueRouter` | it holds exactly what open orders need, orders keep their terms, offers can leave |
| `StrategyVault` | idle assets, shares, the adapter's position | deposit, mint, withdraw, redeem; `allocateToAdapter`, `recallFromAdapter` | nobody pays for another's exit beyond the slippage, the last share empties the adapter, exits are not refused |
| `PolicyExecutor` | per vault: pause, expiry, cooldown, the day and what it spent; keepers | allocate, recall, recall all, recenter, pause, renew, `setKeeper` | assets are deployed within the limits only |
| `MuppetBuybackVault` | a budget per key, vesting lots, limits, keepers | `fundKey`, `executeKeyBuyback`, `releaseMuppets`, governance, `recoverExcessNative` | budgets are backed and separate, lots vest linearly and are released in full |
| `FeeRwaReserve` | routes, the next one's index, limits, pause, keeper | `receive`, `executeCycle`, `setRoutes`, limits, pause, rescue of ETH | every usable route has its turn |
| Keeper's reserve runs | last run, transaction lock, runs in flight, rows | `run_rwa_cycle`, the row its caller writes; restart | every purchase is recorded once, no two transactions share a nonce |
| Activity indexer | SQLite rows by transaction and log, the next block to read; in memory the list of agents | a refresh: agent list, head, chunks with their commits; retry, restart | below its window the index is final and agrees with the chain, and it catches up |
| `MuppetStockDrops` and its page | drops with budgets, claim bitmap, liability; the page's cards, its map and the browser's storage | fund, claim (also relayed); connect, load, claim, check a receipt | an allocation is paid once out of its own drop, and called claimed only when it was paid |
| Launch page | a record of submitted transactions per wallet in local storage; the page's session; the funding card | deploy, resume, approve and list Keys, reload; preview and deposit | a creation is never repeated by a resume, a record is true, a deposit is what was previewed |
| Reinvestment | a guard per wallet in the page, a hash per position in storage, the form's quote | edit, quote, accept, execute, check receipt | one purchase at a time, at a quote that still holds |
| Protocol data | snapshots, requests under way, the backend's cache | load, share, poll, wallet actions | what is shown is the wallet's own and includes its own actions |
| Polled views | request, answer, loading and error flags of each effect | turn to a subject, ask, answer, fail, leave | answers to old questions are not shown, and the screen says what is the case |
| Watchlist and Monitor | local storage, a copy per tab, alerts, read mark | toggle, mark read, refresh, storage events | the list is what was last chosen in any tab |
| Profiles | challenges, handles; the shell's account and handle | challenge, sign, claim, connect, disconnect | no handle has two wallets, and the header is true |
| Market board | filter, comparison, drawer, order under way; the two books | select, compare, buy, sell; trades of others | an order settles for the Key and price its drawer showed |

### Not modelled

| component | what it does | why not |
|---|---|---|
| `KeyMarketplace` V1 | the order book of the live deployment | the same orders as V2 with a fee to a treasury; the router model has it as a legacy payer |
| `AgentKey` | ERC-20 of whole units with a one-way bind | the binding is an action of `AgentBond`, the rest a plain token |
| swap executor, adapters | calls into external venues | stateless, or state of the venue; seen through what `AgentBond`, `BuybackVault` and `StrategyVault` assume of them |
| deployment scripts | one-off | their presets are the constants of `PolicyExecutorRecenter.cfg` |
| RPC failover | an ordered pool of endpoints | the indexer sees it as failing calls and heads that fall back |
| keeper's runs of vaults (`run_keeper`) | allocates on request | bounded by `PolicyExecutor` whatever it reads, see section 7 |
| strategy preview, drop tooling | pure functions, run off line | no state; `StockDrops` takes any allocation |
| read services, API shell | formatting, caches of chain reads | what matters of them is when their answers arrive, which `LiveData` and `LiveViews` have |
| presentation pages, test scripts, vendored libraries | static pages, tests, third-party code | no protocol state |

The factories, with the creator's slots, are modelled as far as the launch page
meets them (`LaunchFlow`).

### How they interact

```
 KeyMarketplaceV2 --recordKeyMarketplaceRevenue--> MuppetRevenueRouter <--escrow-- Pons fees
                                                     |        |      |
                    notifyReward / notifyKeyReward   |        |      | FeeRwaReserve <-- keeper
                                                     v        v fundKey    |
   AgentKey <--boundBalance, approved keys-- MuppetAgentBond  MuppetBuybackVault
                                                                     v (stocks, off chain)
   holders --> StrategyVault <--allocate/recall-- PolicyExecutor   MuppetStockDrops
                    |                                ^ keepers, creator, owner
                    v
                 adapter

 browser:  wallet <-- launch, funding, reinvestment, orders, claims --> contracts
           storage <-> tabs                    snapshots --> chain, backend's read proxy
           polled views, handles --> backend --> index of the chain, SQLite
```

Each arrow between contracts is a call inside the caller's transaction: if the
callee reverts, the caller does. Contracts therefore interleave by whole
transactions. What is hard is not preemption but the order of transactions: a
marketplace trades while the router is paused, the router routes a week long after
it ended, a position is claimed, notified again and claimed again, an owner changes
a fee under open offers.

In the backend and in the browser every `await` is a point where anything may
come between: another request takes the lock, the wallet changes, the page is
reloaded, a later question is answered first. What is hard there is what a call
uses after the wait that it read before it, and what is left behind when it never
returns.

## 2. Modules

| module | models | extends or instantiates |
|---|---|---|
| `AgentBond` | `MuppetAgentBond.sol`, with `boundBalance` of `AgentKey.sol` | |
| `EarnPositions` | what the Earn page shows and offers of the bond: `earn.ts`, `EarnWallet.tsx`, `RevenuePage.tsx`, `services/earn.py` | `AgentBond` |
| `RevenueRouter` | `MuppetRevenueRouter.sol` | |
| `RevenueSystem` | router and bond together, from a payment to the claims of those it was for | `AgentBond`, and `RevenueRouter` by `INSTANCE ... WITH` |
| `KeyMarketplace` | `KeyMarketplaceV2.sol` | |
| `StrategyVault` | `StrategyVault.sol`; the ERC-4626 conversions it inherits; an adapter | |
| `PolicyExecutor` | `PolicyExecutor.sol`, composed with the vault | `StrategyVault` |
| `BuybackVault` | `MuppetBuybackVault.sol` | |
| `FeeRwaReserve` | `FeeRwaReserve.sol` | |
| `ReserveKeeper` | `run_rwa_cycle` of `services/chain.py` and its callers, composed with the reserve | `FeeRwaReserve` |
| `ActivityIndexer` | `services/activity.py`, `commit_activity_index` of `database.py` | |
| `StockDropLedger` | what Stock Drops promise (abstract) | |
| `StockDrops` | `MuppetStockDrops.sol`, composed with `stockDrops.ts` and `StockDropsPage.tsx` | `StockDropLedger`, with a refinement mapping |
| `LaunchFlow` | `CreateAgentPage.tsx`, `launchSession.ts`, the launch calls of `protocol.ts`, the factory and market it calls | |
| `LaunchFunding` | the funding card of a launched Muppet and its deposit | |
| `Reinvestment` | `reinvest.ts`, `RewardReinvestment.tsx` | |
| `LiveData` | `useProtocol.ts`, snapshots and wallet actions of `protocol.ts`, the proxy of `routers/system.py` | |
| `LiveViews` | the effects of seven pages that ask the backend, `api.ts` | |
| `Watchlist` | `watchlist.ts`, `monitor.ts`, `useWatchlist.ts`, `MonitorPage.tsx`, the market record of `performance.py` | |
| `Profiles` | `routers/profiles.py`, `wallet.ts`, `HandleModal.tsx`, `AppShell.tsx` | |
| `MarketBoard` | `MarketplacePage.tsx`, Key orders of `protocol.ts`, the order books of both markets | |
| `SumLemmas` | lemmas about sums over finite sets | `TLAPS` and its theorem modules |
| `AgentBondProofs` | theorems about the bond, the Earn page and the system of router and bond | `EarnPositions`, `RevenueSystem`, `SumLemmas` |
| `RouterProofs`, `LaunchFlowProofs` | theorems | the component, `SumLemmas` for the first |
| `KeyMarketplaceProofs` | theorems about the marketplace and the activity index | both components, `SumLemmas` |
| `BuybackProofs` | theorems about the buyback vault, the reserve and its keeper | `BuybackVaultMC`, `SumLemmas` |
| `StrategyVaultProofs` | theorems about the vault, free and under its policy | `StrategyVaultMC`, `SumLemmas` |
| `WebClientProofs` | theorems about the client's parts and the drops | `WebClientMC`, `SumLemmas` |
| `...MC` | instances for TLC | the component or components |

Some instances hold several components side by side: a behaviour of `WebClientMC`
is one of one `part`, the other parts stay as they begin, and the same holds for
`BuybackVaultMC` (vault, reserve's round, keeper's runs), `KeyMarketplaceMC` (marketplace, index),
`StrategyVaultMC` (the
executor free, or on the policy's leash), `RevenueRouterMC` (governed, or live) and
`RevenueSystemMC` (the bond's books, or the whole system).
The components that are put together only this way share no state in the code either: they meet in
the contracts and in the backend.

Conventions common to all of them:

- One external function is one action. Its parameters are the action's, the
  caller included where the code looks at `msg.sender`. A `require`, a custom
  error or a modifier is a guard; a revert, also one of a callee, is an action that
  is not enabled. What a private function does is a named operator with the name
  of that function where it has one (`_bond` is `OpenPosition`,
  `_claimPositionRewards` is `SettleClaim`).
- An asynchronous function of the client or of the backend is a record in a
  variable (`calls`, `jobs`, `tasks`, `runs`...) with a `pc`; what it does between two
  `await`s is one action. An effect that was cleaned up, a component unmounted or a
  page reloaded leaves the call's transaction running and takes from it what
  it would have written.
- Solidity's checked subtraction is a guard where nothing else implies it, and
  everywhere a member of `Nat` in the type invariant: a subtraction that wraps
  would leave it.
- Overflow of 256-bit and 128-bit integers is out of range of the amounts in use
  and is not modelled; the integer divisions are, with their truncation.
- Where the contract keeps one mapping for all holders and another one by key,
  the model has one function over `Streams == {GlobalStream} \cup Keys`.
- Events, views and wording are left out, except where a property is about them:
  `pendingPositionRewards`, because it subtracts without a test; the
  `AllocationExecuted` events, which are the variable `history` that the limits
  are stated over; the `Claimed` events of the drops, `payouts`; and what the
  pages show.
- A definition preceded by `\* Mutant:` is the neighbour's plausible bug; the
  specification never uses it. `PROJECT.json` pairs each with the property that it
  breaks.

### AgentBond and EarnPositions

Time is in days, and every duration of the contract (7, 30, 90, 180 days) is a
whole number of them. `Instants` are the days on which transactions are sent;
their distance to the week's boundary is what the rounding of `FirstEligibleEpoch`
and `LastEligibleEpochExclusive` depends on. `BindKeys` is the one-way
`AgentKey.bind`. `muppetsHeld` and `wethHeld` are the contract's balances, kept
apart from the books so that the books can be compared with them.
`ClaimBuyAndBond` contains the claim, the swap with its measured output
(`bought`, at least `minimumOutput`), the bond and the return of both rests.

`EarnPositions` adds no state: the phase of a position, the buttons and the totals
of the Earn page are operators over the contract's books, with the page's clock
taken as the chain's, and with the dates the API computes. Pagination is left out, and so are the
wallet's MUPPETS, which the bond button does not look at.

### RevenueRouter

The clock counts weeks. `AdvanceWeek` ends a week and fixes, for each stream,
whether the bond had weight in it (`weighted`): that this is final is
`AgentBond!StartedEpochsAreFrozen`, proved as `WeightsFreeze`, and `RevenueSystem` shows that
nothing else is needed of the bond. The calls to bond
and vault are seen through `outages`, the reasons for which they revert: the bond
is paused, it names another notifier, the vault names another router. `RouteNext`
is the body of the single and of the batched calls: the next n complete weeks, all
or none.

### RevenueSystem

The state is that of both contracts. What `RevenueRouter` leaves to its environment is
read from the bond, as the code reads it: the week from the one clock, `weighted` from
`totalRewardWeightAtEpoch` at the moment of routing (`weightedWeeks`), the bond's part of
`outages` from its pause and its notifier (`refusals`). The other way round,
`RouteWeek` is one transaction of both: the router settles a week and the bond's
`NotifyReward` is called with the share and with the week of the receipt
(`NotifiedEpoch`); if the bond refuses, nothing happens. Another notifier whom the
owner appoints pays in `OtherPays`, which `otherPayments` remembers.

A batch goes through the states of the single routings it consists of, so that single ones are
enough to reach every state. The buyback vault always accepts here; `RevenueRouter` has the
routings that it refuses. The clock meets the start of each week (`BondStep`): time passes
there whether or not anything is sent.

### KeyMarketplace

Listings and offers are sequences, ids being their indices. `escrowedKeys` and
`nativeBalance` are the contract's own balances. `routerOpen` is whether
`recordKeyMarketplaceRevenue` accepts the call of this marketplace, and
`RefusesEth` are accounts whose code rejects a payment, which reverts the trade.

### StrategyVault and PolicyExecutor

`deployed` is what the adapter reports. An adapter has a `slippage`: it may lose
that much on each movement, 0 being an exact one. A recall of all is paid with what
closing the position realizes. A recall of part is paid exactly or reverts: a range
that is asked for nearly all it is worth is closed, and when its trades lose more than
the rest, `EZManagerRangeAdapter.withdraw` reverts with `SwapOutputTooLow`
(`AdapterPays`). `AdapterMoves` is the adapter's market, `SetAdapterOpen` its refusals
for other reasons. `Leave` is what a holder does who wants out: he redeems
everything, or, where a loss could make the adapter refuse that beside other holders
(`SurelyRedeemed`), withdraws all but `slippage`. In `StrategyVault` the executor is free; in
`PolicyExecutor` its two calls happen only inside the policy's actions.
`ExecuteRecenter` recalls and allocates in one transaction, with the limits
computed on what the recall brought.

### BuybackVault, FeeRwaReserve, ReserveKeeper

The vault: a budget per key, a sequence of lots. A purchase brings any of `Outputs`;
that it reaches the caller's minimum is the swap executor's promise. `ReleaseMuppets`
takes the pages anyone may ask for, which may overlap and repeat. `ForceNative` is ETH
that arrives without a call.

The reserve: a route is usable when it is enabled, its oracle answers and its pool
has liquidity; `OutageChanges` makes and ends failures between any two calls.
`setRoutes` is one change of one route per transaction. Prices and minimum outputs
are abstracted: the swap delivers the minimum or the cycle reverts.

The keeper: a run takes the rate limit under its lock, reads the reserve call by call,
takes the transaction lock, sends, waits for the receipt, and its caller writes the
row. `GivesUp` is a wait that ends too early, after which the transaction may still
be executed; `Restart` loses the runs and the clock's start. What the code does
and the model therefore shows: the monotonic clock counts from the machine's start, so a
first run within the interval after boot is refused; and the amount recorded is
read before the transaction and may differ from what it spent.

### ActivityIndexer

The chain is a sequence of sets of transactions; it grows and is cut back at any
step of a refresh. A transaction launches an agent, logged by the factory whose
address is in the settings, or uses an agent, logged by that agent's own vault or
key, which is asked for only if the agent is in the cached list. One refresh runs at
a time (`_lock`), as a sequence of steps: `StartRefresh` reads the count,
`LoadAgent` one agent each, `ReadHead` the head and the state row, `ReadChunk` the
logs of a chunk, `CommitChunk` writes it in one database transaction, together with
the deletion of the window when it is the first. `FailRefresh` is an exception
anywhere, after which the retry starts from the database; `Restart` also loses
the cache. A row's key is its transaction, so that one mined again in another
block moves its row, like `ON CONFLICT(id) DO UPDATE` does. Order rows are deleted and
written with the events and follow them.

### StockDrops and StockDropLedger

The contract keeps the drops of one token in one balance: `inventory` is what it
holds, `liability` what it owes, and `IssuerAdjusts` is a token whose issuer takes
units back. Tokens share nothing, so one is modelled; a Merkle proof is the
allocation it proves. The page has a card for each drop; a claim is a job that
reads, simulates, has the wallet sign, remembers the hash in the page's map and in
storage, and waits for the receipt. `RelayClaim` is the same claim sent by someone
else, `Reload` forgets the map, `Connect` changes the wallet under jobs that go on.

`StockDropLedger` says what all this is for: budgets, allocations paid once and
out of their own budget, and a holder told so only afterwards. The mapping is
`left` = what is left of each drop, `paid` = the `Claimed` events, `told` = the
cards that say so.

### LaunchFlow and LaunchFunding

A session is the page's form and its checkpoint; `storage` the record per wallet,
which other tabs and other sessions of the page read and write; `chain` the
transactions. A call of `deploy` or `openKeyMarket` goes from stage to stage (create,
approve, list): access checks, signature, hash recorded, receipt, receipt recorded. Glitches
are everything that separates a call from its page: reloads, departures, reconnections,
answers that cannot be read. What a launch deploys is one transaction with one outcome.

`LaunchFunding` has the card's target, which is read again every 15 seconds and is a new
object each time, the preview that is asked for after it or the amount changed, and
the two confirmations of a deposit.

### Reinvestment

Rewards, bound Keys and purchases of one wallet and one Key. `guard` is the module's
map in the page, `kept` the hashes in storage. A purchase is quoted, accepted and
executed: preflight, signature, submitted hash, receipt with a time limit. The
quote expires with the clock. `crossed` marks the one case in which the guard does
not guard: call A waits for its receipt in a form that was closed, the holder
looks the receipt up in a new form and starts B, and A's late answer then removes the guard and the hash
of B. The comment in `reinvest.ts` (95–96) has the guard per wallet, and what
removes it does not ask whose it is (353). A third purchase can then go out beside B:
`OnePurchasePerPage`, which has no exception, is refuted by the run `reinvest_guard`
(section 6), and `OnePurchaseAtATime` says that nothing else breaks it.

### LiveData, LiveViews

`LiveData`: `head` and `world` are the chain's state as versions and as what is there to
act on. A load is a hook's call of `loadProtocolSnapshot`, which may join one that
is under way (`shared`) and whose chain reads may come from the backend's proxy (`proxy`)
unless it asks for fresh ones. Actions are those of three pages, each with its
transactions and what it reads again afterwards. A snapshot stands for the
oldest of its reads, and one action is in flight at a time.

`LiveViews` describes each view that asks the backend by its traits: whether it asks
only when no request of its own is under way, whether an answer to an earlier effect
is ignored, whether it is timed, which subjects it turns to, when it says that it reads,
whether it tells of errors. `Screen` is what the page shows. `request` in `api.ts` has no time limit, so that a request may also never end.

### Watchlist, Profiles, MarketBoard

`Watchlist`: `stored` is local storage, `copies` what each tab has, `unheard` the tabs with
a storage event under way. Alerts come from the summaries and the pulse of the backend
(a market that cannot be read leaves the last readable one on record and makes another alert).
`follows` and `marked` are ghosts: what the holder last chose.

`Profiles`: a claim request is copied by retries; its handler looks the challenge up in one
connection and consumes it in another, with `UNIQUE` on the handle in the database. The
shell's reads and claims outlive the connection; `overtaken` marks that one did.

`MarketBoard`: ids count per market, and there are two of them. The drawer keeps price and
amount when it goes on to another Muppet, and may be closed and opened again while an order is under
way. Others trade at any time, and the owner changes fees; a settled order leaves a receipt
that names what was shown.

## 3. Runs

| run | question | instance |
|---|---|---|
| `revenue_system` | Are rewards conserved, covered and final, and do the books agree with the positions and the balances? Does the revenue of a week reach those who bonded through it, all of it and nothing else? | books: 2 holders of one key, 3 positions, of which one is bought with rewards, a keeper's rewards up to 3 wei per stream; system: one holder, 2 streams, payments of 2 wei up to 4 in all, five weeks, governance interrupts one of them, another notifier |
| `bond_exit` | Does every lock end, whatever the owner does, and does the Earn page say when? | all of governance, 2 terms, 2 registries of which one approves nothing, an owner that has no code |
| `router` | Is every week routed once, in order, in full, and in the end? | 2 streams, 3 weeks, payments of 5 wei up to 10 per stream; governed with one payment, live with several |
| `market_index` | Is everything escrowed, do terms hold, can offers leave? Is what is below the index's window final and right, and does it catch up? | 3 keys, 2 offers, a listing, 3 fees of which one is too high, a buyer that refuses ETH; one agent, 6 blocks, chunks of 2, two reorganisations of up to 3 blocks, one failure or restart |
| `vault` | Who pays for whom, who can leave, and what may the policy's executor do? | 2 holders, exact and lossy adapters, yield and losses; beside it a day of 4 ticks, cooldown 1, limits that allow recentering |
| `policy_recenter` | Can the creator recenter, as the documentation says? (**no**, see section 6) | the `defensive` preset |
| `buyback` | Are budgets separate, lots held, vesting linear and complete? Do routes take turns? Is each purchase of the keeper recorded? | 2 keys, 2 lots that overlap in time; 3 routes and 3 cycles; 2 runs, 2 transactions, one miss |
| `indexer_agents` | Is the cached agent list that of the chain? (**no**, see section 6) | two agents, a reorganisation of one block |
| `launch` | Are records true, is a creation never repeated, is a started launch resolved? | a wallet, two calls, 3 transactions, 3 glitches |
| `launch_listing` | Does a listing ask for what was approved? (**no**, see section 6) | two quantities, one glitch |
| `reinvest_guard` | Does the page keep an unconfirmed purchase guarded? (**no**, see section 6) | two positions, 3 purchases, two mishaps, a clock that stands still |
| `web` | The eight client parts, one at a time | a wallet and two positions for purchases; two wallets elsewhere; two tabs for the watchlist; one mishap each |

What the less obvious properties say:

- `RewardsAreConserved`: quotients times weight plus the carried remainder are
  exactly what was notified, however payments were split, and claims are covered;
  rounding can only leave dust with the contract. `BooksMatchPositions` compares
  the totals with the positions: weights, payouts, bonds.
- `EntitlementsNeverShrink` and `StartedEpochsAreFrozen`: a latecomer cannot
  dilute an epoch. That `unbondPosition` leaves the weights as they are is sound
  because every epoch of a position is over when it unlocks
  (`EarnsOnlyMaturedLockedEpochs`).
- `EarnShowsTheBond`: the phase of a card agrees with the epochs the contract pays, and
  a claim or a withdrawal is offered exactly when its transaction would succeed. A bond is
  offered whenever the contract would take it, within the model's bounds. The converse does not
  hold: `canBond` does not ask whether an allowed registry still approves the key, and one of the
  run's two registries does not, so that bonds are offered there which revert. The property says that
  this is the only reason for which the contract's own books refuse an offered bond.
- `RevenueIsAccountedFor`: the balance is what is still to route, and a routed
  week's shares add up to its revenue. `QueueIsFaithful`: a week is queued by its
  first payment, which the code recognizes by a revenue of zero, and advanced over by
  a cursor; the two together are the set of weeks that received something and
  the set that is finalized.
- `RouterSteps`: the system does on the router's variables only what `RevenueRouter` lets
  happen, in which a week's weight is fixed as it ends. In the code it is read whenever somebody
  routes; that this makes no difference takes the bond's rounding of epochs. `WeeksReachTheirBonders`:
  for each stream and week, what the bond shares out is what the router delivered from that
  week's receipts and what others gave for it. `PayoutsStayWithinRevenue`: along both contracts, with
  their four divisions, what was claimed for a week is at most half of its revenue.
  `RevenueReachesItsBonders`, which the run checks, is the two together.
- `EscrowCoversOffers`: the escrow holds one rounded fee, partial fills take
  several; whatever their number, the rest is still paid for.
- `OthersPayOnlySlippage`: the virtual shares and the direction of each rounding
  protect the others. The recall an exit makes may cost them its slippage, and no
  more: this is a property of the code, not a flaw.
- `DepositorsCanLeave`: whoever keeps trying to leave a vault whose adapter pays is out in the
  end, the last holder with all there is, one beside others with all of his shares or with
  all of the vault but `slippage`. It does not say that a redemption of all one's shares succeeds:
  beside another's dust it may revert for ever (section 7).
- `OnlyLeashedDeployments`: every allocation keeps cooldown, expiry and limits, and no
  sliding day holds more than two budgets. Two, because the daily limit is a fixed window
  that starts with an allocation.
- `RoutesTakeTurns`: between two purchases of one token every other that was
  usable all the while was bought, though the list and its index change.
- `RunsAreRecorded`: a row names one executed transaction, an executed one has a row or a
  run that will write it, unless the run was given up; one waits at a time.
- `SettledRowsAreRight`: a block is read once more as long as it is within the
  window of the cursor; below it must never need to be. This holds while
  reorganisations reach at most `Confirmations + Window` blocks below the highest
  head, which is the assumption on `ReorgDepth`, and the run uses the full depth.
- `StoredRecordsAreTrue`: a record that readers would reject would be discarded and its
  launch repeated; so whatever is stored is one they accept, and what it
  and the trackers call confirmed was executed. `ResumeNeverDuplicates`: of two creations the
  second was told of the first only if that one reverted.
- `PurchasesAreGuarded`: of the purchases sent since the page was loaded at most one is pending,
  but for the case of `crossed`, which `reinvest_guard` shows; and
  the quote to accept is for what the form and the page show.
- `LoadedViewsAreCurrent`: a page without error or spinner shows its own wallet's
  snapshot, at or after its last confirmed action.
- `AnswersComeInOrder`: no view shows an answer to a question it no longer asks, a view that
  waits for itself never goes back in time, and loading, failed and ready are what they say.
- `FollowsAreKept`: toggles are read-modify-write on storage from tabs with old copies; none
  undoes another.
- `HandlesAreTrue`, `DepositsAreAsPreviewed`, `BoardIsTrue`: what was signed is what was
  shown, whatever changed between the two.
- `ImplementsLedger`: the refinement of section 2. `ClaimsSpareOtherDrops`: no claim is paid
  out of what the other drops still owe, when the issuer has taken tokens back.

### Bounds and why they are enough

Bounds are constants, named in the modules and commented as `bound`; each is
a guard of the one action that would grow without end.

- Two holders with a position each are what it takes for one to dilute, outrun or
  outlive the other. In the books a reward of the week to day 14 is claimed and reinvested on that day;
  the third position, which it buys, matures by day 21, earns in the week to day 28 and is claimed, too. The symmetry over holders is used in `revenue_system` only,
  which checks no liveness and does not tell the holders apart.
- `Instants` differ by run: a bond on a week's first day, in the middle of it and one that
  unlocks on a boundary are all there; the books have days on which positions are
  immature and earning, the system and `bond_exit` also some on which they are unlocked.
- `UnitSize` is 2, to tell units from MUPPETS; `Precision` is 20 000, of the
  order of the weights, so that divisions have remainders (with the contract's
  1e27 none would show at this size).
- `revenue_system` begins at go-live, in week 0, with two instances in one state graph. In the
  books nothing is routed and governance is quiet, so that the states go to bonds and rewards; holders act on
  `BookDays`, and the days on which a week begins between these only pass. In the system a bond opened in
  week 0 or 1 earns from the week after on, for three weeks, and the first one may be withdrawn
  in week 4. So there are weeks with and without weight, and each is routed as soon as it is over
  or up to three weeks late. In one of them (`InterruptedWeek`) the router is paused for a while, or the bond
  is, and its notifier is another. `MaxRevenue` allows two payments, to one stream or to both.
- Amounts are chosen for their remainders: 5 wei splits into 2, 1, 0 and a rest;
  15 wei at 1000 basis points rounds 1.5 down.
- Six blocks, with one confirmation, a window of two and chunks of two, is the
  least in which a refresh has three chunks, a block is settled while later chunks
  are outstanding, and a deepest reorganisation ends just above a settled block.
- In the policy's runs the day is 4 ticks and the year, the longest renewal, as
  well; this makes expiry, renewal and the end of a day meet within 7 ticks.
- In `bond_exit` one registry approves every key and the other none; the contract comes to refuse
  a key when the first is dropped and the second is allowed.
- Three routes and three cycles: one comes round again, with another between; the fourth
  setting adds the third route to a round that has begun.
- Two calls in every part of the client: one that is left behind and one that
  is started after it. Three launch transactions are a creation, its repetition
  and an approval, or the three stages in a row; three glitches are a reload, a return and
  one thing going wrong on the way. Two drops with one balance; two hashes for one
  allocation. Two windows and one tracked Muppet of two. Three readings of a view: one late, one
  shown, one new.
- `reinvest_guard` needs three purchases, of which two are open at the end, and two mishaps, a form
  that is left and an unclear answer. `web` has two purchases and one mishap, so that the exception
  of `PurchasesAreGuarded` never applies in it: what it finds guarded is guarded.
- In `web` one mishap per part suffices because each property is broken, in the mutants, by a single
  late or lost answer; the parts' own interleavings are unrestricted.
- `router` has one half of its states from go-live on. Governance is explored by `bond_exit` and by the
  other half of `router`.

Deadlock is not checked: every behaviour ends at a bound, when the clock has run
out and all is claimed, or every call has returned.

## 4. Fairness

Nobody has to act on a chain. Each liveness property assumes only that time
passes and that the party that wants something keeps asking for it.

| specification | assumed | not assumed |
|---|---|---|
| `AgentBond!FairSpec` | time passes; a holder who may unbond does | anything of the owner, who may pause for good, drop registries or leave no notifier |
| `RevenueRouterMC!MCSpec` | weeks pass; someone calls a routing function of each stream (anyone may). The property assumes besides that pauses and outages end for good at some time | that they end soon, or how many weeks pile up meanwhile |
| `KeyMarketplaceMC!MCSpec`, marketplace | a buyer keeps cancelling | that the router accepts anything |
| `StrategyVaultMC!MCSpec` | a depositor keeps redeeming all his shares or, where the adapter might refuse that beside others, withdrawing all but the slippage. The property assumes that the adapter pays from some time on | any help of the executor |
| `BuybackVaultMC!SpendingSpec` | time passes; the beneficiary releases lot by lot | that the vault is ever unpaused, or that keepers act |
| `KeyMarketplaceMC!MCSpec`, index | blocks come; the scheduled loop calls `refresh` for ever and its calls return | how long; the failures, restarts and reorganisations are bounded in number, which stands for being over some day |
| `LaunchFlow!FairSpec` | transactions are mined, calls return, the holder answers the wallet one way or the other, and comes back to a started launch and presses Resume | that nothing goes wrong on the way; the number of glitches is bounded |

All of it is weak fairness: the assumed action stays enabled until it is taken,
or the party is not entitled to anything. The run `web` has none and checks safety
only: there is no time limit on the client's requests, so that nothing in its code
makes a pending answer come.

## 5. Proofs

Every safety property that a passing run checks, invariant or action property, is a theorem. The theorems hold for all accounts, keys, orders,
routes, tabs, calls and bounds that satisfy the named assumptions; the bounds of the instances are
constants of the theorems, too. The assumptions say little more than that amounts are natural
numbers, that sets of addresses are finite where the books add over them, and that what stands for
"none" is none of the others. TLC evaluates each of them in a run (those of the client's parts as
`WebClientMC!InstanceIsProvable`, the reserve's as `BuybackVaultMC!ReserveIsProvable`). The
theorems about the drops name `DropsAssumption` as their hypothesis, those about the index that `Window`
is not 0.

Each component's argument has the same form: an inductive invariant whose parts are named for what
they say of the code, a lemma for each action, a theorem for the invariant, and short theorems for
the properties that follow from it.

`SumLemmas` has what the books need: what `SumFunctionOnSet` of the community modules gives for the empty
set, when one member changes, is added or left out, when two functions are added, when two sets are
joined, when the order of two sums is exchanged. The library's induction theorems take an operator
as a parameter, which the provers cannot instantiate. The lemmas argue with a smallest
counterexample instead: the subsets for which a claim fails are themselves a set, and a set of
finite sets that is not empty has a smallest member (`FiniteMinimum`).

`AgentBondProofs`:

- `TypeCorrect`: `TypeOK` is inductive by itself. The ranges in `SettleClaim`, which
  stand for the code's refusal of an empty claim and its checked subtractions,
  bound what a claim pays without unfolding the sum over epochs; one step per
  action.
- `ActivationSafe`: from the guards of `Activate` and from the registry and the
  notifier being settable only while paused.
- `PositionsInvariant`: the inductive invariant of the time structure. A position's
  fields are functions of the day it was opened on: maturity, unlock time, and the
  two epochs that rounding makes of them; a withdrawn position has passed its unlock
  time; `lockedUntil` covers all. It is needed because what is claimed is not
  inductive: that a withdrawn position earns no more holds after the next tick only
  through the relation of its last epoch to its unlock time, which the claim does
  not mention. The invariant gives `EarnsOnlyMatured`, `WithdrawnEarnNothing` and `LockedUntilCovers`.
- `WeightsFreeze`: only bonding writes weights, in epochs from
  `FirstEligibleEpoch(now + 7)` on, and the rounding makes these later than the
  running epoch.
- `EntitlementsGrow`: accumulators only grow, and a position keeps its weight and
  its key.
- `ClaimsWithinEntitlement`: a claim record equals an entitlement of some time,
  and entitlements only grow.
- `LiabilityBacked`: balance, liability and the totals change together in every
  action.
- `BooksMatch`, from three theorems: the weight of an epoch is the sum over the positions that earn
  in it (`WeightsMatchEarners`), the books per account, per key and in total are those of the open
  positions (`BondsBacked`), and the rewards paid are the claim records (`PayoutsRecorded`).
- `AccumulatorsConserve`: quotient times weight plus remainder, summed over epochs, is what was
  notified. It is inductive only together with `OnlyCompletedEpochsArePaid`: a notification divides
  by the weight of an epoch that is over, which by `WeightsFreeze` no later bond changes.
- `RewardsConserved`: solvency. What the positions may claim is a sum over positions of sums over
  epochs; exchanged, it is bounded in each epoch by quotient times weight, and so in total by what
  was notified.
- `EarnShown`: a button of the Earn page is compared with what the contract may refuse, `CanSettle`,
  `CanUnbond` and `CanOpenPosition`, which are the guards of the actions and every subtraction in them. That nothing else
  refuses is the content of three invariants: a wallet has claimed at least what it reinvested
  and has bound the keys of its positions (`WalletsInvariant`), the ledger's totals are sums over its
  streams (`TotalsInvariant`), a key's units are the sum over its holders (`KeyTotals`). That a
  page without claims before the first epoch is right needs that an epoch is paid only when it is over
  (`OnlyCompletedEpochsArePaid`). `TotalsAreTrue` compares sums by position with sums by key.
  Of a bond both directions are proved: what the contract would take is offered, and what is offered
  and refused is a key no allowed registry approves. The second needs `ActivationIsSafe`, so that a bond
  that is shown as live has a notifier and a registry.

`AgentBondProofs`, of the system of router and bond:

- `SystemImplementsBond`: the system is a behaviour of `AgentBond`, so that each theorem
  above holds in it. This is not a matter of form: the share that the router pays has to be
  one a notifier may pay. With it the invariant `LedgerInv`: a queue has increasing
  weeks up to the current one, each with revenue; only weeks before the cursor have been
  delivered anything, and then at most half of their revenue.
- `SystemImplementsRouter`: each step is one of `RevenueRouter`'s, or leaves the router's variables
  as they are. A day that ends a week is `AdvanceWeek`, which is where the assumption of `RevenueRouter`
  about `weighted` becomes a proof obligation: the completed weeks keep their weights
  (`CompletedWeightsStay`, from `WeightsFreeze`). The pause or a new notifier of the bond is a change
  of `outages`. Hence the theorems of `RouterProofs` hold in the system.
- `WeeksReach`: a payment adds to the bond's ledger of its epoch (quotient times weight, with the
  remainder) what the router adds to `delivered` or another notifier to `otherPayments`, and no other step
  changes any of them. It is not inductive alone: that settling a week does not count
  a delivery twice follows from the queue (`LedgerInv`, `NotDeliveredYet`), and that the weight has
  not moved since the earlier payments of the epoch from `OnlyCompletedEpochsArePaid` and `WeightsFreeze`.
- `PayoutsWithinRevenue`: from `WeeksReach`, with the bond's own solvency taken epoch by epoch: the
  shares of the holders are together at most quotient times weight, and what is delivered at
  most half of the revenue.

`KeyMarketplaceProofs`, of the marketplace:

- `TypeCorrect`, with the fee of every order and of the day within the limit.
- `EscrowCovered`: `EscrowCoversOffers` is inductive by the lemma
  `FeesOfPartsFit`: the rounded fees of two parts are together at most the rounded
  fee of the whole, so a fill leaves enough for the rest (`FillLeavesEnough`). It
  is what makes the subtraction of an acceptance safe, so the guard of
  the model that stands for it never bites.
- `TermsKept`: case by case over the actions on orders.
- `EscrowExact`: balances against the sums over open orders, and for each key the hands and the
  escrows against the supply; an action changes one order and one account.

`KeyMarketplaceProofs`, of the activity index, which follows the marketplace's orders:

- `IndexCorrect`: the inductive invariant `IndexInv`. What is final for a head that was read lies
  `Confirmations + Window` below the highest head there has been (`Confirmed`), hence out of
  reach (`FinalIsOutOfReach`). `CursorTrue`: rows lie behind the cursor and are right
  below its window. `RefreshTrue`: a refresh goes on at the cursor or, before its first commit, at
  the block from which it will delete, and below that what is final for its head is right.
  `ChunkTrue`: the same of what was read and is not yet committed. The property alone is not
  inductive: the first commit of a refresh takes the cursor back, later ones move it on past blocks
  about which only the refresh knows.
- `SettledRight`. Without a window it would be false: `safe_head` is never below the deployment block,
  which a first refresh would take for settled while it can still be replaced. The setting's
  default is 12.

`RouterProofs`:

- `RouterCorrect`: the invariant `RouterInv` says that a queue is the ordered weeks with revenue and
  its cursor's prefix the finalized ones (`Faithful`), that the totals of a stream are the sums over its
  weeks, that each receipt's parts add up, and that the balance is the sum of what streams have still to
  route, the unallocated and the funding. Every action is one of four shapes (a week passes, funding moves, a
  stream receives, a stream routes the next n weeks); that batches stop at the first
  incomplete week is `ReadyWeeksComeFirst`.
- `QueueFaithful`, `RevenueAccounted`, and two theorems that no run repeats: `SharesStay` (a week
  delivers at most half of its own revenue, and nothing without weight) and the action property
  `FinalizedHistory` (the receipt of a routed week does not change any more).

`BuybackProofs`:

- `VaultCorrect`: budgets and lots as sums; each lot within linear vesting in the multiplied form
  (`SoundAt`), so that no division is under the induction; products are taken step by step, since
  they are not linear. `BooksBacked` and `VestingLinear` follow.
- `TurnsTaken`: `RoutesTakeTurns` looks back over pairs of purchases. The invariant `TurnsAreKept` looks
  ahead: a token usable since a purchase, and not bought since, stands before that purchase's token
  in the order from the next index on (`Ahead`), which the list's changes preserve.
- `RunsRecorded`: a run owns its transaction from sending to return (`RunsFit`), one at most is sent
  (`OneIsSent`, the transaction lock), rows are of successes and each of its own transaction
  (`RowsFit`), and a transaction not given up has its run or its row (`TxsFit`).

`StrategyVaultProofs`:

- `OthersSpared`, `LastShareCloser`, and the same under either executor (`...Either`). What one share
  is worth is a quotient of products; the lemmas compare cross products, with the rounding of each
  conversion taken against the caller. They need that the supply is what the holders have
  together (`SharesAddUp`).
- `LeashKept`: that no sliding day holds more than two budgets is not inductive, and no variable
  says on which policy day an entry was made. The invariant `PolicyFits` asserts a *day
  book*, an assignment of starts to the entries of the history: starts at least a day apart, each
  entry within the day of its start, each day within its budget. A sliding day meets at most two of
  them.

`LaunchFlowProofs`:

- `LaunchCorrect`: a record is true of a chain (`TrueIn`) when its transactions were sent in its
  stages, its confirmations are successes and the stages are in order; later chains keep records
  true (`Extends`). Storage, pages and calls hold true records, and a call that will send a creation has
  seen the one it was told of revert (`CallIsSound`). `RecordsTrue` and `NeverDuplicates` follow.

`WebClientProofs`, one section per part; a behaviour is of one part, so each theorem rests on the
invariant of its own:

- `HandlesTrue` (`ProfileInv`): a request in the backend comes from a claim that was signed, reads
  and claims are of the wallet they began with, the header is true or was overtaken.
- `DepositsAsPreviewed` (`FundingInv`): a preview is of the form it is shown in, and what was
  deposited and what is outstanding or allowed together never exceed what was started, a sum
  over the calls.
- `PurchasesGuarded` (`PurchaseInv`): outside `crossed` the guard always knows the one call that may
  send or wait, or the one purchase that is out (`GuardKnows`).
- `FollowsKept` (`WatchInv`): a tab without an event under way has what is stored.
- `AnswersOrdered` (`ViewsInv`): an action property, from what each view's traits allow its requests
  to be (`AsksFit`).
- `LoadedViewsCurrent` (`DataInv`): what every cache and every load may hold, by when it was asked for.
- `BoardTrue` (`BoardInv`): books only grow or close orders, so what a drawer quoted stays what its id
  means.
- `DropsInvariant`, in five parts. `Books`: a drop never
  pays more than it has, and its claim bits are the `Claimed` events. `Transactions`: a
  transaction that succeeded was paid. `Memory`: a hash that the page or the storage keeps for an
  allocation is of a claim of that allocation, which is why a receipt found through it may be
  believed. `Pages`: a card, and the evidence behind it, is for the wallet that is
  connected, and what it calls claimed is paid. `CallsOK`: the same of what a call carries past its
  waits. None of the parts is inductive alone: a card is true because the call was, the call because
  the hash it read was, the hash because of the transaction.
- `DropsImplementLedger`: with it every step of `StockDrops` is a step of `StockDropLedger` or
  leaves it alone: `fundDrop` is `Fund`, a mined or relayed claim is `Pay`, everything
  else is `Tell`.
- `OtherDropsSpared` (`Solid`): the liability is the sum of what the drops have left.

### Only model-checked

- Liveness: `LockedMuppetsReturn`, `OffersCanAlwaysLeave`, `RevenueIsEventuallyRouted`,
  `DepositorsCanLeave`, `EveryLotIsReleased`, `IndexCatchesUp`, `StartedLaunchesAreResolved`. Fairness is
  out of the prover's reach.
- `CreatorCanRecenter`, which speaks of `ENABLED`, and the three other properties that are refuted.

## 6. Disagreements between code and documentation

`policy_recenter` is expected to find a violation. `docs/MVP.md` says that the
creator can atomically recenter a position. `PolicyExecutor._executeAllocate`
applies to a recenter the limit on one action, and a recenter always asks for the
whole target allocation. Under the `defensive` preset the target is 60 % and one
action 20 %: recentering is impossible, also when the policy is live, the adapter
open, the cooldown over and the day unspent. It is possible only when the target
allocation is within the limits on one action and on one day, which the run
`vault` arranges.

`indexer_agents` is expected to find one, too. `docs/MVP.md` calls agent metadata
immutable, and therefore cached, and says that the indexer rewinds a window for
reorganisation safety. `_load_agents` reads the registry at the head, before any
confirmation, and drops its cache only when it is longer than the registry. A
reorganisation of a single block that replaces one launch by another leaves the
wrong agent in the cache for the life of the process, and the right one's vault and
key out of the addresses that are asked for; the rewind does not reach the cache.
For the same reason the passing run `market_index` speaks of launches, which the factory
logs, when it says that nothing is missing.

`launch_listing` is the third. `docs/MVP.md` (307) has the creator approve only the chosen
quantity of Keys, then list it. The quantity stays editable until the approval's hash is
recorded, and the listing asks for what the form then says: approve 1 in the wallet, change
the form to 2, and the listing reverts on every resume, with the field now disabled.

`reinvest_guard` is the fourth. A comment in `reinvest.ts` (95–96) keeps a submitted but unconfirmed
transaction guarded for the page's session, and `docs/MVP.md` (217) says that an unknown confirmation does not
authorize another purchase. `executeReinvestment` ends with deleting the guard of the
wallet whichever purchase it is about by then (353), where `reconcileReinvestment` (379–382) compares
the hash first. The run: a purchase waits for its receipt in a form that was left; the holder checks the receipt by
hand, which releases it, and confirms a second purchase; while the wallet has it, the first call's
answer comes and deletes its guard; the wallet's answer to the second is unclear, and a third purchase goes out beside it. On a wide reading
of the same sentence of `docs/MVP.md` a reload is a second way: the page's map is gone, and only the hash in storage,
which is kept per position, stops a purchase from this position, not one from another. The comment claims the guard
for the session of the page only, and so does the property: it counts purchases sent since the page was loaded.

One sentence of `docs/MVP.md` (393) is contradicted by what the models show without a run that
refutes it: "Challenges expire after 10 minutes and cannot be reused". `claim_profile` reads the challenge in one
connection (`profiles.py`, 34), checks the signature, and consumes it in another (`database.py`, 622) without asking whether
it is still there. Two copies of one request, a retry for instance, that have both read it both claim
(`HandleLookedUp`, `claim_wallet_profile` of `Profiles`). Both carry the signature of the same wallet for the same
handle, so the second repeats the first or puts it back after a later claim. `HandlesAreTrue` is about handles and holds
through this; it does not forbid the reuse.

## 7. What is left out of the modelled components

- `rescueToken` of the router, of the buyback vault and of the reserve moves tokens that
  no book counts.
- `setFactory` and `registerVault` of the policy executor: in `Init`, since a policy
  is registered in the transaction that creates its vault.
- Reentrancy: the functions that pay out or call another contract are
  `nonReentrant`, or answer only to one that is (`recallFromAdapter`). Callees
  are modelled by outcome.
- Deadlines of a few minutes are below the grain of the clock.
- The swap executor delivers at least the minimum or reverts; adapters are
  what `StrategyVault` says of them; Key Marketplace V1 is an allowed payer of
  the router.
- The indexer's decoding of events, its snapshot in memory and the status it reports.
- The keeper's runs of vaults. Their rate limit is tested under the lock and recorded under it
  again only after the vault was read (`chain.py`, 502), so that two of them may run within one
  interval; the policy bounds what the second may do.
- Checks of the shape of an answer, formatting and the sums that cards show.
- Pagination of drops and of positions; expiry of a handle's challenge; what a handle or a launch
  form may contain.
- Position reads of the Earn page that begin at a new configuration with an old snapshot: those
  that follow them replace them.
- Local storage is taken as consistent across tabs; browsers deliver its events late, not its values.

Some consequences of the code that the models show and no property forbids:

- The market page keeps the previous wallet's snapshot while the next one loads, and the Earn page
  its revenue state.
- The launch page silently keeps the previous wallet's funding target when the read for the
  next one fails.
- A second confirmation that fails after an approval reads nothing again.
- "Mark all read" takes the browser's time, and so marks alerts that were never loaded.
- A funding card that is opened again while a deposit is pending can start another one, whose
  approval replaces the first's allowance; the vault still takes no more than was asked for.
- A bond is offered for a key that no allowed registry approves any more, or to a wallet without
  the MUPPETS of a unit, and reverts.
- A holder of dust beside one of nearly everything can keep the latter's full redemption from a range
  reverting with `SwapOutputTooLow`; all but the slippage can be withdrawn. `docs/MVP.md` (309) speaks of the
  redemption of the whole supply, which always realizes what it can.
- One challenge of a handle may serve two requests (section 6).
- An activity index without a window (`ACTIVITY_REORG_WINDOW_BLOCKS=0`) would take the deployment block for
  settled while it can still be replaced.
- The board's single fee is the current market's, also for Keys of the legacy market: with
  different fees an order for these reverts.

## 8. Plan

Done, in the order of what is at stake: bond, router, marketplace, vault with
policy, buyback vault, reserve with its keeper, indexer, drops with their ledger; the client's
launch, funding, reinvestment, snapshots, views, watchlist, handles and board; the proofs of every
safety property of these; router and bond as one system, with its refinement of both. What is left:

1. `TypeOK` of the indexer and of the parts of the client as theorems; so far the invariants have of it what
   they need.
2. The marketplace and the buyback vault as parts of `RevenueSystem`, in place of the
   amounts that come in and of the vault that always accepts.
3. Factories with the owner's launch switch and the slots; `run_keeper` with the vault it moves.
