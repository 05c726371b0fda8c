----------------------------- MODULE ReserveKeeper -----------------------------
(* The backend's runs of the stock reserve: ChainService.run_rwa_cycle, called *)
(* by the scheduled loop and by concurrent requests, and the record of a run  *)
(* that its caller writes.  A run reads the reserve call by call, sends a     *)
(* transaction under the transaction lock and waits for its receipt; the      *)
(* chain goes on, the wait may end too early, and the process may restart.    *)
EXTENDS FeeRwaReserve

CONSTANTS
    Runs,              \* identities of runs, so a bound on concurrent ones
    RunInterval,       \* seconds between two runs, in ticks
    MaxTxs,            \* bound: transactions sent
    MaxMisses          \* bound: failing calls, receipts not seen, restarts

VARIABLES
    runs,              \* run |-> its stage, the amount it read, its transaction
    lastRun,           \* _last_run of the reserve, in the process's memory
    txs,               \* status of the transactions sent, in order
    rows,              \* keeper_runs of the database, in order
    lost,              \* transactions whose run was given up
    misses

process == <<runs, lastRun, rows, lost>>
vars == <<reserve, process, txs, misses>>
------------------------------------------------------------------------------
NoTx == 0
NoRun == [pc |-> "none", amount |-> 0, tx |-> NoTx]
Running(r) == runs[r].pc # "none"

Goes(r, pc) == runs' = [runs EXCEPT ![r].pc = pc]
Ends(r) == runs' = [runs EXCEPT ![r] = NoRun]

RunsInit ==
    /\ runs = [r \in Runs |-> NoRun]
    /\ lastRun = 0
    /\ txs = <<>> /\ rows = <<>> /\ lost = {}
    /\ misses = 0

KeeperInit == Init /\ RunsInit

(* The limit is tested and set under _run_lock, on a clock that counts from   *)
(* the start of the machine.                                                  *)
StartRun(r) ==
    /\ ~Running(r)
    /\ clock >= lastRun + RunInterval
    /\ lastRun' = clock
    /\ Goes(r, "amount")
    /\ UNCHANGED <<reserve, rows, lost, txs, misses>>

ReadAmount(r) ==
    /\ runs[r].pc = "amount"
    /\ runs' = [runs EXCEPT ![r].pc = IF availableCycleAmount = 0 THEN "record" ELSE "cooldown",
                            ![r].amount = availableCycleAmount]
    /\ UNCHANGED <<reserve, lastRun, rows, lost, txs, misses>>

ReadCooldown(r) ==
    /\ runs[r].pc = "cooldown"
    /\ Goes(r, IF CooldownOver THEN "route" ELSE "record")
    /\ UNCHANGED <<reserve, lastRun, rows, lost, txs, misses>>

\* Without a usable route the run raises, and nobody writes a row.
ReadRoute(r) ==
    /\ runs[r].pc = "route"
    /\ IF UsableRoutes # {} THEN Goes(r, "send") ELSE Ends(r)
    /\ UNCHANGED <<reserve, lastRun, rows, lost, txs, misses>>

WouldSucceed == keeperAllowed /\ availableCycleAmount # 0 /\ CycleAllowed(availableCycleAmount)
Miss == misses < MaxMisses /\ misses' = misses + 1

\* Mutant: a run does not wait for the transaction of another.
NeverLocked == TRUE

\* _transaction_lock is held from the nonce to the receipt.
Unlocked == \A r \in Runs : runs[r].pc # "sent"

\* Estimating the gas calls the reserve as it is now, and raises if it reverts.
Send(r) ==
    /\ runs[r].pc = "send" /\ Unlocked
    /\ \/ /\ WouldSucceed /\ Len(txs) < MaxTxs
          /\ txs' = Append(txs, "pending")
          /\ runs' = [runs EXCEPT ![r].pc = "sent", ![r].tx = Len(txs) + 1]
       \/ ~WouldSucceed /\ Ends(r) /\ UNCHANGED txs
    /\ UNCHANGED <<reserve, lastRun, rows, lost, misses>>

\* A transaction is executed as the reserve is by then, or reverts, as it also
\* does where a venue would deliver less than the minimum.
Mine(x) ==
    /\ txs[x] = "pending"
    /\ \/ executeAvailableCycle /\ txs' = [txs EXCEPT ![x] = "success"] /\ UNCHANGED misses
       \/ /\ txs' = [txs EXCEPT ![x] = "reverted"] /\ UNCHANGED reserve
          /\ IF WouldSucceed THEN Miss ELSE UNCHANGED misses
    /\ UNCHANGED process

Receipt(r) ==
    /\ runs[r].pc = "sent" /\ txs[runs[r].tx] # "pending"
    /\ IF txs[runs[r].tx] = "success" THEN Goes(r, "record") ELSE Ends(r)
    /\ UNCHANGED <<reserve, lastRun, rows, lost, txs, misses>>

\* The endpoint's and the loop's row of a run that returned.
add_keeper_run(r) ==
    /\ runs[r].pc = "record"
    /\ rows' = Append(rows, [amount |-> runs[r].amount, tx |-> runs[r].tx])
    /\ Ends(r)
    /\ UNCHANGED <<reserve, lastRun, lost, txs, misses>>

\* A call fails, or the receipt is not there after a minute: the lock is free
\* again while the transaction may still be executed.
GivesUp(r) ==
    /\ Miss
    /\ runs[r].pc \notin {"none", "record"}
    /\ lost' = lost \cup ({runs[r].tx} \ {NoTx})
    /\ Ends(r)
    /\ UNCHANGED <<reserve, lastRun, rows, txs>>

Restart ==
    /\ Miss
    /\ runs' = [r \in Runs |-> NoRun]
    /\ lastRun' = 0
    /\ lost' = lost \cup ({runs[r].tx : r \in Runs} \ {NoTx})
    /\ UNCHANGED <<reserve, rows, txs>>

KeeperStep(r) ==
    \/ StartRun(r) \/ ReadAmount(r) \/ ReadCooldown(r) \/ ReadRoute(r)
    \/ Send(r) \/ Receipt(r) \/ add_keeper_run(r) \/ GivesUp(r)

KeeperNext ==
    \/ OwnerCalls /\ UNCHANGED <<process, txs, misses>>
    \/ Around /\ UNCHANGED <<process, txs, misses>>
    \/ \E r \in Runs : KeeperStep(r)
    \/ \E x \in DOMAIN txs : Mine(x)
    \/ Restart

KeeperSpec == KeeperInit /\ [][KeeperNext]_vars
------------------------------------------------------------------------------
\* Each purchase the keeper made is on record once, by the run that made it, or
\* is still its run's to record, unless that run was given up; a row names no
\* transaction that bought nothing; and of the runs that wait for a receipt
\* there is one, so that no two spend the nonce.
RunsAreRecorded ==
    /\ \A i \in DOMAIN rows : rows[i].tx # NoTx =>
          /\ txs[rows[i].tx] = "success"
          /\ \A j \in DOMAIN rows : rows[j].tx = rows[i].tx => i = j
    /\ \A x \in DOMAIN txs \ lost : txs[x] = "success" =>
          \/ \E i \in DOMAIN rows : rows[i].tx = x
          \/ \E r \in Runs : runs[r].tx = x
    /\ \A x, y \in DOMAIN txs \ lost : txs[x] = "pending" /\ txs[y] = "pending" => x = y
=============================================================================
