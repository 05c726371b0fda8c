------------------------------ MODULE StockDrops ------------------------------
(* Funded stock-token drops, from the contract to the page that claims them. *)
(* The contract keeps several drops of one token in one balance, which the   *)
(* token's issuer may lower behind its back; the page works with evidence    *)
(* read earlier, and remembers the claim it sent in the page and in the      *)
(* browser's storage, which the browser's other tabs share.                  *)
EXTENDS Naturals, Sequences, FiniteSetsExt

CONSTANTS
    Holders,        \* wallets with an allocation
    NoHolder,       \* walletAddress is undefined
    Tabs,
    Jobs,           \* identities of asynchronous calls, so a bound on them
    Allocation,     \* <<drop, holder>> |-> tokens committed by the drop's root
    Budgets,        \* budgets a drop may be funded with
    MaxDrops,       \* bound on drops
    MaxClaims,      \* bound on claim transactions of the browser
    MaxUpsets       \* bound on what the issuer, the network or the holder upsets

VARIABLES
    inventory,      \* tokens the contract holds
    liability,      \* tokens it owes to the drops
    drops,          \* the drops funded so far, in order
    claimedWords,   \* drop |-> holders whose bit is set
    payouts,        \* the Claimed events
    claimTxs,       \* claim transactions broadcast by this browser, in order
    saved,          \* <<drop, holder>> |-> hash in the browser's storage
    pending,        \* tab |-> the hashes of the page's own Map
    preparing,      \* tab |-> claims between click and settlement
    holder,         \* tab |-> the connected wallet
    evidence,       \* tab |-> what the page shows of the drops
    cards,          \* tab |-> drop |-> the state of its card
    jobs,           \* claim and check calls in flight
    upsets

contract == <<inventory, liability, drops, claimedWords, payouts>>
memory == <<saved, pending, preparing>>
view == <<holder, evidence, cards>>
vars == <<contract, claimTxs, memory, view, jobs, upsets>>
------------------------------------------------------------------------------
DropIds == 1..MaxDrops
Claims == DropIds \X Holders
NoTx == 0
TxIds == 1..MaxClaims

\* What WebClientProofs needs of the constants.
DropsAssumption ==
    /\ NoHolder \notin Holders
    /\ MaxDrops \in Nat
    /\ Allocation \in [Claims -> Nat]
    /\ Budgets \subseteq Nat \ {0}

Upset == upsets < MaxUpsets /\ upsets' = upsets + 1
------------------------------------------------------------------------------
(* The contract.                                                             *)

Left(d) == IF d \in DOMAIN drops THEN drops[d].funded - drops[d].claimed ELSE 0

fundDrop(amount) ==
    /\ Len(drops) < MaxDrops
    /\ inventory >= liability
    /\ drops' = Append(drops, [funded |-> amount, claimed |-> 0])
    /\ inventory' = inventory + amount
    /\ liability' = liability + amount
    /\ UNCHANGED <<claimedWords, payouts, claimTxs, memory, view, jobs, upsets>>

isClaimed(d, a) == a \in claimedWords[d]

\* Mutant: any balance that covers the claim will do.
CoversTheClaim(amount) == inventory >= amount

\* The balance still backs what is owed after the claim.
Solvent(amount) == inventory >= (liability - amount) + amount

Claimable(d, a) ==
    /\ d \in DOMAIN drops
    /\ Allocation[<<d, a>>] # 0
    /\ ~isClaimed(d, a)
    /\ Allocation[<<d, a>>] <= Left(d)
    /\ Solvent(Allocation[<<d, a>>])

\* Mutant: the bit of a claim is not set.
NotMarked(d, a) == claimedWords

Marked(d, a) == [claimedWords EXCEPT ![d] = @ \cup {a}]

Claim(d, a) ==
    LET amount == Allocation[<<d, a>>] IN
    /\ Claimable(d, a)
    /\ claimedWords' = Marked(d, a)
    /\ drops' = [drops EXCEPT ![d].claimed = @ + amount]
    /\ liability' = liability - amount
    /\ inventory' = inventory - amount
    /\ payouts' = payouts \cup {<<d, a>>}

\* Anyone may relay a claim; the tokens go to the committed holder.
RelayClaim(d, a) ==
    /\ Claim(d, a)
    /\ UNCHANGED <<claimTxs, memory, view, jobs, upsets>>

\* The issuer lowers the contract's balance, or makes up for it.
IssuerAdjusts ==
    /\ Upset
    /\ inventory' \in {inventory - 1, inventory + 1} \cap Nat
    /\ UNCHANGED <<liability, drops, claimedWords, payouts, claimTxs, memory, view, jobs>>

Mine(x) ==
    LET tx == claimTxs[x]
        ended(status) == claimTxs' = [claimTxs EXCEPT ![x].status = status]
    IN
    /\ tx.status = "pending"
    /\ \/ Claim(tx.drop, tx.account) /\ ended("success") /\ UNCHANGED upsets
       \/ /\ ended("reverted")
          /\ IF Claimable(tx.drop, tx.account) THEN Upset ELSE UNCHANGED upsets
          /\ UNCHANGED contract
    /\ UNCHANGED <<memory, view, jobs>>
------------------------------------------------------------------------------
(* What the browser remembers: the page's own Map before the storage.        *)

pendingStockClaim(t, key) == IF pending[t][key] # NoTx THEN pending[t][key] ELSE saved[key]

remember(t, key, tx) ==
    /\ pending' = [pending EXCEPT ![t][key] = tx]
    /\ saved' = [saved EXCEPT ![key] = tx]
------------------------------------------------------------------------------
(* The page.                                                                 *)

NoEvidence == [account |-> NoHolder, drops |-> {}, claimed |-> {}]
NoCard == [shown |-> FALSE, submitted |-> NoTx, confirmed |-> FALSE, busy |-> FALSE]
NoCards == [d \in DropIds |-> NoCard]
FreshCard(t, d) == [NoCard EXCEPT !.shown = TRUE, !.submitted = pendingStockClaim(t, <<d, holder[t]>>)]

NoJob == [pc |-> "none"]
InFlight(j) == jobs[j].pc # "none"
Detached(t) == [j \in Jobs |-> IF InFlight(j) /\ jobs[j].tab = t
                               THEN [jobs[j] EXCEPT !.mounted = FALSE] ELSE jobs[j]]

\* Cards stand only while the evidence is the connected wallet's: they go
\* with a change of wallet and with an answer that does not come.
CardsGone(t) ==
    /\ evidence' = [evidence EXCEPT ![t] = NoEvidence]
    /\ cards' = [cards EXCEPT ![t] = NoCards]
    /\ jobs' = Detached(t)

Connect(t, a) ==
    /\ holder[t] # a
    /\ IF holder[t] = NoHolder THEN UNCHANGED upsets ELSE Upset
    /\ holder' = [holder EXCEPT ![t] = a]
    /\ CardsGone(t)
    /\ UNCHANGED <<contract, claimTxs, memory>>

\* What the backend has checked of the drops, and of a wallet's allocations.
StockDropState(a) ==
    [account |-> a, drops |-> DOMAIN drops, claimed |-> {d \in DOMAIN drops : isClaimed(d, a)}]

\* An answer about the wallet now connected; those to earlier asks are dropped.
Load(t) ==
    LET now == StockDropState(holder[t]) IN
    /\ holder[t] # NoHolder
    /\ evidence[t] # now
    /\ evidence' = [evidence EXCEPT ![t] = now]
    /\ cards' = [cards EXCEPT ![t] = [d \in DropIds |->
          IF d \in DOMAIN drops /\ ~cards[t][d].shown THEN FreshCard(t, d) ELSE cards[t][d]]]
    /\ UNCHANGED <<contract, claimTxs, memory, holder, jobs, upsets>>

LoadFails(t) ==
    /\ Upset
    /\ CardsGone(t)
    /\ UNCHANGED <<contract, claimTxs, memory, holder>>

\* A reload takes the Map and the calls along; the storage stays.
Reload(t) ==
    /\ Upset
    /\ holder' = [holder EXCEPT ![t] = NoHolder]
    /\ evidence' = [evidence EXCEPT ![t] = NoEvidence]
    /\ cards' = [cards EXCEPT ![t] = NoCards]
    /\ pending' = [pending EXCEPT ![t] = [key \in Claims |-> NoTx]]
    /\ preparing' = [preparing EXCEPT ![t] = {}]
    /\ jobs' = [j \in Jobs |-> IF InFlight(j) /\ jobs[j].tab = t THEN NoJob ELSE jobs[j]]
    /\ UNCHANGED <<contract, claimTxs, saved>>

\* What a card says: claimed by the evidence, or confirmed by its own claim.
Claimed(t, d) == d \in evidence[t].claimed \/ cards[t][d].confirmed

Start(t, d, pc, tx) ==
    \E j \in Jobs :
        /\ ~InFlight(j)
        /\ \A i \in Jobs : ~InFlight(i) => j <= i
        /\ jobs' = [jobs EXCEPT ![j] = [pc |-> pc, tab |-> t, drop |-> d, account |-> holder[t],
                                        tx |-> tx, mounted |-> TRUE]]
        /\ cards' = [cards EXCEPT ![t][d].busy = TRUE]

\* The evidence proves an allocation of this drop to the connected wallet.
context(t, d) ==
    /\ evidence[t].account = holder[t] /\ d \in evidence[t].drops
    /\ Allocation[<<d, holder[t]>>] # 0

\* The claim button, with the guard of claimStockDrop: one claim of a drop
\* at a time in this page, none while one is remembered.
claim(t, d) ==
    LET key == <<d, holder[t]>> IN
    /\ cards[t][d].shown /\ ~cards[t][d].busy /\ cards[t][d].submitted = NoTx
    /\ ~Claimed(t, d) /\ context(t, d)
    /\ IF key \in preparing[t] \/ pendingStockClaim(t, key) # NoTx
       THEN /\ cards' = [cards EXCEPT ![t][d].submitted = pendingStockClaim(t, key)]
            /\ cards' # cards
            /\ UNCHANGED <<jobs, preparing>>
       ELSE /\ preparing' = [preparing EXCEPT ![t] = @ \cup {key}]
            /\ Start(t, d, "read", NoTx)
    /\ UNCHANGED <<contract, claimTxs, saved, pending, holder, evidence, upsets>>

\* "Check confirmation" of the remembered claim.
check(t, d) ==
    /\ cards[t][d].shown /\ ~cards[t][d].busy /\ cards[t][d].submitted # NoTx
    /\ pendingStockClaim(t, <<d, holder[t]>>) # NoTx
    /\ Start(t, d, "check", pendingStockClaim(t, <<d, holder[t]>>))
    /\ UNCHANGED <<contract, claimTxs, memory, holder, evidence, upsets>>
------------------------------------------------------------------------------
(* A call: "read" and "simulate" look at the chain, "wallet" is the open     *)
(* request, "sent" a broadcast whose hash is under way, "receipt" the wait   *)
(* for it, "settle" and "check" the reconciliation of a remembered claim.    *)

Key(j) == <<jobs[j].drop, jobs[j].account>>
GoesOn(j, pc) == jobs' = [jobs EXCEPT ![j].pc = pc]

\* The call returns; a claim releases its guard, and the card is told.
Returns(j, hash, confirmed) ==
    LET job == jobs[j]
        card == cards[job.tab][job.drop] IN
    /\ jobs' = [jobs EXCEPT ![j] = NoJob]
    /\ preparing' = IF job.pc = "check" THEN preparing
                    ELSE [preparing EXCEPT ![job.tab] = @ \ {Key(j)}]
    /\ cards' = IF job.mounted
                THEN [cards EXCEPT ![job.tab][job.drop] =
                         [card EXCEPT !.busy = FALSE, !.submitted = hash,
                                      !.confirmed = card.confirmed \/ confirmed]]
                ELSE cards

\* What throws leaves the card with what is remembered.
Throws(j) ==
    Returns(j, IF jobs[j].pc = "check" THEN cards[jobs[j].tab][jobs[j].drop].submitted
               ELSE pendingStockClaim(jobs[j].tab, Key(j)), FALSE)

Read(j) ==
    /\ jobs[j].pc = "read"
    /\ IF isClaimed(jobs[j].drop, jobs[j].account)
       THEN Throws(j)
       ELSE GoesOn(j, "simulate") /\ UNCHANGED <<preparing, cards>>
    /\ UNCHANGED <<contract, claimTxs, saved, pending, holder, evidence, upsets>>

Simulate(j) ==
    /\ jobs[j].pc = "simulate"
    /\ IF Claimable(jobs[j].drop, jobs[j].account)
       THEN GoesOn(j, "wallet") /\ UNCHANGED <<preparing, cards>>
       ELSE Throws(j)
    /\ UNCHANGED <<contract, claimTxs, saved, pending, holder, evidence, upsets>>

Sign(j) ==
    /\ jobs[j].pc = "wallet" /\ Len(claimTxs) < MaxClaims
    /\ claimTxs' = Append(claimTxs, [drop |-> jobs[j].drop, account |-> jobs[j].account,
                                     status |-> "pending"])
    /\ jobs' = [jobs EXCEPT ![j].pc = "sent", ![j].tx = Len(claimTxs) + 1]
    /\ UNCHANGED <<contract, memory, view, upsets>>

\* The hash is remembered before the receipt is awaited.
Submitted(j) ==
    LET job == jobs[j] IN
    /\ job.pc = "sent"
    /\ remember(job.tab, Key(j), job.tx)
    /\ cards' = IF job.mounted THEN [cards EXCEPT ![job.tab][job.drop].submitted = job.tx] ELSE cards
    /\ GoesOn(j, "receipt")
    /\ UNCHANGED <<contract, claimTxs, preparing, holder, evidence, upsets>>

\* After the receipt the claim that is remembered now is reconciled.
Receipt(j) ==
    LET hash == pendingStockClaim(jobs[j].tab, Key(j)) IN
    /\ jobs[j].pc = "receipt" /\ claimTxs[jobs[j].tx].status # "pending"
    /\ IF hash # NoTx
       THEN /\ jobs' = [jobs EXCEPT ![j].pc = "settle", ![j].tx = hash]
            /\ UNCHANGED <<preparing, cards>>
       ELSE Throws(j)
    /\ UNCHANGED <<contract, claimTxs, saved, pending, holder, evidence, upsets>>

reconcileStockClaim(j) ==
    /\ jobs[j].pc \in {"settle", "check"} /\ claimTxs[jobs[j].tx].status # "pending"
    /\ remember(jobs[j].tab, Key(j), NoTx)
    /\ Returns(j, NoTx, claimTxs[jobs[j].tx].status = "success")
    /\ UNCHANGED <<contract, claimTxs, holder, evidence, upsets>>

\* A read fails, the wallet changed or declines, or no receipt comes in time.
Fails(j) ==
    /\ jobs[j].pc # "sent"
    /\ IF jobs[j].pc = "wallet" THEN UNCHANGED upsets ELSE Upset
    /\ Throws(j)
    /\ UNCHANGED <<contract, claimTxs, saved, pending, holder, evidence>>

JobStep(j) ==
    \/ Read(j)
    \/ Simulate(j)
    \/ Sign(j)
    \/ Submitted(j)
    \/ Receipt(j)
    \/ reconcileStockClaim(j)
    \/ Fails(j)
------------------------------------------------------------------------------
Init ==
    /\ inventory = 0 /\ liability = 0 /\ drops = <<>>
    /\ claimedWords = [d \in DropIds |-> {}]
    /\ payouts = {}
    /\ claimTxs = <<>>
    /\ saved = [key \in Claims |-> NoTx]
    /\ pending = [t \in Tabs |-> [key \in Claims |-> NoTx]]
    /\ preparing = [t \in Tabs |-> {}]
    /\ holder = [t \in Tabs |-> NoHolder]
    /\ evidence = [t \in Tabs |-> NoEvidence]
    /\ cards = [t \in Tabs |-> NoCards]
    /\ jobs = [j \in Jobs |-> NoJob]
    /\ upsets = 0

Next ==
    \/ \E amount \in Budgets : fundDrop(amount)
    \/ \E d \in DOMAIN drops, a \in Holders : RelayClaim(d, a)
    \/ IssuerAdjusts
    \/ \E x \in DOMAIN claimTxs : Mine(x)
    \/ \E t \in Tabs :
         \/ \E a \in Holders : Connect(t, a)
         \/ Load(t)
         \/ LoadFails(t)
         \/ Reload(t)
         \/ \E d \in DropIds : claim(t, d) \/ check(t, d)
    \/ \E j \in Jobs : InFlight(j) /\ JobStep(j)

Spec == Init /\ [][Next]_vars
------------------------------------------------------------------------------
Told == {key \in Claims : \E t \in Tabs : holder[t] = key[2] /\ Claimed(t, key[1])}

\* Contract and page together keep the ledger: each allocation is paid once,
\* within the budget of its own drop, whoever relays it and however often a
\* page sends it, and no page calls an allocation claimed that is not paid.
Ledger == INSTANCE StockDropLedger
    WITH left <- [d \in DropIds |-> Left(d)], paid <- payouts, told <- Told

ImplementsLedger == Ledger!Spec

\* A claim that is paid while the issuer has taken tokens back never lives on
\* another allocation: what all drops still owe stays in the contract.
ClaimsSpareOtherDrops ==
    [][payouts' # payouts =>
          inventory' >= SumFunctionOnSet([d \in DropIds |-> Left(d)'], DropIds)]_vars
=============================================================================
