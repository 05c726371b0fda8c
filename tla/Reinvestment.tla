----------------------------- MODULE Reinvestment -----------------------------
(* Buying $MUPPETS with a bond position's rewards, from the Earn page: a     *)
(* form quotes the purchase, the holder accepts, and one transaction claims, *)
(* buys and bonds.  A second purchase must not go out while the fate of the  *)
(* first is unknown: the page's JavaScript keeps a guard for the wallet, and *)
(* the browser's storage the submitted hash of each position.  Forms come    *)
(* and go with the page around them; the calls they started run on.          *)
(* One wallet and one Agent Key: their positions share the bound Keys.       *)
EXTENDS Naturals, Sequences, FiniteSets

CONSTANTS
    Positions,       \* bond positions of the wallet, one form for each
    BuyTasks,        \* identities of asynchronous calls, so a bound on them
    Amounts,         \* what the holder may type, 0 for what is no amount
    Earned,          \* WETH rewards of a position at first
    BoundKeys,       \* unused bound Keys at first
    QuoteLife,       \* REINVESTMENT_QUOTE_SECONDS, in ticks of the clock
    MaxClock,        \* bound on time
    MaxPurchases,    \* bound on purchases sent
    MaxMishaps       \* bound on departures, reloads, lost answers, new rewards

VARIABLES
    clock,
    rewards,         \* position |-> claimable WETH
    boundKeys,       \* availableBoundKeys of the wallet
    purchases,       \* purchase transactions broadcast, in order
    guard,           \* pendingTransactions of this wallet
    kept,            \* position |-> hash in the browser's storage
    shownRewards,    \* position |-> claimable WETH as the page last read it
    shownKeys,       \* availableBoundKeys as the page last read it
    form,            \* the form below the selected position
    busy,            \* the page's lock on its buttons
    tasks,           \* calls in flight
    crossed,         \* a check settled a purchase its own call still waits for
    mishaps

bond == <<rewards, boundKeys, purchases>>
shown == <<shownRewards, shownKeys>>
vars == <<clock, bond, guard, kept, shown, form, busy, tasks, crossed, mishaps>>
------------------------------------------------------------------------------
NoTx == 0
TxIds == 1..MaxPurchases
Preparing == MaxPurchases + 1
Mishap == mishaps < MaxMishaps /\ mishaps' = mishaps + 1

NoQuote == [weth |-> 0, deadline |-> 0]
NoPosition == 0
Closed == [position |-> NoPosition, amount |-> 0, quote |-> NoQuote, accepted |-> FALSE,
           working |-> FALSE, submitted |-> NoTx]
Withdrawn(f) == [f EXCEPT !.quote = NoQuote, !.accepted = FALSE]

NoTask == [pc |-> "none"]
Running(c) == tasks[c].pc # "none"

\* What WebClientProofs needs of the constants: positions count from one.
ReinvestmentAssumption ==
    /\ Amounts \subseteq Nat /\ Earned \in Nat /\ BoundKeys \in Nat
    /\ QuoteLife \in Nat /\ MaxPurchases \in Nat
    /\ NoPosition \notin Positions

Tick ==
    /\ clock < MaxClock
    /\ clock' = clock + 1
    /\ UNCHANGED <<bond, guard, kept, shown, form, busy, tasks, crossed, mishaps>>

\* A reward week pays, or another tab claims.
RewardsMove(p) ==
    /\ Mishap
    /\ rewards' \in {[rewards EXCEPT ![p] = @ + 1], [rewards EXCEPT ![p] = 0]}
    /\ UNCHANGED <<clock, boundKeys, purchases, guard, kept, shown, form, busy, tasks, crossed>>

\* claimBuyAndBond: the whole reward is claimed, part of it spent, one Key used.
Covered(p, weth) == weth <= rewards[p] /\ boundKeys >= 1

Mine(x) ==
    LET tx == purchases[x] IN
    /\ tx.status = "pending"
    /\ \/ /\ Covered(tx.position, tx.weth) /\ clock <= tx.deadline
          /\ purchases' = [purchases EXCEPT ![x].status = "success"]
          /\ rewards' = [rewards EXCEPT ![tx.position] = 0]
          /\ boundKeys' = boundKeys - 1
       \/ /\ purchases' = [purchases EXCEPT ![x].status = "reverted"]
          /\ UNCHANGED <<rewards, boundKeys>>
    /\ UNCHANGED <<clock, guard, kept, shown, form, busy, tasks, crossed, mishaps>>
------------------------------------------------------------------------------
(* The page around the forms.                                                *)

\* The quote goes, and one under way will be dropped, when what it was for
\* changes: the generation of the form moves on.
Outdated == [c \in BuyTasks |-> IF Running(c) THEN [tasks[c] EXCEPT !.fresh = FALSE] ELSE tasks[c]]

MovedOn(changed) ==
    IF changed THEN form' = Withdrawn(form) /\ tasks' = Outdated ELSE UNCHANGED <<form, tasks>>

RewardsRead ==
    /\ shownRewards # rewards
    /\ shownRewards' = rewards
    /\ MovedOn(\E p \in Positions : p = form.position /\ shownRewards[p] # rewards[p])
    /\ UNCHANGED <<clock, bond, guard, kept, shownKeys, busy, crossed, mishaps>>

KeysRead ==
    /\ shownKeys # boundKeys
    /\ shownKeys' = boundKeys
    /\ MovedOn(form # Closed)
    /\ UNCHANGED <<clock, bond, guard, kept, shownRewards, busy, crossed, mishaps>>

\* Nobody hears of a quote whose form is gone; the other calls run on.
Unmounted ==
    [c \in BuyTasks |-> IF ~Running(c) \/ tasks[c].kind = "quote" THEN NoTask
                        ELSE [tasks[c] EXCEPT !.mounted = FALSE]]

\* "Buy more and stake" opens the form of one position, with what the browser
\* remembers of it, or closes the form it opened.
select(p) ==
    /\ ~busy /\ shownRewards[p] > 0
    /\ form' = IF form.position = p THEN Closed
               ELSE [Closed EXCEPT !.position = p, !.amount = shownRewards[p], !.submitted = kept[p]]
    /\ tasks' = Unmounted
    /\ UNCHANGED <<clock, bond, guard, kept, shown, busy, crossed, mishaps>>

\* Another view and back.
Leave ==
    /\ Mishap
    /\ form' = Closed
    /\ tasks' = Unmounted
    /\ busy' = FALSE
    /\ UNCHANGED <<clock, bond, guard, kept, shown, crossed>>

\* A reload: the guard and the calls are gone, the storage stays.  What was
\* sent before is no purchase of the new page.
Reload ==
    /\ Mishap
    /\ form' = Closed
    /\ tasks' = [c \in BuyTasks |-> NoTask]
    /\ guard' = NoTx
    /\ busy' = FALSE
    /\ purchases' = [x \in DOMAIN purchases |-> [purchases[x] EXCEPT !.here = FALSE]]
    /\ UNCHANGED <<clock, rewards, boundKeys, kept, shown, crossed>>

Start(task) ==
    \E c \in BuyTasks :
        /\ ~Running(c)
        /\ \A b \in BuyTasks : ~Running(b) => c <= b
        /\ tasks' = [tasks EXCEPT ![c] = task]

Task(p, kind, pc, weth, since, tx) ==
    [position |-> p, kind |-> kind, pc |-> pc, weth |-> weth, since |-> since,
     tx |-> tx, fresh |-> TRUE, mounted |-> TRUE]

Unlocked(c) == busy' = (busy /\ ~tasks[c].mounted)
Ended(c) == tasks' = [tasks EXCEPT ![c] = NoTask]

------------------------------------------------------------------------------
(* The form.                                                                 *)

Shows(p) == form.position = p
Disabled(p) ==
    \/ ~Shows(p) \/ busy \/ form.working \/ form.submitted # NoTx
    \/ shownRewards[p] = 0 \/ shownKeys < 1
Expired == clock >= form.quote.deadline

Edit(p, weth) ==
    /\ ~Disabled(p) /\ form.amount # weth
    /\ form' = [Withdrawn(form) EXCEPT !.amount = weth]
    /\ UNCHANGED <<clock, bond, guard, kept, shown, busy, tasks, crossed, mishaps>>

validateInput(weth) == weth > 0

\* The amount is one, and the page shows rewards for it.
input(p) == validateInput(form.amount) /\ form.amount <= shownRewards[p]

\* Asking again takes the last quote away even when nothing can be asked.
getQuote(p) ==
    /\ ~Disabled(p)
    /\ IF input(p)
       THEN /\ form' = [Withdrawn(form) EXCEPT !.working = TRUE]
            /\ Start(Task(p, "quote", "quoting", form.amount, clock, NoTx))
       ELSE /\ form' = Withdrawn(form)
            /\ tasks' = Outdated
    /\ UNCHANGED <<clock, bond, guard, kept, shown, busy, crossed, mishaps>>

\* The checkbox below the quote.
accept(p) ==
    /\ ~Disabled(p) /\ form.quote # NoQuote /\ ~Expired
    /\ form' = [form EXCEPT !.accepted = ~@]
    /\ UNCHANGED <<clock, bond, guard, kept, shown, busy, tasks, crossed, mishaps>>

validateReinvestmentQuote(quote) == clock < quote.deadline /\ quote.weth = form.amount

\* executeReinvestment up to its first await: one purchase of the wallet at a
\* time, or the form is told that one is pending.
execute(p) ==
    LET quote == form.quote IN
    /\ ~Disabled(p) /\ form.accepted /\ ~Expired
    /\ IF validateReinvestmentQuote(quote) /\ guard = NoTx
       THEN /\ guard' = Preparing
            /\ busy' = TRUE
            /\ form' = [form EXCEPT !.working = TRUE]
            /\ Start(Task(p, "buy", "checking", quote.weth, quote.deadline - QuoteLife, NoTx))
       ELSE /\ form' = Withdrawn(form)
            /\ UNCHANGED <<guard, busy, tasks>>
    /\ UNCHANGED <<clock, bond, kept, shown, crossed, mishaps>>

\* "Check confirmation" waits for nobody else's work.
checkReceipt(p) ==
    /\ Shows(p) /\ form.submitted # NoTx /\ ~form.working
    /\ form' = [form EXCEPT !.working = TRUE]
    /\ Start(Task(p, "check", "reconcile", 0, 0, form.submitted))
    /\ UNCHANGED <<clock, bond, guard, kept, shown, busy, crossed, mishaps>>
------------------------------------------------------------------------------
(* The calls.                                                                *)

\* How a call leaves the form it was made from.
Tell(c, f) == form' = IF tasks[c].mounted THEN [f EXCEPT !.working = FALSE] ELSE form

preflight(c) == validateInput(tasks[c].weth) /\ Covered(tasks[c].position, tasks[c].weth)

\* Mutant: whatever quote arrives is shown.
AnyQuote(c) == TRUE

\* Nothing the quote was asked for has changed meanwhile.
Current(c) == tasks[c].fresh

\* quoteReinvestment: the quote's time runs from a moment since the click.
Quoted(c) ==
    \E createdAt \in tasks[c].since..clock :
        LET quote == [weth |-> tasks[c].weth, deadline |-> createdAt + QuoteLife] IN
        /\ tasks[c].pc = "quoting" /\ preflight(c) /\ clock < quote.deadline
        /\ Tell(c, IF Current(c) THEN [form EXCEPT !.quote = quote] ELSE form)
        /\ Ended(c)
        /\ UNCHANGED <<clock, bond, guard, kept, shown, busy, crossed, mishaps>>

QuoteFails(c) ==
    /\ tasks[c].pc = "quoting"
    /\ Tell(c, form) /\ Ended(c)
    /\ UNCHANGED <<clock, bond, guard, kept, shown, busy, crossed, mishaps>>

\* Wallet, preflight, simulation, gas and the quote's time, before the wallet
\* is asked.
Checked(c) ==
    /\ tasks[c].pc = "checking" /\ preflight(c) /\ clock < tasks[c].since + QuoteLife
    /\ tasks' = [tasks EXCEPT ![c].pc = "wallet"]
    /\ UNCHANGED <<clock, bond, guard, kept, shown, form, busy, crossed, mishaps>>

\* The purchase ends without being sent: a check fails, the holder declines.
NotSent(c) ==
    /\ tasks[c].pc \in {"checking", "wallet"}
    /\ guard' = NoTx
    /\ Tell(c, Withdrawn(form)) /\ Ended(c) /\ Unlocked(c)
    /\ UNCHANGED <<clock, bond, kept, shown, crossed, mishaps>>

Sent(c) ==
    /\ Len(purchases) < MaxPurchases
    /\ purchases' = Append(purchases, [position |-> tasks[c].position, weth |-> tasks[c].weth,
                                       deadline |-> tasks[c].since + QuoteLife,
                                       status |-> "pending", here |-> TRUE])

Sign(c) ==
    /\ tasks[c].pc = "wallet" /\ Sent(c)
    /\ tasks' = [tasks EXCEPT ![c].pc = "sent", ![c].tx = Len(purchases) + 1]
    /\ UNCHANGED <<clock, rewards, boundKeys, guard, kept, shown, form, busy, crossed, mishaps>>

\* The wallet fails, or answers with no hash: the purchase may be out, and the
\* guard stays until the page is reloaded.
WalletUnclear(c) ==
    /\ tasks[c].pc = "wallet" /\ Mishap
    /\ Sent(c) \/ UNCHANGED purchases
    /\ Tell(c, Withdrawn(form)) /\ Ended(c) /\ Unlocked(c)
    /\ UNCHANGED <<clock, rewards, boundKeys, guard, kept, shown, crossed>>

\* rememberSubmitted, before the receipt is awaited.
Submitted(c) ==
    LET task == tasks[c] IN
    /\ task.pc = "sent"
    /\ guard' = task.tx
    /\ kept' = [kept EXCEPT ![task.position] = task.tx]
    /\ form' = IF task.mounted THEN [form EXCEPT !.submitted = task.tx] ELSE form
    /\ tasks' = [tasks EXCEPT ![c].pc = "receipt"]
    /\ UNCHANGED <<clock, bond, shown, busy, crossed, mishaps>>

\* The receipt releases the wallet's guard, whichever purchase it is about by
\* now; after a revert the form still shows the hash.
Receipt(c) ==
    LET task == tasks[c] IN
    /\ task.pc = "receipt" /\ purchases[task.tx].status # "pending"
    /\ guard' = NoTx
    /\ IF purchases[task.tx].status = "success"
       THEN /\ kept' = [kept EXCEPT ![task.position] = NoTx]
            /\ Tell(c, [Withdrawn(form) EXCEPT !.submitted = NoTx])
       ELSE Tell(c, Withdrawn(form)) /\ UNCHANGED kept
    /\ Ended(c) /\ Unlocked(c)
    /\ UNCHANGED <<clock, bond, shown, crossed, mishaps>>

\* Mutant: a call that gives up releases the guard.
GuardReleased(c) == NoTx

\* The guard of a call that saw no receipt.
GuardKept(c) == guard

ReceiptTimesOut(c) ==
    /\ tasks[c].pc = "receipt" /\ Mishap
    /\ guard' = GuardKept(c)
    /\ Tell(c, Withdrawn(form)) /\ Ended(c) /\ Unlocked(c)
    /\ UNCHANGED <<clock, bond, kept, shown, crossed>>

\* A check releases the guard of the purchase it is about, and no other.
reconcileReinvestment(c) ==
    LET task == tasks[c] IN
    /\ task.pc = "reconcile" /\ purchases[task.tx].status # "pending"
    /\ guard' = IF guard = task.tx THEN NoTx ELSE guard
    /\ crossed' = (crossed \/ \E b \in BuyTasks \ {c} : Running(b) /\ tasks[b].pc = "receipt"
                                                       /\ tasks[b].tx = task.tx)
    /\ kept' = [kept EXCEPT ![task.position] = NoTx]
    /\ Tell(c, [form EXCEPT !.submitted = NoTx]) /\ Ended(c)
    /\ UNCHANGED <<clock, bond, shown, busy, mishaps>>

CheckFails(c) ==
    /\ tasks[c].pc = "reconcile"
    /\ Tell(c, form) /\ Ended(c)
    /\ UNCHANGED <<clock, bond, guard, kept, shown, busy, crossed, mishaps>>

TaskStep(c) ==
    \/ Quoted(c) \/ QuoteFails(c)
    \/ Checked(c) \/ NotSent(c) \/ Sign(c) \/ WalletUnclear(c)
    \/ Submitted(c) \/ Receipt(c) \/ ReceiptTimesOut(c)
    \/ reconcileReinvestment(c) \/ CheckFails(c)
------------------------------------------------------------------------------
Init ==
    /\ clock = 0
    /\ rewards = [p \in Positions |-> Earned]
    /\ boundKeys = BoundKeys
    /\ purchases = <<>>
    /\ guard = NoTx
    /\ kept = [p \in Positions |-> NoTx]
    /\ shownRewards = rewards
    /\ shownKeys = boundKeys
    /\ form = Closed
    /\ busy = FALSE
    /\ tasks = [c \in BuyTasks |-> NoTask]
    /\ crossed = FALSE
    /\ mishaps = 0

Next ==
    \/ Tick
    \/ \E x \in DOMAIN purchases : Mine(x)
    \/ RewardsRead \/ KeysRead
    \/ Leave \/ Reload
    \/ \E p \in Positions :
         \/ RewardsMove(p)
         \/ select(p)
         \/ \E weth \in Amounts : Edit(p, weth)
         \/ getQuote(p) \/ accept(p) \/ execute(p) \/ checkReceipt(p)
    \/ \E c \in BuyTasks : Running(c) /\ TaskStep(c)

Spec == Init /\ [][Next]_vars
------------------------------------------------------------------------------
\* "Keep a submitted-but-unconfirmed transaction guarded for this page session":
\* lib/reinvest.ts:95.  The page never has two purchases of the wallet open,
\* however calls fail, forms come and go and receipts stay away.
OnePurchasePerPage ==
    Cardinality({x \in DOMAIN purchases : purchases[x].here /\ purchases[x].status = "pending"}) <= 1

\* That holds until the holder checks a receipt by hand that the purchase's own
\* call still waits for: that call then releases the guard of the next one.
OnePurchaseAtATime == crossed \/ OnePurchasePerPage

\* The quote a form asks its holder to accept is for the amount in the form,
\* and for rewards and Keys the page still shows.
QuotesAreCurrent ==
    form.quote # NoQuote =>
        /\ form.quote.weth = form.amount
        /\ form.amount <= shownRewards[form.position]
        /\ shownKeys >= 1

\* What goes out is one purchase at a time, at a quote of what is there to spend.
PurchasesAreGuarded == OnePurchaseAtATime /\ QuotesAreCurrent
=============================================================================
