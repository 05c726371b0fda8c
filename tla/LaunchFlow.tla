----------------------------- MODULE LaunchFlow -----------------------------
(* The launch page of the web client: one wallet confirmation creates a      *)
(* Muppet, two more open its optional Key market, and a record of the        *)
(* submitted transactions is kept in the browser's local storage, one for    *)
(* each wallet, so that a closed or reloaded page can resume.                *)
(*                                                                           *)
(* A click starts an asynchronous call that outlives what it was started     *)
(* from: between any two of its steps the page may be left and entered       *)
(* again, reloaded, or handed to another wallet, and other tabs of the same  *)
(* browser share the storage.  A wallet broadcasts a transaction before the  *)
(* page learns its hash, and a receipt may be unreadable for any time.       *)
EXTENDS Naturals, Sequences, FiniteSets

CONSTANTS
    Wallets,      \* accounts the browser's wallet can hand to the page
    NoWallet,     \* walletAddress is undefined
    Tabs,         \* open pages of the browser
    Calls,        \* identities of asynchronous calls, so a bound on them
    Plans,        \* what the builder form describes: pet, name, job, preset
    Quantities,   \* Key quantities the market form may hold
    Supply,       \* Keys minted with a Muppet
    Slots,        \* Creator Slots a wallet's $MUPPETS pay for
    MaxTxs,       \* bound on transactions sent
    MaxGlitches   \* bound on reloads, departures, reconnections, unreadable
                  \* answers and transactions that run out of gas

ASSUME LaunchAssumption ==
    /\ NoWallet \notin Wallets
    /\ Supply \in Nat \ {0}
    /\ Slots \in Nat
    /\ Quantities # {} /\ Quantities \subseteq 1..Supply
    /\ Plans # {}
    /\ MaxTxs \in Nat /\ MaxGlitches \in Nat

VARIABLES
    chain,      \* the transactions broadcast so far, in order
    allowance,  \* [wallet, key]: Keys the marketplace may take
    keysHeld,   \* key |-> Keys its creator still holds
    storage,    \* wallet |-> the launch session saved in this browser
    wallet,     \* tab |-> the connected wallet
    access,     \* tab |-> the last Creator Slot check said eligible
    step,       \* tab |-> "form" for the first two builder steps, or "review"
    plan,       \* tab |-> what the builder form says
    session,    \* tab |-> the session the page works with
    quantity,   \* tab |-> the Key quantity in the market form
    calls,      \* deploy and openKeyMarket calls in flight
    glitches

page == <<wallet, access, step, plan, session, quantity>>
ledger == <<chain, allowance, keysHeld>>
vars == <<ledger, storage, page, calls, glitches>>
------------------------------------------------------------------------------
(* Checkpoints and sessions.                                                 *)

NoTx == 0
TxIds == 1..MaxTxs
Keys == TxIds                 \* a Key is named after the creation that mints it
Stages == {"create", "approve", "list"}
Later(stage) ==
    CASE stage = "create" -> Stages
      [] stage = "approve" -> {"approve", "list"}
      [] stage = "list" -> {"list"}

Checkpoint == [tx : [Stages -> {NoTx} \cup TxIds], ok : [Stages -> BOOLEAN]]
Blank == [tx |-> [s \in Stages |-> NoTx], ok |-> [s \in Stages |-> FALSE]]

Session == [wallet : Wallets, plan : Plans, quantity : Quantities, cp : Checkpoint]
NoSession == [wallet |-> NoWallet, cp |-> Blank]

DefaultPlan == CHOOSE p \in Plans : TRUE
DefaultQuantity == CHOOSE q \in Quantities : TRUE

\* Mutant: a new fact replaces the record.
RecordedAlone(cp, stage, tx, ok) ==
    [Blank EXCEPT !.tx[stage] = tx, !.ok[stage] = ok]

Recorded(cp, stage, tx, ok) ==
    [cp EXCEPT !.tx[stage] = tx, !.ok[stage] = ok]

\* Mutant: a reverted transaction stays in the record.
ClearedNothing(cp, stage) == cp

\* A reverted transaction takes what followed it out of the record.
Cleared(cp, stage) ==
    [tx |-> [s \in Stages |-> IF s \in Later(stage) THEN NoTx ELSE cp.tx[s]],
     ok |-> [s \in Stages |-> s \notin Later(stage) /\ cp.ok[s]]]

launchHasStarted(cp) == cp.tx["create"] # NoTx
launchResult(cp) == cp.ok["create"] /\ cp.tx["create"] # NoTx
keyMarketOpen(cp) == cp.ok["list"] /\ cp.tx["list"] # NoTx
keyMarketStarted(cp) == cp.tx["approve"] # NoTx \/ cp.tx["list"] # NoTx

\* The page's trackers, over the record the page holds.
StageShown(cp, stage) ==
    CASE cp.ok[stage] -> "confirmed"
      [] ~cp.ok[stage] /\ cp.tx[stage] # NoTx -> "submitted"
      [] ~cp.ok[stage] /\ cp.tx[stage] = NoTx -> "waiting"

LaunchReceiptTracker(cp) == [stage \in {"create"} |-> StageShown(cp, stage)]
KeyMarketReceiptTracker(cp) == [stage \in {"approve", "list"} |-> StageShown(cp, stage)]

\* Records that fail this are discarded when they are read.
checkpointIsConsistent(cp) ==
    /\ \A s \in Stages : cp.ok[s] => cp.tx[s] # NoTx
    /\ keyMarketStarted(cp) => cp.ok["create"]
    /\ cp.tx["list"] # NoTx => cp.ok["approve"]

readLaunchSession(w) ==
    IF storage[w].wallet = w /\ checkpointIsConsistent(storage[w].cp)
    THEN storage[w]
    ELSE NoSession

saveLaunchSession(s) == storage' = [storage EXCEPT ![s.wallet] = s]
clearLaunchSession(w) == storage' = [storage EXCEPT ![w] = NoSession]
------------------------------------------------------------------------------
(* The chain.                                                                *)

Created(w) ==
    {x \in DOMAIN chain : chain[x].stage = "create" /\ chain[x].from = w
                          /\ chain[x].status = "success"}
Eligible(w) == Cardinality(Created(w)) < Slots

CanSucceed(tx) ==
    CASE tx.stage = "create" -> Eligible(tx.from)
      [] tx.stage = "approve" -> TRUE
      [] tx.stage = "list" -> /\ chain[tx.key].from = tx.from
                              /\ tx.quantity <= keysHeld[tx.key]
                              /\ tx.quantity <= allowance[<<tx.from, tx.key>>]

Succeed(x) ==
    LET tx == chain[x] IN
    /\ CanSucceed(tx)
    /\ chain' = [chain EXCEPT ![x].status = "success"]
    /\ keysHeld' = CASE tx.stage = "create" -> [keysHeld EXCEPT ![x] = Supply]
                     [] tx.stage = "list" -> [keysHeld EXCEPT ![tx.key] = @ - tx.quantity]
                     [] OTHER -> keysHeld
    /\ allowance' = CASE tx.stage = "approve" ->
                            [allowance EXCEPT ![<<tx.from, tx.key>>] = tx.quantity]
                      [] tx.stage = "list" ->
                            [allowance EXCEPT ![<<tx.from, tx.key>>] = @ - tx.quantity]
                      [] OTHER -> allowance
    /\ UNCHANGED glitches

\* What cannot succeed reverts; what could may still run out of gas.
Revert(x) ==
    /\ chain' = [chain EXCEPT ![x].status = "reverted"]
    /\ IF CanSucceed(chain[x])
       THEN glitches < MaxGlitches /\ glitches' = glitches + 1
       ELSE UNCHANGED glitches
    /\ UNCHANGED <<allowance, keysHeld>>

Mine(x) ==
    /\ chain[x].status = "pending"
    /\ Succeed(x) \/ Revert(x)
    /\ UNCHANGED <<storage, page, calls>>
------------------------------------------------------------------------------
(* The page.                                                                 *)

Glitch == glitches < MaxGlitches /\ glitches' = glitches + 1

NoCall == [pc |-> "none"]
InFlight(c) == calls[c].pc # "none"
Of(c, t) == InFlight(c) /\ calls[c].tab = t
\* The spinner of the component that made the call disables its button.
Busy(t, kind) == \E c \in Calls : Of(c, t) /\ calls[c].busy /\ calls[c].kind = kind

\* An unmounted component neither shows nor blocks anything; its call runs on.
Detached(c) == [calls[c] EXCEPT !.mounted = FALSE, !.busy = FALSE]
\* The command center goes away with the session; the page around it stays.
CenterClosed(t) ==
    [c \in Calls |-> IF Of(c, t) /\ calls[c].kind = "market"
                     THEN [calls[c] EXCEPT !.busy = FALSE] ELSE calls[c]]

\* What the page shows of the record it reads for its wallet.  A page without
\* a record keeps the form as it was, or starts it afresh.
Show(t, s, fresh) ==
    /\ session' = [session EXCEPT ![t] = s]
    /\ IF s # NoSession
       THEN /\ step' = [step EXCEPT ![t] = "review"]
            /\ plan' = [plan EXCEPT ![t] = s.plan]
            /\ quantity' = [quantity EXCEPT ![t] = s.quantity]
       ELSE /\ step' = IF fresh THEN [step EXCEPT ![t] = "form"] ELSE step
            /\ plan' = IF fresh THEN [plan EXCEPT ![t] = DefaultPlan] ELSE plan
            /\ UNCHANGED quantity

\* requestWallet: while the wallet is asked, the page has none.
Connect(t) ==
    /\ wallet[t] # NoWallet
    /\ Glitch
    /\ wallet' = [wallet EXCEPT ![t] = NoWallet]
    /\ access' = [access EXCEPT ![t] = "unread"]
    /\ session' = [session EXCEPT ![t] = NoSession]
    /\ calls' = CenterClosed(t)
    /\ UNCHANGED <<ledger, storage, step, plan, quantity>>

Connected(t, w) ==
    /\ wallet[t] = NoWallet
    /\ wallet' = [wallet EXCEPT ![t] = w]
    /\ Show(t, readLaunchSession(w), FALSE)
    /\ UNCHANGED <<ledger, storage, access, calls, glitches>>

SlotCheck(w) == IF Eligible(w) THEN "eligible" ELSE "full"

\* fetchTokenAccess answers for the connected wallet.
AccessRead(t) ==
    /\ wallet[t] # NoWallet
    /\ access[t] = "unread"
    /\ access' = [access EXCEPT ![t] = SlotCheck(wallet[t])]
    /\ UNCHANGED <<ledger, storage, wallet, step, plan, session, quantity, calls, glitches>>

\* Another view and back: the page starts afresh beside the calls it made.
Remount(t) ==
    /\ wallet[t] # NoWallet
    /\ Glitch
    /\ access' = [access EXCEPT ![t] = "unread"]
    /\ calls' = [c \in Calls |-> IF Of(c, t) THEN Detached(c) ELSE calls[c]]
    /\ Show(t, readLaunchSession(wallet[t]), TRUE)
    /\ UNCHANGED <<ledger, storage, wallet>>

\* A reload, or a closed and reopened tab: its calls are gone with it.
Reload(t) ==
    /\ Glitch
    /\ wallet' = [wallet EXCEPT ![t] = NoWallet]
    /\ access' = [access EXCEPT ![t] = "unread"]
    /\ calls' = [c \in Calls |-> IF Of(c, t) THEN NoCall ELSE calls[c]]
    /\ Show(t, NoSession, TRUE)
    /\ UNCHANGED <<ledger, storage>>

\* The builder: its form is open on the first two steps, and once a launch has
\* started there is no way back to them.
ToReview(t) ==
    /\ ~launchResult(session[t].cp)
    /\ step[t] = "form" /\ step' = [step EXCEPT ![t] = "review"]
    /\ UNCHANGED <<ledger, storage, wallet, access, plan, session, quantity, calls, glitches>>

ToForm(t) ==
    /\ ~launchHasStarted(session[t].cp)
    /\ step[t] = "review" /\ step' = [step EXCEPT ![t] = "form"]
    /\ UNCHANGED <<ledger, storage, wallet, access, plan, session, quantity, calls, glitches>>

EditPlan(t, p) ==
    /\ ~launchResult(session[t].cp)
    /\ step[t] = "form" /\ plan' = [plan EXCEPT ![t] = p]
    /\ UNCHANGED <<ledger, storage, wallet, access, step, session, quantity, calls, glitches>>

EditQuantity(t, q) ==
    /\ launchResult(session[t].cp) /\ ~keyMarketStarted(session[t].cp)
    /\ quantity' = [quantity EXCEPT ![t] = q]
    /\ UNCHANGED <<ledger, storage, wallet, access, step, plan, session, calls, glitches>>

\* "Start another Muppet" forgets the record of the connected wallet.
resetLaunch(t) ==
    /\ wallet[t] # NoWallet /\ launchResult(session[t].cp)
    /\ clearLaunchSession(wallet[t])
    /\ Show(t, NoSession, TRUE)
    /\ calls' = CenterClosed(t)
    /\ UNCHANGED <<ledger, wallet, access, glitches>>
------------------------------------------------------------------------------
(* A call is where it waits (pc) in which stage of the launch, the session   *)
(* it saves, and whether its component still stands: "access" and "gate" are *)
(* the two slot checks, "settle" the wait for a recorded transaction,        *)
(* "wallet" the open request, "sent" a broadcast whose hash is under way,    *)
(* "receipt" the wait that follows.  resumed is the creation it was told of. *)

Waits == {"access", "settle", "gate", "wallet", "sent", "receipt"}

\* Where a call goes on in a stage that cp does not confirm.
Entry(cp, stage) ==
    IF cp.tx[stage] # NoTx THEN "settle"
    ELSE IF stage = "create" THEN "gate" ELSE "wallet"

Start(t, kind, stage, pc, s, q) ==
    \E c \in Calls :
        /\ ~InFlight(c)
        /\ \A b \in Calls : ~InFlight(b) => c <= b
        /\ calls' = [calls EXCEPT ![c] =
              [pc |-> pc, stage |-> stage, tab |-> t, kind |-> kind,
               mounted |-> TRUE, busy |-> TRUE, account |-> wallet[t],
               session |-> s, quantity |-> q, resumed |-> s.cp.tx["create"], tx |-> NoTx]]

\* Mutant: a started launch begins like any other.
OpeningAnew(started) == "access"

\* A started launch skips the slot checks: its receipt is settled first.
Opening(started) == IF started THEN "settle" ELSE "access"

deploy(t) ==
    LET started == launchHasStarted(session[t].cp)
        s == IF session[t] # NoSession THEN session[t]
             ELSE [wallet |-> wallet[t], plan |-> plan[t],
                   quantity |-> DefaultQuantity, cp |-> Blank]
    IN
    /\ wallet[t] # NoWallet
    /\ step[t] = "review" /\ ~launchResult(session[t].cp)
    /\ ~Busy(t, "launch")
    /\ started \/ access[t] = "eligible"
    /\ Start(t, "launch", "create", Opening(started), s, DefaultQuantity)
    /\ UNCHANGED <<ledger, storage, page, glitches>>

\* onCheckpoint: the record is saved under the wallet of the call's session,
\* and the page the call was made from shows it, whatever its wallet is now.
Persist(c, cp) ==
    LET s == [calls[c].session EXCEPT !.cp = cp]
        t == calls[c].tab
        opens == launchResult(cp) /\ ~launchResult(session[t].cp)
    IN
    /\ saveLaunchSession(s)
    /\ IF calls[c].mounted
       THEN /\ session' = [session EXCEPT ![t] = s]
            /\ quantity' = IF opens THEN [quantity EXCEPT ![t] = s.quantity] ELSE quantity
       ELSE UNCHANGED <<session, quantity>>

openKeyMarket(t) ==
    LET s == [session[t] EXCEPT !.quantity = quantity[t]]
        stage == IF s.cp.ok["approve"] THEN "list" ELSE "approve"
    IN
    /\ wallet[t] # NoWallet
    /\ launchResult(s.cp) /\ ~keyMarketOpen(s.cp)
    /\ ~Busy(t, "market")
    /\ saveLaunchSession(s)
    /\ session' = [session EXCEPT ![t] = s]
    /\ Start(t, "market", stage, Entry(s.cp, stage), s, quantity[t])
    /\ UNCHANGED <<ledger, wallet, access, step, plan, quantity, glitches>>

Ended(c) == calls' = [calls EXCEPT ![c] = NoCall]
GoesOn(c, pc) == calls' = [calls EXCEPT ![c].pc = pc]

\* The stage is confirmed, and the next one of the call begins.
Confirmed(c) ==
    LET call == calls[c]
        cp == Recorded(call.session.cp, call.stage, call.session.cp.tx[call.stage], TRUE)
    IN
    /\ Persist(c, cp)
    /\ IF call.stage = "approve" /\ ~cp.ok["list"]
       THEN calls' = [calls EXCEPT ![c].session.cp = cp, ![c].stage = "list",
                                   ![c].pc = Entry(cp, "list")]
       ELSE Ended(c)

\* deploy asks for the wallet's slots again before anything is sent.
SlotsChecked(c) ==
    LET call == calls[c] IN
    /\ call.pc = "access"
    /\ IF Eligible(call.account) THEN GoesOn(c, "gate") ELSE Ended(c)
    /\ access' = IF call.mounted
                 THEN [access EXCEPT ![call.tab] = SlotCheck(call.account)] ELSE access
    /\ UNCHANGED <<ledger, storage, wallet, step, plan, session, quantity, glitches>>

\* launchAgent reads balance and creations from the chain.
GateRead(c) ==
    /\ calls[c].pc = "gate"
    /\ IF Eligible(calls[c].account) THEN GoesOn(c, "wallet") ELSE Ended(c)
    /\ UNCHANGED <<ledger, storage, page, glitches>>

\* The receipt of a transaction an earlier call recorded: after a revert the
\* record is cleared and the transaction sent anew.
Settled(c) ==
    LET call == calls[c]
        cp == Cleared(call.session.cp, call.stage)
        tx == call.session.cp.tx[call.stage]
    IN
    /\ call.pc = "settle" /\ chain[tx].status # "pending"
    /\ IF chain[tx].status = "success"
       THEN Confirmed(c)
       ELSE /\ Persist(c, cp)
            /\ calls' = [calls EXCEPT ![c].session.cp = cp, ![c].pc = Entry(cp, call.stage)]
    /\ UNCHANGED <<ledger, wallet, access, step, plan, glitches>>

\* The holder confirms: the transaction is out, its hash not yet known here.
Sign(c) ==
    LET call == calls[c]
        x == Len(chain) + 1
        create == call.session.cp.tx["create"]
    IN
    /\ call.pc = "wallet" /\ Len(chain) < MaxTxs
    /\ chain' = Append(chain,
          [stage |-> call.stage, from |-> call.account, status |-> "pending",
           key |-> IF call.stage = "create" THEN x ELSE create,
           plan |-> call.session.plan, quantity |-> call.quantity,
           after |-> IF call.stage = "create" THEN call.resumed
                     ELSE call.session.cp.tx["approve"]])
    /\ calls' = [calls EXCEPT ![c].pc = "sent", ![c].tx = x]
    /\ UNCHANGED <<allowance, keysHeld, storage, page, glitches>>

Decline(c) ==
    /\ calls[c].pc = "wallet"
    /\ Ended(c)
    /\ UNCHANGED <<ledger, storage, page, glitches>>

\* onSubmitted: the hash is recorded before the receipt is awaited.
Submitted(c) ==
    LET call == calls[c]
        cp == Recorded(call.session.cp, call.stage, call.tx, FALSE)
    IN
    /\ call.pc = "sent"
    /\ Persist(c, cp)
    /\ calls' = [calls EXCEPT ![c].session.cp = cp, ![c].pc = "receipt", ![c].tx = NoTx]
    /\ UNCHANGED <<ledger, wallet, access, step, plan, glitches>>

\* The receipt of the call's own transaction; a revert leaves the record as it
\* is, for the next call to settle.
ReceiptRead(c) ==
    LET call == calls[c]
        tx == call.session.cp.tx[call.stage]
    IN
    /\ call.pc = "receipt" /\ chain[tx].status # "pending"
    /\ IF chain[tx].status = "success"
       THEN Confirmed(c)
       ELSE Ended(c) /\ UNCHANGED <<storage, session, quantity>>
    /\ UNCHANGED <<ledger, wallet, access, step, plan, glitches>>

\* A check, a receipt or the wallet's answer that does not come back in time.
Unreadable(c) ==
    /\ calls[c].pc \in Waits \ {"wallet"}
    /\ Glitch
    /\ Ended(c)
    /\ UNCHANGED <<ledger, storage, page>>

CallStep(c) ==
    \/ SlotsChecked(c)
    \/ GateRead(c)
    \/ Settled(c)
    \/ Sign(c)
    \/ Submitted(c)
    \/ ReceiptRead(c)
    \/ Decline(c)
------------------------------------------------------------------------------
Init ==
    /\ chain = <<>>
    /\ allowance = [wk \in Wallets \X Keys |-> 0]
    /\ keysHeld = [k \in Keys |-> 0]
    /\ storage = [w \in Wallets |-> NoSession]
    /\ wallet = [t \in Tabs |-> NoWallet]
    /\ access = [t \in Tabs |-> "unread"]
    /\ step = [t \in Tabs |-> "form"]
    /\ plan = [t \in Tabs |-> DefaultPlan]
    /\ session = [t \in Tabs |-> NoSession]
    /\ quantity = [t \in Tabs |-> DefaultQuantity]
    /\ calls = [c \in Calls |-> NoCall]
    /\ glitches = 0

PageStep(t) ==
    \/ Connect(t)
    \/ \E w \in Wallets : Connected(t, w)
    \/ AccessRead(t)
    \/ Remount(t)
    \/ Reload(t)
    \/ ToReview(t)
    \/ ToForm(t)
    \/ \E p \in Plans : EditPlan(t, p)
    \/ \E q \in Quantities : EditQuantity(t, q)
    \/ resetLaunch(t)
    \/ deploy(t)
    \/ openKeyMarket(t)

Next ==
    \/ \E x \in DOMAIN chain : Mine(x)
    \/ \E t \in Tabs : PageStep(t)
    \/ \E c \in Calls : InFlight(c) /\ (CallStep(c) \/ Unreadable(c))

Spec == Init /\ [][Next]_vars

(* Transactions are mined, asynchronous calls go on, the holder answers the  *)
(* wallet one way or the other, and comes back to a started launch: connects *)
(* a wallet, walks on to the review and presses Resume.                      *)
FairSpec ==
    /\ Spec
    /\ \A x \in TxIds : WF_vars(x \in DOMAIN chain /\ Mine(x))
    /\ \A c \in Calls : WF_vars(InFlight(c) /\ CallStep(c))
    /\ \A t \in Tabs :
         /\ WF_vars(\E w \in Wallets : Connected(t, w))
         /\ WF_vars(launchHasStarted(session[t].cp) /\ ToReview(t))
         /\ WF_vars(launchHasStarted(session[t].cp) /\ deploy(t))
------------------------------------------------------------------------------
(* What the records promise.                                                 *)

RecordsAreTrue ==
    \A w \in Wallets :
        LET cp == storage[w].cp IN
        /\ checkpointIsConsistent(cp)
        /\ \A s \in Stages :
             /\ cp.tx[s] # NoTx => chain[cp.tx[s]].stage = s
             /\ cp.ok[s] => chain[cp.tx[s]].status = "success"

TrackersAreTrue(cp) ==
    \A shown \in {LaunchReceiptTracker(cp), KeyMarketReceiptTracker(cp)} :
        \A s \in DOMAIN shown :
            /\ shown[s] = "submitted" => chain[cp.tx[s]].stage = s
            /\ shown[s] = "confirmed" => chain[cp.tx[s]].status = "success"

\* What is saved, by any call of any tab in any order, is a record that reading
\* it back accepts, and each confirmation in it is a transaction the chain has
\* executed.  A record that failed would be discarded, and the launch repeated.
\* What the trackers of a page call submitted was sent, and what they call
\* confirmed was executed, whatever wallet and record the page went through.
StoredRecordsAreTrue ==
    /\ RecordsAreTrue
    /\ \A t \in Tabs : TrackersAreTrue(session[t].cp)

\* A call told of an earlier creation sends another one only after that one
\* has reverted: Resume checks the receipt before it sends anything.
ResumeNeverDuplicates ==
    \A x \in DOMAIN chain :
        chain[x].stage = "create" /\ chain[x].after # NoTx
            => chain[chain[x].after].status = "reverted"

\* A listing is sent for exactly the Keys its own record's approval covers, and
\* only once that approval is mined, across reloads and edits of the form.
ListingsUseTheirApproval ==
    \A x \in DOMAIN chain :
        chain[x].stage = "list" =>
            /\ chain[x].after # NoTx
            /\ chain[chain[x].after].status = "success"
            /\ chain[chain[x].after].quantity = chain[x].quantity
            /\ chain[chain[x].after].key = chain[x].key

\* A page that shows a launch as submitted comes to show its Muppet, or the
\* form again if the creation reverted.
StartedLaunchesAreResolved ==
    \A t \in Tabs :
        launchHasStarted(session[t].cp)
            ~> (launchResult(session[t].cp) \/ ~launchHasStarted(session[t].cp))
=============================================================================
