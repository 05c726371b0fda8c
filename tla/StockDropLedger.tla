--------------------------- MODULE StockDropLedger ---------------------------
(* What Stock Drops promise: a drop has a budget of its own, an allocation   *)
(* is paid once and out of that budget, and a holder is told that it was     *)
(* claimed only when it was paid.  Nothing is said of transactions, wallets, *)
(* pages or storage.                                                         *)
EXTENDS Naturals

CONSTANTS
    Holders,
    DropIds,
    Allocation     \* <<drop, holder>> |-> tokens

VARIABLES
    left,          \* drop |-> tokens of its budget not yet paid out
    paid,          \* the allocations paid
    told           \* the allocations a page shows as claimed

ledger == <<left, paid, told>>

Init ==
    /\ left = [d \in DropIds |-> 0]
    /\ paid = {}
    /\ told = {}

Fund(d) ==
    /\ left[d] = 0
    /\ \A h \in Holders : <<d, h>> \notin paid
    /\ left'[d] > 0 /\ left' = [left EXCEPT ![d] = left'[d]]
    /\ UNCHANGED <<paid, told>>

Pay(d, h) ==
    /\ <<d, h>> \notin paid
    /\ Allocation[<<d, h>>] <= left[d]
    /\ left' = [left EXCEPT ![d] = @ - Allocation[<<d, h>>]]
    /\ paid' = paid \cup {<<d, h>>}
    /\ UNCHANGED told

Tell ==
    /\ told' \subseteq paid
    /\ UNCHANGED <<left, paid>>

Next ==
    \/ Tell
    \/ \E d \in DropIds : Fund(d) \/ \E h \in Holders : Pay(d, h)

Spec == Init /\ [][Next]_ledger
=============================================================================
