----------------------------- MODULE LaunchFunding -----------------------------
(* The funding card of a launched Muppet: the vault it reads, the preview of  *)
(* the shares an amount is worth, and the deposit in two confirmations.  The  *)
(* vault is read again and again while the card stands, each time as another  *)
(* target; a preview is asked for a while after the amount or the target      *)
(* changed, and its answer may come late.                                     *)
EXTENDS Naturals, Sequences

CONSTANTS
    Deposits,       \* amounts of the deposit asset typed into the card
    Purse,          \* what the wallet holds at first
    Quotes,         \* identities of previews, so a bound on those under way
    MaxTargets,     \* bound on readings of the vault
    MaxFundings,    \* bound on deposits started
    MaxHiccups      \* bound on lost answers, refusals, departures, payments

VARIABLES
    purse,          \* the wallet's balance of the deposit asset
    allowance,      \* what the vault may take of it
    deposited,      \* what the vault took
    card,           \* the card on the page
    quotes,         \* previews under way
    funding,        \* deposits under way, of this card or of an earlier one
    funded,         \* the amounts of all deposits that were started
    hiccups

wallet == <<purse, allowance, deposited>>
vars == <<wallet, card, quotes, funding, funded, hiccups>>

\* What WebClientProofs needs of the constants.
FundingAssumption == Deposits \subseteq Nat /\ Purse \in Nat
------------------------------------------------------------------------------
NoAmount == 0
NoTarget == [nth |-> 0, balance |-> 0]
NoPreview == [amount |-> NoAmount, nth |-> 0]
NoQuote == [pc |-> "none", active |-> FALSE]

NewCard(planned, targets) ==
    [planned |-> planned, fundAmount |-> planned, target |-> NoTarget, byAgent |-> FALSE, targets |-> targets,
     timer |-> FALSE, preview |-> NoPreview, funding |-> FALSE]

Hiccup == hiccups < MaxHiccups /\ hiccups' = hiccups + 1

\* A form that does not parse has no amount.
amountRaw(c) == IF c.target = NoTarget THEN NoAmount ELSE c.fundAmount
amountAvailable(c) == amountRaw(c) # NoAmount /\ amountRaw(c) <= c.target.balance

\* Mutant: a changed form keeps the preview it shows, and what was asked.
PreviewKept(c) ==
    /\ card' = [c EXCEPT !.timer = amountRaw(c) # NoAmount]
    /\ UNCHANGED quotes

\* The preview's effect: nothing is shown or awaited of before, and a timer
\* runs when there is something to ask.
Changed(c) ==
    /\ card' = [c EXCEPT !.preview = NoPreview, !.timer = amountRaw(c) # NoAmount]
    /\ quotes' = [q \in Quotes |-> [quotes[q] EXCEPT !.active = FALSE]]
------------------------------------------------------------------------------
(* The target: read by the card itself until the snapshot has the agent.     *)

NextTarget == [nth |-> card.targets + 1, balance |-> purse]

loadVaultFundingTarget ==
    /\ ~card.byAgent
    /\ card.targets < MaxTargets
    /\ Changed([card EXCEPT !.target = NextTarget, !.targets = @ + 1])
    /\ UNCHANGED <<wallet, funding, funded, hiccups>>

\* Each snapshot brings the agent anew.
AgentShown ==
    /\ card.targets < MaxTargets
    /\ Changed([card EXCEPT !.target = NextTarget, !.targets = @ + 1, !.byAgent = TRUE])
    /\ UNCHANGED <<wallet, funding, funded, hiccups>>

\* A snapshot that failed takes the agent away, and what was read before it.
AgentLost ==
    /\ card.byAgent
    /\ Hiccup
    /\ Changed([card EXCEPT !.target = NoTarget, !.byAgent = FALSE])
    /\ UNCHANGED <<wallet, funding, funded>>

EditAmount(amount) ==
    /\ amount # card.fundAmount
    /\ IF card.target = NoTarget
       THEN card' = [card EXCEPT !.fundAmount = amount] /\ UNCHANGED quotes
       ELSE Changed([card EXCEPT !.fundAmount = amount])
    /\ UNCHANGED <<wallet, funding, funded, hiccups>>

\* The page leaves the card, which begins again where it stands next.
Departs ==
    /\ Hiccup
    /\ card' = NewCard(card.planned, card.targets)
    /\ quotes' = [q \in Quotes |-> [quotes[q] EXCEPT !.active = FALSE]]
    /\ funding' = [d \in DOMAIN funding |-> [funding[d] EXCEPT !.mounted = FALSE]]
    /\ UNCHANGED <<wallet, funded>>
------------------------------------------------------------------------------
(* Previews.                                                                 *)

previewVaultDeposit(q) ==
    /\ card.timer
    /\ quotes[q].pc = "none"
    /\ \A p \in Quotes : quotes[p].pc = "none" => q <= p
    /\ card' = [card EXCEPT !.timer = FALSE]
    /\ quotes' = [quotes EXCEPT ![q] =
          [pc |-> "asked", active |-> TRUE, amount |-> amountRaw(card), nth |-> card.target.nth]]
    /\ UNCHANGED <<wallet, funding, funded, hiccups>>

PreviewShown(q) ==
    /\ quotes[q].pc = "asked"
    /\ card' = IF quotes[q].active
               THEN [card EXCEPT !.preview = [amount |-> quotes[q].amount, nth |-> quotes[q].nth]]
               ELSE card
    /\ quotes' = [quotes EXCEPT ![q] = NoQuote]
    /\ UNCHANGED <<wallet, funding, funded, hiccups>>

\* Shown as unavailable until the form or the target changes.
PreviewFails(q) ==
    /\ quotes[q].pc = "asked"
    /\ Hiccup
    /\ quotes' = [quotes EXCEPT ![q] = NoQuote]
    /\ UNCHANGED <<wallet, card, funding, funded>>
------------------------------------------------------------------------------
(* The deposit: an approval of its amount, then the deposit itself.          *)

fundVault ==
    /\ ~card.funding /\ amountAvailable(card) /\ card.preview # NoPreview
    /\ Len(funding) < MaxFundings
    /\ card' = [card EXCEPT !.funding = TRUE]
    /\ funding' = Append(funding,
          [pc |-> "approve", amount |-> amountRaw(card), previewed |-> card.preview,
           nth |-> card.target.nth, mounted |-> TRUE])
    /\ funded' = funded + amountRaw(card)
    /\ UNCHANGED <<wallet, quotes, hiccups>>

\* The button waits for the call of its own card only.
Returns(d, how) ==
    /\ funding' = [funding EXCEPT ![d].pc = how]
    /\ card' = IF funding[d].mounted THEN [card EXCEPT !.funding = FALSE] ELSE card

\* An approval replaces the one before it, whoever gave that.
Approved(d) ==
    /\ funding[d].pc = "approve"
    /\ allowance' = funding[d].amount
    /\ funding' = [funding EXCEPT ![d].pc = "deposit"]
    /\ UNCHANGED <<purse, deposited, card, quotes, funded, hiccups>>

depositToVault(d) ==
    LET amount == funding[d].amount IN
    /\ funding[d].pc = "deposit"
    /\ IF amount <= purse /\ amount <= allowance
       THEN /\ purse' = purse - amount
            /\ allowance' = allowance - amount
            /\ deposited' = deposited + amount
            /\ Returns(d, "done")
       ELSE UNCHANGED wallet /\ Returns(d, "failed")
    /\ UNCHANGED <<quotes, funded, hiccups>>

\* Refused in the wallet, or no receipt in time for an approval.
Refused(d) ==
    /\ funding[d].pc \in {"approve", "deposit"}
    /\ Hiccup
    /\ Returns(d, "failed")
    /\ UNCHANGED <<wallet, quotes, funded>>

\* The wallet pays for something else.
Pays ==
    /\ purse > 0
    /\ Hiccup
    /\ purse' = purse - 1
    /\ UNCHANGED <<allowance, deposited, card, quotes, funding, funded>>
------------------------------------------------------------------------------
Init ==
    /\ purse = Purse /\ allowance = 0 /\ deposited = 0
    /\ \E amount \in Deposits : card = NewCard(amount, 0)
    /\ quotes = [q \in Quotes |-> NoQuote]
    /\ funding = << >>
    /\ funded = 0
    /\ hiccups = 0

Next ==
    \/ loadVaultFundingTarget \/ AgentShown \/ AgentLost \/ Departs \/ Pays
    \/ \E amount \in Deposits : EditAmount(amount)
    \/ \E q \in Quotes : previewVaultDeposit(q) \/ PreviewShown(q) \/ PreviewFails(q)
    \/ fundVault
    \/ \E d \in DOMAIN funding : Approved(d) \/ depositToVault(d) \/ Refused(d)

Spec == Init /\ [][Next]_vars
------------------------------------------------------------------------------
\* The wallet is only ever asked to deposit the amount whose shares the card
\* showed when its button was pressed, read against the vault the deposit goes
\* to, and the vault takes no more than was asked for: not when the form is
\* edited under a late preview, not when two cards' deposits share one
\* allowance, not after a refusal between the two confirmations.
DepositsAreAsPreviewed ==
    /\ \A d \in DOMAIN funding :
          /\ funding[d].amount = funding[d].previewed.amount
          /\ funding[d].nth = funding[d].previewed.nth
    /\ deposited + allowance <= funded
=============================================================================
