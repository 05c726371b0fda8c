---------------------------- MODULE KeyMarketplace ----------------------------
(***************************************************************************)
(* KeyMarketplaceV2.sol: an order book of whole-unit Agent Keys.  Listings *)
(* hold the seller's keys, offers hold the buyer's ETH with the fee of the *)
(* day they were made; both fill in parts.  The fee of a trade goes to the *)
(* revenue router, whose refusal (it is paused, or does not allow this     *)
(* marketplace) reverts the trade.                                         *)
(***************************************************************************)
EXTENDS Integers, Sequences, FiniteSets, Functions

CONSTANTS
    Accounts,
    Keys,
    Creator,       \* who holds the keys at first
    RefusesEth,    \* accounts whose code rejects ETH
    Supply,        \* of every key
    Fees,          \* fees the owner may set, in BPS
    Prices,        \* unitPriceWei of orders
    MaxListings,   \* bound: listings ever made
    MaxOffers      \* bound: offers ever made

BPS == 10000
MaxFeeBps == 1000

ASSUME KeyMarketplaceAssumption ==
    /\ IsFiniteSet(Accounts)     \* an address has 160 bits
    /\ Creator \in Accounts
    /\ RefusesEth \subseteq Accounts
    /\ Supply \in Nat
    /\ Fees \subseteq Nat
    /\ Prices \subseteq Nat \ {0}
    /\ MaxListings \in Nat
    /\ MaxOffers \in Nat

VARIABLES
    feeBps,
    factorySet,     \* factory # address(0)
    approvedKeys,
    routerOpen,     \* recordKeyMarketplaceRevenue succeeds for this caller
    keyBalance,     \* keyBalance[k][a]: keys in the hands of a
    escrowedKeys,   \* keys the marketplace holds, per key
    nativeBalance,  \* ETH the marketplace holds
    listings,       \* by id
    offers,         \* by id; feeBps is offerFeeBps
    keyVolume,      \* what the router was told, per key: grossVolume
    keyFees         \* and fee

adminVars  == <<feeBps, factorySet, approvedKeys, routerOpen>>
tokenVars  == <<keyBalance, escrowedKeys>>
routerVars == <<keyVolume, keyFees>>
vars == <<adminVars, tokenVars, routerVars, nativeBalance, listings, offers>>

Quantities == 1 .. Supply

Listing == [seller : Accounts, key : Keys, quantity : Nat, unitPriceWei : Nat,
            active : BOOLEAN]
Offer   == [buyer : Accounts, key : Keys, quantity : Nat, unitPriceWei : Nat,
            escrowWei : Nat, feeBps : Nat, active : BOOLEAN]

\* Mutant: the fee is rounded up.
FeeRoundedUp(subtotal, bps) == (subtotal * bps + BPS - 1) \div BPS

Fee(subtotal, bps) == (subtotal * bps) \div BPS

Init ==
    /\ feeBps \in {bps \in Fees : bps <= MaxFeeBps}
    /\ factorySet = FALSE
    /\ approvedKeys = {}
    /\ routerOpen \in BOOLEAN
    /\ keyBalance = [k \in Keys |-> [a \in Accounts |-> IF a = Creator THEN Supply ELSE 0]]
    /\ escrowedKeys = [k \in Keys |-> 0]
    /\ nativeBalance = 0
    /\ listings = <<>>
    /\ offers = <<>>
    /\ keyVolume = [k \in Keys |-> 0]
    /\ keyFees = [k \in Keys |-> 0]

-----------------------------------------------------------------------------
(* The owner, the factory and the router.                                  *)

SetFactory ==
    /\ ~factorySet
    /\ factorySet' = TRUE
    /\ UNCHANGED <<feeBps, approvedKeys, routerOpen, tokenVars, routerVars,
                   nativeBalance, listings, offers>>

RegisterKey(k) ==
    /\ factorySet
    /\ approvedKeys' = approvedKeys \cup {k}
    /\ UNCHANGED <<feeBps, factorySet, routerOpen, tokenVars, routerVars,
                   nativeBalance, listings, offers>>

FeeAllowed(bps) == bps <= MaxFeeBps

SetFee(bps) ==
    /\ FeeAllowed(bps)
    /\ feeBps' = bps
    /\ UNCHANGED <<factorySet, approvedKeys, routerOpen, tokenVars, routerVars,
                   nativeBalance, listings, offers>>

(* The router is paused or resumed, or setRevenueRouter names another one. *)
SetRouterOpen(open) ==
    /\ routerOpen' = open
    /\ UNCHANGED <<feeBps, factorySet, approvedKeys, tokenVars, routerVars,
                   nativeBalance, listings, offers>>

-----------------------------------------------------------------------------
(* Settlement.                                                             *)

(* A zero fee makes no call.                                               *)
FeeIsAccepted(fee) == fee = 0 \/ routerOpen

(* _recordFee: the router's books of key k after a trade.                  *)
RecordFee(k, subtotal, fee) ==
    IF fee = 0 THEN UNCHANGED routerVars
    ELSE /\ keyVolume' = [keyVolume EXCEPT ![k] = @ + subtotal]
         /\ keyFees' = [keyFees EXCEPT ![k] = @ + fee]

(* _pay: a payment of nothing always succeeds.  That ETH and tokens are    *)
(* there is a guard of the actions, as the transfer would revert.          *)
PaymentAccepted(receiver, value) == value = 0 \/ receiver \notin RefusesEth

-----------------------------------------------------------------------------
(* Listings.                                                               *)

CreateListing(seller, k, quantity, unitPriceWei) ==
    /\ Len(listings) < MaxListings
    /\ k \in approvedKeys
    /\ keyBalance[k][seller] >= quantity
    /\ keyBalance' = [keyBalance EXCEPT ![k][seller] = @ - quantity]
    /\ escrowedKeys' = [escrowedKeys EXCEPT ![k] = @ + quantity]
    /\ listings' = Append(listings, [seller |-> seller, key |-> k, quantity |-> quantity,
                                     unitPriceWei |-> unitPriceWei, active |-> TRUE])
    /\ UNCHANGED <<adminVars, routerVars, nativeBalance, offers>>

CancelledListing(listing) == [listing EXCEPT !.active = FALSE, !.quantity = 0]

CancelListing(id) ==
    LET listing == listings[id] IN
    /\ listing.active
    /\ listing.quantity <= escrowedKeys[listing.key]
    /\ listings' = [listings EXCEPT ![id] = CancelledListing(listing)]
    /\ keyBalance' = [keyBalance EXCEPT ![listing.key][listing.seller] = @ + listing.quantity]
    /\ escrowedKeys' = [escrowedKeys EXCEPT ![listing.key] = @ - listing.quantity]
    /\ UNCHANGED <<adminVars, routerVars, nativeBalance, offers>>

(* The buyer sends exactly subtotal + fee at the fee of this moment; all   *)
(* of it is passed on.                                                     *)
Buy(buyer, id, quantity) ==
    LET listing == listings[id]
        subtotal == quantity * listing.unitPriceWei
        fee == Fee(subtotal, feeBps)
        rest == listing.quantity - quantity
    IN  /\ listing.active
        /\ quantity <= listing.quantity
        /\ quantity <= escrowedKeys[listing.key]
        /\ PaymentAccepted(listing.seller, subtotal)
        /\ FeeIsAccepted(fee)
        /\ listings' = [listings EXCEPT ![id] = [listing EXCEPT !.quantity = rest, !.active = rest # 0]]
        /\ keyBalance' = [keyBalance EXCEPT ![listing.key][buyer] = @ + quantity]
        /\ escrowedKeys' = [escrowedKeys EXCEPT ![listing.key] = @ - quantity]
        /\ RecordFee(listing.key, subtotal, fee)
        /\ UNCHANGED <<adminVars, nativeBalance, offers>>

-----------------------------------------------------------------------------
(* Offers.                                                                 *)

CreateOffer(buyer, k, quantity, unitPriceWei) ==
    LET subtotal == quantity * unitPriceWei
        escrow == subtotal + Fee(subtotal, feeBps)
    IN  /\ Len(offers) < MaxOffers
        /\ k \in approvedKeys
        /\ offers' = Append(offers, [buyer |-> buyer, key |-> k, quantity |-> quantity,
                                     unitPriceWei |-> unitPriceWei, escrowWei |-> escrow,
                                     feeBps |-> feeBps, active |-> TRUE])
        /\ nativeBalance' = nativeBalance + escrow
        /\ UNCHANGED <<adminVars, tokenVars, routerVars, listings>>

\* Mutant: cancelling asks the router.
CancellableWhileOpen(offer) == offer.active /\ routerOpen

(* Cancelling needs neither the router nor an approved key.                *)
Cancellable(offer) == offer.active

CancelOffer(id) ==
    LET offer == offers[id] IN
    /\ Cancellable(offer)
    /\ offer.escrowWei <= nativeBalance
    /\ PaymentAccepted(offer.buyer, offer.escrowWei)
    /\ offers' = [offers EXCEPT ![id] = [offer EXCEPT !.active = FALSE, !.escrowWei = 0]]
    /\ nativeBalance' = nativeBalance - offer.escrowWei
    /\ UNCHANGED <<adminVars, tokenVars, routerVars, listings>>

\* Mutant: the fee of today.
FeeOfToday(offer, subtotal) == Fee(subtotal, feeBps)

(* The fee of a fill, at offerFeeBps.                                      *)
OfferFee(offer, subtotal) == Fee(subtotal, offer.feeBps)

\* Mutant: the rounding rest stays in the contract.
NothingBack(offer, spent, rest) == 0

(* The last fill returns what rounding left in the escrow.                 *)
Refund(offer, spent, rest) == IF rest = 0 THEN offer.escrowWei - spent ELSE 0

EscrowAfter(offer, spent, rest) == IF rest = 0 THEN 0 ELSE offer.escrowWei - spent

AcceptOffer(seller, id, quantity) ==
    LET offer == offers[id]
        subtotal == quantity * offer.unitPriceWei
        fee == OfferFee(offer, subtotal)
        rest == offer.quantity - quantity
        refund == Refund(offer, subtotal + fee, rest)
    IN  /\ offer.active
        /\ quantity <= offer.quantity
        /\ keyBalance[offer.key][seller] >= quantity
        /\ subtotal + fee <= offer.escrowWei
        /\ subtotal + fee + refund <= nativeBalance
        /\ PaymentAccepted(seller, subtotal)
        /\ FeeIsAccepted(fee)
        /\ PaymentAccepted(offer.buyer, refund)
        /\ keyBalance' = [keyBalance EXCEPT
               ![offer.key] = [a \in Accounts |->
                   @[a] + (IF a = offer.buyer THEN quantity ELSE 0)
                        - (IF a = seller THEN quantity ELSE 0)]]
        /\ offers' = [offers EXCEPT ![id] =
               [offer EXCEPT !.quantity = rest, !.active = rest # 0,
                             !.escrowWei = EscrowAfter(offer, subtotal + fee, rest)]]
        /\ nativeBalance' = nativeBalance - subtotal - fee - refund
        /\ RecordFee(offer.key, subtotal, fee)
        /\ UNCHANGED <<adminVars, escrowedKeys, listings>>

-----------------------------------------------------------------------------

Administer ==
    \/ SetFactory
    \/ \E k \in Keys : RegisterKey(k)
    \/ \E bps \in Fees : SetFee(bps)
    \/ \E open \in BOOLEAN : SetRouterOpen(open)

Make ==
    \E a \in Accounts, k \in Keys, quantity \in Quantities, price \in Prices :
        \/ CreateListing(a, k, quantity, price)
        \/ CreateOffer(a, k, quantity, price)

Fill ==
    \E a \in Accounts, quantity \in Quantities :
        \/ \E id \in DOMAIN listings : Buy(a, id, quantity)
        \/ \E id \in DOMAIN offers : AcceptOffer(a, id, quantity)

Cancel ==
    \/ \E id \in DOMAIN listings : CancelListing(id)
    \/ \E id \in DOMAIN offers : CancelOffer(id)

Next ==
    \/ Administer
    \/ Make
    \/ Fill
    \/ Cancel

Spec == Init /\ [][Next]_vars

-----------------------------------------------------------------------------
TypeOK ==
    /\ feeBps \in {bps \in Fees : bps <= MaxFeeBps}
    /\ factorySet \in BOOLEAN
    /\ approvedKeys \in SUBSET Keys
    /\ routerOpen \in BOOLEAN
    /\ keyBalance \in [Keys -> [Accounts -> Nat]]
    /\ escrowedKeys \in [Keys -> Nat]
    /\ nativeBalance \in Nat
    /\ listings \in Seq(Listing)
    /\ offers \in Seq(Offer)
    /\ keyVolume \in [Keys -> Nat]
    /\ keyFees \in [Keys -> Nat]

(* Fills, cancellations and repeated orders never lose or mint a key: the  *)
(* marketplace holds exactly what its open listings offer, and with the    *)
(* keys in the accounts' hands that is the supply.                         *)
KeysAreEscrowed ==
    \A k \in Keys :
        /\ escrowedKeys[k] =
              SumFunctionOnSet([id \in DOMAIN listings |-> listings[id].quantity],
                  {id \in DOMAIN listings : listings[id].key = k /\ listings[id].active})
        /\ escrowedKeys[k] + SumFunctionOnSet(keyBalance[k], Accounts) = Supply

(* The ETH the marketplace holds is what its open offers can still spend   *)
(* or take back: closed offers leave no dust behind, and no offer is paid  *)
(* out of another one's escrow.                                            *)
EthIsEscrowed ==
    nativeBalance =
        SumFunctionOnSet([id \in DOMAIN offers |-> offers[id].escrowWei],
                         {id \in DOMAIN offers : offers[id].active})

(* Both escrows are exact.                                                 *)
EscrowIsExact == KeysAreEscrowed /\ EthIsEscrowed

(* However an offer is filled in parts and whatever the owner does to the  *)
(* fee meanwhile, its escrow still pays for all that is left of it.        *)
EscrowCovers(offer) ==
    LET subtotal == offer.quantity * offer.unitPriceWei IN
    subtotal + Fee(subtotal, offer.feeBps) <= offer.escrowWei

EscrowCoversOffers ==
    \A id \in DOMAIN offers : offers[id].active => EscrowCovers(offers[id])

(* An order keeps the terms it was made with: an open offer spends for     *)
(* each key exactly its price and the fee of the day it was made, a        *)
(* listing only shrinks, and a closed order never changes again.           *)
OrdersKeepTheirTerms ==
    [][/\ \A id \in DOMAIN offers :
            LET old == offers[id]
                new == offers'[id]
                subtotal == (old.quantity - new.quantity) * old.unitPriceWei
            IN  /\ ~old.active => new = old
                /\ new.active => /\ old.escrowWei - new.escrowWei
                                       = subtotal + Fee(subtotal, old.feeBps)
                                 /\ new = [old EXCEPT !.quantity = new.quantity,
                                                      !.escrowWei = new.escrowWei]
       /\ \A id \in DOMAIN listings :
            LET old == listings[id]
                new == listings'[id]
            IN  /\ ~old.active => new = old
                /\ new.quantity <= old.quantity
                /\ new = [old EXCEPT !.quantity = new.quantity, !.active = new.active]
      ]_vars

-----------------------------------------------------------------------------
(* A buyer who wants out keeps trying to cancel.                           *)
FairSpec ==
    /\ Spec
    /\ \A id \in 1 .. MaxOffers : WF_vars(id \in DOMAIN offers /\ CancelOffer(id))

(* An offer can always be taken back, also while the router refuses every  *)
(* fee and whatever the owner changes, unless its buyer refuses ETH.       *)
OffersCanAlwaysLeave ==
    \A id \in 1 .. MaxOffers :
        (id \in DOMAIN offers /\ offers[id].buyer \notin RefusesEth)
            ~> (id \in DOMAIN offers /\ ~offers[id].active)
=============================================================================
