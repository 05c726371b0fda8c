------------------------- MODULE KeyMarketplaceProofs -------------------------
(***************************************************************************)
(* Proofs about KeyMarketplace, for every set of accounts, keys, fees and  *)
(* prices, and about ActivityIndexer, which follows its orders.  That an   *)
(* offer's escrow covers what is left of it rests on one fact about        *)
(* rounding: two fees rounded down are never more than the fee of the two  *)
(* subtotals together.  That the index is final below its window rests on  *)
(* which blocks are out of reach of a reorganisation.                      *)
(***************************************************************************)
EXTENDS KeyMarketplace, ActivityIndexer, SumLemmas, TLAPS

USE DEF BPS, MaxFeeBps

(* A fee is a natural number.                                              *)
LEMMA FeeIsNat ==
    ASSUME NEW x \in Nat, NEW bps \in Nat
    PROVE  Fee(x, bps) \in Nat
<1>1. x * bps \in Nat
    OBVIOUS
<1>2. QED
    BY <1>1 DEF Fee

(* Rounding: filling in parts never charges more than filling at once.     *)
LEMMA FeesOfPartsFit ==
    ASSUME NEW x \in Nat, NEW y \in Nat, NEW bps \in Nat
    PROVE  Fee(x, bps) + Fee(y, bps) <= Fee(x + y, bps)
<1> DEFINE a == x * bps
           b == y * bps
<1>1. a \in Nat /\ b \in Nat /\ (x + y) * bps = a + b
    OBVIOUS
<1> HIDE DEF a, b
<1>2. (a \div 10000) + (b \div 10000) <= (a + b) \div 10000
    BY <1>1
<1>3. Fee(x, bps) = a \div 10000 /\ Fee(y, bps) = b \div 10000
        /\ Fee(x + y, bps) = (a + b) \div 10000
    BY <1>1 DEF Fee, a, b
<1>4. QED
    BY <1>2, <1>3

(* Cost of quantity keys of an offer, and that it splits over a fill.      *)
LEMMA SubtotalSplits ==
    ASSUME NEW price \in Nat, NEW quantity \in Nat, NEW filled \in Nat,
           filled <= quantity
    PROVE  /\ filled * price \in Nat
           /\ (quantity - filled) * price \in Nat
           /\ quantity * price = filled * price + (quantity - filled) * price
OBVIOUS

(* What a fill leaves of an offer that could pay for all its quantity is   *)
(* enough for the rest.                                                    *)
LEMMA FillLeavesEnough ==
    ASSUME NEW price \in Nat, NEW quantity \in Nat, NEW filled \in Nat, NEW bps \in Nat,
           NEW escrow \in Nat,
           filled <= quantity,
           quantity * price + Fee(quantity * price, bps) <= escrow
    PROVE  (quantity - filled) * price + Fee((quantity - filled) * price, bps)
               <= escrow - (filled * price + Fee(filled * price, bps))
<1> DEFINE x == filled * price
           y == (quantity - filled) * price
<1>1. x \in Nat /\ y \in Nat /\ quantity * price = x + y
    BY SubtotalSplits
<1> HIDE DEF x, y
<1>2. Fee(x, bps) \in Nat /\ Fee(y, bps) \in Nat /\ Fee(x + y, bps) \in Nat
    <2>1. x + y \in Nat
        BY <1>1
    <2>2. QED
        BY <1>1, <2>1, FeeIsNat
<1>3. Fee(x, bps) + Fee(y, bps) <= Fee(x + y, bps)
    BY <1>1, FeesOfPartsFit
<1>4. x + y + Fee(x + y, bps) <= escrow
    BY <1>1
<1>5. y + Fee(y, bps) <= escrow - (x + Fee(x, bps))
    BY <1>1, <1>2, <1>3, <1>4
<1>6. QED
    BY <1>5 DEF x, y

-----------------------------------------------------------------------------
(* Type correctness, by cases over the actions.                            *)

(* Replacing an entry of a sequence by one of the same type.               *)
LEMMA ReplacedType ==
    ASSUME NEW S, NEW seq \in Seq(S), NEW i \in DOMAIN seq, NEW x \in S
    PROVE  [seq EXCEPT ![i] = x] \in Seq(S)
OBVIOUS

(* A key's balances after one of them changed.                             *)
LEMMA BalanceType ==
    ASSUME NEW b \in [Keys -> [Accounts -> Nat]], NEW k \in Keys, NEW a \in Accounts,
           NEW n \in Nat
    PROVE  [b EXCEPT ![k][a] = n] \in [Keys -> [Accounts -> Nat]]
<1>1. [b[k] EXCEPT ![a] = n] \in [Accounts -> Nat]
    OBVIOUS
<1>2. [b EXCEPT ![k] = [b[k] EXCEPT ![a] = n]] \in [Keys -> [Accounts -> Nat]]
    BY <1>1
<1>3. QED
    BY <1>2

(* A book kept per key after one entry changed.                            *)
LEMMA BookType ==
    ASSUME NEW b \in [Keys -> Nat], NEW k \in Keys, NEW n \in Nat
    PROVE  [b EXCEPT ![k] = n] \in [Keys -> Nat]
OBVIOUS

(* Administration leaves the books alone.                                  *)
LEMMA TypeAdminister == TypeOK /\ Administer => TypeOK'
<1> SUFFICES ASSUME TypeOK, Administer PROVE TypeOK'
    OBVIOUS
<1> USE DEF TypeOK, tokenVars, routerVars
<1>1. CASE SetFactory
    BY <1>1 DEF SetFactory
<1>2. ASSUME NEW k \in Keys, RegisterKey(k) PROVE TypeOK'
    BY <1>2 DEF RegisterKey
<1>3. ASSUME NEW bps \in Fees, SetFee(bps) PROVE TypeOK'
    BY <1>3 DEF SetFee, FeeAllowed
<1>4. ASSUME NEW open \in BOOLEAN, SetRouterOpen(open) PROVE TypeOK'
    BY <1>4 DEF SetRouterOpen
<1>5. QED
    BY <1>1, <1>2, <1>3, <1>4 DEF Administer

(* Fees recorded by a trade.                                               *)
LEMMA TypeRecordFee ==
    ASSUME TypeOK, NEW k \in Keys, NEW subtotal \in Nat, NEW fee \in Nat,
           RecordFee(k, subtotal, fee)
    PROVE  keyVolume' \in [Keys -> Nat] /\ keyFees' \in [Keys -> Nat]
<1>1. CASE fee = 0
    BY <1>1 DEF TypeOK, RecordFee, routerVars
<1>2. CASE fee # 0
    <2>1. keyVolume[k] + subtotal \in Nat /\ keyFees[k] + fee \in Nat
        BY DEF TypeOK
    <2>2. keyVolume' = [keyVolume EXCEPT ![k] = keyVolume[k] + subtotal]
          /\ keyFees' = [keyFees EXCEPT ![k] = keyFees[k] + fee]
        BY <1>2 DEF RecordFee
    <2>3. QED
        BY <2>1, <2>2, BookType DEF TypeOK
<1>3. QED
    BY <1>1, <1>2

(* Making an order.                                                        *)
LEMMA TypeMake == TypeOK /\ Make => TypeOK'
<1> SUFFICES ASSUME TypeOK, NEW a \in Accounts, NEW k \in Keys,
                    NEW quantity \in Quantities, NEW price \in Prices,
                    CreateListing(a, k, quantity, price) \/ CreateOffer(a, k, quantity, price)
             PROVE  TypeOK'
    BY DEF Make
<1>1. quantity \in Nat /\ price \in Nat /\ feeBps \in Nat
    BY KeyMarketplaceAssumption DEF Quantities, TypeOK
<1>2. CASE CreateListing(a, k, quantity, price)
    <2> DEFINE new == [seller |-> a, key |-> k, quantity |-> quantity,
                       unitPriceWei |-> price, active |-> TRUE]
    <2>a. keyBalance[k][a] - quantity \in Nat /\ escrowedKeys[k] + quantity \in Nat
        BY <1>1, <1>2 DEF TypeOK, CreateListing
    <2>b. keyBalance' = [keyBalance EXCEPT ![k][a] = keyBalance[k][a] - quantity]
          /\ escrowedKeys' = [escrowedKeys EXCEPT ![k] = escrowedKeys[k] + quantity]
        BY <1>2 DEF CreateListing
    <2>1. keyBalance' \in [Keys -> [Accounts -> Nat]] /\ escrowedKeys' \in [Keys -> Nat]
        BY <2>a, <2>b, BalanceType, BookType DEF TypeOK
    <2>2. listings' \in Seq(Listing)
        <3>1. new \in Listing
            BY <1>1 DEF Listing
        <3>2. listings' = Append(listings, new)
            BY <1>2 DEF CreateListing
        <3> HIDE DEF new
        <3>3. QED
            BY <3>1, <3>2 DEF TypeOK
    <2>3. QED
        BY <1>2, <2>1, <2>2 DEF TypeOK, CreateListing, adminVars, routerVars
<1>3. CASE CreateOffer(a, k, quantity, price)
    <2>1. quantity * price \in Nat
        BY <1>1
    <2>2. Fee(quantity * price, feeBps) \in Nat
        BY <1>1, <2>1, FeeIsNat
    <2>3. quantity * price + Fee(quantity * price, feeBps) \in Nat
        BY <2>1, <2>2
    <2> DEFINE escrow == quantity * price + Fee(quantity * price, feeBps)
               new == [buyer |-> a, key |-> k, quantity |-> quantity,
                       unitPriceWei |-> price, escrowWei |-> escrow,
                       feeBps |-> feeBps, active |-> TRUE]
    <2>4. nativeBalance' \in Nat
        <3>1. nativeBalance' = nativeBalance + escrow
            BY <1>3 DEF CreateOffer
        <3> HIDE DEF escrow
        <3>2. QED
            BY <2>3, <3>1 DEF TypeOK, escrow
    <2>5. offers' \in Seq(Offer)
        <3>1. new \in Offer
            BY <1>1, <2>3 DEF Offer
        <3>2. offers' = Append(offers, new)
            BY <1>3 DEF CreateOffer
        <3> HIDE DEF new
        <3>3. QED
            BY <3>1, <3>2 DEF TypeOK
    <2>6. QED
        BY <1>3, <2>4, <2>5 DEF TypeOK, CreateOffer, adminVars, routerVars, tokenVars
<1>4. QED
    BY <1>2, <1>3

(* Cancelling an order.                                                    *)
LEMMA TypeCancel == TypeOK /\ Cancel => TypeOK'
<1>1. ASSUME TypeOK, NEW id \in DOMAIN listings, CancelListing(id)
      PROVE  TypeOK'
    <2>1. listings[id] \in Listing
        BY <1>1 DEF TypeOK
    <2>2. listings' \in Seq(Listing)
        <3>1. CancelledListing(listings[id]) \in Listing
            BY <2>1 DEF CancelledListing, Listing
        <3>2. listings' = [listings EXCEPT ![id] = CancelledListing(listings[id])]
            BY <1>1 DEF CancelListing
        <3>3. QED
            BY <1>1, <3>1, <3>2, ReplacedType DEF TypeOK
    <2> DEFINE l == listings[id]
    <2>3. keyBalance' \in [Keys -> [Accounts -> Nat]] /\ escrowedKeys' \in [Keys -> Nat]
        <3>1. l.key \in Keys /\ l.seller \in Accounts /\ l.quantity \in Nat
            BY <2>1 DEF Listing
        <3>2. l.quantity <= escrowedKeys[l.key]
              /\ keyBalance' = [keyBalance EXCEPT ![l.key][l.seller] =
                                    keyBalance[l.key][l.seller] + l.quantity]
              /\ escrowedKeys' = [escrowedKeys EXCEPT ![l.key] = escrowedKeys[l.key] - l.quantity]
            BY <1>1 DEF CancelListing
        <3> HIDE DEF l
        <3>3. keyBalance[l.key][l.seller] + l.quantity \in Nat
              /\ escrowedKeys[l.key] - l.quantity \in Nat
            BY <1>1, <3>1, <3>2 DEF TypeOK
        <3>4. QED
            BY <1>1, <3>1, <3>2, <3>3, BalanceType, BookType DEF TypeOK
    <2>4. QED
        BY <1>1, <2>2, <2>3 DEF TypeOK, CancelListing, adminVars, routerVars
<1>2. ASSUME TypeOK, NEW id \in DOMAIN offers, CancelOffer(id)
      PROVE  TypeOK'
    <2>1. offers[id] \in Offer
        BY <1>2 DEF TypeOK
    <2>2. offers' \in Seq(Offer)
        <3>1. [offers[id] EXCEPT !.active = FALSE, !.escrowWei = 0] \in Offer
            BY <2>1 DEF Offer
        <3>2. offers' = [offers EXCEPT ![id] =
                            [offers[id] EXCEPT !.active = FALSE, !.escrowWei = 0]]
            BY <1>2 DEF CancelOffer
        <3>3. QED
            BY <1>2, <3>1, <3>2, ReplacedType DEF TypeOK
    <2>3. nativeBalance' \in Nat
        <3>1. offers[id].escrowWei \in Nat /\ nativeBalance \in Nat
            BY <1>2, <2>1 DEF TypeOK, Offer
        <3>2. offers[id].escrowWei <= nativeBalance
              /\ nativeBalance' = nativeBalance - offers[id].escrowWei
            BY <1>2 DEF CancelOffer
        <3>3. QED
            BY <3>1, <3>2
    <2>4. QED
        BY <1>2, <2>2, <2>3 DEF TypeOK, CancelOffer, adminVars, routerVars, tokenVars
<1>3. QED
    BY <1>1, <1>2 DEF Cancel

(* A listing is bought from.                                               *)
LEMMA TypeBuy ==
    ASSUME TypeOK, NEW a \in Accounts, NEW quantity \in Quantities,
           NEW id \in DOMAIN listings, Buy(a, id, quantity)
    PROVE  TypeOK'
<1> DEFINE subtotal == quantity * listings[id].unitPriceWei
           fee == Fee(subtotal, feeBps)
<1>1. listings[id] \in Listing /\ quantity \in Nat /\ feeBps \in Nat
    BY KeyMarketplaceAssumption DEF TypeOK, Quantities
<1>2. subtotal \in Nat
    BY <1>1 DEF Listing
<1>3. fee \in Nat
    BY <1>1, <1>2, FeeIsNat
<1>4. keyVolume' \in [Keys -> Nat] /\ keyFees' \in [Keys -> Nat]
    <2>1. RecordFee(listings[id].key, subtotal, fee) /\ listings[id].key \in Keys
        BY <1>1 DEF Buy, Listing
    <2>2. QED
        BY <1>2, <1>3, <2>1, TypeRecordFee
<1>5. listings' \in Seq(Listing)
    <2> DEFINE rest == listings[id].quantity - quantity
               new == [listings[id] EXCEPT !.quantity = rest, !.active = rest # 0]
    <2>1. rest \in Nat
        BY <1>1 DEF Buy, Listing
    <2>2. listings' = [listings EXCEPT ![id] = new]
        BY DEF Buy
    <2>3. new \in Listing
        <3> HIDE DEF rest
        <3>1. QED
            BY <1>1, <2>1 DEF Listing
    <2> HIDE DEF new
    <2>4. QED
        BY <2>2, <2>3, ReplacedType DEF TypeOK
<1>6. keyBalance' \in [Keys -> [Accounts -> Nat]] /\ escrowedKeys' \in [Keys -> Nat]
    <2> DEFINE k == listings[id].key
    <2>1. k \in Keys /\ quantity <= escrowedKeys[k]
          /\ keyBalance' = [keyBalance EXCEPT ![k][a] = keyBalance[k][a] + quantity]
          /\ escrowedKeys' = [escrowedKeys EXCEPT ![k] = escrowedKeys[k] - quantity]
        BY <1>1 DEF Buy, Listing
    <2> HIDE DEF k
    <2>2. keyBalance[k][a] + quantity \in Nat /\ escrowedKeys[k] - quantity \in Nat
        BY <1>1, <2>1 DEF TypeOK
    <2>3. QED
        BY <2>1, <2>2, BalanceType, BookType DEF TypeOK
<1>7. QED
    BY <1>4, <1>5, <1>6 DEF TypeOK, Buy, adminVars

(* The parts of an accepted fill, as numbers.                              *)
LEMMA AcceptNumbers ==
    ASSUME TypeOK, NEW a \in Accounts, NEW quantity \in Quantities,
           NEW id \in DOMAIN offers, AcceptOffer(a, id, quantity)
    PROVE  /\ offers[id] \in Offer
           /\ quantity \in Nat
           /\ quantity * offers[id].unitPriceWei \in Nat
           /\ OfferFee(offers[id], quantity * offers[id].unitPriceWei) \in Nat
<1>1. offers[id] \in Offer /\ quantity \in Nat
    BY KeyMarketplaceAssumption DEF TypeOK, Quantities
<1>2. quantity * offers[id].unitPriceWei \in Nat
    BY <1>1 DEF Offer
<1>3. OfferFee(offers[id], quantity * offers[id].unitPriceWei) \in Nat
    BY <1>1, <1>2, FeeIsNat DEF OfferFee, Offer
<1>4. QED
    BY <1>1, <1>2, <1>3

(* An offer is filled in part or in full.                                  *)
LEMMA TypeAccept ==
    ASSUME TypeOK, NEW a \in Accounts, NEW quantity \in Quantities,
           NEW id \in DOMAIN offers, AcceptOffer(a, id, quantity)
    PROVE  TypeOK'
<1> DEFINE offer == offers[id]
           subtotal == quantity * offer.unitPriceWei
           fee == OfferFee(offer, subtotal)
           rest == offer.quantity - quantity
           refund == Refund(offer, subtotal + fee, rest)
<1>1. offer \in Offer /\ quantity \in Nat /\ subtotal \in Nat /\ fee \in Nat
    BY AcceptNumbers
<1>2. rest \in Nat /\ subtotal + fee <= offer.escrowWei
    BY <1>1 DEF AcceptOffer, Offer
<1>3. refund \in Nat
    BY <1>1, <1>2 DEF Refund, Offer
<1>4. keyVolume' \in [Keys -> Nat] /\ keyFees' \in [Keys -> Nat]
    <2>1. RecordFee(offer.key, subtotal, fee) /\ offer.key \in Keys
        BY <1>1 DEF AcceptOffer, Offer
    <2>2. QED
        BY <1>1, <2>1, TypeRecordFee
<1>5. offers' \in Seq(Offer)
    <2>1. EscrowAfter(offer, subtotal + fee, rest) \in Nat
        BY <1>1, <1>2 DEF EscrowAfter, Offer
    <2> DEFINE after == EscrowAfter(offer, subtotal + fee, rest)
               new == [offer EXCEPT !.quantity = rest, !.active = rest # 0, !.escrowWei = after]
    <2>2. offers' = [offers EXCEPT ![id] = new]
        BY DEF AcceptOffer
    <2>3. new \in Offer
        <3>1. offer \in Offer /\ rest \in Nat /\ after \in Nat
            BY <1>1, <1>2, <2>1
        <3> HIDE DEF offer, rest, after
        <3>2. QED
            BY <3>1 DEF Offer
    <2> HIDE DEF new
    <2>4. QED
        BY <2>2, <2>3, ReplacedType DEF TypeOK
<1>6. nativeBalance' \in Nat
    <2>1. subtotal + fee + refund <= nativeBalance
          /\ nativeBalance' = nativeBalance - subtotal - fee - refund
        BY DEF AcceptOffer
    <2> HIDE DEF subtotal, fee, refund
    <2>2. QED
        BY <1>1, <1>3, <2>1 DEF TypeOK
<1>7. keyBalance' \in [Keys -> [Accounts -> Nat]]
    <2> DEFINE k == offer.key
               moved == [b \in Accounts |->
                            keyBalance[k][b] + (IF b = offer.buyer THEN quantity ELSE 0)
                                             - (IF b = a THEN quantity ELSE 0)]
    <2>1. k \in Keys /\ keyBalance[k][a] >= quantity
          /\ keyBalance' = [keyBalance EXCEPT ![k] = moved]
        BY <1>1 DEF AcceptOffer, Offer
    <2>2. moved \in [Accounts -> Nat]
        <3> HIDE DEF k
        <3>1. keyBalance[k] \in [Accounts -> Nat]
            BY <2>1 DEF TypeOK
        <3>2. QED
            BY <1>1, <2>1, <3>1
    <2> HIDE DEF moved, k
    <2>3. QED
        BY <2>1, <2>2 DEF TypeOK
<1>8. QED
    BY <1>4, <1>5, <1>6, <1>7 DEF TypeOK, AcceptOffer, adminVars

(* One step keeps the types.                                               *)
LEMMA TypeStep == TypeOK /\ [Next]_vars => TypeOK'
<1> SUFFICES ASSUME TypeOK, [Next]_vars PROVE TypeOK'
    OBVIOUS
<1>1. CASE Administer
    BY <1>1, TypeAdminister
<1>2. CASE Make
    BY <1>2, TypeMake
<1>3. CASE Fill
    BY <1>3, TypeBuy, TypeAccept DEF Fill
<1>4. CASE Cancel
    BY <1>4, TypeCancel
<1>5. CASE UNCHANGED vars
    BY <1>5 DEF TypeOK, vars, adminVars, tokenVars, routerVars
<1>6. QED
    BY <1>1, <1>2, <1>3, <1>4, <1>5 DEF Next

(* Every book of the marketplace stays a natural number: no escrow and no  *)
(* balance is ever overdrawn.                                              *)
THEOREM TypeCorrect == Spec => []TypeOK
<1>1. Init => TypeOK
    <2> SUFFICES ASSUME Init PROVE TypeOK
        OBVIOUS
    <2>1. keyBalance \in [Keys -> [Accounts -> Nat]]
        BY KeyMarketplaceAssumption DEF Init
    <2>2. listings \in Seq(Listing) /\ offers \in Seq(Offer)
        BY DEF Init
    <2>3. QED
        BY <2>1, <2>2 DEF Init, TypeOK
<1>2. QED
    BY <1>1, TypeStep, PTL DEF Spec

-----------------------------------------------------------------------------
(* What one step does to an offer.                                         *)

(* The clause of OrdersKeepTheirTerms about an offer.                      *)
OfferKeepsTerms(id) ==
    LET old == offers[id]
        new == offers'[id]
        subtotal == (old.quantity - new.quantity) * old.unitPriceWei
    IN  /\ ~old.active => new = old
        /\ new.active => /\ old.escrowWei - new.escrowWei = subtotal + Fee(subtotal, old.feeBps)
                         /\ new = [old EXCEPT !.quantity = new.quantity,
                                              !.escrowWei = new.escrowWei]

(* A fill of one offer: it pays its own terms, and what is left of its     *)
(* escrow covers the rest.                                                 *)
LEMMA AcceptStep ==
    ASSUME TypeOK, EscrowCoversOffers, NEW a \in Accounts, NEW quantity \in Quantities,
           NEW id \in DOMAIN offers, AcceptOffer(a, id, quantity)
    PROVE  /\ DOMAIN offers' = DOMAIN offers
           /\ \A i \in DOMAIN offers : i # id => offers'[i] = offers[i]
           /\ OfferKeepsTerms(id)
           /\ offers'[id].active => EscrowCovers(offers'[id])
<1> DEFINE old == offers[id]
           new == offers'[id]
           subtotal == quantity * old.unitPriceWei
           fee == Fee(subtotal, old.feeBps)
           rest == old.quantity - quantity
           after == EscrowAfter(old, subtotal + fee, rest)
<1>1. old \in Offer /\ quantity \in Nat /\ subtotal \in Nat /\ fee \in Nat
    BY AcceptNumbers DEF OfferFee
<1>2. old.active /\ quantity <= old.quantity /\ subtotal + fee <= old.escrowWei
    BY DEF AcceptOffer, OfferFee
<1>3. offers' = [offers EXCEPT ![id] = [old EXCEPT !.quantity = rest, !.active = rest # 0,
                                                   !.escrowWei = after]]
    BY DEF AcceptOffer, OfferFee
<1>4. new = [old EXCEPT !.quantity = rest, !.active = rest # 0, !.escrowWei = after]
    BY <1>3 DEF TypeOK
<1>5. /\ new.quantity = rest /\ new.active = (rest # 0) /\ new.escrowWei = after
      /\ new.unitPriceWei = old.unitPriceWei /\ new.feeBps = old.feeBps
    <2>1. old \in Offer
        BY <1>1
    <2> HIDE DEF rest, after, old
    <2>2. QED
        BY <1>4, <2>1 DEF Offer
<1>6. old.quantity \in Nat /\ old.unitPriceWei \in Nat /\ old.escrowWei \in Nat
      /\ old.feeBps \in Nat
    BY <1>1 DEF Offer
<1>7. DOMAIN offers' = DOMAIN offers
      /\ \A i \in DOMAIN offers : i # id => offers'[i] = offers[i]
    BY <1>3
<1>8. ASSUME new.active
      PROVE  /\ old.escrowWei - new.escrowWei = subtotal + fee
             /\ new = [old EXCEPT !.quantity = new.quantity, !.escrowWei = new.escrowWei]
             /\ EscrowCovers(new)
    <2>1. rest # 0 /\ after = old.escrowWei - (subtotal + fee)
        BY <1>5, <1>8 DEF EscrowAfter
    <2>2. old.escrowWei - new.escrowWei = subtotal + fee
        <3> HIDE DEF old, new, subtotal, fee, after
        <3>1. QED
            BY <1>1, <1>5, <1>6, <2>1
    <2>3. new = [old EXCEPT !.quantity = new.quantity, !.escrowWei = new.escrowWei]
        <3>1. old.active = TRUE
            BY <1>1, <1>2 DEF Offer
        <3>2. new = [old EXCEPT !.quantity = rest, !.active = TRUE, !.escrowWei = after]
            BY <1>4, <2>1
        <3>3. old \in Offer
            BY <1>1
        <3> HIDE DEF old, new, rest, after
        <3>4. [old EXCEPT !.quantity = rest, !.active = TRUE, !.escrowWei = after]
              = [old EXCEPT !.quantity = rest, !.escrowWei = after]
            BY <3>1, <3>3 DEF Offer
        <3>5. QED
            BY <1>5, <3>2, <3>4
    <2>4. old.quantity * old.unitPriceWei + Fee(old.quantity * old.unitPriceWei, old.feeBps)
            <= old.escrowWei
        BY <1>2 DEF EscrowCoversOffers, EscrowCovers
    <2>5. rest * old.unitPriceWei + Fee(rest * old.unitPriceWei, old.feeBps)
            <= old.escrowWei - (subtotal + fee)
        BY <1>1, <1>2, <1>6, <2>4, FillLeavesEnough
    <2>6. EscrowCovers(new)
        BY <1>5, <2>1, <2>5 DEF EscrowCovers
    <2>7. QED
        BY <2>2, <2>3, <2>6
<1>9. old.quantity - new.quantity = quantity
    <2> HIDE DEF old, new
    <2>1. QED
        BY <1>1, <1>5, <1>6
<1>10. OfferKeepsTerms(id)
    <2> HIDE DEF old, new
    <2>1. QED
        BY <1>2, <1>8, <1>9 DEF OfferKeepsTerms, old, new
<1>11. QED
    BY <1>7, <1>8, <1>10

(* What a step that fills no offer may do to them: each stays as it is or  *)
(* is closed, and a new one is fully paid.                                 *)
OffersKept ==
    /\ DOMAIN offers \subseteq DOMAIN offers'
    /\ \A id \in DOMAIN offers :
          offers'[id] = offers[id] \/ (offers[id].active /\ ~offers'[id].active)
    /\ \A id \in DOMAIN offers' \ DOMAIN offers : EscrowCovers(offers'[id])

(* Making an order keeps the offers.                                       *)
LEMMA MakeKeepsOffers == TypeOK /\ Make => OffersKept
<1> SUFFICES ASSUME TypeOK, NEW a \in Accounts, NEW k \in Keys,
                    NEW quantity \in Quantities, NEW price \in Prices,
                    CreateListing(a, k, quantity, price) \/ CreateOffer(a, k, quantity, price)
             PROVE  OffersKept
    BY DEF Make
<1>1. CASE CreateListing(a, k, quantity, price)
    BY <1>1 DEF CreateListing, OffersKept
<1>2. CASE CreateOffer(a, k, quantity, price)
    <2> DEFINE escrow == quantity * price + Fee(quantity * price, feeBps)
               new == [buyer |-> a, key |-> k, quantity |-> quantity,
                       unitPriceWei |-> price, escrowWei |-> escrow,
                       feeBps |-> feeBps, active |-> TRUE]
    <2>1. offers' = Append(offers, new)
        BY <1>2 DEF CreateOffer
    <2>2. EscrowCovers(new)
        <3>1. quantity * price \in Nat /\ feeBps \in Nat
            BY KeyMarketplaceAssumption DEF Quantities, TypeOK
        <3>2. escrow \in Nat
            <4>1. Fee(quantity * price, feeBps) \in Nat
                BY <3>1, FeeIsNat
            <4>2. QED
                BY <3>1, <4>1
        <3>3. EscrowCovers(new) <=> escrow <= escrow
            BY DEF EscrowCovers
        <3> HIDE DEF escrow, new
        <3>4. QED
            BY <3>2, <3>3
    <2> HIDE DEF new
    <2>3. /\ DOMAIN offers \subseteq DOMAIN offers'
          /\ \A id \in DOMAIN offers : offers'[id] = offers[id]
          /\ \A id \in DOMAIN offers' \ DOMAIN offers : offers'[id] = new
        BY <2>1 DEF TypeOK
    <2>4. ASSUME NEW id \in DOMAIN offers' \ DOMAIN offers PROVE EscrowCovers(offers'[id])
        <3>1. offers'[id] = new
            BY <2>3, <2>4
        <3>2. QED
            BY <2>2, <3>1
    <2>5. QED
        BY <2>3, <2>4 DEF OffersKept
<1>3. QED
    BY <1>1, <1>2

(* So does every other step that fills no offer.                           *)
LEMMA OthersKeepOffers ==
    ASSUME TypeOK, [Next]_vars,
           ~\E a \in Accounts, quantity \in Quantities, id \in DOMAIN offers :
               AcceptOffer(a, id, quantity)
    PROVE  OffersKept
<1>1. CASE Administer
    BY <1>1 DEF Administer, SetFactory, RegisterKey, SetFee, SetRouterOpen, OffersKept
<1>2. CASE Make
    BY <1>2, MakeKeepsOffers
<1>3. CASE Fill
    BY <1>3 DEF Fill, Buy, OffersKept
<1>4. CASE Cancel
    <2>1. ASSUME NEW id \in DOMAIN listings, CancelListing(id) PROVE OffersKept
        BY <2>1 DEF CancelListing, OffersKept
    <2>2. ASSUME NEW id \in DOMAIN offers, CancelOffer(id) PROVE OffersKept
        <3>1. offers[id] \in Offer
            BY <2>2 DEF TypeOK
        <3>2. offers' = [offers EXCEPT ![id] =
                            [offers[id] EXCEPT !.active = FALSE, !.escrowWei = 0]]
            BY <2>2 DEF CancelOffer
        <3>3. offers[id].active
            BY <2>2 DEF CancelOffer, Cancellable
        <3>4. offers'[id] = [offers[id] EXCEPT !.active = FALSE, !.escrowWei = 0]
            BY <2>2, <3>2 DEF TypeOK
        <3>5. offers'[id].active = FALSE
            BY <3>1, <3>4 DEF Offer
        <3>6. QED
            BY <3>2, <3>3, <3>5 DEF OffersKept, TypeOK
    <2>3. QED
        BY <1>4, <2>1, <2>2 DEF Cancel
<1>5. CASE UNCHANGED vars
    BY <1>5 DEF vars, OffersKept
<1>6. QED
    BY <1>1, <1>2, <1>3, <1>4, <1>5 DEF Next

(* Escrow cover is kept by every step.                                     *)
LEMMA EscrowStep == TypeOK /\ EscrowCoversOffers /\ [Next]_vars => EscrowCoversOffers'
<1> SUFFICES ASSUME TypeOK, EscrowCoversOffers, [Next]_vars, NEW i \in DOMAIN offers',
                    offers'[i].active
             PROVE  EscrowCovers(offers'[i])
    BY DEF EscrowCoversOffers, EscrowCovers
<1>1. CASE \E a \in Accounts, quantity \in Quantities, id \in DOMAIN offers :
               AcceptOffer(a, id, quantity)
    <2>1. PICK a \in Accounts, quantity \in Quantities, id \in DOMAIN offers :
              AcceptOffer(a, id, quantity)
        BY <1>1
    <2>2. i \in DOMAIN offers /\ (i # id => offers'[i] = offers[i])
          /\ (i = id => EscrowCovers(offers'[i]))
        BY <2>1, AcceptStep
    <2>3. QED
        BY <2>2 DEF EscrowCoversOffers
<1>2. CASE ~\E a \in Accounts, quantity \in Quantities, id \in DOMAIN offers :
               AcceptOffer(a, id, quantity)
    <2>1. OffersKept
        BY <1>2, OthersKeepOffers
    <2>2. QED
        BY <2>1 DEF OffersKept, EscrowCoversOffers
<1>3. QED
    BY <1>1, <1>2

(* The escrow of an open offer always pays for all that is left of it, for *)
(* any price, any fee and any sequence of partial fills: the subtraction   *)
(* offer.escrowWei -= subtotal + fee never reverts.                        *)
THEOREM EscrowCovered == Spec => []EscrowCoversOffers
<1>1. Init => EscrowCoversOffers
    BY DEF Init, EscrowCoversOffers
<1>2. QED
    BY <1>1, TypeCorrect, EscrowStep, PTL DEF Spec

-----------------------------------------------------------------------------
(* An order keeps its terms.                                               *)

(* The clause about a listing.                                             *)
ListingKeepsTerms(id) ==
    LET old == listings[id]
        new == listings'[id]
    IN  /\ ~old.active => new = old
        /\ new.quantity <= old.quantity
        /\ new = [old EXCEPT !.quantity = new.quantity, !.active = new.active]

(* An untouched offer keeps its terms: nothing filled costs nothing.       *)
LEMMA SameOffer ==
    ASSUME TypeOK, NEW id \in DOMAIN offers, offers'[id] = offers[id]
    PROVE  OfferKeepsTerms(id)
<1> DEFINE old == offers[id]
<1>1. old \in Offer
    BY DEF TypeOK
<1>2. old.quantity - old.quantity = 0 /\ old.escrowWei - old.escrowWei = 0
      /\ 0 * old.unitPriceWei = 0 /\ old.feeBps \in Nat
    BY <1>1 DEF Offer
<1>3. Fee(0, old.feeBps) = 0
    BY <1>2 DEF Fee
<1>4. old = [old EXCEPT !.quantity = old.quantity, !.escrowWei = old.escrowWei]
    BY <1>1 DEF Offer
<1> HIDE DEF old
<1>5. QED
    BY <1>2, <1>3, <1>4 DEF OfferKeepsTerms, old

(* Every step keeps the terms of every offer.                              *)
LEMMA OffersKeepTerms ==
    ASSUME TypeOK, EscrowCoversOffers, [Next]_vars, NEW id \in DOMAIN offers
    PROVE  OfferKeepsTerms(id)
<1>1. CASE \E a \in Accounts, quantity \in Quantities, i \in DOMAIN offers :
               AcceptOffer(a, i, quantity)
    <2>1. PICK a \in Accounts, quantity \in Quantities, i \in DOMAIN offers :
              AcceptOffer(a, i, quantity)
        BY <1>1
    <2>2. CASE i = id
        BY <2>1, <2>2, AcceptStep
    <2>3. CASE i # id
        BY <2>1, <2>3, AcceptStep, SameOffer
    <2>4. QED
        BY <2>2, <2>3
<1>2. CASE ~\E a \in Accounts, quantity \in Quantities, i \in DOMAIN offers :
               AcceptOffer(a, i, quantity)
    <2>1. OffersKept
        BY <1>2, OthersKeepOffers
    <2>2. CASE offers'[id] = offers[id]
        BY <2>2, SameOffer
    <2>3. CASE offers[id].active /\ ~offers'[id].active
        BY <2>3 DEF OfferKeepsTerms
    <2>4. QED
        BY <2>1, <2>2, <2>3 DEF OffersKept
<1>3. QED
    BY <1>1, <1>2

(* An untouched listing keeps its terms.                                   *)
LEMMA SameListing ==
    ASSUME TypeOK, NEW id \in DOMAIN listings, listings'[id] = listings[id]
    PROVE  ListingKeepsTerms(id)
<1> DEFINE old == listings[id]
<1>1. old \in Listing
    BY DEF TypeOK
<1>2. old.quantity <= old.quantity
    BY <1>1 DEF Listing
<1>a. old = [old EXCEPT !.quantity = old.quantity, !.active = old.active]
    BY <1>1 DEF Listing
<1> HIDE DEF old
<1>3. QED
    BY <1>2, <1>a DEF ListingKeepsTerms, old

(* Replacing a listing by a smaller one with its terms keeps them all.     *)
LEMMA ReplacedListing ==
    ASSUME TypeOK, NEW i \in DOMAIN listings, NEW quantity \in Nat, NEW active \in BOOLEAN,
           listings[i].active, quantity <= listings[i].quantity,
           listings' = [listings EXCEPT ![i] =
                           [listings[i] EXCEPT !.quantity = quantity, !.active = active]]
    PROVE  \A id \in DOMAIN listings : ListingKeepsTerms(id)
<1> SUFFICES ASSUME NEW id \in DOMAIN listings PROVE ListingKeepsTerms(id)
    OBVIOUS
<1>1. CASE id # i
    BY <1>1, SameListing
<1>2. CASE id = i
    <2> DEFINE old == listings[i]
               new == listings'[i]
    <2>1. old \in Listing
        BY DEF TypeOK
    <2>2. new = [old EXCEPT !.quantity = quantity, !.active = active]
        BY DEF TypeOK
    <2> HIDE DEF new, old
    <2>3. new.quantity = quantity /\ new.active = active
        BY <2>1, <2>2 DEF Listing
    <2>4. QED
        BY <1>2, <2>2, <2>3 DEF ListingKeepsTerms, new, old
<1>3. QED
    BY <1>1, <1>2

(* Every step keeps the terms of every listing.                            *)
LEMMA ListingsKeepTerms ==
    ASSUME TypeOK, [Next]_vars
    PROVE  \A id \in DOMAIN listings : ListingKeepsTerms(id)
<1>1. CASE UNCHANGED listings
    BY <1>1, SameListing
<1>2. ASSUME NEW a \in Accounts, NEW k \in Keys, NEW quantity \in Quantities,
             NEW price \in Prices, CreateListing(a, k, quantity, price)
      PROVE  \A id \in DOMAIN listings : ListingKeepsTerms(id)
    <2>1. \A id \in DOMAIN listings : listings'[id] = listings[id]
        BY <1>2 DEF CreateListing, TypeOK
    <2>2. QED
        BY <2>1, SameListing
<1>3. ASSUME NEW a \in Accounts, NEW quantity \in Quantities, NEW i \in DOMAIN listings,
             Buy(a, i, quantity)
      PROVE  \A id \in DOMAIN listings : ListingKeepsTerms(id)
    <2> DEFINE rest == listings[i].quantity - quantity
    <2>1. listings[i] \in Listing /\ quantity \in Nat
        BY KeyMarketplaceAssumption DEF TypeOK, Quantities
    <2>2. listings[i].active /\ rest \in Nat /\ rest <= listings[i].quantity
        BY <1>3, <2>1 DEF Buy, Listing
    <2>3. listings' = [listings EXCEPT ![i] =
                          [listings[i] EXCEPT !.quantity = rest, !.active = rest # 0]]
        BY <1>3 DEF Buy
    <2>4. (rest # 0) \in BOOLEAN
        OBVIOUS
    <2> HIDE DEF rest
    <2>5. QED
        BY <2>2, <2>3, <2>4, ReplacedListing
<1>4. ASSUME NEW i \in DOMAIN listings, CancelListing(i)
      PROVE  \A id \in DOMAIN listings : ListingKeepsTerms(id)
    <2>1. listings[i] \in Listing
        BY DEF TypeOK
    <2>2. listings[i].active /\ 0 <= listings[i].quantity
        BY <1>4, <2>1 DEF CancelListing, Listing
    <2>3. PICK quantity \in Nat, active \in BOOLEAN : quantity = 0 /\ active = FALSE
        OBVIOUS
    <2>4. [listings[i] EXCEPT !.quantity = quantity, !.active = active]
          = CancelledListing(listings[i])
        BY <2>1, <2>3 DEF CancelledListing, Listing
    <2>5. listings' = [listings EXCEPT ![i] =
                          [listings[i] EXCEPT !.quantity = quantity, !.active = active]]
        BY <1>4, <2>4 DEF CancelListing
    <2>6. quantity <= listings[i].quantity
        BY <2>2, <2>3
    <2>7. QED
        BY <2>2, <2>5, <2>6, ReplacedListing
<1>5. QED
    <2>1. CASE Administer
        BY <1>1, <2>1 DEF Administer, SetFactory, RegisterKey, SetFee, SetRouterOpen
    <2>2. CASE Make
        BY <1>1, <1>2, <2>2 DEF Make, CreateOffer
    <2>3. CASE Fill
        <3>1. ASSUME NEW a, NEW quantity, NEW id, AcceptOffer(a, id, quantity)
              PROVE  UNCHANGED listings
            BY <3>1 DEF AcceptOffer
        <3>2. QED
            BY <1>1, <1>3, <2>3, <3>1 DEF Fill
    <2>4. CASE Cancel
        BY <1>1, <1>4, <2>4 DEF Cancel, CancelOffer
    <2>5. CASE UNCHANGED vars
        BY <1>1, <2>5 DEF vars
    <2>6. QED
        BY <2>1, <2>2, <2>3, <2>4, <2>5 DEF Next

(* No owner, router or other trader changes the terms of an order that     *)
(* was made, and an open offer spends exactly its price and its own fee.   *)
THEOREM TermsKept == Spec => OrdersKeepTheirTerms
<1>1. ASSUME TypeOK, EscrowCoversOffers, [Next]_vars
      PROVE  /\ \A id \in DOMAIN offers : OfferKeepsTerms(id)
             /\ \A id \in DOMAIN listings : ListingKeepsTerms(id)
    BY <1>1, OffersKeepTerms, ListingsKeepTerms
<1>2. QED
    BY <1>1, TypeCorrect, EscrowCovered, PTL
        DEF Spec, OrdersKeepTheirTerms, OfferKeepsTerms, ListingKeepsTerms

-----------------------------------------------------------------------------
(* What the open orders of a sequence hold, and how one order changes it.  *)

EscrowOf(s) == [id \in DOMAIN s |-> s[id].escrowWei]
OpenOffers(s) == {id \in DOMAIN s : s[id].active}
EthIn(s) == SumFunctionOnSet(EscrowOf(s), OpenOffers(s))

QuantityOf(s) == [id \in DOMAIN s |-> s[id].quantity]
OpenListings(s, k) == {id \in DOMAIN s : s[id].key = k /\ s[id].active}
KeysIn(s, k) == SumFunctionOnSet(QuantityOf(s), OpenListings(s, k))

\* What order id of s holds of key k.
InEscrow(s, id, k) ==
    IF id \in DOMAIN s /\ s[id].key = k /\ s[id].active THEN s[id].quantity ELSE 0

(* s and t differ at one position, which t may have in addition.           *)
DiffersAt(s, t, id) ==
    /\ id \in DOMAIN t
    /\ DOMAIN s \ {id} = DOMAIN t \ {id}
    /\ \A i \in DOMAIN s \ {id} : t[i] = s[i]

(* The positions of a sequence are finitely many.                          *)
LEMMA FinitePositions ==
    ASSUME NEW S, NEW s \in Seq(S)
    PROVE  IsFiniteSet(DOMAIN s)
<1>1. DOMAIN s = 1 .. Len(s) /\ Len(s) \in Int
    OBVIOUS
<1>2. QED
    BY <1>1, FS_Interval

(* An appended and a replaced order each differ at one position.           *)
LEMMA AppendDiffers ==
    ASSUME NEW S, NEW s \in Seq(S), NEW x \in S
    PROVE  /\ DiffersAt(s, Append(s, x), Len(s) + 1)
           /\ Append(s, x)[Len(s) + 1] = x
           /\ Len(s) + 1 \notin DOMAIN s
BY DEF DiffersAt

\* Replacing an order changes that order only.
LEMMA ReplaceDiffers ==
    ASSUME NEW S, NEW s \in Seq(S), NEW id \in DOMAIN s, NEW x \in S
    PROVE  /\ DiffersAt(s, [s EXCEPT ![id] = x], id)
           /\ [s EXCEPT ![id] = x][id] = x
BY DEF DiffersAt

(* The open offers' escrows add up to a number, which one offer changes    *)
(* by what it held and holds.                                              *)
LEMMA EthInChanges ==
    ASSUME NEW s \in Seq(Offer), NEW t \in Seq(Offer), NEW id, DiffersAt(s, t, id)
    PROVE  /\ EthIn(s) \in Int
           /\ EthIn(t) = EthIn(s)
                - (IF id \in DOMAIN s /\ s[id].active THEN s[id].escrowWei ELSE 0)
                + (IF t[id].active THEN t[id].escrowWei ELSE 0)
<1> DEFINE f == EscrowOf(s)
           g == EscrowOf(t)
           A == OpenOffers(s)
           B == OpenOffers(t)
<1>1. IsFiniteSet(A)
    BY FinitePositions, FS_Subset, A \subseteq DOMAIN s DEF OpenOffers
<1>a. \A i \in DOMAIN s : s[i].escrowWei \in Int
    <2>1. \A i \in DOMAIN s : s[i] \in Offer
        OBVIOUS
    <2>2. QED
        BY <2>1 DEF Offer
<1>b. t[id].escrowWei \in Int
    <2>1. t[id] \in Offer
        BY DEF DiffersAt
    <2>2. QED
        BY <2>1 DEF Offer
<1>2. \A i \in A : f[i] = s[i].escrowWei /\ f[i] \in Int
    BY <1>a DEF OpenOffers, EscrowOf
<1>3. A \ {id} = B \ {id} /\ \A i \in A \ {id} : g[i] = f[i]
    BY DEF OpenOffers, EscrowOf, DiffersAt
<1>4. g[id] = t[id].escrowWei /\ g[id] \in Int
    BY <1>b DEF EscrowOf, DiffersAt
<1>5. (id \in A <=> id \in DOMAIN s /\ s[id].active) /\ (id \in B <=> t[id].active)
    BY DEF OpenOffers, DiffersAt
<1> HIDE DEF f, g, A, B
<1>6. SumFunctionOnSet(f, A) \in Int
    BY <1>1, <1>2, SumInt
<1>7. SumFunctionOnSet(g, B) = SumFunctionOnSet(f, A) - Worth(f, A, id) + Worth(g, B, id)
    <2>1. \A i \in A : f[i] \in Int
        BY <1>2
    <2>2. id \in B => g[id] \in Int
        BY <1>4
    <2>3. QED
        BY <1>1, <1>3, <2>1, <2>2, SumMove
<1>8. QED
    BY <1>2, <1>4, <1>5, <1>6, <1>7 DEF EthIn, Worth, f, g, A, B

(* The same of the quantities of the open listings of a key.               *)
LEMMA KeysInChanges ==
    ASSUME NEW s \in Seq(Listing), NEW t \in Seq(Listing), NEW id, DiffersAt(s, t, id), NEW k
    PROVE  /\ KeysIn(s, k) \in Int
           /\ KeysIn(t, k) = KeysIn(s, k) - InEscrow(s, id, k) + InEscrow(t, id, k)
<1> DEFINE f == QuantityOf(s)
           g == QuantityOf(t)
           A == OpenListings(s, k)
           B == OpenListings(t, k)
<1>1. IsFiniteSet(A)
    BY FinitePositions, FS_Subset, A \subseteq DOMAIN s DEF OpenListings
<1>a. \A i \in DOMAIN s : s[i].quantity \in Int
    <2>1. \A i \in DOMAIN s : s[i] \in Listing
        OBVIOUS
    <2>2. QED
        BY <2>1 DEF Listing
<1>b. t[id].quantity \in Int
    <2>1. t[id] \in Listing
        BY DEF DiffersAt
    <2>2. QED
        BY <2>1 DEF Listing
<1>2. \A i \in A : f[i] = s[i].quantity /\ f[i] \in Int
    BY <1>a DEF OpenListings, QuantityOf
<1>3. A \ {id} = B \ {id} /\ \A i \in A \ {id} : g[i] = f[i]
    BY DEF OpenListings, QuantityOf, DiffersAt
<1>4. g[id] = t[id].quantity /\ g[id] \in Int
    BY <1>b DEF QuantityOf, DiffersAt
<1>5. /\ id \in A <=> id \in DOMAIN s /\ s[id].key = k /\ s[id].active
      /\ id \in B <=> t[id].key = k /\ t[id].active
    BY DEF OpenListings, DiffersAt
<1> HIDE DEF f, g, A, B
<1>6. SumFunctionOnSet(f, A) \in Int
    BY <1>1, <1>2, SumInt
<1>7. SumFunctionOnSet(g, B) = SumFunctionOnSet(f, A) - Worth(f, A, id) + Worth(g, B, id)
    <2>1. \A i \in A : f[i] \in Int
        BY <1>2
    <2>2. id \in B => g[id] \in Int
        BY <1>4
    <2>3. QED
        BY <1>1, <1>3, <2>1, <2>2, SumMove
<1>8. Worth(f, A, id) = InEscrow(s, id, k) /\ Worth(g, B, id) = InEscrow(t, id, k)
    BY <1>2, <1>4, <1>5 DEF Worth, InEscrow, DiffersAt
<1>9. QED
    BY <1>6, <1>7, <1>8, Zenon DEF KeysIn, f, g, A, B

-----------------------------------------------------------------------------
(* The ETH in escrow.                                                      *)

(* What one step that touches an offer does to the escrow: the marketplace *)
(* receives or pays out what the offer gains or loses.                     *)
LEMMA OfferChangesEth ==
    ASSUME TypeOK, TypeOK', EthIsEscrowed, NEW id, DiffersAt(offers, offers', id),
           nativeBalance' = nativeBalance
               - (IF id \in DOMAIN offers /\ offers[id].active THEN offers[id].escrowWei ELSE 0)
               + (IF offers'[id].active THEN offers'[id].escrowWei ELSE 0)
    PROVE  EthIsEscrowed'
<1>1. nativeBalance = EthIn(offers)
    BY DEF EthIsEscrowed, EthIn, EscrowOf, OpenOffers
<1>2. EthIn(offers') = EthIn(offers)
          - (IF id \in DOMAIN offers /\ offers[id].active THEN offers[id].escrowWei ELSE 0)
          + (IF offers'[id].active THEN offers'[id].escrowWei ELSE 0)
    BY EthInChanges DEF TypeOK
<1>3. nativeBalance' = EthIn(offers')
    BY <1>1, <1>2, Zenon
<1>4. QED
    BY <1>3 DEF EthIsEscrowed, EthIn, EscrowOf, OpenOffers

(* The marketplace's ETH follows the offers in every step.                 *)
LEMMA EthStep == TypeOK /\ TypeOK' /\ EthIsEscrowed /\ [Next]_vars => EthIsEscrowed'
<1> SUFFICES ASSUME TypeOK, TypeOK', EthIsEscrowed, [Next]_vars PROVE EthIsEscrowed'
    OBVIOUS
<1>1. ASSUME UNCHANGED <<offers, nativeBalance>> PROVE EthIsEscrowed'
    BY <1>1 DEF EthIsEscrowed
<1>2. ASSUME NEW a \in Accounts, NEW k \in Keys, NEW quantity \in Quantities,
             NEW price \in Prices, CreateOffer(a, k, quantity, price)
      PROVE  EthIsEscrowed'
    <2> DEFINE escrow == quantity * price + Fee(quantity * price, feeBps)
               new == [buyer |-> a, key |-> k, quantity |-> quantity, unitPriceWei |-> price,
                       escrowWei |-> escrow, feeBps |-> feeBps, active |-> TRUE]
               id == Len(offers) + 1
    <2>1. offers' = Append(offers, new) /\ nativeBalance' = nativeBalance + escrow
        BY <1>2 DEF CreateOffer
    <2>2. new.active = TRUE /\ new.escrowWei = escrow
        OBVIOUS
    <2>3. offers'[id] = new /\ offers'[id] \in Offer
        BY <2>1 DEF TypeOK
    <2>4. new \in Offer /\ escrow \in Int /\ nativeBalance \in Int
        BY <2>2, <2>3 DEF Offer, TypeOK
    <2> HIDE DEF escrow, new
    <2>5. DiffersAt(offers, offers', id) /\ offers'[id] = new /\ id \notin DOMAIN offers
        BY <2>1, <2>4, AppendDiffers DEF TypeOK
    <2> HIDE DEF id
    <2>6. nativeBalance' = nativeBalance - 0 + escrow
        BY <2>1, <2>4
    <2>7. QED
        BY <2>2, <2>5, <2>6, OfferChangesEth
<1>3. ASSUME NEW id \in DOMAIN offers, CancelOffer(id) PROVE EthIsEscrowed'
    <2> DEFINE new == [offers[id] EXCEPT !.active = FALSE, !.escrowWei = 0]
    <2>1. offers[id] \in Offer /\ offers[id].active
        BY <1>3 DEF TypeOK, CancelOffer, Cancellable
    <2>2. new \in Offer /\ new.active = FALSE
        BY <2>1 DEF Offer
    <2>3. offers' = [offers EXCEPT ![id] = new]
          /\ nativeBalance' = nativeBalance - offers[id].escrowWei
        BY <1>3 DEF CancelOffer
    <2>4. nativeBalance \in Int /\ offers[id].escrowWei \in Int
        BY <2>1 DEF TypeOK, Offer
    <2> HIDE DEF new
    <2>5. DiffersAt(offers, offers', id) /\ offers'[id] = new
        BY <2>2, <2>3, ReplaceDiffers DEF TypeOK
    <2>6. nativeBalance' = nativeBalance - offers[id].escrowWei + 0
        BY <2>3, <2>4
    <2>7. QED
        BY <2>1, <2>2, <2>5, <2>6, OfferChangesEth
<1>4. ASSUME NEW a \in Accounts, NEW quantity \in Quantities, NEW id \in DOMAIN offers,
             AcceptOffer(a, id, quantity)
      PROVE  EthIsEscrowed'
    <2> DEFINE old == offers[id]
               spent == quantity * old.unitPriceWei
                            + OfferFee(old, quantity * old.unitPriceWei)
               rest == old.quantity - quantity
               after == EscrowAfter(old, spent, rest)
               new == [old EXCEPT !.quantity = rest, !.active = rest # 0, !.escrowWei = after]
    <2>1. old \in Offer /\ quantity * old.unitPriceWei \in Nat
          /\ OfferFee(old, quantity * old.unitPriceWei) \in Nat
        BY <1>4, AcceptNumbers
    <2>2. old.active /\ offers' = [offers EXCEPT ![id] = new]
        BY <1>4 DEF AcceptOffer
    <2>3. nativeBalance' = nativeBalance - spent - Refund(old, spent, rest)
        <3>1. nativeBalance' = nativeBalance - quantity * old.unitPriceWei
                  - OfferFee(old, quantity * old.unitPriceWei) - Refund(old, spent, rest)
            BY <1>4 DEF AcceptOffer
        <3>2. Refund(old, spent, rest) \in Int /\ nativeBalance \in Int
            BY <2>1 DEF Refund, Offer, TypeOK
        <3> HIDE DEF rest, old
        <3>3. QED
            BY <2>1, <3>1, <3>2
    <2>4. spent \in Int /\ old.escrowWei \in Int /\ nativeBalance \in Int
        BY <2>1 DEF Offer, TypeOK
    <2>5. offers'[id] \in Offer /\ offers'[id] = new
        BY <2>2 DEF TypeOK
    <2>6. new \in Offer /\ new.active = (rest # 0) /\ new.escrowWei = after
        <3>1. old \in Offer
            BY <2>1
        <3>2. new \in Offer
            BY <2>5
        <3> HIDE DEF old, rest, after
        <3>3. QED
            BY <3>1, <3>2 DEF Offer
    <2>7. DiffersAt(offers, offers', id) /\ offers'[id] = new
        <3> HIDE DEF new
        <3>1. QED
            BY <2>2, <2>6, ReplaceDiffers DEF TypeOK
    <2> HIDE DEF old, spent, rest, new
    <2>8. nativeBalance' = nativeBalance - old.escrowWei + (IF new.active THEN new.escrowWei ELSE 0)
        <3>1. CASE rest = 0
            <4>1. ~ new.active /\ nativeBalance' = nativeBalance - spent - (old.escrowWei - spent)
                BY <2>3, <2>6, <3>1 DEF Refund
            <4>2. QED
                BY <2>4, <4>1
        <3>2. CASE rest # 0
            <4>1. /\ new.active /\ new.escrowWei = old.escrowWei - spent
                  /\ nativeBalance' = nativeBalance - spent - 0
                BY <2>3, <2>6, <3>2 DEF Refund, EscrowAfter
            <4>2. QED
                BY <2>4, <4>1
        <3>3. QED
            BY <3>1, <3>2
    <2>9. QED
        BY <2>2, <2>7, <2>8, OfferChangesEth DEF old
<1>5. QED
    <2>1. CASE Administer
        BY <1>1, <2>1 DEF Administer, SetFactory, RegisterKey, SetFee, SetRouterOpen
    <2>2. CASE Make
        BY <1>1, <1>2, <2>2 DEF Make, CreateListing
    <2>3. CASE Fill
        BY <1>1, <1>4, <2>3 DEF Fill, Buy
    <2>4. CASE Cancel
        BY <1>1, <1>3, <2>4 DEF Cancel, CancelListing
    <2>5. CASE UNCHANGED vars
        BY <1>1, <2>5 DEF vars
    <2>6. QED
        BY <2>1, <2>2, <2>3, <2>4, <2>5 DEF Next

-----------------------------------------------------------------------------
(* The keys in escrow, and in the accounts' hands.                         *)

Held(k) == SumFunctionOnSet(keyBalance[k], Accounts)

\* KeysAreEscrowed, of one key.
KeyIsEscrowed(k) ==
    /\ escrowedKeys[k] = KeysIn(listings, k)
    /\ escrowedKeys[k] + Held(k) = Supply

(* The invariant, key by key.                                              *)
LEMMA KeyByKey == KeysAreEscrowed <=> \A k \in Keys : KeyIsEscrowed(k)
BY DEF KeysAreEscrowed, KeyIsEscrowed, KeysIn, QuantityOf, OpenListings, Held

(* What is in the accounts' hands is a number, and follows one balance.    *)
LEMMA HeldChanges ==
    ASSUME NEW b \in [Accounts -> Nat], NEW a \in Accounts, NEW n \in Nat
    PROVE  /\ SumFunctionOnSet(b, Accounts) \in Int
           /\ SumFunctionOnSet([b EXCEPT ![a] = n], Accounts)
                  = SumFunctionOnSet(b, Accounts) - b[a] + n
<1> DEFINE c == [b EXCEPT ![a] = n]
<1>1. c \in [Accounts -> Nat] /\ c[a] = n /\ \A x \in Accounts \ {a} : b[x] = c[x]
    OBVIOUS
<1> HIDE DEF c
<1>2. IsFiniteSet(Accounts) /\ \A x \in Accounts : b[x] \in Int /\ c[x] \in Int
    BY <1>1, KeyMarketplaceAssumption
<1>3. SumFunctionOnSet(c, Accounts) = SumFunctionOnSet(b, Accounts) - b[a] + c[a]
    BY <1>1, <1>2, SumChange
<1>4. SumFunctionOnSet(b, Accounts) \in Int
    BY <1>2, SumInt
<1>5. QED
    BY <1>1, <1>3, <1>4 DEF c

(* Listing, cancelling and buying move keys of listing id between account  *)
(* a and the escrow, and change the listing by what is moved.              *)
MovesKeys(id, key, a, moved) ==
    /\ DiffersAt(listings, listings', id)
    /\ \A k \in Keys : InEscrow(listings', id, k)
                           = InEscrow(listings, id, k) + (IF k = key THEN moved ELSE 0)
    /\ escrowedKeys' = [escrowedKeys EXCEPT ![key] = escrowedKeys[key] + moved]
    /\ keyBalance' = [keyBalance EXCEPT ![key][a] = keyBalance[key][a] - moved]

\* Keys that move between an order's escrow and a hand stay accounted for.
LEMMA MovedKeysAreEscrowed ==
    ASSUME TypeOK, TypeOK', KeysAreEscrowed, NEW id, NEW a \in Accounts, NEW key \in Keys,
           NEW moved \in Int, MovesKeys(id, key, a, moved)
    PROVE  KeysAreEscrowed'
<1> SUFFICES ASSUME NEW k \in Keys PROVE KeyIsEscrowed(k)'
    BY DEF KeysAreEscrowed, KeyIsEscrowed, KeysIn, QuantityOf, OpenListings, Held
<1> DEFINE change == IF k = key THEN moved ELSE 0
<1>1. KeyIsEscrowed(k)
    BY KeyByKey
<1>t. /\ listings \in Seq(Listing) /\ listings' \in Seq(Listing)
      /\ escrowedKeys \in [Keys -> Nat] /\ keyBalance \in [Keys -> [Accounts -> Nat]]
      /\ keyBalance' \in [Keys -> [Accounts -> Nat]]
    BY DEF TypeOK
<1>2. /\ KeysIn(listings, k) \in Int
      /\ KeysIn(listings', k) = KeysIn(listings, k) - InEscrow(listings, id, k)
                                                    + InEscrow(listings', id, k)
    <2>1. DiffersAt(listings, listings', id)
        BY DEF MovesKeys
    <2>2. QED
        BY <1>t, <2>1, KeysInChanges
<1>3. InEscrow(listings', id, k) = InEscrow(listings, id, k) + change
    BY DEF MovesKeys
<1>4. InEscrow(listings, id, k) \in Int
    <2>1. id \in DOMAIN listings => listings[id] \in Listing
        BY <1>t
    <2>2. QED
        BY <2>1 DEF InEscrow, Listing
<1>5. change \in Int
    OBVIOUS
<1>6. escrowedKeys'[k] = escrowedKeys[k] + change /\ escrowedKeys[k] \in Int
    BY <1>t DEF MovesKeys
<1>7. Held(k)' = Held(k) - change /\ Held(k) \in Int
    <2>1. keyBalance[k] \in [Accounts -> Nat] /\ keyBalance'[k] \in [Accounts -> Nat]
        BY <1>t
    <2>2. Held(k) \in Int
        BY <2>1, HeldChanges DEF Held
    <2>b. keyBalance' = [keyBalance EXCEPT ![key] =
                            [keyBalance[key] EXCEPT ![a] = keyBalance[key][a] - moved]]
        BY DEF MovesKeys
    <2>3. CASE key = k
        <3>1. keyBalance'[k] = [keyBalance[k] EXCEPT ![a] = keyBalance[k][a] - moved]
            BY <1>t, <2>b, <2>3
        <3>2. keyBalance[k][a] - moved \in Nat /\ keyBalance[k][a] \in Nat
            <4>1. keyBalance'[k][a] = keyBalance[k][a] - moved
                BY <2>1, <3>1
            <4>2. QED
                BY <2>1, <4>1
        <3>3. SumFunctionOnSet(keyBalance'[k], Accounts) = SumFunctionOnSet(keyBalance[k], Accounts)
                  - keyBalance[k][a] + (keyBalance[k][a] - moved)
            BY <2>1, <3>1, <3>2, HeldChanges
        <3>4. QED
            BY <2>2, <2>3, <3>2, <3>3 DEF Held
    <2>4. CASE key # k
        <3>1. keyBalance'[k] = keyBalance[k]
            BY <1>t, <2>b, <2>4
        <3>2. QED
            BY <2>2, <2>4, <3>1 DEF Held
    <2>5. QED
        BY <2>3, <2>4
<1> HIDE DEF change
<1>8. escrowedKeys'[k] = KeysIn(listings', k)
    BY <1>1, <1>2, <1>3, <1>4, <1>5, <1>6 DEF KeyIsEscrowed
<1>9. escrowedKeys'[k] + Held(k)' = Supply
    BY <1>1, <1>5, <1>6, <1>7 DEF KeyIsEscrowed
<1>10. QED
    BY <1>8, <1>9 DEF KeyIsEscrowed, Held

(* A new listing takes its keys from the seller.                           *)
LEMMA CreateListingMovesKeys ==
    ASSUME TypeOK, NEW a \in Accounts, NEW k \in Keys, NEW quantity \in Quantities,
           NEW price \in Prices, CreateListing(a, k, quantity, price)
    PROVE  quantity \in Int /\ MovesKeys(Len(listings) + 1, k, a, quantity)
<1> DEFINE new == [seller |-> a, key |-> k, quantity |-> quantity, unitPriceWei |-> price,
                   active |-> TRUE]
           id == Len(listings) + 1
<1>1. listings' = Append(listings, new)
    BY DEF CreateListing
<1>2. quantity \in Int /\ new \in Listing
    BY KeyMarketplaceAssumption DEF Quantities, Listing
<1>3. new.key = k /\ new.active = TRUE /\ new.quantity = quantity
    OBVIOUS
<1> HIDE DEF new
<1>4. DiffersAt(listings, listings', id) /\ listings'[id] = new /\ id \notin DOMAIN listings
    BY <1>1, <1>2, AppendDiffers DEF TypeOK
<1>5. id \in DOMAIN listings'
    BY <1>4 DEF DiffersAt
<1> HIDE DEF id
<1>6. \A c \in Keys : InEscrow(listings', id, c)
                          = InEscrow(listings, id, c) + (IF c = k THEN quantity ELSE 0)
    BY <1>2, <1>3, <1>4, <1>5 DEF InEscrow
<1>7. escrowedKeys' = [escrowedKeys EXCEPT ![k] = escrowedKeys[k] + quantity]
      /\ keyBalance' = [keyBalance EXCEPT ![k][a] = keyBalance[k][a] - quantity]
    BY DEF CreateListing
<1>8. QED
    BY <1>2, <1>4, <1>6, <1>7 DEF MovesKeys, id

(* What changing an open listing's quantity does to the escrow of a key.   *)
LEMMA ChangedListing ==
    ASSUME TypeOK, NEW id \in DOMAIN listings, NEW new \in Listing, listings[id].active,
           listings' = [listings EXCEPT ![id] = new], new.key = listings[id].key,
           NEW moved \in Nat, new.quantity = listings[id].quantity - moved,
           ~new.active => new.quantity = 0
    PROVE  /\ DiffersAt(listings, listings', id)
           /\ \A c \in Keys : InEscrow(listings', id, c) = InEscrow(listings, id, c)
                                  + (IF c = listings[id].key THEN 0 - moved ELSE 0)
<1>1. DiffersAt(listings, listings', id) /\ listings'[id] = new /\ id \in DOMAIN listings'
    BY ReplaceDiffers DEF TypeOK, DiffersAt
<1>2. listings[id] \in Listing
    BY DEF TypeOK
<1> DEFINE old == listings[id]
<1>3. old.quantity \in Nat /\ new.quantity \in Nat
    BY <1>2 DEF Listing
<1>4. ASSUME NEW c \in Keys
      PROVE  InEscrow(listings', id, c) = InEscrow(listings, id, c)
                                              + (IF c = old.key THEN 0 - moved ELSE 0)
    <2>1. InEscrow(listings', id, c) = IF c = old.key THEN new.quantity ELSE 0
        BY <1>1 DEF InEscrow
    <2>2. InEscrow(listings, id, c) = IF c = old.key THEN old.quantity ELSE 0
        BY DEF InEscrow
    <2>3. new.quantity = old.quantity - moved
        OBVIOUS
    <2> HIDE DEF old
    <2>4. QED
        BY <1>3, <2>1, <2>2, <2>3
<1>5. QED
    BY <1>1, <1>4

(* Cancelling gives the seller back all that is left.                      *)
LEMMA CancelListingMovesKeys ==
    ASSUME TypeOK, NEW id \in DOMAIN listings, CancelListing(id)
    PROVE  /\ listings[id] \in Listing
           /\ MovesKeys(id, listings[id].key, listings[id].seller, 0 - listings[id].quantity)
<1> DEFINE old == listings[id]
           new == CancelledListing(old)
<1>1. old \in Listing /\ old.active
    BY DEF TypeOK, CancelListing
<1>2. new \in Listing /\ new.key = old.key /\ new.quantity = 0
    BY <1>1 DEF CancelledListing, Listing
<1>3. listings' = [listings EXCEPT ![id] = new]
    BY DEF CancelListing
<1>4. old.quantity \in Nat /\ 0 = old.quantity - old.quantity
    BY <1>1 DEF Listing
<1>5. DiffersAt(listings, listings', id)
      /\ \A c \in Keys : InEscrow(listings', id, c) = InEscrow(listings, id, c)
                             + (IF c = old.key THEN 0 - old.quantity ELSE 0)
    <2> HIDE DEF new
    <2>1. QED
        BY <1>1, <1>2, <1>3, <1>4, ChangedListing
<1>6. old.key \in Keys /\ old.seller \in Accounts
    BY <1>1 DEF Listing
<1>7. escrowedKeys' = [escrowedKeys EXCEPT ![old.key] = escrowedKeys[old.key] + (0 - old.quantity)]
    <2>1. escrowedKeys' = [escrowedKeys EXCEPT ![old.key] = escrowedKeys[old.key] - old.quantity]
        BY DEF CancelListing
    <2>2. escrowedKeys[old.key] \in Nat
        BY <1>6 DEF TypeOK
    <2>3. escrowedKeys[old.key] - old.quantity = escrowedKeys[old.key] + (0 - old.quantity)
        BY <1>4, <2>2
    <2>4. QED
        BY <2>1, <2>3, Zenon
<1>8. keyBalance' = [keyBalance EXCEPT ![old.key][old.seller] =
                         keyBalance[old.key][old.seller] - (0 - old.quantity)]
    <2>1. keyBalance' = [keyBalance EXCEPT ![old.key][old.seller] =
                             keyBalance[old.key][old.seller] + old.quantity]
        BY DEF CancelListing
    <2>2. keyBalance[old.key][old.seller] \in Nat
        BY <1>6 DEF TypeOK
    <2>3. keyBalance[old.key][old.seller] + old.quantity
              = keyBalance[old.key][old.seller] - (0 - old.quantity)
        BY <1>4, <2>2
    <2>4. QED
        BY <2>1, <2>3, Zenon
<1>9. QED
    BY <1>1, <1>5, <1>7, <1>8, Zenon DEF MovesKeys

(* Buying gives the buyer what the listing loses.                          *)
LEMMA BuyMovesKeys ==
    ASSUME TypeOK, NEW a \in Accounts, NEW quantity \in Quantities,
           NEW id \in DOMAIN listings, Buy(a, id, quantity)
    PROVE  /\ listings[id] \in Listing /\ quantity \in Nat
           /\ MovesKeys(id, listings[id].key, a, 0 - quantity)
<1> DEFINE old == listings[id]
           rest == old.quantity - quantity
           new == [old EXCEPT !.quantity = rest, !.active = rest # 0]
<1>1. old \in Listing /\ old.active /\ quantity \in Nat /\ quantity <= old.quantity
    BY KeyMarketplaceAssumption DEF TypeOK, Buy, Quantities
<1>2. rest \in Nat
    BY <1>1 DEF Listing
<1>3. new \in Listing /\ new.key = old.key /\ new.quantity = rest /\ (~new.active => rest = 0)
    <2> HIDE DEF rest, old
    <2>1. QED
        BY <1>1, <1>2 DEF Listing
<1>4. listings' = [listings EXCEPT ![id] = new]
    BY DEF Buy
<1>5. DiffersAt(listings, listings', id)
      /\ \A c \in Keys : InEscrow(listings', id, c) = InEscrow(listings, id, c)
                             + (IF c = old.key THEN 0 - quantity ELSE 0)
    <2> HIDE DEF new
    <2>1. QED
        BY <1>1, <1>3, <1>4, ChangedListing
<1>6. old.key \in Keys
    BY <1>1 DEF Listing
<1>7. escrowedKeys' = [escrowedKeys EXCEPT ![old.key] = escrowedKeys[old.key] + (0 - quantity)]
    <2>1. escrowedKeys' = [escrowedKeys EXCEPT ![old.key] = escrowedKeys[old.key] - quantity]
        BY DEF Buy
    <2>2. escrowedKeys[old.key] \in Nat
        BY <1>6 DEF TypeOK
    <2>3. escrowedKeys[old.key] - quantity = escrowedKeys[old.key] + (0 - quantity)
        BY <1>1, <2>2
    <2>4. QED
        BY <2>1, <2>3, Zenon
<1>8. keyBalance' = [keyBalance EXCEPT ![old.key][a] = keyBalance[old.key][a] - (0 - quantity)]
    <2>1. keyBalance' = [keyBalance EXCEPT ![old.key][a] = keyBalance[old.key][a] + quantity]
        BY DEF Buy
    <2>2. keyBalance[old.key][a] \in Nat
        BY <1>6 DEF TypeOK
    <2>3. keyBalance[old.key][a] + quantity = keyBalance[old.key][a] - (0 - quantity)
        BY <1>1, <2>2
    <2>4. QED
        BY <2>1, <2>3, Zenon
<1>9. QED
    BY <1>1, <1>5, <1>7, <1>8, Zenon DEF MovesKeys

(* A fill of an offer hands keys from one account to another, or to        *)
(* itself: what is in the accounts' hands stays.                           *)
LEMMA HandedOver ==
    ASSUME NEW b \in [Accounts -> Nat], NEW buyer \in Accounts, NEW seller \in Accounts,
           NEW n \in Nat, n <= b[seller]
    PROVE  SumFunctionOnSet([x \in Accounts |-> b[x] + (IF x = buyer THEN n ELSE 0)
                                                     - (IF x = seller THEN n ELSE 0)], Accounts)
               = SumFunctionOnSet(b, Accounts)
<1> DEFINE c == [b EXCEPT ![buyer] = b[buyer] + n]
           d == [x \in Accounts |-> b[x] + (IF x = buyer THEN n ELSE 0)
                                         - (IF x = seller THEN n ELSE 0)]
<1>1. c \in [Accounts -> Nat] /\ b[buyer] + n \in Nat /\ b[buyer] \in Nat
    OBVIOUS
<1>2. c[seller] - n \in Nat /\ c[seller] \in Nat
    OBVIOUS
<1>3. d = [c EXCEPT ![seller] = c[seller] - n]
    <2>1. \A x \in Accounts : d[x] = IF x = seller THEN c[seller] - n ELSE c[x]
        OBVIOUS
    <2>2. d = [x \in Accounts |-> d[x]] /\ c = [x \in Accounts |-> c[x]]
        BY Zenon
    <2> HIDE DEF c, d
    <2>3. QED
        BY <1>1, <2>1, <2>2
<1>4. SumFunctionOnSet(c, Accounts) = SumFunctionOnSet(b, Accounts) - b[buyer] + (b[buyer] + n)
      /\ SumFunctionOnSet(b, Accounts) \in Int
    BY <1>1, HeldChanges
<1> HIDE DEF c, d
<1>5. SumFunctionOnSet(d, Accounts) = SumFunctionOnSet(c, Accounts) - c[seller] + (c[seller] - n)
    BY <1>1, <1>2, <1>3, HeldChanges
<1>6. SumFunctionOnSet(d, Accounts) = SumFunctionOnSet(b, Accounts)
    BY <1>1, <1>2, <1>4, <1>5
<1>7. QED
    BY <1>6 DEF d

\* Accepting an offer moves Keys from hand to hand only.
LEMMA AcceptKeepsKeys ==
    ASSUME TypeOK, KeysAreEscrowed, NEW a \in Accounts, NEW quantity \in Quantities,
           NEW id \in DOMAIN offers, AcceptOffer(a, id, quantity)
    PROVE  KeysAreEscrowed'
<1> SUFFICES ASSUME NEW k \in Keys PROVE KeyIsEscrowed(k)'
    BY DEF KeysAreEscrowed, KeyIsEscrowed, KeysIn, QuantityOf, OpenListings, Held
<1> DEFINE key == offers[id].key
           buyer == offers[id].buyer
           handed == [x \in Accounts |-> keyBalance[key][x] + (IF x = buyer THEN quantity ELSE 0)
                                                            - (IF x = a THEN quantity ELSE 0)]
<1>1. KeyIsEscrowed(k)
    BY KeyByKey
<1>2. offers[id] \in Offer /\ quantity \in Nat
    BY AcceptNumbers
<1>3. key \in Keys /\ buyer \in Accounts
    BY <1>2 DEF Offer
<1>4. /\ UNCHANGED <<listings, escrowedKeys>>
      /\ keyBalance' = [keyBalance EXCEPT ![key] = handed]
      /\ quantity <= keyBalance[key][a]
    BY <1>2, <1>3 DEF AcceptOffer, TypeOK
<1>5. Held(k)' = Held(k)
    <2>1. CASE k = key
        <3>1. keyBalance'[k] = handed
            BY <1>3, <1>4, <2>1 DEF TypeOK
        <3>2. keyBalance[key] \in [Accounts -> Nat]
            BY <1>3 DEF TypeOK
        <3>3. SumFunctionOnSet(handed, Accounts) = SumFunctionOnSet(keyBalance[key], Accounts)
            <4> HIDE DEF key, buyer
            <4>1. QED
                BY <1>2, <1>3, <1>4, <3>2, HandedOver
        <3> HIDE DEF handed
        <3>4. QED
            BY <2>1, <3>1, <3>3, Zenon DEF Held
    <2>2. CASE k # key
        <3>1. keyBalance'[k] = keyBalance[k]
            BY <1>4, <2>2 DEF TypeOK
        <3>2. QED
            BY <3>1 DEF Held
    <2>3. QED
        BY <2>1, <2>2
<1>6. QED
    BY <1>1, <1>4, <1>5 DEF KeyIsEscrowed

(* The keys follow the listings in every step.                             *)
LEMMA KeysStep == TypeOK /\ TypeOK' /\ KeysAreEscrowed /\ [Next]_vars => KeysAreEscrowed'
<1> SUFFICES ASSUME TypeOK, TypeOK', KeysAreEscrowed, [Next]_vars PROVE KeysAreEscrowed'
    OBVIOUS
<1>1. ASSUME UNCHANGED <<listings, escrowedKeys, keyBalance>> PROVE KeysAreEscrowed'
    BY <1>1 DEF KeysAreEscrowed
<1>2. ASSUME NEW a \in Accounts, NEW k \in Keys, NEW quantity \in Quantities,
             NEW price \in Prices, CreateListing(a, k, quantity, price)
      PROVE  KeysAreEscrowed'
    BY <1>2, CreateListingMovesKeys, MovedKeysAreEscrowed
<1>3. ASSUME NEW id \in DOMAIN listings, CancelListing(id) PROVE KeysAreEscrowed'
    <2> DEFINE moved == 0 - listings[id].quantity
    <2>1. listings[id] \in Listing /\ MovesKeys(id, listings[id].key, listings[id].seller, moved)
        BY <1>3, CancelListingMovesKeys
    <2>2. moved \in Int /\ listings[id].key \in Keys /\ listings[id].seller \in Accounts
        BY <2>1 DEF Listing
    <2> HIDE DEF moved
    <2>3. QED
        BY <2>1, <2>2, MovedKeysAreEscrowed
<1>4. ASSUME NEW a \in Accounts, NEW quantity \in Quantities, NEW id \in DOMAIN listings,
             Buy(a, id, quantity)
      PROVE  KeysAreEscrowed'
    <2> DEFINE moved == 0 - quantity
    <2>1. /\ listings[id] \in Listing /\ quantity \in Nat
          /\ MovesKeys(id, listings[id].key, a, moved)
        BY <1>4, BuyMovesKeys
    <2>2. moved \in Int /\ listings[id].key \in Keys
        BY <2>1 DEF Listing
    <2> HIDE DEF moved
    <2>3. QED
        BY <2>1, <2>2, MovedKeysAreEscrowed
<1>5. QED
    <2>1. CASE Administer
        BY <1>1, <2>1 DEF Administer, SetFactory, RegisterKey, SetFee, SetRouterOpen, tokenVars
    <2>2. CASE Make
        BY <1>1, <1>2, <2>2 DEF Make, CreateOffer, tokenVars
    <2>3. CASE Fill
        BY <1>4, <2>3, AcceptKeepsKeys DEF Fill
    <2>4. CASE Cancel
        BY <1>1, <1>3, <2>4 DEF Cancel, CancelOffer, tokenVars
    <2>5. CASE UNCHANGED vars
        BY <1>1, <2>5 DEF vars, tokenVars
    <2>6. QED
        BY <2>1, <2>2, <2>3, <2>4, <2>5 DEF Next

(* No order of listings, offers, fills in parts and cancellations loses or *)
(* mints a key or a wei: the marketplace holds exactly what its open       *)
(* orders hold, and the keys in hands and in escrow are the supply.        *)
THEOREM EscrowExact == Spec => []EscrowIsExact
<1>1. Init => EscrowIsExact
    <2> SUFFICES ASSUME Init PROVE EthIsEscrowed /\ KeysAreEscrowed
        BY DEF EscrowIsExact
    <2>1. DOMAIN offers = {} /\ DOMAIN listings = {}
        BY DEF Init
    <2>2. EthIsEscrowed
        <3>1. {id \in DOMAIN offers : offers[id].active} = {}
            BY <2>1
        <3>2. QED
            BY <3>1, SumEmpty DEF Init, EthIsEscrowed
    <2>3. ASSUME NEW k \in Keys PROVE KeyIsEscrowed(k)
        <3>1. OpenListings(listings, k) = {}
            BY <2>1 DEF OpenListings
        <3>2. KeysIn(listings, k) = 0
            BY <3>1, SumEmpty DEF KeysIn
        <3> DEFINE none == [a \in Accounts |-> 0]
        <3>3. keyBalance[k] = [none EXCEPT ![Creator] = Supply]
            BY KeyMarketplaceAssumption DEF Init
        <3>4. SumFunctionOnSet(none, Accounts) = 0
            BY KeyMarketplaceAssumption, SumZero
        <3>5. none \in [Accounts -> Nat] /\ none[Creator] = 0
            BY KeyMarketplaceAssumption
        <3> HIDE DEF none
        <3>6. Held(k) = 0 - 0 + Supply
            <4>1. Creator \in Accounts /\ Supply \in Nat
                BY KeyMarketplaceAssumption
            <4>2. SumFunctionOnSet([none EXCEPT ![Creator] = Supply], Accounts)
                      = SumFunctionOnSet(none, Accounts) - none[Creator] + Supply
                BY <3>5, <4>1, HeldChanges
            <4>3. QED
                BY <3>3, <3>4, <3>5, <4>2, Zenon DEF Held
        <3>7. QED
            BY <3>2, <3>6, KeyMarketplaceAssumption DEF KeyIsEscrowed, Init
    <2>4. QED
        BY <2>2, <2>3, KeyByKey
<1>2. TypeOK /\ TypeOK' /\ EscrowIsExact /\ [Next]_vars => EscrowIsExact'
    BY EthStep, KeysStep DEF EscrowIsExact
<1>3. QED
    BY <1>1, <1>2, TypeCorrect, PTL DEF Spec

-----------------------------------------------------------------------------
(* The index of the activity (ActivityIndexer), which reads what the        *)
(* factories, the vaults and this marketplace logged.  Rows below the       *)
(* window are right because of what a refresh knows of the blocks it has    *)
(* read: those a window and the confirmations below the highest head can    *)
(* no longer be replaced.                                                   *)

(* What the proof needs of types.                                          *)
IndexTyped ==
    /\ chain \in Seq(SUBSET Transactions)
    /\ {peak, nextBlock, safeHead, chunkStart, pendingRewind} \subseteq Nat
    /\ \A t \in DOMAIN activityEvents : activityEvents[t] \in Nat \ {0}
    /\ \A t \in DOMAIN decoded : decoded[t] \in Nat \ {0}
    /\ phase \in {"idle", "loading", "reading", "committing"}

(* The chain is never shorter than a reorganisation may leave it, and      *)
(* holds a transaction once.                                               *)
Reaches(blocks, head) ==
    /\ Len(blocks) <= head
    /\ head <= Len(blocks) + ReorgDepth
    /\ \A a, b \in DOMAIN blocks : \A t \in blocks[a] : t \in blocks[b] => a = b

(* The blocks that the depth of reorganisations leaves alone.              *)
SameBelow(before, after, head) ==
    \A b \in Nat \ {0} :
        b + ReorgDepth <= head =>
            b \in DOMAIN before /\ b \in DOMAIN after /\ after[b] = before[b]

(* A head taken from the chain lies the confirmations below the highest,   *)
(* unless it is the first block.                                           *)
Confirmed(head) == head <= 1 \/ head + Confirmations <= peak

(* The rows of a block are transactions of it, its launches among them.    *)
RowsRight(b) ==
    /\ b \in DOMAIN chain
    /\ \A t \in DOMAIN activityEvents : activityEvents[t] = b => t \in chain[b]
    /\ \A t \in chain[b] :
          t.kind = "launch" => t \in DOMAIN activityEvents /\ activityEvents[t] = b

(* The cursor: rows lie behind it, and below the window they are right.    *)
CursorTrue ==
    /\ Confirmed(nextBlock - 1)
    /\ nextBlock = NoBlock => DOMAIN activityEvents = {}
    /\ \A t \in DOMAIN activityEvents : activityEvents[t] < nextBlock
    /\ \A b \in Nat \ {0} : b + Window < nextBlock => RowsRight(b)

(* A refresh among its chunks: it goes on at the cursor or, before its     *)
(* first commit, where it will have deleted; below that, what is final for *)
(* its head is right already.                                              *)
RefreshTrue ==
    phase \in {"reading", "committing"} =>
        /\ Confirmed(safeHead)
        /\ chunkStart # 0
        /\ IF pendingRewind # NoBlock
           THEN pendingRewind = chunkStart
           ELSE nextBlock = chunkStart \/ (nextBlock = NoBlock /\ chunkStart = 1)
        /\ \A b \in Nat \ {0} : b < chunkStart /\ b + Window <= safeHead => RowsRight(b)

(* What was read and is not committed: of the blocks of the chunk, and for *)
(* those final for the head, what the chain still holds.                   *)
Holds(b) ==
    /\ b \in DOMAIN chain
    /\ \A t \in DOMAIN decoded : (decoded[t] = b) <=> t \in chain[b]
    /\ b \in chunkStart .. ChunkEnd =>
          \A t \in chain[b] : t.kind = "launch" => t \in DOMAIN decoded

ChunkTrue ==
    phase = "committing" =>
        /\ chunkStart <= safeHead
        /\ \A t \in DOMAIN decoded : decoded[t] \in chunkStart .. ChunkEnd
        /\ \A b \in Nat \ {0} : b + Window <= safeHead => Holds(b)

IndexInv ==
    /\ IndexTyped
    /\ Reaches(chain, peak)
    /\ CursorTrue
    /\ RefreshTrue
    /\ ChunkTrue

(* A new block leaves the others where they are.                           *)
LEMMA MinedBlocksStay ==
    ASSUME NEW c \in Seq(SUBSET Transactions), NEW p \in Nat, Reaches(c, p),
           NEW txs \in SUBSET Transactions, txs \cap UNION Range(c) = {}
    PROVE  LET d == Append(c, txs)
               q == IF Len(c) < p THEN p ELSE p + 1
           IN  /\ d \in Seq(SUBSET Transactions) /\ q \in Nat /\ p <= q
               /\ Reaches(d, q)
               /\ SameBelow(c, d, p)
<1> DEFINE d == Append(c, txs)
           q == IF Len(c) < p THEN p ELSE p + 1
<1>0. ReorgDepth \in Nat
    BY ActivityIndexerAssumption
<1>1. d \in Seq(SUBSET Transactions) /\ Len(d) = Len(c) + 1 /\ q \in Nat /\ p <= q
    OBVIOUS
<1>2. /\ \A b \in 1 .. Len(c) : d[b] = c[b]
      /\ d[Len(c) + 1] = txs
      /\ DOMAIN d = 1 .. Len(c) + 1 /\ DOMAIN c = 1 .. Len(c) /\ Len(c) \in Nat
    OBVIOUS
<1>3. \A b \in DOMAIN c : c[b] \cap txs = {}
    BY DEF Range
<1>4. Len(d) <= q /\ q <= Len(d) + ReorgDepth
    BY <1>0, <1>1, <1>2 DEF Reaches
<1> HIDE DEF d, q
<1>5. ASSUME NEW a \in DOMAIN d, NEW b \in DOMAIN d, NEW t \in d[a], t \in d[b]
      PROVE  a = b
    <2>1. CASE a \in DOMAIN c /\ b \in DOMAIN c
        BY <1>2, <1>5, <2>1 DEF Reaches
    <2>2. CASE a = Len(c) + 1 /\ b \in DOMAIN c
        BY <1>2, <1>3, <1>5, <2>2
    <2>3. CASE a \in DOMAIN c /\ b = Len(c) + 1
        BY <1>2, <1>3, <1>5, <2>3
    <2>4. QED
        BY <1>2, <2>1, <2>2, <2>3
<1>6. SameBelow(c, d, p)
    BY <1>0, <1>2 DEF SameBelow, Reaches
<1>7. QED
    BY <1>1, <1>4, <1>5, <1>6 DEF Reaches, d, q

(* A reorganisation leaves the blocks below its depth.                     *)
LEMMA ReorganisedBlocksStay ==
    ASSUME NEW c \in Seq(SUBSET Transactions), NEW p \in Nat, Reaches(c, p),
           NEW length \in Nat, length < Len(c), length + ReorgDepth >= p
    PROVE  LET d == SubSeq(c, 1, length)
           IN  /\ d \in Seq(SUBSET Transactions)
               /\ Reaches(d, p)
               /\ SameBelow(c, d, p)
<1> DEFINE d == SubSeq(c, 1, length)
<1>0. ReorgDepth \in Nat
    BY ActivityIndexerAssumption
<1>1. /\ d \in Seq(SUBSET Transactions) /\ Len(d) = length
      /\ \A b \in 1 .. length : d[b] = c[b]
      /\ DOMAIN d = 1 .. length /\ DOMAIN c = 1 .. Len(c) /\ Len(c) \in Nat
    OBVIOUS
<1> HIDE DEF d
<1>2. Reaches(d, p)
    BY <1>0, <1>1 DEF Reaches
<1>3. SameBelow(c, d, p)
    BY <1>0, <1>1 DEF SameBelow
<1>4. QED
    BY <1>1, <1>2, <1>3 DEF d

(* A block that is final for a confirmed head is out of reach of every     *)
(* reorganisation.                                                         *)
LEMMA FinalIsOutOfReach ==
    ASSUME Window # 0, peak \in Nat, NEW head \in Int, Confirmed(head),
           NEW b \in Nat \ {0}, b + Window <= head
    PROVE  b + ReorgDepth <= peak
<1>1. /\ Window \in Nat /\ Confirmations \in Nat
      /\ ReorgDepth \in Nat /\ ReorgDepth <= Confirmations + Window
    BY ActivityIndexerAssumption
<1>2. QED
    BY <1>1 DEF Confirmed

(* What the chain does between two calls of a refresh.                     *)
ChainSteps ==
    MineAny \/ \E length \in 0 .. MaxHead : Reorganise(length)

\* Whether it grows or is cut back, the chain keeps its final blocks.
LEMMA ChainMoves ==
    ASSUME IndexTyped, Reaches(chain, peak), ChainSteps
    PROVE  /\ chain' \in Seq(SUBSET Transactions) /\ peak' \in Nat /\ peak <= peak'
           /\ Reaches(chain', peak')
           /\ SameBelow(chain, chain', peak)
           /\ UNCHANGED <<databaseVars, agents, refreshVars>>
<1>1. ASSUME NEW txs \in SUBSET Transactions, Mine(txs)
      PROVE  /\ chain' \in Seq(SUBSET Transactions) /\ peak' \in Nat /\ peak <= peak'
             /\ Reaches(chain', peak')
             /\ SameBelow(chain, chain', peak)
             /\ UNCHANGED <<databaseVars, agents, refreshVars>>
    <2>1. chain \in Seq(SUBSET Transactions) /\ peak \in Nat
        BY DEF IndexTyped
    <2>2. PICK c \in Seq(SUBSET Transactions), p \in Nat : c = chain /\ p = peak
        BY <2>1
    <2>3. /\ txs \cap UNION Range(c) = {}
          /\ chain' = Append(c, txs)
          /\ peak' = IF Len(c) < p THEN p ELSE p + 1
          /\ UNCHANGED <<databaseVars, agents, refreshVars>>
        BY <1>1, <2>2 DEF Mine, Mined
    <2>4. Reaches(c, p)
        BY <2>2
    <2>5. QED
        BY <2>2, <2>3, <2>4, MinedBlocksStay
<1>2. ASSUME NEW length \in 0 .. MaxHead, Reorganise(length)
      PROVE  /\ chain' \in Seq(SUBSET Transactions) /\ peak' \in Nat /\ peak <= peak'
             /\ Reaches(chain', peak')
             /\ SameBelow(chain, chain', peak)
             /\ UNCHANGED <<databaseVars, agents, refreshVars>>
    <2>1. chain \in Seq(SUBSET Transactions) /\ peak \in Nat
        BY DEF IndexTyped
    <2>2. PICK c \in Seq(SUBSET Transactions), p \in Nat : c = chain /\ p = peak
        BY <2>1
    <2>3. /\ length \in Nat /\ length < Len(c) /\ length + ReorgDepth >= p
          /\ chain' = SubSeq(c, 1, length) /\ peak' = p
          /\ UNCHANGED <<databaseVars, agents, refreshVars>>
        BY <1>2, <2>2, ActivityIndexerAssumption DEF Reorganise
    <2>4. Reaches(c, p)
        BY <2>2
    <2>5. QED
        BY <2>2, <2>3, <2>4, ReorganisedBlocksStay
<1>3. QED
    BY <1>1, <1>2 DEF ChainSteps, MineAny

(* Rows that are right stay right while their block is out of reach.       *)
LEMMA RightWhileOutOfReach ==
    ASSUME NEW b \in Nat \ {0}, RowsRight(b), b + ReorgDepth <= peak,
           SameBelow(chain, chain', peak), UNCHANGED databaseVars
    PROVE  RowsRight(b)'
BY DEF RowsRight, SameBelow, databaseVars

(* No step of the chain disturbs what the index knows.                     *)
LEMMA ChainSpareIndex ==
    ASSUME Window # 0, IndexInv, ChainSteps
    PROVE  IndexInv'
<1>1. /\ chain' \in Seq(SUBSET Transactions) /\ peak' \in Nat /\ peak <= peak'
      /\ Reaches(chain', peak')
      /\ SameBelow(chain, chain', peak)
      /\ UNCHANGED <<databaseVars, agents, refreshVars>>
    BY ChainMoves DEF IndexInv
<1>2. /\ UNCHANGED databaseVars
      /\ UNCHANGED <<activityEvents, nextBlock>>
      /\ UNCHANGED <<phase, safeHead, chunkStart, pendingRewind, decoded>>
    BY <1>1 DEF databaseVars, refreshVars
<1>3. /\ {peak, nextBlock, safeHead, chunkStart, pendingRewind} \subseteq Nat
      /\ Window \in Nat /\ Confirmations \in Nat /\ ReorgDepth \in Nat
    BY ActivityIndexerAssumption DEF IndexInv, IndexTyped
<1>4. IndexTyped'
    BY <1>1, <1>2 DEF IndexInv, IndexTyped
<1>5. ASSUME NEW head \in Int, Confirmed(head)
      PROVE  /\ head <= 1 \/ head + Confirmations <= peak'
             /\ \A b \in Nat \ {0} : b + Window <= head =>
                   /\ b \in DOMAIN chain' /\ chain'[b] = chain[b] /\ b \in DOMAIN chain
                   /\ RowsRight(b) => RowsRight(b)'
    <2>1. PICK p \in Nat, q \in Nat : p = peak /\ q = peak' /\ p <= q
        BY <1>1, <1>3
    <2>2. head <= 1 \/ head + Confirmations <= p
        BY <1>5, <2>1 DEF Confirmed
    <2>3. head <= 1 \/ head + Confirmations <= q
        BY <2>1, <2>2, <1>3
    <2>4. ASSUME NEW b \in Nat \ {0}, b + Window <= head
          PROVE  /\ b \in DOMAIN chain' /\ chain'[b] = chain[b] /\ b \in DOMAIN chain
                 /\ RowsRight(b) => RowsRight(b)'
        <3>1. b + ReorgDepth <= peak
            BY <1>3, <1>5, <2>4, FinalIsOutOfReach
        <3>2. b \in DOMAIN chain' /\ chain'[b] = chain[b] /\ b \in DOMAIN chain
            BY <1>1, <3>1 DEF SameBelow
        <3>3. RowsRight(b) => RowsRight(b)'
            BY <1>1, <1>2, <3>1, RightWhileOutOfReach
        <3>4. QED
            BY <3>2, <3>3
    <2>5. QED
        BY <2>1, <2>3, <2>4
<1>6. CursorTrue'
    <2>1. PICK n \in Nat : n = nextBlock /\ n = nextBlock'
        BY <1>2, <1>3
    <2>2. Confirmed(n - 1)
        BY <2>1 DEF IndexInv, CursorTrue
    <2>3. n - 1 <= 1 \/ (n - 1) + Confirmations <= peak'
        <3>1. n - 1 \in Int
            OBVIOUS
        <3>2. QED
            BY <1>5, <2>2, <3>1, Zenon
    <2>4. ASSUME NEW b \in Nat \ {0}, b + Window < n
          PROVE  RowsRight(b)'
        <3>1. RowsRight(b)
            BY <2>1, <2>4 DEF IndexInv, CursorTrue
        <3>2. b + Window <= n - 1
            BY <1>3, <2>4
        <3>3. QED
            BY <1>5, <2>1, <2>2, <3>1, <3>2
    <2>5. nextBlock' = NoBlock => DOMAIN activityEvents' = {}
        BY <1>2 DEF IndexInv, CursorTrue
    <2>6. \A t \in DOMAIN activityEvents' : activityEvents'[t] < nextBlock'
        BY <1>2 DEF IndexInv, CursorTrue
    <2>7. QED
        BY <2>1, <2>3, <2>4, <2>5, <2>6 DEF CursorTrue, Confirmed
<1>7. RefreshTrue'
    <2> SUFFICES ASSUME phase \in {"reading", "committing"}
                 PROVE  RefreshTrue'
        BY <1>2 DEF RefreshTrue
    <2>1. /\ Confirmed(safeHead)
          /\ chunkStart # 0
          /\ IF pendingRewind # NoBlock
             THEN pendingRewind = chunkStart
             ELSE nextBlock = chunkStart \/ (nextBlock = NoBlock /\ chunkStart = 1)
          /\ \A b \in Nat \ {0} : b < chunkStart /\ b + Window <= safeHead => RowsRight(b)
        BY DEF IndexInv, RefreshTrue
    <2>2. PICK h \in Nat, s \in Nat : h = safeHead /\ h = safeHead'
                                      /\ s = chunkStart /\ s = chunkStart'
        BY <1>2, <1>3
    <2>3. h <= 1 \/ h + Confirmations <= peak'
        BY <1>5, <2>1, <2>2
    <2>4. ASSUME NEW b \in Nat \ {0}, b < s, b + Window <= h
          PROVE  RowsRight(b)'
        BY <1>5, <2>1, <2>2, <2>4
    <2>5. IF pendingRewind' # NoBlock
          THEN pendingRewind' = chunkStart'
          ELSE nextBlock' = chunkStart' \/ (nextBlock' = NoBlock /\ chunkStart' = 1)
        BY <1>2, <2>1
    <2>6. QED
        BY <1>2, <2>1, <2>2, <2>3, <2>4, <2>5 DEF RefreshTrue, Confirmed
<1>8. ChunkTrue'
    <2> SUFFICES ASSUME phase = "committing"
                 PROVE  ChunkTrue'
        BY <1>2 DEF ChunkTrue
    <2>1. /\ chunkStart <= safeHead
          /\ \A t \in DOMAIN decoded : decoded[t] \in chunkStart .. ChunkEnd
          /\ \A b \in Nat \ {0} : b + Window <= safeHead => Holds(b)
          /\ Confirmed(safeHead)
        BY DEF IndexInv, ChunkTrue, RefreshTrue
    <2>2. ChunkEnd' = ChunkEnd
        BY <1>2 DEF ChunkEnd
    <2>3. ASSUME NEW b \in Nat \ {0}, b + Window <= safeHead
          PROVE  Holds(b)'
        <3>1. Holds(b)
            BY <2>1, <2>3
        <3>2. b \in DOMAIN chain' /\ chain'[b] = chain[b]
            BY <1>3, <1>5, <2>1, <2>3
        <3>3. QED
            BY <1>2, <2>2, <3>1, <3>2 DEF Holds
    <2>4. QED
        BY <1>2, <2>1, <2>2, <2>3 DEF ChunkTrue
<1>9. QED
    BY <1>1, <1>4, <1>6, <1>7, <1>8 DEF IndexInv

(* While chain and database stay, so does what the cursor says.            *)
LEMMA CursorStays ==
    ASSUME IndexInv, UNCHANGED <<chainVars, databaseVars>>
    PROVE  /\ Reaches(chain, peak)'
           /\ CursorTrue'
           /\ \A b \in Nat \ {0} : RowsRight(b) => RowsRight(b)'
BY DEF IndexInv, chainVars, databaseVars, Reaches, CursorTrue, Confirmed, RowsRight

(* The steps that leave the refresh without a chunk: its begin, the        *)
(* loading of agents, its end, a failure, a restart.                       *)
LEMMA QuietSteps ==
    ASSUME IndexInv,
           StartRefresh \/ LoadAgent \/ FinishRefresh \/ FailRefresh \/ Restart
    PROVE  IndexInv'
<1>1. /\ UNCHANGED <<chainVars, databaseVars>>
      /\ phase' \in {"idle", "loading"}
      /\ {safeHead', chunkStart', pendingRewind'} \subseteq Nat
      /\ \A t \in DOMAIN decoded' : decoded'[t] \in Nat \ {0}
    <2>0. IndexTyped
        BY DEF IndexInv
    <2>1. CASE StartRefresh
        BY <2>0, <2>1 DEF StartRefresh, IndexTyped
    <2>2. CASE LoadAgent
        BY <2>0, <2>2 DEF LoadAgent, EndRefresh, refreshVars, IndexTyped, NoBlock, Nothing
    <2>3. CASE FinishRefresh
        BY <2>0, <2>3 DEF FinishRefresh, EndRefresh, IndexTyped, NoBlock, Nothing
    <2>4. CASE FailRefresh
        BY <2>0, <2>4 DEF FailRefresh, EndRefresh, IndexTyped, NoBlock, Nothing
    <2>5. CASE Restart
        BY <2>0, <2>5 DEF Restart, EndRefresh, IndexTyped, NoBlock, Nothing
    <2>6. QED
        BY <2>1, <2>2, <2>3, <2>4, <2>5
<1>2. IndexTyped'
    BY <1>1 DEF IndexInv, IndexTyped, chainVars, databaseVars
<1>3. RefreshTrue' /\ ChunkTrue'
    BY <1>1 DEF RefreshTrue, ChunkTrue
<1>4. QED
    BY <1>1, <1>2, <1>3, CursorStays DEF IndexInv

(* The head is read: the refresh goes back by the window, and what lies    *)
(* below is below the window of the cursor.                                *)
LEMMA HeadIsRead ==
    ASSUME Window # 0, IndexInv, ReadHead
    PROVE  IndexInv'
<1>1. /\ UNCHANGED <<chainVars, databaseVars>> /\ UNCHANGED <<chain, peak, nextBlock, decoded>>
      /\ phase' = "reading"
      /\ safeHead' = SafeHead
      /\ pendingRewind' = IF nextBlock = NoBlock THEN NoBlock ELSE RewindFrom
      /\ chunkStart' = IF nextBlock = NoBlock THEN 1 ELSE RewindFrom
    BY DEF ReadHead, chainVars, databaseVars
<1>2. /\ Window \in Nat /\ Confirmations \in Nat
      /\ nextBlock \in Nat /\ peak \in Nat /\ Len(chain) \in Nat /\ Len(chain) <= peak
    BY ActivityIndexerAssumption DEF IndexInv, IndexTyped, Reaches
<1>3. SafeHead \in Nat /\ Confirmed(SafeHead)
    BY <1>2 DEF SafeHead, Confirmed
<1>4. RewindFrom \in Nat \ {0}
      /\ \A b \in Nat \ {0} : b < RewindFrom => b + Window < nextBlock
    BY <1>2 DEF RewindFrom
<1>5. IndexTyped'
    BY <1>1, <1>3, <1>4 DEF IndexInv, IndexTyped, NoBlock, databaseVars
<1>6. RefreshTrue'
    <2>1. PICK s \in Nat \ {0} : s = chunkStart'
        BY <1>1, <1>4
    <2>2. ASSUME NEW b \in Nat \ {0}, b < s
          PROVE  RowsRight(b)'
        <3>1. b + Window < nextBlock
            BY <1>1, <1>4, <2>1, <2>2
        <3>2. RowsRight(b)
            BY <3>1 DEF IndexInv, CursorTrue
        <3>3. QED
            BY <1>1, <3>2, CursorStays
    <2>3. Confirmed(safeHead)'
        BY <1>1, <1>3 DEF Confirmed
    <2>4. IF pendingRewind' # NoBlock
          THEN pendingRewind' = chunkStart'
          ELSE nextBlock' = chunkStart' \/ (nextBlock' = NoBlock /\ chunkStart' = 1)
        BY <1>1, <1>4 DEF NoBlock
    <2>5. QED
        BY <2>1, <2>2, <2>3, <2>4 DEF RefreshTrue
<1>7. ChunkTrue'
    BY <1>1 DEF ChunkTrue
<1>8. QED
    BY <1>1, <1>5, <1>6, <1>7, CursorStays DEF IndexInv

(* The logs of a chunk are read: each row is of the block it names, and    *)
(* the final blocks are all there.                                         *)
LEMMA ChunkIsRead ==
    ASSUME Window # 0, IndexInv, ReadChunk
    PROVE  IndexInv'
<1> DEFINE blocks == chunkStart .. (IF ChunkEnd < Len(chain) THEN ChunkEnd ELSE Len(chain))
           found == {t \in UNION {chain[b] : b \in blocks} : IsTracked(t)}
<1>1. /\ UNCHANGED <<chainVars, databaseVars>>
      /\ UNCHANGED <<chain, nextBlock, safeHead, chunkStart, pendingRewind, peak>>
      /\ phase = "reading" /\ phase' = "committing"
      /\ chunkStart <= safeHead
      /\ decoded' = [t \in found |-> CHOOSE b \in blocks : t \in chain[b]]
    BY DEF ReadChunk, chainVars, databaseVars
<1>2. /\ chunkStart \in Nat /\ safeHead \in Nat /\ ChunkSize \in Nat \ {0} /\ peak \in Nat
      /\ Window \in Nat /\ ReorgDepth \in Nat
      /\ chain \in Seq(SUBSET Transactions)
      /\ Confirmed(safeHead) /\ chunkStart # 0
      /\ Reaches(chain, peak)
    BY <1>1, ActivityIndexerAssumption DEF IndexInv, IndexTyped, RefreshTrue
<1>3. /\ ChunkEnd \in Nat /\ ChunkEnd <= safeHead /\ ChunkEnd' = ChunkEnd
      /\ Len(chain) \in Nat /\ DOMAIN chain = 1 .. Len(chain)
      /\ blocks \subseteq chunkStart .. ChunkEnd /\ blocks \subseteq DOMAIN chain
      /\ \A b \in chunkStart .. ChunkEnd : b \in DOMAIN chain => b \in blocks
    BY <1>1, <1>2 DEF ChunkEnd
<1> HIDE DEF blocks
<1>4. /\ DOMAIN decoded' = found
      /\ \A t \in found : decoded'[t] \in blocks /\ t \in chain[decoded'[t]]
    BY <1>1
<1>5. IndexTyped'
    <2>1. \A t \in DOMAIN decoded' : decoded'[t] \in Nat \ {0}
        BY <1>2, <1>3, <1>4
    <2>2. QED
        BY <1>1, <2>1 DEF IndexInv, IndexTyped, databaseVars
<1>6. RefreshTrue'
    <2>1. \A b \in Nat \ {0} : b < chunkStart /\ b + Window <= safeHead => RowsRight(b)'
        BY <1>1, CursorStays DEF IndexInv, RefreshTrue
    <2>2. QED
        BY <1>1, <2>1 DEF IndexInv, RefreshTrue, Confirmed
<1>7. ChunkTrue'
    <2>1. \A t \in DOMAIN decoded' : decoded'[t] \in chunkStart .. ChunkEnd
        BY <1>3, <1>4
    <2>2. ASSUME NEW b \in Nat \ {0}, b + Window <= safeHead
          PROVE  Holds(b)'
        <3>1. b \in DOMAIN chain
            <4>1. PICK h \in Int : h = safeHead
                BY <1>2
            <4>2. Confirmed(h) /\ b + Window <= h
                BY <1>2, <2>2, <4>1
            <4>3. b + ReorgDepth <= peak
                BY <1>2, <4>2, FinalIsOutOfReach
            <4>4. QED
                BY <1>2, <1>3, <4>3 DEF Reaches
        <3>2. ASSUME NEW t \in found
              PROVE  (decoded'[t] = b) <=> t \in chain[b]
            BY <1>2, <1>3, <1>4, <3>1 DEF Reaches
        <3>3. ASSUME b \in chunkStart .. ChunkEnd, NEW t \in chain[b], t.kind = "launch"
              PROVE  t \in found
            BY <1>3, <3>1, <3>3 DEF IsTracked
        <3> HIDE DEF found
        <3>4. QED
            BY <1>1, <1>3, <1>4, <3>1, <3>2, <3>3 DEF Holds
    <2>3. QED
        BY <1>1, <1>3, <2>1, <2>2 DEF ChunkTrue
<1>8. QED
    BY <1>1, <1>5, <1>6, <1>7, CursorStays DEF IndexInv

(* A chunk is committed with the deletion of the window: rows below it     *)
(* stay, unless what was read moves them, and rows of its final blocks     *)
(* are what was read.                                                      *)
LEMMA ChunkIsCommitted ==
    ASSUME Window # 0, IndexInv, CommitChunk
    PROVE  IndexInv'
<1>1. /\ UNCHANGED <<chain, peak, safeHead>>
      /\ phase = "committing" /\ phase' = "reading"
      /\ activityEvents' = [t \in KeptRows \cup DOMAIN decoded |->
                               IF t \in DOMAIN decoded THEN decoded[t] ELSE activityEvents[t]]
      /\ nextBlock' = ChunkEnd + 1 /\ chunkStart' = ChunkEnd + 1
      /\ pendingRewind' = NoBlock
      /\ decoded' = Nothing
    BY DEF CommitChunk, Cursor, chainVars
<1>2. /\ chunkStart \in Nat \ {0} /\ safeHead \in Nat /\ chunkStart <= safeHead
      /\ peak \in Nat /\ nextBlock \in Nat /\ pendingRewind \in Nat
      /\ ChunkSize \in Nat \ {0} /\ Window \in Nat /\ Confirmations \in Nat
    BY <1>1, ActivityIndexerAssumption
    DEF IndexInv, IndexTyped, RefreshTrue, ChunkTrue
<1>3. /\ ChunkEnd \in Nat /\ chunkStart <= ChunkEnd /\ ChunkEnd <= safeHead
    BY <1>2 DEF ChunkEnd
<1>4. /\ Confirmed(safeHead)
      /\ IF pendingRewind # NoBlock
         THEN pendingRewind = chunkStart
         ELSE nextBlock = chunkStart \/ (nextBlock = NoBlock /\ chunkStart = 1)
      /\ \A b \in Nat \ {0} : b < chunkStart /\ b + Window <= safeHead => RowsRight(b)
      /\ \A t \in DOMAIN decoded : decoded[t] \in chunkStart .. ChunkEnd
      /\ \A b \in Nat \ {0} : b + Window <= safeHead => Holds(b)
    BY <1>1 DEF IndexInv, RefreshTrue, ChunkTrue
<1>5. /\ \A t \in DOMAIN activityEvents : activityEvents[t] \in Nat \ {0}
      /\ \A t \in DOMAIN activityEvents : activityEvents[t] < nextBlock
      /\ nextBlock = NoBlock => DOMAIN activityEvents = {}
      /\ \A t \in DOMAIN decoded : decoded[t] \in Nat \ {0}
    BY DEF IndexInv, IndexTyped, CursorTrue
<1>6. /\ KeptRows \subseteq DOMAIN activityEvents
      /\ \A t \in KeptRows : activityEvents[t] < chunkStart
      /\ \A t \in DOMAIN activityEvents : activityEvents[t] < chunkStart => t \in KeptRows
    <2>1. CASE pendingRewind # NoBlock
        BY <1>4, <2>1 DEF KeptRows
    <2>2. CASE pendingRewind = NoBlock
        BY <1>2, <1>4, <1>5, <2>2 DEF KeptRows, NoBlock
    <2>3. QED
        BY <2>1, <2>2
<1>7. /\ DOMAIN activityEvents' = KeptRows \cup DOMAIN decoded
      /\ \A t \in DOMAIN decoded : activityEvents'[t] = decoded[t]
      /\ \A t \in KeptRows : t \notin DOMAIN decoded => activityEvents'[t] = activityEvents[t]
    BY <1>1
<1>8. \A t \in DOMAIN activityEvents' :
          activityEvents'[t] \in Nat \ {0} /\ activityEvents'[t] < ChunkEnd + 1
    BY <1>2, <1>3, <1>4, <1>5, <1>6, <1>7
<1>9. IndexTyped'
    <2>1. DOMAIN decoded' = {}
        BY <1>1 DEF Nothing
    <2>2. {peak', nextBlock', safeHead', chunkStart', pendingRewind'} \subseteq Nat
        BY <1>1, <1>2, <1>3 DEF NoBlock
    <2>3. QED
        BY <1>1, <1>8, <2>1, <2>2 DEF IndexInv, IndexTyped
<1>10. ASSUME NEW b \in Nat \ {0}, b < ChunkEnd + 1, b + Window <= safeHead
       PROVE  RowsRight(b)'
    <2>1. /\ b \in DOMAIN chain
          /\ \A t \in DOMAIN decoded : (decoded[t] = b) <=> t \in chain[b]
          /\ b \in chunkStart .. ChunkEnd =>
                \A t \in chain[b] : t.kind = "launch" => t \in DOMAIN decoded
        BY <1>4, <1>10 DEF Holds
    <2>2. CASE b < chunkStart
        <3>1. RowsRight(b)
            BY <1>4, <1>10, <2>2
        <3>2. ASSUME NEW t \in DOMAIN activityEvents', activityEvents'[t] = b
              PROVE  t \in chain[b]
            BY <1>6, <1>7, <2>1, <3>1, <3>2 DEF RowsRight
        <3>3. ASSUME NEW t \in chain[b], t.kind = "launch"
              PROVE  t \in DOMAIN activityEvents' /\ activityEvents'[t] = b
            <4>1. t \in DOMAIN activityEvents /\ activityEvents[t] = b
                BY <3>1, <3>3 DEF RowsRight
            <4>2. QED
                BY <1>6, <1>7, <2>1, <2>2, <3>3, <4>1
        <3>4. QED
            BY <1>1, <2>1, <3>2, <3>3 DEF RowsRight
    <2>3. CASE b \in chunkStart .. ChunkEnd
        <3>1. ASSUME NEW t \in DOMAIN activityEvents', activityEvents'[t] = b
              PROVE  t \in chain[b]
            <4>1. t \in DOMAIN decoded
                BY <1>2, <1>5, <1>6, <1>7, <2>3, <3>1
            <4>2. QED
                BY <1>7, <2>1, <3>1, <4>1
        <3>2. ASSUME NEW t \in chain[b], t.kind = "launch"
              PROVE  t \in DOMAIN activityEvents' /\ activityEvents'[t] = b
            BY <1>7, <2>1, <2>3, <3>2
        <3>3. QED
            BY <1>1, <2>1, <3>1, <3>2 DEF RowsRight
    <2>4. QED
        BY <1>2, <1>3, <1>10, <2>2, <2>3
<1>11. PICK e \in Nat : e = ChunkEnd /\ e <= safeHead /\ nextBlock' = e + 1
                        /\ chunkStart' = e + 1
    BY <1>1, <1>3
<1>12. Confirmed(e)
    BY <1>2, <1>4, <1>11 DEF Confirmed
<1>13. CursorTrue'
    <2>1. ASSUME NEW b \in Nat \ {0}, b + Window < e + 1
          PROVE  RowsRight(b)'
        <3>1. b < e + 1 /\ b + Window <= safeHead
            BY <1>2, <1>11, <2>1
        <3>2. QED
            BY <1>10, <1>11, <3>1
    <2>2. Confirmed(nextBlock - 1)'
        <3>1. (e + 1) - 1 = e
            OBVIOUS
        <3>2. e <= 1 \/ e + Confirmations <= peak'
            BY <1>1, <1>12 DEF Confirmed
        <3>3. QED
            BY <1>11, <3>1, <3>2, Zenon DEF Confirmed
    <2>3. nextBlock' # NoBlock
        BY <1>11 DEF NoBlock
    <2>4. \A t \in DOMAIN activityEvents' : activityEvents'[t] < e + 1
        BY <1>8, <1>11
    <2>5. QED
        BY <1>11, <2>1, <2>2, <2>3, <2>4 DEF CursorTrue
<1>14. RefreshTrue'
    <2>1. \A b \in Nat \ {0} : b < e + 1 /\ b + Window <= safeHead => RowsRight(b)'
        BY <1>10, <1>11
    <2>2. Confirmed(safeHead)'
        BY <1>1, <1>4 DEF Confirmed
    <2>3. chunkStart' # 0 /\ nextBlock' = chunkStart'
        BY <1>11
    <2>4. QED
        BY <1>1, <1>11, <2>1, <2>2, <2>3 DEF RefreshTrue
<1>15. ChunkTrue'
    BY <1>1 DEF ChunkTrue
<1>16. Reaches(chain, peak)'
    BY <1>1 DEF IndexInv, Reaches
<1>17. QED
    BY <1>9, <1>13, <1>14, <1>15, <1>16 DEF IndexInv

(* What the index knows of the chain, whatever is mined, reorganised,      *)
(* refused or interrupted, for every window but the empty one: without a   *)
(* window the first block would be settled when it may still be replaced.  *)
THEOREM IndexCorrect ==
    ASSUME Window # 0
    PROVE  IndexSpec => []IndexInv
<1>1. IndexInit => IndexInv
    <2> SUFFICES ASSUME IndexInit PROVE IndexInv
        OBVIOUS
    <2>1. ReorgDepth \in Nat /\ Window \in Nat /\ Confirmations \in Nat
        BY ActivityIndexerAssumption
    <2>2. chain = << >> /\ peak = 0 /\ nextBlock = 0 /\ phase = "idle"
          /\ safeHead = 0 /\ chunkStart = 0 /\ pendingRewind = 0
          /\ DOMAIN activityEvents = {} /\ DOMAIN decoded = {}
        BY DEF IndexInit, NoBlock, Nothing
    <2>3. IndexTyped
        BY <2>2 DEF IndexTyped
    <2>4. Reaches(chain, peak)
        BY <2>1, <2>2 DEF Reaches
    <2>5. CursorTrue
        BY <2>1, <2>2 DEF CursorTrue, Confirmed
    <2>6. RefreshTrue /\ ChunkTrue
        BY <2>2 DEF RefreshTrue, ChunkTrue
    <2>7. QED
        BY <2>3, <2>4, <2>5, <2>6 DEF IndexInv
<1>2. IndexInv /\ [IndexNext]_indexVars => IndexInv'
    <2> SUFFICES ASSUME IndexInv, [IndexNext]_indexVars PROVE IndexInv'
        OBVIOUS
    <2>1. CASE ChainSteps
        BY <2>1, ChainSpareIndex
    <2>2. CASE StartRefresh \/ LoadAgent \/ FinishRefresh \/ FailRefresh \/ Restart
        BY <2>2, QuietSteps
    <2>3. CASE ReadHead
        BY <2>3, HeadIsRead
    <2>4. CASE ReadChunk
        BY <2>4, ChunkIsRead
    <2>5. CASE CommitChunk
        BY <2>5, ChunkIsCommitted
    <2>6. CASE UNCHANGED indexVars
        <3>1. /\ UNCHANGED <<chainVars, databaseVars>>
              /\ UNCHANGED <<chain, peak, activityEvents, nextBlock, phase, safeHead,
                             chunkStart, pendingRewind, decoded>>
            BY <2>6 DEF indexVars, refreshVars, chainVars, databaseVars
        <3>2. IndexTyped' /\ ChunkEnd' = ChunkEnd
            BY <3>1 DEF IndexInv, IndexTyped, ChunkEnd
        <3>3. RefreshTrue'
            BY <3>1, CursorStays DEF IndexInv, RefreshTrue, Confirmed
        <3>4. ChunkTrue'
            BY <3>1, <3>2 DEF IndexInv, ChunkTrue, Holds
        <3>5. QED
            BY <3>1, <3>2, <3>3, <3>4, CursorStays DEF IndexInv
    <2>7. QED
        BY <2>1, <2>2, <2>3, <2>4, <2>5, <2>6 DEF IndexNext, RefreshStep, ChainSteps
<1>3. QED
    BY <1>1, <1>2, PTL DEF IndexSpec

(* SettledRowsAreRight: what is below the window is final.                 *)
THEOREM SettledRight ==
    ASSUME Window # 0
    PROVE  IndexSpec => []SettledRowsAreRight
<1>1. ASSUME IndexInv
      PROVE  SettledRowsAreRight
    <2>1. ASSUME NEW t \in DOMAIN activityEvents, activityEvents[t] + Window < nextBlock
          PROVE  InBlock(t, activityEvents[t])
        BY <1>1, <2>1 DEF IndexInv, IndexTyped, CursorTrue, RowsRight, InBlock
    <2>2. ASSUME NEW b \in Settled, NEW t \in chain[b], t.kind = "launch"
          PROVE  t \in DOMAIN activityEvents /\ activityEvents[t] = b
        <3>1. b \in Nat \ {0} /\ b + Window < nextBlock
            BY <1>1 DEF Settled, IndexInv, IndexTyped
        <3>2. RowsRight(b)
            BY <1>1, <3>1 DEF IndexInv, CursorTrue
        <3>3. QED
            BY <2>2, <3>2 DEF RowsRight
    <2>3. QED
        BY <2>1, <2>2 DEF SettledRowsAreRight
<1>2. QED
    BY <1>1, IndexCorrect, PTL
=============================================================================
