---------------------------- MODULE WebClientProofs ----------------------------
(* Theorems about the parts of the web client, for every value of their      *)
(* constants.  A behaviour of WebClientMC is one of a single part, so each   *)
(* theorem rests on the invariant of its part alone.                         *)
EXTENDS WebClientMC, SumLemmas, SequenceTheorems, TLAPS

------------------------------------------------------------------------------
(* Profiles.                                                                 *)

HandleClaim ==
    [pc : {"sign", "claim", "claimed", "refused", "ended"}, open : BOOLEAN,
     wallet : Signers, handle : Handles]
HandleRequest == [nonce : Nonces, stage : {"received", "checked", "free"}]
HandleRead ==
    [pc : {"asked", "answered"}, wallet : Signers, active : BOOLEAN,
     answer : Handles \cup {NoHandle}]

ProfileTypes ==
    /\ profiles \in [Signers -> Handles \cup {NoHandle}]
    /\ claims \in [Nonces -> HandleClaim \cup {Profile!NoClaim}]
    /\ requests \in SUBSET HandleRequest
    /\ account \in Signers \cup {NoSigner}
    /\ handle \in Handles \cup {NoHandle}
    /\ reads \in [Reads -> HandleRead \cup {Profile!NoRead}]
    /\ claimed \in SUBSET (Signers \X Handles)
    /\ overtaken \in BOOLEAN

\* A request comes from a claim that was signed.
RequestsAreSigned == \A q \in requests : claims[q.nonce].pc \notin {"none", "sign"}

\* Each handle has one holder, who claimed it.
HandlesAreUnique ==
    /\ \A v, w \in Signers : v # w /\ profiles[v] = profiles[w] => profiles[v] = NoHandle
    /\ \A w \in Signers : profiles[w] # NoHandle => <<w, profiles[w]>> \in claimed

\* The effect listens to reads of the connected wallet only, and what they
\* bring that wallet has claimed.
ReadsAreOfTheirWallet ==
    \A r \in Reads :
        /\ reads[r].pc # "none" /\ reads[r].active => reads[r].wallet = account
        /\ reads[r].pc = "answered" /\ reads[r].answer # NoHandle
              => <<reads[r].wallet, reads[r].answer>> \in claimed

\* A claim that was granted is recorded; unless another connection came first,
\* those under way are of the connected wallet.
ClaimsAreOfTheirWallet ==
    \A n \in Nonces :
        /\ claims[n].pc = "claimed" => <<claims[n].wallet, claims[n].handle>> \in claimed
        /\ overtaken \/ claims[n].pc \in {"none", "ended"} \/ claims[n].wallet = account

HeaderIsTrue == overtaken \/ handle = NoHandle \/ <<account, handle>> \in claimed

ProfileInv ==
    /\ ProfileTypes
    /\ RequestsAreSigned
    /\ HandlesAreUnique
    /\ ReadsAreOfTheirWallet
    /\ ClaimsAreOfTheirWallet
    /\ HeaderIsTrue

(* A claim has fields, or it is none.                                        *)
LEMMA ProfileRecords ==
    ASSUME ProfileTypes
    PROVE  /\ \A n \in Nonces : claims[n].pc # "none" => claims[n] \in HandleClaim
           /\ \A r \in Reads : reads[r].pc # "none" => reads[r] \in HandleRead
           /\ \A q \in requests : q \in HandleRequest /\ q.nonce \in Nonces
           /\ Profile!NoClaim.pc = "none" /\ Profile!NoRead.pc = "none"
           /\ \A c \in HandleClaim : c.pc # "none" /\ c.wallet \in Signers /\ c.handle \in Handles
           /\ \A r \in HandleRead : r.pc # "none" /\ r.wallet \in Signers
                                    /\ r.answer \in Handles \cup {NoHandle}
  <1>1. Profile!NoClaim.pc = "none" /\ Profile!NoRead.pc = "none"
    BY DEF Profile!NoClaim, Profile!NoRead
  <1>2. /\ \A c \in HandleClaim : c.pc # "none" /\ c.wallet \in Signers /\ c.handle \in Handles
        /\ \A r \in HandleRead : r.pc # "none" /\ r.wallet \in Signers
                                 /\ r.answer \in Handles \cup {NoHandle}
        /\ \A q \in HandleRequest : q.nonce \in Nonces
    BY DEF HandleClaim, HandleRead, HandleRequest
  <1> QED
    BY <1>1, <1>2 DEF ProfileTypes

(* A change of wallet: nothing of another wallet is listened to or shown,    *)
(* unless the change overtook a call of the shell.                           *)
LEMMA EffectStep ==
    ASSUME ProfileInv, NoSigner \notin Signers, NEW a \in Signers \cup {NoSigner},
           Profile!Effect(a), UNCHANGED <<profiles, claims, requests, claimed>>,
           overtaken' \in BOOLEAN, overtaken => overtaken',
           overtaken' \/ a = NoSigner \/ account = NoSigner,
           overtaken' \/ \A n \in Nonces : claims[n].pc \in {"none", "ended"}
    PROVE  ProfileInv'
  <1> DEFINE ignored == [r \in Reads |-> IF reads[r].pc = "none" THEN Profile!NoRead
                                         ELSE [reads[r] EXCEPT !.active = FALSE]]
             question == [pc |-> "asked", wallet |-> a, active |-> TRUE, answer |-> NoHandle]
  <1>1. account' = a
    BY DEF Profile!Effect
  <1>2. ASSUME NEW r \in Reads
        PROVE  /\ ignored[r] \in HandleRead \cup {Profile!NoRead}
               /\ ignored[r].pc = "none" \/ ~ignored[r].active
               /\ ignored[r].pc = reads[r].pc
               /\ ignored[r].pc # "none" => /\ ignored[r].wallet = reads[r].wallet
                                            /\ ignored[r].answer = reads[r].answer
    <2>1. \A x \in HandleRead :
             LET y == [x EXCEPT !.active = FALSE] IN
             /\ y \in HandleRead /\ ~y.active /\ y.pc = x.pc
             /\ y.wallet = x.wallet /\ y.answer = x.answer
      BY DEF HandleRead
    <2>2. reads[r].pc # "none" => reads[r] \in HandleRead
      BY ProfileRecords DEF ProfileInv
    <2>3. Profile!NoRead.pc = "none"
      BY ProfileRecords DEF ProfileInv
    <2> QED
      BY <2>1, <2>2, <2>3
  <1>3. \/ a = NoSigner /\ handle' = NoHandle /\ reads' = ignored
        \/ /\ a \in Signers /\ handle' = handle
           /\ \E r \in Reads : reads' = [ignored EXCEPT ![r] = question]
    BY DEF Profile!Effect
  <1>4. a \in Signers => question \in HandleRead /\ question.pc = "asked" /\ question.wallet = a
    BY DEF HandleRead
  <1>5. ignored \in [Reads -> HandleRead \cup {Profile!NoRead}]
    BY <1>2
  <1> HIDE DEF ignored, question
  <1>6. \/ a = NoSigner /\ handle' = NoHandle /\ \A r \in Reads : reads'[r] = ignored[r]
        \/ /\ a \in Signers /\ handle' = handle
           /\ \A r \in Reads : reads'[r] = ignored[r] \/ reads'[r] = question
    BY <1>3, <1>5
  <1>7. reads' \in [Reads -> HandleRead \cup {Profile!NoRead}]
    BY <1>3, <1>4, <1>5
  <1>8. ReadsAreOfTheirWallet'
    <2>1. ASSUME NEW r \in Reads, reads'[r].pc # "none"
          PROVE  /\ reads'[r].active => reads'[r].wallet = a
                 /\ reads'[r].pc = "answered" /\ reads'[r].answer # NoHandle
                       => <<reads'[r].wallet, reads'[r].answer>> \in claimed
      <3>1. CASE reads'[r] = ignored[r]
        BY <1>2, <2>1, <3>1 DEF ProfileInv, ReadsAreOfTheirWallet
      <3>2. CASE reads'[r] = question /\ a \in Signers
        BY <1>4, <3>2
      <3> QED
        BY <1>6, <3>1, <3>2
    <2> QED
      BY <1>1, <2>1 DEF ReadsAreOfTheirWallet
  <1>9. ProfileTypes'
    BY <1>1, <1>3, <1>7 DEF ProfileInv, ProfileTypes
  <1>10. HeaderIsTrue'
    <2>1. CASE overtaken'
      BY <2>1 DEF HeaderIsTrue
    <2>2. CASE ~overtaken' /\ a = NoSigner
      BY <1>3, <2>2 DEF HeaderIsTrue
    <2>3. CASE ~overtaken' /\ account = NoSigner /\ a # NoSigner
      <3>1. handle' = handle /\ ~overtaken
        BY <1>3, <2>3
      <3>2. \A h : <<NoSigner, h>> \notin claimed
        BY DEF ProfileInv, ProfileTypes
      <3>3. handle = NoHandle
        BY <2>3, <3>1, <3>2 DEF ProfileInv, HeaderIsTrue
      <3> QED
        BY <3>1, <3>3 DEF HeaderIsTrue
    <2> QED
      BY <2>1, <2>2, <2>3
  <1>11. ClaimsAreOfTheirWallet'
    BY DEF ProfileInv, ClaimsAreOfTheirWallet
  <1>12. HandlesAreUnique' /\ RequestsAreSigned'
    BY DEF ProfileInv, HandlesAreUnique, RequestsAreSigned
  <1> QED
    BY <1>8, <1>9, <1>10, <1>11, <1>12 DEF ProfileInv

(* The connections of the shell.                                             *)
LEMMA ConnectionsKeepProfiles ==
    ASSUME ProfileInv, Profile!ProfilesAssumption,
           \/ \E a \in Signers \cup {NoSigner} : Profile!getConnectedWallet(a)
           \/ Profile!requestWallet
           \/ \E a \in Signers : Profile!connectWallet(a)
    PROVE  ProfileInv'
  <1>1. /\ NoSigner \notin Signers /\ overtaken \in BOOLEAN
        /\ UNCHANGED <<profiles, claims, requests, claimed>>
    BY DEF Profile!ProfilesAssumption, ProfileInv, ProfileTypes, Profile!getConnectedWallet,
           Profile!requestWallet, Profile!connectWallet
  <1>2. account = NoSigner /\ ~overtaken => \A n \in Nonces : claims[n].pc \in {"none", "ended"}
    <2>1. ASSUME NEW n \in Nonces, account = NoSigner, ~overtaken, claims[n].pc \notin {"none", "ended"}
          PROVE  FALSE
      <3>1. claims[n].wallet = account
        BY <2>1 DEF ProfileInv, ClaimsAreOfTheirWallet
      <3>2. claims[n].wallet \in Signers
        BY <2>1, ProfileRecords DEF ProfileInv
      <3> QED
        BY <1>1, <2>1, <3>1, <3>2
    <2> QED
      BY <2>1
  <1>3. ASSUME NEW a \in Signers \cup {NoSigner}, Profile!getConnectedWallet(a)
        PROVE  ProfileInv'
    <2>1. overtaken' = (overtaken \/ account # NoSigner)
      BY <1>3 DEF Profile!getConnectedWallet
    <2>2. CASE a = NoSigner
      <3>1. UNCHANGED <<account, handle, reads>>
        BY <1>3, <2>2 DEF Profile!getConnectedWallet
      <3>2. ProfileTypes'
        BY <1>1, <2>1, <3>1 DEF ProfileInv, ProfileTypes
      <3>3. HandlesAreUnique' /\ RequestsAreSigned' /\ ReadsAreOfTheirWallet'
        BY <1>1, <3>1 DEF ProfileInv, HandlesAreUnique, RequestsAreSigned, ReadsAreOfTheirWallet
      <3>4. ClaimsAreOfTheirWallet' /\ HeaderIsTrue'
        BY <1>1, <2>1, <3>1 DEF ProfileInv, ClaimsAreOfTheirWallet, HeaderIsTrue
      <3> QED
        BY <3>2, <3>3, <3>4 DEF ProfileInv
    <2>3. CASE a # NoSigner
      <3>1. Profile!Effect(a)
        BY <1>3, <2>3 DEF Profile!getConnectedWallet
      <3>2. overtaken' \in BOOLEAN /\ (overtaken => overtaken')
            /\ (overtaken' \/ account = NoSigner)
        BY <2>1
      <3>3. overtaken' \/ \A n \in Nonces : claims[n].pc \in {"none", "ended"}
        BY <1>2, <3>2
      <3> QED
        BY <1>1, <1>3, <3>1, <3>2, <3>3, EffectStep
    <2> QED
      BY <2>2, <2>3
  <1>4. CASE Profile!requestWallet
    <2>1. Profile!Effect(NoSigner) /\ NoSigner \in Signers \cup {NoSigner}
          /\ overtaken' = (overtaken \/ \E n \in Nonces : claims[n].pc \notin {"none", "ended"})
      BY <1>4 DEF Profile!requestWallet
    <2>2. overtaken' \in BOOLEAN /\ (overtaken => overtaken')
          /\ (overtaken' \/ \A n \in Nonces : claims[n].pc \in {"none", "ended"})
      BY <1>1, <2>1
    <2> QED
      BY <1>1, <2>1, <2>2, EffectStep
  <1>5. ASSUME NEW a \in Signers, Profile!connectWallet(a)
        PROVE  ProfileInv'
    <2>1. Profile!Effect(a) /\ account = NoSigner /\ overtaken' = overtaken
      BY <1>5 DEF Profile!connectWallet
    <2>2. overtaken' \/ \A n \in Nonces : claims[n].pc \in {"none", "ended"}
      BY <1>2, <2>1
    <2> QED
      BY <1>1, <2>1, <2>2, EffectStep
  <1> QED
    BY <1>3, <1>4, <1>5

(* A read that is answered, comes back or fails: only one the effect that    *)
(* asked still listens to reaches the header.                                *)
LEMMA ReadsKeepProfiles ==
    ASSUME ProfileInv, NEW r \in Reads,
           Profile!get_profile(r) \/ Profile!fetchWalletProfile(r) \/ Profile!ReadFails(r)
    PROVE  ProfileInv'
  <1>1. /\ UNCHANGED <<profiles, claims, requests, account, claimed, overtaken>>
        /\ reads[r].pc # "none"
    BY DEF Profile!get_profile, Profile!fetchWalletProfile, Profile!ReadFails
  <1>2. /\ reads[r] \in HandleRead /\ reads \in [Reads -> HandleRead \cup {Profile!NoRead}]
        /\ Profile!NoRead.pc = "none"
    BY <1>1, ProfileRecords DEF ProfileInv, ProfileTypes
  <1>3. reads[r].wallet \in Signers /\ reads[r].answer \in Handles \cup {NoHandle}
    BY <1>2, ProfileRecords DEF ProfileInv
  <1>4. ASSUME reads' \in [Reads -> HandleRead \cup {Profile!NoRead}],
               handle' \in Handles \cup {NoHandle}, ReadsAreOfTheirWallet', HeaderIsTrue'
        PROVE  ProfileInv'
    <2>1. ProfileTypes'
      BY <1>1, <1>4 DEF ProfileInv, ProfileTypes
    <2>2. RequestsAreSigned' /\ HandlesAreUnique' /\ ClaimsAreOfTheirWallet'
      BY <1>1 DEF ProfileInv, RequestsAreSigned, HandlesAreUnique, ClaimsAreOfTheirWallet
    <2> QED
      BY <1>4, <2>1, <2>2 DEF ProfileInv
  <1>5. CASE Profile!get_profile(r)
    <2> DEFINE answer == profiles[reads[r].wallet]
               new == [reads[r] EXCEPT !.pc = "answered", !.answer = answer]
    <2>1. handle' = handle /\ reads' = [reads EXCEPT ![r] = new]
      BY <1>2, <1>5 DEF Profile!get_profile
    <2>2. answer \in Handles \cup {NoHandle}
      BY <1>3 DEF ProfileInv, ProfileTypes
    <2>3. answer # NoHandle => <<reads[r].wallet, answer>> \in claimed
      BY <1>3 DEF ProfileInv, HandlesAreUnique
    <2> HIDE DEF answer
    <2>4. /\ new \in HandleRead /\ new.answer = answer
          /\ new.wallet = reads[r].wallet /\ new.active = reads[r].active
      <3>1. \A x \in HandleRead :
               LET y == [x EXCEPT !.pc = "answered", !.answer = answer] IN
               /\ y \in HandleRead /\ y.answer = answer
               /\ y.wallet = x.wallet /\ y.active = x.active
        BY <2>2 DEF HandleRead
      <3> QED
        BY <1>2, <3>1
    <2> HIDE DEF new
    <2>5. /\ reads' \in [Reads -> HandleRead \cup {Profile!NoRead}]
          /\ reads'[r] = new /\ \A x \in Reads \ {r} : reads'[x] = reads[x]
      BY <1>2, <2>1, <2>4
    <2>6. ReadsAreOfTheirWallet'
      <3>1. ASSUME NEW x \in Reads
            PROVE  /\ reads'[x].pc # "none" /\ reads'[x].active => reads'[x].wallet = account
                   /\ reads'[x].pc = "answered" /\ reads'[x].answer # NoHandle
                         => <<reads'[x].wallet, reads'[x].answer>> \in claimed
        <4>1. CASE x = r
          BY <1>1, <2>3, <2>4, <2>5, <4>1 DEF ProfileInv, ReadsAreOfTheirWallet
        <4>2. CASE x # r
          BY <2>5, <4>2 DEF ProfileInv, ReadsAreOfTheirWallet
        <4> QED
          BY <4>1, <4>2
      <3> QED
        BY <1>1, <3>1 DEF ReadsAreOfTheirWallet
    <2>7. HeaderIsTrue' /\ handle' \in Handles \cup {NoHandle}
      BY <1>1, <2>1 DEF ProfileInv, HeaderIsTrue, ProfileTypes
    <2> QED
      BY <1>4, <2>5, <2>6, <2>7
  <1>6. CASE Profile!fetchWalletProfile(r) \/ Profile!ReadFails(r)
    <2>1. /\ reads' = [reads EXCEPT ![r] = Profile!NoRead]
          /\ \/ handle' = handle
             \/ reads[r].pc = "answered" /\ reads[r].active /\ handle' = reads[r].answer
      BY <1>6 DEF Profile!fetchWalletProfile, Profile!ReadFails, Profile!Active
    <2>2. /\ reads' \in [Reads -> HandleRead \cup {Profile!NoRead}]
          /\ reads'[r] = Profile!NoRead /\ \A x \in Reads \ {r} : reads'[x] = reads[x]
      BY <1>2, <2>1
    <2>3. ReadsAreOfTheirWallet'
      <3>1. ASSUME NEW x \in Reads
            PROVE  /\ reads'[x].pc # "none" /\ reads'[x].active => reads'[x].wallet = account
                   /\ reads'[x].pc = "answered" /\ reads'[x].answer # NoHandle
                         => <<reads'[x].wallet, reads'[x].answer>> \in claimed
        <4>1. CASE x = r
          BY <1>2, <2>2, <4>1
        <4>2. CASE x # r
          BY <2>2, <4>2 DEF ProfileInv, ReadsAreOfTheirWallet
        <4> QED
          BY <4>1, <4>2
      <3> QED
        BY <1>1, <3>1 DEF ReadsAreOfTheirWallet
    <2>4. HeaderIsTrue' /\ handle' \in Handles \cup {NoHandle}
      <3>1. CASE handle' = handle
        BY <1>1, <3>1 DEF ProfileInv, HeaderIsTrue, ProfileTypes
      <3>2. CASE reads[r].pc = "answered" /\ reads[r].active /\ handle' = reads[r].answer
        <4>1. reads[r].wallet = account
          BY <1>1, <3>2 DEF ProfileInv, ReadsAreOfTheirWallet
        <4>2. handle' # NoHandle => <<account, handle'>> \in claimed
          BY <3>2, <4>1 DEF ProfileInv, ReadsAreOfTheirWallet
        <4> QED
          BY <1>1, <1>3, <3>2, <4>2 DEF HeaderIsTrue
      <3> QED
        BY <2>1, <3>1, <3>2
    <2> QED
      BY <1>4, <2>2, <2>3, <2>4
  <1> QED
    BY <1>5, <1>6

(* What the steps of a claim leave of the invariant to show: the claims that *)
(* change stay of their wallet, and what is newly claimed is on record.      *)
LEMMA ClaimsKeepProfiles ==
    ASSUME ProfileInv, UNCHANGED <<account, reads, overtaken>>,
           claims' \in [Nonces -> HandleClaim \cup {Profile!NoClaim}],
           requests' \in SUBSET HandleRequest, RequestsAreSigned',
           profiles' \in [Signers -> Handles \cup {NoHandle}], HandlesAreUnique',
           claimed' \in SUBSET (Signers \X Handles), claimed \subseteq claimed',
           ClaimsAreOfTheirWallet',
           handle' \in Handles \cup {NoHandle},
           \/ handle' = handle
           \/ overtaken \/ <<account, handle'>> \in claimed
    PROVE  ProfileInv'
  <1>1. ProfileTypes'
    BY DEF ProfileInv, ProfileTypes
  <1>2. ReadsAreOfTheirWallet'
    BY DEF ProfileInv, ReadsAreOfTheirWallet
  <1>3. HeaderIsTrue'
    BY DEF ProfileInv, HeaderIsTrue
  <1> QED
    BY <1>1, <1>2, <1>3 DEF ProfileInv

(* A claim that moves on stays the claim of its wallet, and a request stays  *)
(* one of a signed claim.                                                    *)
LEMMA ClaimMoved ==
    ASSUME ProfileInv, UNCHANGED <<account, overtaken>>, claimed \subseteq claimed',
           NEW n \in Nonces, NEW c \in HandleClaim, claims' = [claims EXCEPT ![n] = c],
           claims[n].pc # "none" => c.wallet = claims[n].wallet,
           claims[n].pc = "none" => c.wallet = account,
           claims[n].pc = "ended" => c.pc = "ended",
           c.pc = "claimed" => <<c.wallet, c.handle>> \in claimed',
           c.pc = "sign" => claims[n].pc \in {"none", "sign"},
           \A q \in requests' : /\ q \in HandleRequest
                                /\ claims'[q.nonce].pc \in {"none", "sign"} =>
                                      \E old \in requests : old.nonce = q.nonce
    PROVE  /\ claims' \in [Nonces -> HandleClaim \cup {Profile!NoClaim}]
           /\ requests' \in SUBSET HandleRequest
           /\ ClaimsAreOfTheirWallet' /\ RequestsAreSigned'
  <1>1. /\ claims \in [Nonces -> HandleClaim \cup {Profile!NoClaim}]
        /\ ClaimsAreOfTheirWallet /\ RequestsAreSigned
    BY DEF ProfileInv, ProfileTypes
  <1>2. /\ claims' \in [Nonces -> HandleClaim \cup {Profile!NoClaim}]
        /\ claims'[n] = c /\ \A m \in Nonces \ {n} : claims'[m] = claims[m]
    BY <1>1
  <1>3. c.pc # "none"
    BY DEF HandleClaim
  <1>4. ASSUME NEW m \in Nonces
        PROVE  /\ claims'[m].pc = "claimed" => <<claims'[m].wallet, claims'[m].handle>> \in claimed'
               /\ overtaken \/ claims'[m].pc \in {"none", "ended"} \/ claims'[m].wallet = account
    <2>1. CASE m = n
      BY <1>1, <1>2, <2>1 DEF ClaimsAreOfTheirWallet
    <2>2. CASE m # n
      BY <1>1, <1>2, <2>2 DEF ClaimsAreOfTheirWallet
    <2> QED
      BY <2>1, <2>2
  <1>5. ClaimsAreOfTheirWallet'
    BY <1>4 DEF ClaimsAreOfTheirWallet
  <1>6. ASSUME NEW q \in requests', claims'[q.nonce].pc \in {"none", "sign"}
        PROVE  FALSE
    <2>1. PICK old \in requests : old.nonce = q.nonce
      BY <1>6
    <2>2. claims[q.nonce].pc \notin {"none", "sign"} /\ q.nonce \in Nonces
      BY <1>1, <2>1 DEF RequestsAreSigned, HandleRequest
    <2> QED
      BY <1>2, <1>3, <1>6, <2>2
  <1>7. RequestsAreSigned'
    BY <1>6 DEF RequestsAreSigned
  <1> QED
    BY <1>2, <1>5, <1>7

(* The steps a wallet takes with its claim.                                  *)
LEMMA SignersKeepProfiles ==
    ASSUME ProfileInv, NEW n \in Nonces,
           \/ \E h \in Handles : Profile!create_challenge(n, h)
           \/ Profile!Signed(n)
           \/ Profile!Declined(n)
           \/ Profile!Repeated(n)
           \/ Profile!HandleSaved(n)
           \/ Profile!SaveRefused(n)
    PROVE  ProfileInv'
  <1>1. /\ profiles' = profiles /\ claimed' = claimed /\ reads' = reads
        /\ account' = account /\ overtaken' = overtaken
    BY DEF Profile!create_challenge, Profile!Signed, Profile!Declined, Profile!Repeated,
           Profile!HandleSaved, Profile!SaveRefused
  <1>2. /\ profiles' \in [Signers -> Handles \cup {NoHandle}] /\ HandlesAreUnique'
        /\ claimed' \in SUBSET (Signers \X Handles)
        /\ handle \in Handles \cup {NoHandle} /\ requests \in SUBSET HandleRequest
        /\ claims \in [Nonces -> HandleClaim \cup {Profile!NoClaim}]
        /\ claims[n].pc # "none" => claims[n] \in HandleClaim
        /\ Profile!NoClaim.pc = "none"
    BY <1>1, ProfileRecords DEF ProfileInv, ProfileTypes, HandlesAreUnique
  <1>3. ASSUME NEW pc \in {"claim", "ended"}, claims[n].pc # "none",
               claims[n].pc = "ended" => pc = "ended",
               claims' = [claims EXCEPT ![n].pc = pc],
               \A q \in requests' : q \in requests \/ q = [nonce |-> n, stage |-> "received"],
               handle' = handle \/ (claims[n].pc = "claimed" /\ handle' = claims[n].handle)
        PROVE  ProfileInv'
    <2> DEFINE c == [claims[n] EXCEPT !.pc = pc]
    <2>1. /\ c \in HandleClaim /\ c.wallet = claims[n].wallet /\ c.pc = pc
          /\ c.handle = claims[n].handle
      <3>1. \A d \in HandleClaim : LET e == [d EXCEPT !.pc = pc] IN
               e \in HandleClaim /\ e.wallet = d.wallet /\ e.pc = pc /\ e.handle = d.handle
        BY DEF HandleClaim
      <3> QED
        BY <1>2, <1>3, <3>1
    <2>2. claims' = [claims EXCEPT ![n] = c]
      BY <1>3
    <2> HIDE DEF c
    <2>3. claims'[n] = c
      BY <1>2, <2>2
    <2>4. [nonce |-> n, stage |-> "received"] \in HandleRequest
      BY DEF HandleRequest
    <2>5. ASSUME NEW q \in requests'
          PROVE  /\ q \in HandleRequest
                 /\ claims'[q.nonce].pc \in {"none", "sign"} =>
                       \E old \in requests : old.nonce = q.nonce
      <3>1. CASE q \in requests
        BY <1>2, <3>1
      <3>2. CASE q = [nonce |-> n, stage |-> "received"]
        BY <2>1, <2>3, <2>4, <3>2
      <3> QED
        BY <1>3, <3>1, <3>2
    <2>6. /\ claims' \in [Nonces -> HandleClaim \cup {Profile!NoClaim}]
          /\ requests' \in SUBSET HandleRequest
          /\ ClaimsAreOfTheirWallet' /\ RequestsAreSigned'
      BY <1>1, <1>3, <2>1, <2>2, <2>5, ClaimMoved
    <2>7. /\ handle' \in Handles \cup {NoHandle}
          /\ handle' = handle \/ overtaken \/ <<account, handle'>> \in claimed
      <3>1. CASE handle' = handle
        BY <1>2, <3>1
      <3>2. CASE claims[n].pc = "claimed" /\ handle' = claims[n].handle
        <4>1. claims[n].handle \in Handles
          BY <1>2, <3>2 DEF HandleClaim
        <4>2. <<claims[n].wallet, claims[n].handle>> \in claimed
              /\ (overtaken \/ claims[n].wallet = account)
          BY <3>2 DEF ProfileInv, ClaimsAreOfTheirWallet
        <4> QED
          BY <3>2, <4>1, <4>2
      <3> QED
        BY <1>3, <3>1, <3>2
    <2> QED
      BY <1>1, <1>2, <2>6, <2>7, ClaimsKeepProfiles
  <1>4. ASSUME NEW h \in Handles, Profile!create_challenge(n, h)
        PROVE  ProfileInv'
    <2> DEFINE c == [pc |-> "sign", open |-> TRUE, wallet |-> account, handle |-> h]
    <2>1. /\ account \in Signers /\ claims[n] = Profile!NoClaim /\ requests' = requests
          /\ handle' = handle /\ claims' = [claims EXCEPT ![n] = c]
      BY <1>4 DEF Profile!create_challenge, ProfileInv, ProfileTypes
    <2>2. c \in HandleClaim /\ c.pc = "sign" /\ c.wallet = account
      BY <2>1 DEF HandleClaim
    <2> HIDE DEF c
    <2>3. claims[n].pc = "none"
      BY <1>2, <2>1
    <2>4. \A q \in requests' : q \in HandleRequest /\ q \in requests
      BY <1>2, <2>1
    <2>5. /\ claims' \in [Nonces -> HandleClaim \cup {Profile!NoClaim}]
          /\ requests' \in SUBSET HandleRequest
          /\ ClaimsAreOfTheirWallet' /\ RequestsAreSigned'
      BY <1>1, <2>1, <2>2, <2>3, <2>4, ClaimMoved
    <2> QED
      BY <1>1, <1>2, <2>1, <2>5, ClaimsKeepProfiles
  <1>5. CASE Profile!Signed(n)
    <2>1. /\ claims[n].pc = "sign" /\ claims' = [claims EXCEPT ![n].pc = "claim"]
          /\ requests' = requests \cup {[nonce |-> n, stage |-> "received"]}
          /\ handle' = handle
      BY <1>5 DEF Profile!Signed
    <2>2. \A q \in requests' : q \in requests \/ q = [nonce |-> n, stage |-> "received"]
      BY <2>1
    <2> QED
      BY <1>3, <2>1, <2>2
  <1>6. CASE Profile!Declined(n) \/ Profile!SaveRefused(n)
    <2>1. /\ claims[n].pc # "none" /\ claims' = [claims EXCEPT ![n].pc = "ended"]
          /\ requests' = requests /\ handle' = handle
      BY <1>6 DEF Profile!Declined, Profile!SaveRefused
    <2> QED
      BY <1>3, <2>1
  <1>7. CASE Profile!HandleSaved(n)
    <2>1. /\ claims[n].pc = "claimed" /\ claims' = [claims EXCEPT ![n].pc = "ended"]
          /\ requests' = requests /\ handle' = claims[n].handle
      BY <1>7 DEF Profile!HandleSaved
    <2> QED
      BY <1>3, <2>1
  <1>8. CASE Profile!Repeated(n)
    <2>1. /\ claims[n].pc \in {"claim", "claimed", "refused", "ended"}
          /\ claims' = claims /\ handle' = handle
          /\ requests' = requests \cup {[nonce |-> n, stage |-> "received"]}
      BY <1>8 DEF Profile!Repeated
    <2>2. [nonce |-> n, stage |-> "received"] \in HandleRequest
      BY DEF HandleRequest
    <2>3. requests' \in SUBSET HandleRequest /\ RequestsAreSigned'
      BY <1>2, <2>1, <2>2 DEF ProfileInv, RequestsAreSigned
    <2>4. ClaimsAreOfTheirWallet'
      BY <1>1, <2>1 DEF ProfileInv, ClaimsAreOfTheirWallet
    <2> QED
      BY <1>1, <1>2, <2>1, <2>3, <2>4, ClaimsKeepProfiles
  <1> QED
    BY <1>4, <1>5, <1>6, <1>7, <1>8

(* The backend's answer ends a request, and a claim that waits for it.       *)
LEMMA AnswerMovesClaim ==
    ASSUME ProfileInv, NEW q \in requests, NEW answer \in {"refused", "claimed"},
           NEW open \in BOOLEAN, Profile!Answered(q, answer, open),
           UNCHANGED <<account, overtaken>>, claimed \subseteq claimed',
           answer = "claimed" =>
              <<claims[q.nonce].wallet, claims[q.nonce].handle>> \in claimed'
    PROVE  /\ claims' \in [Nonces -> HandleClaim \cup {Profile!NoClaim}]
           /\ requests' \in SUBSET HandleRequest
           /\ ClaimsAreOfTheirWallet' /\ RequestsAreSigned'
  <1> DEFINE n == q.nonce
             pc == IF claims[n].pc = "claim" THEN answer ELSE claims[n].pc
             c == [claims[n] EXCEPT !.open = open, !.pc = pc]
  <1>1. /\ n \in Nonces /\ claims[n].pc \notin {"none", "sign"} /\ claims[n] \in HandleClaim
        /\ claims \in [Nonces -> HandleClaim \cup {Profile!NoClaim}]
        /\ requests \in SUBSET HandleRequest
    BY ProfileRecords DEF ProfileInv, RequestsAreSigned, ProfileTypes
  <1>2. claims[n].pc \in {"claim", "claimed", "refused", "ended"}
    <2>1. \A d \in HandleClaim : d.pc \in {"sign", "claim", "claimed", "refused", "ended"}
      BY DEF HandleClaim
    <2> QED
      BY <1>1, <2>1
  <1>3. /\ pc \in {"claim", "claimed", "refused", "ended"}
        /\ claims[n].pc = "ended" => pc = "ended"
        /\ pc = "claimed" => answer = "claimed" \/ claims[n].pc = "claimed"
    BY <1>2
  <1>4. /\ requests' = requests \ {q}
        /\ claims' = [claims EXCEPT ![n].open = open,
                                    ![n].pc = IF @ = "claim" THEN answer ELSE @]
    BY DEF Profile!Answered
  <1>5. claims' = [claims EXCEPT ![n] = c]
    <2> DEFINE mid == [claims EXCEPT ![n].open = open]
               half == [claims[n] EXCEPT !.open = open]
    <2>1. mid = [claims EXCEPT ![n] = half] /\ mid[n] = half
      BY <1>1
    <2>2. half.pc = claims[n].pc
      <3>1. \A d \in HandleClaim : [d EXCEPT !.open = open].pc = d.pc
        BY DEF HandleClaim
      <3> QED
        BY <1>1, <3>1
    <2>3. c = [half EXCEPT !.pc = pc]
      BY <1>1
    <2>4. claims' = [mid EXCEPT ![n].pc = pc]
      BY <1>4, <2>1, <2>2
    <2> HIDE DEF half, c, pc
    <2> QED
      BY <1>1, <2>1, <2>3, <2>4
  <1>6. /\ c \in HandleClaim /\ c.pc = pc /\ c.wallet = claims[n].wallet
        /\ c.handle = claims[n].handle
    <2> HIDE DEF pc
    <2>1. \A d \in HandleClaim :
             LET e == [d EXCEPT !.open = open, !.pc = pc] IN
             /\ e \in HandleClaim /\ e.pc = pc /\ e.wallet = d.wallet /\ e.handle = d.handle
      BY <1>3 DEF HandleClaim
    <2> QED
      BY <1>1, <2>1
  <1> HIDE DEF c, pc
  <1>7. c.pc = "claimed" => <<c.wallet, c.handle>> \in claimed'
    BY <1>1, <1>3, <1>6 DEF ProfileInv, ClaimsAreOfTheirWallet
  <1>8. \A x \in requests' : x \in HandleRequest /\ x \in requests
    BY <1>1, <1>4
  <1> QED
    BY <1>1, <1>3, <1>5, <1>6, <1>7, <1>8, ClaimMoved

(* The backend's steps of a request: whatever other requests do between the  *)
(* look-up and the write, a handle is not given to two wallets.              *)
LEMMA RequestsKeepProfiles ==
    ASSUME ProfileInv, NEW q \in requests,
           \/ Profile!get_profile_challenge(q)
           \/ Profile!HandleLookedUp(q)
           \/ Profile!claim_wallet_profile(q)
    PROVE  ProfileInv'
  <1> DEFINE n == q.nonce
             c == claims[n]
  <1>1. /\ n \in Nonces /\ c.pc \notin {"none", "sign"} /\ c \in HandleClaim
        /\ c.wallet \in Signers /\ c.handle \in Handles /\ c.open \in BOOLEAN
        /\ claims \in [Nonces -> HandleClaim \cup {Profile!NoClaim}]
        /\ requests \in SUBSET HandleRequest
        /\ profiles \in [Signers -> Handles \cup {NoHandle}]
        /\ handle \in Handles \cup {NoHandle} /\ claimed \in SUBSET (Signers \X Handles)
    BY ProfileRecords DEF ProfileInv, RequestsAreSigned, ProfileTypes, HandleClaim
  <1>2. /\ account' = account /\ reads' = reads /\ overtaken' = overtaken /\ handle' = handle
    BY DEF Profile!get_profile_challenge, Profile!HandleLookedUp, Profile!claim_wallet_profile
  <1>3. ASSUME NEW stage \in {"checked", "free"}, Profile!Goes(q, stage),
               UNCHANGED <<claims, profiles, claimed>>
        PROVE  ProfileInv'
    <2> DEFINE new == [q EXCEPT !.stage = stage]
    <2>1. new \in HandleRequest /\ new.nonce = n
      <3>1. \A r \in HandleRequest : /\ [r EXCEPT !.stage = stage] \in HandleRequest
                                     /\ [r EXCEPT !.stage = stage].nonce = r.nonce
        BY DEF HandleRequest
      <3> QED
        BY <1>1, <3>1
    <2>2. requests' = (requests \ {q}) \cup {new}
      BY <1>3 DEF Profile!Goes
    <2> HIDE DEF new
    <2>3. requests' \in SUBSET HandleRequest /\ RequestsAreSigned'
      BY <1>1, <1>3, <2>1, <2>2 DEF ProfileInv, RequestsAreSigned
    <2>4. HandlesAreUnique' /\ ClaimsAreOfTheirWallet'
      BY <1>2, <1>3 DEF ProfileInv, HandlesAreUnique, ClaimsAreOfTheirWallet
    <2> QED
      BY <1>1, <1>2, <1>3, <2>3, <2>4, ClaimsKeepProfiles
  <1>4. ASSUME NEW open \in BOOLEAN, Profile!Answered(q, "refused", open),
               UNCHANGED <<profiles, claimed>>
        PROVE  ProfileInv'
    <2>1. HandlesAreUnique'
      BY <1>4 DEF ProfileInv, HandlesAreUnique
    <2>2. /\ claims' \in [Nonces -> HandleClaim \cup {Profile!NoClaim}]
          /\ requests' \in SUBSET HandleRequest
          /\ ClaimsAreOfTheirWallet' /\ RequestsAreSigned'
      BY <1>2, <1>4, AnswerMovesClaim
    <2> QED
      BY <1>1, <1>2, <1>4, <2>1, <2>2, ClaimsKeepProfiles
  <1>5. CASE Profile!get_profile_challenge(q)
    <2>1. UNCHANGED <<profiles, claimed>>
          /\ \/ Profile!Goes(q, "checked") /\ claims' = claims
             \/ Profile!Answered(q, "refused", FALSE)
      BY <1>5 DEF Profile!get_profile_challenge
    <2> QED
      BY <1>3, <1>4, <2>1
  <1>6. CASE Profile!HandleLookedUp(q)
    <2>1. UNCHANGED <<profiles, claimed>>
          /\ \/ Profile!Goes(q, "free") /\ claims' = claims
             \/ Profile!Answered(q, "refused", c.open)
      BY <1>6 DEF Profile!HandleLookedUp
    <2> QED
      BY <1>1, <1>3, <1>4, <2>1
  <1>7. CASE Profile!claim_wallet_profile(q)
    <2>1. CASE Profile!Conflict(q)
      <3>1. Profile!Answered(q, "refused", c.open) /\ UNCHANGED <<profiles, claimed>>
        BY <1>7, <2>1 DEF Profile!claim_wallet_profile
      <3> QED
        BY <1>1, <1>4, <3>1
    <2>2. CASE ~Profile!Conflict(q)
      <3>1. /\ profiles' = [profiles EXCEPT ![c.wallet] = c.handle]
            /\ claimed' = claimed \cup {<<c.wallet, c.handle>>}
            /\ Profile!Answered(q, "claimed", FALSE)
        BY <1>7, <2>2 DEF Profile!claim_wallet_profile
      <3>2. \A w \in Signers \ {c.wallet} : profiles[w] # c.handle
        BY <2>2 DEF Profile!Conflict, Profile!TakenByAnother
      <3> HIDE DEF c
      <3>3. /\ profiles' \in [Signers -> Handles \cup {NoHandle}]
            /\ profiles'[c.wallet] = c.handle
            /\ \A w \in Signers \ {c.wallet} : profiles'[w] = profiles[w]
            /\ claimed' \in SUBSET (Signers \X Handles) /\ claimed \subseteq claimed'
            /\ <<c.wallet, c.handle>> \in claimed'
        BY <1>1, <3>1
      <3>4. HandlesAreUnique'
        BY <1>1, <3>2, <3>3 DEF ProfileInv, HandlesAreUnique
      <3>5. /\ claims' \in [Nonces -> HandleClaim \cup {Profile!NoClaim}]
            /\ requests' \in SUBSET HandleRequest
            /\ ClaimsAreOfTheirWallet' /\ RequestsAreSigned'
        BY <1>2, <3>1, <3>3, AnswerMovesClaim DEF c
      <3> QED
        BY <1>1, <1>2, <3>3, <3>4, <3>5, ClaimsKeepProfiles
    <2> QED
      BY <2>1, <2>2
  <1> QED
    BY <1>5, <1>6, <1>7

(* Before anything is asked.                                                 *)
LEMMA ProfilesStart ==
    ASSUME Profile!Init
    PROVE  ProfileInv
  <1>1. /\ profiles = [w \in Signers |-> NoHandle] /\ claims = [n \in Nonces |-> Profile!NoClaim]
        /\ requests = {} /\ account = NoSigner /\ handle = NoHandle
        /\ reads = [r \in Reads |-> Profile!NoRead] /\ claimed = {} /\ overtaken = FALSE
    BY DEF Profile!Init
  <1>2. Profile!NoClaim.pc = "none" /\ Profile!NoRead.pc = "none"
    BY DEF Profile!NoClaim, Profile!NoRead
  <1>3. overtaken \in BOOLEAN
    BY <1>1
  <1>4. ProfileTypes
    BY <1>1, <1>3 DEF ProfileTypes
  <1>5. RequestsAreSigned /\ HandlesAreUnique
    BY <1>1 DEF RequestsAreSigned, HandlesAreUnique
  <1>6. ReadsAreOfTheirWallet /\ ClaimsAreOfTheirWallet
    BY <1>1, <1>2 DEF ReadsAreOfTheirWallet, ClaimsAreOfTheirWallet
  <1>7. HeaderIsTrue
    BY <1>1 DEF HeaderIsTrue
  <1> QED
    BY <1>4, <1>5, <1>6, <1>7 DEF ProfileInv

(* A step of another part leaves this one as it is.                          *)
LEMMA ProfilesRest ==
    ASSUME ProfileInv, UNCHANGED profileVars
    PROVE  ProfileInv'
  <1>1. UNCHANGED <<profiles, claims, requests, account, handle, reads, claimed, overtaken>>
    BY DEF profileVars
  <1> QED
    BY <1>1 DEF ProfileInv, ProfileTypes, RequestsAreSigned, HandlesAreUnique,
                ReadsAreOfTheirWallet, ClaimsAreOfTheirWallet, HeaderIsTrue

(* No two wallets have the same handle, and the header shows the connected   *)
(* wallet a handle it has claimed unless an older call was overtaken.        *)
THEOREM HandlesTrue == WebSpec => []HandlesAreTrue
  <1> DEFINE Inv == part = "profiles" => ProfileInv
  <1>1. WebInit => Inv
    BY ProfilesStart DEF WebInit
  <1>2. Inv /\ [WebNext]_webVars => Inv'
    <2> SUFFICES ASSUME ProfileInv, part = "profiles", [WebNext]_webVars
                 PROVE  ProfileInv'
      BY DEF WebNext, webVars
    <2>1. Profile!Next \/ UNCHANGED profileVars
      BY DEF WebNext, webVars
    <2>2. CASE UNCHANGED profileVars
      BY <2>2, ProfilesRest
    <2>3. CASE Profile!Next
      BY <2>3, InstanceIsProvable, ConnectionsKeepProfiles, ReadsKeepProfiles,
         SignersKeepProfiles, RequestsKeepProfiles DEF Profile!Next
    <2> QED
      BY <2>1, <2>2, <2>3
  <1>3. Inv => HandlesAreTrue
    BY DEF HandlesAreTrue, Profile!HandlesAreTrue, ProfileInv, HandlesAreUnique, HeaderIsTrue
  <1> QED
    BY <1>1, <1>2, <1>3, PTL DEF WebSpec

------------------------------------------------------------------------------
(* LaunchFunding.                                                            *)

FundingCard ==
    [planned : Nat, fundAmount : Nat, target : [nth : Nat, balance : Nat], byAgent : BOOLEAN,
     targets : Nat, timer : BOOLEAN, preview : [amount : Nat, nth : Nat], funding : BOOLEAN]
AskedPreview == [pc : {"asked"}, active : BOOLEAN, amount : Nat, nth : Nat]
FundingCall ==
    [pc : {"approve", "deposit", "done", "failed"}, amount : Nat,
     previewed : [amount : Nat, nth : Nat], nth : Nat, mounted : BOOLEAN]

FundingTypes ==
    /\ purse \in Nat /\ allowance \in Nat /\ deposited \in Nat /\ funded \in Nat
    /\ card \in FundingCard
    /\ quotes \in [Quotes -> AskedPreview \cup {Funding!NoQuote}]
    /\ funding \in Seq(FundingCall)

\* What a card shows, and what it still listens to, is of its amount and target.
PreviewsAreOfTheForm(c) ==
    /\ c.preview # Funding!NoPreview =>
          c.preview.amount = Funding!amountRaw(c) /\ c.preview.nth = c.target.nth
    /\ \A q \in Quotes : quotes[q].active =>
          quotes[q].amount = Funding!amountRaw(c) /\ quotes[q].nth = c.target.nth

CallsAreAsPreviewed ==
    \A d \in DOMAIN funding :
        /\ funding[d].amount = funding[d].previewed.amount
        /\ funding[d].nth = funding[d].previewed.nth

\* What the deposits that are not done were started for.
Undone(calls) == [d \in DOMAIN calls |-> IF calls[d].pc = "done" THEN 0 ELSE calls[d].amount]
Outstanding(calls) == SumFunctionOnSet(Undone(calls), DOMAIN calls)

FundingInv ==
    /\ FundingTypes
    /\ PreviewsAreOfTheForm(card)
    /\ CallsAreAsPreviewed
    /\ deposited + Outstanding(funding) <= funded
    /\ deposited + allowance <= funded

(* The calls of a card.                                                      *)
LEMMA FundingCalls ==
    ASSUME NEW f, f \in Seq(FundingCall)
    PROVE  /\ DOMAIN f = 1..Len(f) /\ Len(f) \in Nat /\ IsFiniteSet(DOMAIN f)
           /\ \A d \in DOMAIN f : f[d] \in FundingCall /\ f[d].amount \in Nat
           /\ \A d \in DOMAIN f : Undone(f)[d] \in Nat
           /\ Outstanding(f) \in Nat
  <1>1. DOMAIN f = 1..Len(f) /\ Len(f) \in Nat
    OBVIOUS
  <1>2. IsFiniteSet(DOMAIN f)
    BY <1>1, FS_Interval
  <1>3. \A d \in DOMAIN f : f[d] \in FundingCall
    OBVIOUS
  <1>4. \A d \in DOMAIN f : f[d].amount \in Nat
    BY <1>3 DEF FundingCall
  <1>5. \A d \in DOMAIN f : Undone(f)[d] \in Nat
    BY <1>4 DEF Undone
  <1>6. Outstanding(f) \in Nat
    BY <1>2, <1>5, SumNat DEF Outstanding
  <1> QED
    BY <1>1, <1>2, <1>3, <1>4, <1>5, <1>6

\* Naturals of which one changes: the sum changes as it does, and is no less.
LEMMA OneOfNaturals ==
    ASSUME NEW f, NEW g, NEW S, IsFiniteSet(S), NEW x \in S,
           \A y \in S : f[y] \in Nat /\ g[y] \in Nat,
           \A y \in S \ {x} : f[y] = g[y]
    PROVE  /\ SumFunctionOnSet(g, S) = SumFunctionOnSet(f, S) - f[x] + g[x]
           /\ f[x] <= SumFunctionOnSet(f, S)
  <1>1. \A y \in S : f[y] \in Int /\ g[y] \in Int
    OBVIOUS
  <1>2. SumFunctionOnSet(g, S) = SumFunctionOnSet(f, S) - f[x] + g[x]
    BY <1>1, SumChange
  <1>3. IsFiniteSet(S \ {x}) /\ \A y \in S \ {x} : f[y] \in Nat
    BY FS_RemoveElement
  <1>4. SumFunctionOnSet(f, S \ {x}) \in Nat
    BY <1>3, SumNat
  <1>5. SumFunctionOnSet(f, S) = f[x] + SumFunctionOnSet(f, S \ {x})
    <2>1. \A y \in S : f[y] \in Int
      BY <1>1
    <2> QED
      BY <2>1, SumRemove
  <1> QED
    BY <1>2, <1>4, <1>5

\* What a call with this progress and amount adds to what is outstanding.
Due(pc, amount) == IF pc = "done" THEN 0 ELSE amount

\* The calls with call d at another step.
MovesOn(f, g, d, pc) == g = [f EXCEPT ![d].pc = pc]

(* A call that moves on without being done changes no sum; a call that is    *)
(* done takes its amount out of what is outstanding.                         *)
LEMMA FundingCallMoves ==
    ASSUME NEW f, f \in Seq(FundingCall), NEW d \in DOMAIN f, f[d].pc # "done",
           NEW pc \in {"deposit", "done", "failed"}, NEW g, MovesOn(f, g, d, pc)
    PROVE  /\ g \in Seq(FundingCall) /\ DOMAIN g = DOMAIN f
           /\ \A e \in DOMAIN f : /\ g[e].amount = f[e].amount /\ g[e].nth = f[e].nth
                                  /\ g[e].previewed = f[e].previewed
           /\ Outstanding(g) = Outstanding(f) - f[d].amount + Due(pc, f[d].amount)
           /\ f[d].amount <= Outstanding(f)
  <1> DEFINE c == [f[d] EXCEPT !.pc = pc]
  <1>1. DOMAIN f = 1..Len(f) /\ IsFiniteSet(DOMAIN f) /\ f[d] \in FundingCall
    BY FundingCalls
  <1>2. /\ c \in FundingCall /\ c.pc = pc /\ c.amount = f[d].amount /\ c.nth = f[d].nth
        /\ c.previewed = f[d].previewed
    <2>1. \A x \in FundingCall :
             LET y == [x EXCEPT !.pc = pc] IN
             /\ y \in FundingCall /\ y.pc = pc /\ y.amount = x.amount /\ y.nth = x.nth
             /\ y.previewed = x.previewed
      BY DEF FundingCall
    <2> QED
      BY <1>1, <2>1
  <1>3. g = [f EXCEPT ![d] = c]
    BY DEF MovesOn
  <1> HIDE DEF c
  <1>4. /\ g \in Seq(FundingCall) /\ DOMAIN g = DOMAIN f /\ g[d] = c
        /\ \A e \in DOMAIN f \ {d} : g[e] = f[e]
    BY <1>2, <1>3
  <1>5. \A e \in DOMAIN f : /\ g[e].amount = f[e].amount /\ g[e].nth = f[e].nth
                            /\ g[e].previewed = f[e].previewed
    BY <1>2, <1>4
  <1> DEFINE uf == Undone(f)
             ug == Undone(g)
             S == DOMAIN f
  <1>6. \A e \in S : uf[e] \in Nat /\ ug[e] \in Nat
    <2>1. \A e \in DOMAIN f : Undone(f)[e] \in Nat
      BY FundingCalls, Zenon
    <2>2. \A e \in DOMAIN g : Undone(g)[e] \in Nat
      BY <1>4, FundingCalls, Zenon
    <2> QED
      BY <1>4, <2>1, <2>2, Zenon
  <1>7. \A e \in S \ {d} : uf[e] = ug[e]
    BY <1>4 DEF Undone
  <1>8. uf[d] = f[d].amount
    BY DEF Undone
  <1>9. ug[d] = Due(pc, f[d].amount)
    BY <1>2, <1>4 DEF Undone, Due
  <1>10. Outstanding(f) = SumFunctionOnSet(uf, S) /\ Outstanding(g) = SumFunctionOnSet(ug, S)
    BY <1>4 DEF Outstanding
  <1>11. IsFiniteSet(S) /\ d \in S
    BY <1>1
  <1> HIDE DEF uf, ug, S
  <1>12. /\ SumFunctionOnSet(ug, S) = SumFunctionOnSet(uf, S) - uf[d] + ug[d]
         /\ uf[d] <= SumFunctionOnSet(uf, S)
    BY ONLY <1>6, <1>7, <1>11, OneOfNaturals
  <1>13. Outstanding(g) = Outstanding(f) - f[d].amount + Due(pc, f[d].amount)
    BY <1>8, <1>9, <1>10, <1>12, Zenon
  <1>14. f[d].amount <= Outstanding(f)
    BY <1>8, <1>10, <1>12, Zenon
  <1> QED
    BY <1>4, <1>5, <1>13, <1>14, Zenon

\* No preview has nothing to cancel.
LEMMA NothingToCancel ==
    /\ [Funding!NoQuote EXCEPT !.active = FALSE] = Funding!NoQuote
    /\ ~Funding!NoQuote.active
  <1> DEFINE Nones == [pc : {"none"}, active : {FALSE}]
  <1>1. Funding!NoQuote \in Nones
    BY DEF Funding!NoQuote
  <1>2. \A r \in Nones : [r EXCEPT !.active = FALSE] \in Nones
    OBVIOUS
  <1>3. \A r, t \in Nones : r = t
    <2>1. \A r \in Nones : r = [pc |-> r.pc, active |-> r.active]
      OBVIOUS
    <2>2. \A r \in Nones : r.pc = "none" /\ r.active = FALSE
      OBVIOUS
    <2> HIDE DEF Nones
    <2> QED
      BY <2>1, <2>2, Zenon
  <1>4. \A r \in Nones : ~r.active
    OBVIOUS
  <1> HIDE DEF Nones
  <1> QED
    BY <1>1, <1>2, <1>3, <1>4, Zenon

(* Nothing is listened to once all that was asked is cancelled.              *)
LEMMA NothingIsAwaited ==
    ASSUME FundingInv, quotes' = [q \in Quotes |-> [quotes[q] EXCEPT !.active = FALSE]]
    PROVE  /\ quotes' \in [Quotes -> AskedPreview \cup {Funding!NoQuote}]
           /\ \A q \in Quotes : ~quotes'[q].active
  <1>1. \A x \in AskedPreview : /\ [x EXCEPT !.active = FALSE] \in AskedPreview
                                /\ ~[x EXCEPT !.active = FALSE].active
    BY DEF AskedPreview
  <1>2. \A q \in Quotes : quotes[q] \in AskedPreview \cup {Funding!NoQuote}
    BY DEF FundingInv, FundingTypes
  <1>3. \A q \in Quotes : /\ [quotes[q] EXCEPT !.active = FALSE]
                                \in AskedPreview \cup {Funding!NoQuote}
                          /\ ~[quotes[q] EXCEPT !.active = FALSE].active
    BY <1>1, <1>2, NothingToCancel
  <1> QED
    BY <1>3

(* A changed form shows nothing and listens to nothing.                      *)
LEMMA FormChanged ==
    ASSUME FundingInv, NEW c \in FundingCard, Funding!Changed(c),
           UNCHANGED <<purse, allowance, deposited, funding, funded>>
    PROVE  FundingInv'
  <1> DEFINE timer == Funding!amountRaw(c) # Funding!NoAmount
  <1>1. /\ card' = [c EXCEPT !.preview = Funding!NoPreview, !.timer = timer]
        /\ quotes' = [q \in Quotes |-> [quotes[q] EXCEPT !.active = FALSE]]
    BY DEF Funding!Changed
  <1>2. Funding!NoPreview \in [amount : Nat, nth : Nat] /\ timer \in BOOLEAN
    BY DEF Funding!NoPreview, Funding!NoAmount
  <1> HIDE DEF timer
  <1>3. card' \in FundingCard /\ card'.preview = Funding!NoPreview
    <2>1. \A x \in FundingCard :
             LET y == [x EXCEPT !.preview = Funding!NoPreview, !.timer = timer] IN
             y \in FundingCard /\ y.preview = Funding!NoPreview
      BY <1>2 DEF FundingCard
    <2> QED
      BY <1>1, <2>1
  <1>4. /\ quotes' \in [Quotes -> AskedPreview \cup {Funding!NoQuote}]
        /\ \A q \in Quotes : ~quotes'[q].active
    BY <1>1, NothingIsAwaited
  <1>5. PreviewsAreOfTheForm(card)'
    BY <1>3, <1>4 DEF PreviewsAreOfTheForm
  <1>6. FundingTypes' /\ CallsAreAsPreviewed'
    BY <1>3, <1>4 DEF FundingInv, FundingTypes, CallsAreAsPreviewed
  <1> QED
    BY <1>5, <1>6 DEF FundingInv

(* Another reading of the vault, a reading lost, an edit of the amount.      *)
LEMMA FormSteps ==
    ASSUME Funding!FundingAssumption, FundingInv,
           \/ Funding!loadVaultFundingTarget \/ Funding!AgentShown \/ Funding!AgentLost
           \/ \E amount \in Deposits : Funding!EditAmount(amount)
    PROVE  FundingInv'
  <1>1. card \in FundingCard /\ purse \in Nat
    BY DEF FundingInv, FundingTypes
  <1> DEFINE next == Funding!NextTarget
  <1>2. next \in [nth : Nat, balance : Nat] /\ Funding!NoTarget \in [nth : Nat, balance : Nat]
    <2>1. card.targets + 1 \in Nat
      BY <1>1 DEF FundingCard
    <2> QED
      BY <1>1, <2>1 DEF Funding!NextTarget, Funding!NoTarget
  <1> DEFINE nth == card.targets + 1
  <1>a. nth \in Nat
    BY <1>1 DEF FundingCard
  <1> HIDE DEF next, nth
  <1>3. CASE Funding!loadVaultFundingTarget
    <2> DEFINE c == [card EXCEPT !.target = next, !.targets = nth]
    <2>1. c \in FundingCard
      BY <1>1, <1>2, <1>a DEF FundingCard
    <2>2. /\ Funding!Changed(c)
          /\ UNCHANGED <<purse, allowance, deposited, funding, funded>>
      BY <1>3 DEF Funding!loadVaultFundingTarget, Funding!wallet, next, nth
    <2> HIDE DEF c
    <2> QED
      BY <2>1, <2>2, FormChanged
  <1>4. CASE Funding!AgentShown
    <2> DEFINE c == [card EXCEPT !.target = next, !.targets = nth, !.byAgent = TRUE]
    <2>1. c \in FundingCard
      BY <1>1, <1>2, <1>a DEF FundingCard
    <2>2. /\ Funding!Changed(c)
          /\ UNCHANGED <<purse, allowance, deposited, funding, funded>>
      BY <1>4 DEF Funding!AgentShown, Funding!wallet, next, nth
    <2> HIDE DEF c
    <2> QED
      BY <2>1, <2>2, FormChanged
  <1>5. CASE Funding!AgentLost
    <2> DEFINE c == [card EXCEPT !.target = Funding!NoTarget, !.byAgent = FALSE]
    <2>1. c \in FundingCard
      BY <1>1, <1>2 DEF FundingCard
    <2>2. /\ Funding!Changed(c)
          /\ UNCHANGED <<purse, allowance, deposited, funding, funded>>
      BY <1>5 DEF Funding!AgentLost, Funding!wallet
    <2> HIDE DEF c
    <2> QED
      BY <2>1, <2>2, FormChanged
  <1>6. ASSUME NEW amount \in Deposits, Funding!EditAmount(amount)
        PROVE  FundingInv'
    <2> DEFINE c == [card EXCEPT !.fundAmount = amount]
    <2>0. amount \in Nat
      BY DEF Funding!FundingAssumption
    <2>1. /\ c \in FundingCard /\ c.target = card.target /\ c.preview = card.preview
      BY <1>1, <2>0 DEF FundingCard
    <2>2. UNCHANGED <<purse, allowance, deposited, funding, funded>>
      BY <1>6 DEF Funding!EditAmount, Funding!wallet
    <2>3. CASE card.target # Funding!NoTarget
      <3>1. Funding!Changed(c)
        BY <1>6, <2>3 DEF Funding!EditAmount
      <3> HIDE DEF c
      <3> QED
        BY <2>1, <2>2, <3>1, FormChanged
    <2>4. CASE card.target = Funding!NoTarget
      <3>1. card' = c /\ quotes' = quotes
        BY <1>6, <2>4 DEF Funding!EditAmount
      <3> HIDE DEF c
      <3>2. Funding!amountRaw(c) = Funding!amountRaw(card)
        BY <2>1, <2>4 DEF Funding!amountRaw
      <3>3. PreviewsAreOfTheForm(card)'
        BY <2>1, <3>1, <3>2 DEF FundingInv, PreviewsAreOfTheForm
      <3> QED
        BY <2>1, <2>2, <3>1, <3>3 DEF FundingInv, FundingTypes, CallsAreAsPreviewed
    <2> QED
      BY <2>3, <2>4
  <1> QED
    BY <1>3, <1>4, <1>5, <1>6

(* The page leaves its card: the calls go on.                                *)
LEMMA DepartsStep ==
    ASSUME FundingInv, Funding!Departs
    PROVE  FundingInv'
  <1>1. card \in FundingCard
    BY DEF FundingInv, FundingTypes
  <1>2. /\ card' = Funding!NewCard(card.planned, card.targets)
        /\ quotes' = [q \in Quotes |-> [quotes[q] EXCEPT !.active = FALSE]]
        /\ funding' = [d \in DOMAIN funding |-> [funding[d] EXCEPT !.mounted = FALSE]]
        /\ UNCHANGED <<purse, allowance, deposited, funded>>
    BY DEF Funding!Departs, Funding!wallet
  <1>3. card' \in FundingCard /\ card'.preview = Funding!NoPreview
    BY <1>1, <1>2 DEF FundingCard, Funding!NewCard, Funding!NoTarget, Funding!NoPreview,
                      Funding!NoAmount
  <1>4. /\ quotes' \in [Quotes -> AskedPreview \cup {Funding!NoQuote}]
        /\ \A q \in Quotes : ~quotes'[q].active
    BY <1>2, NothingIsAwaited
  <1>5. PreviewsAreOfTheForm(card)'
    BY <1>3, <1>4 DEF PreviewsAreOfTheForm
  <1>6. /\ DOMAIN funding = 1..Len(funding) /\ Len(funding) \in Nat
        /\ \A d \in DOMAIN funding : funding[d] \in FundingCall
        /\ IsFiniteSet(DOMAIN funding)
    BY FundingCalls DEF FundingInv, FundingTypes
  <1>7. \A x \in FundingCall :
           LET y == [x EXCEPT !.mounted = FALSE] IN
           /\ y \in FundingCall /\ y.pc = x.pc /\ y.amount = x.amount
           /\ y.previewed = x.previewed /\ y.nth = x.nth
    BY DEF FundingCall
  <1>8. /\ DOMAIN funding' = DOMAIN funding
        /\ \A d \in DOMAIN funding :
              /\ funding'[d] \in FundingCall /\ funding'[d].pc = funding[d].pc
              /\ funding'[d].amount = funding[d].amount
              /\ funding'[d].previewed = funding[d].previewed
              /\ funding'[d].nth = funding[d].nth
    BY <1>2, <1>6, <1>7
  <1>9. funding' \in Seq(FundingCall)
    <2>1. funding' = [d \in 1..Len(funding) |-> funding'[d]]
      BY <1>2, <1>6
    <2> QED
      BY <1>6, <1>8, <2>1, SeqDef
  <1>10. Outstanding(funding)' = Outstanding(funding)
    <2>1. \A d \in DOMAIN funding : Undone(funding)[d] = Undone(funding)'[d]
      BY <1>8 DEF Undone
    <2> DEFINE f == Undone(funding)
               g == Undone(funding')
               S == DOMAIN funding
    <2>2. Outstanding(funding) = SumFunctionOnSet(f, S) /\ Outstanding(funding') = SumFunctionOnSet(g, S)
      BY <1>8 DEF Outstanding
    <2> HIDE DEF f, g, S
    <2>3. SumFunctionOnSet(f, S) = SumFunctionOnSet(g, S)
      BY <1>6, <2>1, SumSame DEF f, g, S
    <2> QED
      BY <2>2, <2>3
  <1>11. CallsAreAsPreviewed'
    BY <1>8 DEF FundingInv, CallsAreAsPreviewed
  <1>12. FundingTypes'
    BY <1>2, <1>3, <1>4, <1>9 DEF FundingInv, FundingTypes
  <1> QED
    BY <1>2, <1>5, <1>10, <1>11, <1>12 DEF FundingInv

(* Previews: asked with the form as it stands, shown while it still does.    *)
LEMMA PreviewSteps ==
    ASSUME FundingInv, NEW q \in Quotes,
           \/ Funding!previewVaultDeposit(q) \/ Funding!PreviewShown(q) \/ Funding!PreviewFails(q)
    PROVE  FundingInv'
  <1>1. /\ card \in FundingCard
        /\ quotes \in [Quotes -> AskedPreview \cup {Funding!NoQuote}]
    BY DEF FundingInv, FundingTypes
  <1>2. /\ UNCHANGED <<purse, allowance, deposited, funding, funded>>
    BY DEF Funding!previewVaultDeposit, Funding!PreviewShown, Funding!PreviewFails, Funding!wallet
  <1>3. CallsAreAsPreviewed' /\ deposited' + Outstanding(funding') <= funded'
        /\ deposited' + allowance' <= funded'
    BY <1>2 DEF FundingInv, CallsAreAsPreviewed
  <1>4. SUFFICES /\ card' \in FundingCard
                 /\ quotes' \in [Quotes -> AskedPreview \cup {Funding!NoQuote}]
                 /\ PreviewsAreOfTheForm(card)'
    BY <1>2, <1>3 DEF FundingInv, FundingTypes
  <1>5. ASSUME NEW x, quotes' = [quotes EXCEPT ![q] = x],
               x \in AskedPreview \cup {Funding!NoQuote},
               card' \in FundingCard, card'.target = card.target,
               card'.fundAmount = card.fundAmount, card'.preview = card.preview,
               x.active => /\ x.amount = Funding!amountRaw(card)
                           /\ x.nth = card.target.nth
        PROVE  /\ quotes' \in [Quotes -> AskedPreview \cup {Funding!NoQuote}]
               /\ PreviewsAreOfTheForm(card)'
    <2>1. quotes' \in [Quotes -> AskedPreview \cup {Funding!NoQuote}]
      BY <1>1, <1>5
    <2>2. Funding!amountRaw(card)' = Funding!amountRaw(card)
      BY <1>5 DEF Funding!amountRaw
    <2>3. /\ quotes'[q] = x
          /\ \A p \in Quotes : p # q => quotes'[p] = quotes[p]
      BY <1>1, <1>5
    <2>4. \A p \in Quotes : quotes'[p].active =>
             quotes'[p].amount = Funding!amountRaw(card)' /\ quotes'[p].nth = card'.target.nth
      BY <1>5, <2>2, <2>3 DEF FundingInv, PreviewsAreOfTheForm
    <2>5. card'.preview # Funding!NoPreview =>
             /\ card'.preview.amount = Funding!amountRaw(card)'
             /\ card'.preview.nth = card'.target.nth
      BY <1>5, <2>2 DEF FundingInv, PreviewsAreOfTheForm
    <2> QED
      BY <2>1, <2>4, <2>5 DEF PreviewsAreOfTheForm
  <1>6. CASE Funding!previewVaultDeposit(q)
    <2> DEFINE x == [pc |-> "asked", active |-> TRUE, amount |-> Funding!amountRaw(card),
                     nth |-> card.target.nth]
               c == [card EXCEPT !.timer = FALSE]
    <2>1. quotes' = [quotes EXCEPT ![q] = x] /\ card' = c
      BY <1>6 DEF Funding!previewVaultDeposit
    <2>2. Funding!amountRaw(card) \in Nat /\ card.target.nth \in Nat
      BY <1>1 DEF FundingCard, Funding!amountRaw, Funding!NoAmount
    <2>3. x \in AskedPreview /\ x.amount = Funding!amountRaw(card) /\ x.nth = card.target.nth
      BY <2>2 DEF AskedPreview
    <2>4. /\ c \in FundingCard /\ c.target = card.target /\ c.fundAmount = card.fundAmount
          /\ c.preview = card.preview
      BY <1>1 DEF FundingCard
    <2> HIDE DEF x, c
    <2> QED
      BY <1>5, <2>1, <2>3, <2>4
  <1>7. CASE Funding!PreviewFails(q)
    <2>1. quotes' = [quotes EXCEPT ![q] = Funding!NoQuote] /\ card' = card
      BY <1>7 DEF Funding!PreviewFails
    <2> QED
      BY <1>1, <1>5, <2>1, NothingToCancel
  <1>8. CASE Funding!PreviewShown(q) /\ ~quotes[q].active
    <2>1. quotes' = [quotes EXCEPT ![q] = Funding!NoQuote] /\ card' = card
      BY <1>8 DEF Funding!PreviewShown
    <2> QED
      BY <1>1, <1>5, <2>1, NothingToCancel
  <1>9. CASE Funding!PreviewShown(q) /\ quotes[q].active
    <2> DEFINE shown == [amount |-> quotes[q].amount, nth |-> quotes[q].nth]
               c == [card EXCEPT !.preview = shown]
    <2>1. quotes' = [quotes EXCEPT ![q] = Funding!NoQuote] /\ card' = c
      BY <1>9 DEF Funding!PreviewShown
    <2>2. /\ quotes[q].amount = Funding!amountRaw(card)
          /\ quotes[q].nth = card.target.nth
      BY <1>9 DEF FundingInv, PreviewsAreOfTheForm
    <2>3. Funding!amountRaw(card) \in Nat /\ card.target.nth \in Nat
      BY <1>1 DEF FundingCard, Funding!amountRaw, Funding!NoAmount
    <2>4. /\ shown \in [amount : Nat, nth : Nat] /\ shown.amount = Funding!amountRaw(card)
          /\ shown.nth = card.target.nth
      BY <2>2, <2>3
    <2> HIDE DEF shown
    <2>5. /\ c \in FundingCard /\ c.target = card.target /\ c.fundAmount = card.fundAmount
          /\ c.preview = shown
      BY <1>1, <2>4 DEF FundingCard
    <2> HIDE DEF c
    <2>6. Funding!amountRaw(card)' = Funding!amountRaw(card)
      BY <2>1, <2>5 DEF Funding!amountRaw
    <2>7. /\ quotes' \in [Quotes -> AskedPreview \cup {Funding!NoQuote}]
          /\ quotes'[q] = Funding!NoQuote
          /\ \A p \in Quotes : p # q => quotes'[p] = quotes[p]
      BY <1>1, <2>1
    <2>8. \A p \in Quotes : quotes'[p].active =>
             quotes'[p].amount = Funding!amountRaw(card)' /\ quotes'[p].nth = card'.target.nth
      BY <2>1, <2>5, <2>6, <2>7, NothingToCancel DEF FundingInv, PreviewsAreOfTheForm
    <2> QED
      BY <2>1, <2>4, <2>5, <2>6, <2>7, <2>8 DEF PreviewsAreOfTheForm
  <1> QED
    BY <1>6, <1>7, <1>8, <1>9

(* The button hides behind its own call: the form is not touched.            *)
LEMMA FormKept ==
    ASSUME FundingInv, NEW b \in BOOLEAN,
           card' = [card EXCEPT !.funding = b] \/ card' = card, quotes' = quotes
    PROVE  card' \in FundingCard /\ PreviewsAreOfTheForm(card)'
  <1>1. card \in FundingCard
    BY DEF FundingInv, FundingTypes
  <1>2. /\ card' \in FundingCard /\ card'.target = card.target
        /\ card'.fundAmount = card.fundAmount /\ card'.preview = card.preview
    <2>1. \A x \in FundingCard :
             LET y == [x EXCEPT !.funding = b] IN
             /\ y \in FundingCard /\ y.target = x.target
             /\ y.fundAmount = x.fundAmount /\ y.preview = x.preview
      BY DEF FundingCard
    <2> QED
      BY <1>1, <2>1
  <1>3. Funding!amountRaw(card)' = Funding!amountRaw(card)
    BY <1>2 DEF Funding!amountRaw
  <1> QED
    BY <1>2, <1>3 DEF FundingInv, PreviewsAreOfTheForm

(* A deposit is started with what its preview was of.                        *)
LEMMA FundStep ==
    ASSUME FundingInv, Funding!fundVault
    PROVE  FundingInv'
  <1> DEFINE amount == Funding!amountRaw(card)
             x == [pc |-> "approve", amount |-> amount, previewed |-> card.preview,
                   nth |-> card.target.nth, mounted |-> TRUE]
             n == Len(funding)
  <1>1. /\ card \in FundingCard /\ funding \in Seq(FundingCall) /\ funded \in Nat
        /\ deposited \in Nat /\ allowance \in Nat /\ purse \in Nat
        /\ deposited + Outstanding(funding) <= funded
        /\ deposited + allowance <= funded
    BY DEF FundingInv, FundingTypes
  <1>2. /\ card.preview # Funding!NoPreview
        /\ card' = [card EXCEPT !.funding = TRUE]
        /\ funding' = Append(funding, x)
        /\ funded' = funded + amount
        /\ UNCHANGED <<purse, allowance, deposited, quotes>>
    BY DEF Funding!fundVault, Funding!wallet
  <1>3. card' \in FundingCard /\ PreviewsAreOfTheForm(card)'
    BY <1>2, FormKept
  <1>4. amount \in Nat /\ card.target.nth \in Nat /\ card.preview \in [amount : Nat, nth : Nat]
    BY <1>1 DEF FundingCard, Funding!amountRaw, Funding!NoAmount
  <1>5. amount = card.preview.amount /\ card.target.nth = card.preview.nth
    BY <1>2 DEF FundingInv, PreviewsAreOfTheForm
  <1> HIDE DEF amount
  <1>6. /\ x \in FundingCall /\ x.pc = "approve" /\ x.amount = amount
        /\ x.previewed = card.preview /\ x.nth = card.target.nth
    BY <1>4 DEF FundingCall
  <1> HIDE DEF x
  <1>7. /\ funding' \in Seq(FundingCall) /\ n \in Nat
        /\ DOMAIN funding = 1..n /\ DOMAIN funding' = 1..n + 1 /\ funding'[n + 1] = x
        /\ \A d \in 1..n : funding'[d] = funding[d]
    BY <1>1, <1>2, <1>6
  <1>8. CallsAreAsPreviewed'
    <2>1. \A d \in 1..n + 1 : d = n + 1 \/ d \in 1..n
      BY <1>7
    <2> QED
      BY <1>5, <1>6, <1>7, <2>1 DEF FundingInv, CallsAreAsPreviewed
  <1>9. Outstanding(funding') = amount + Outstanding(funding)
    <2> DEFINE f == Undone(funding)
               g == Undone(funding')
               S == 1..n
    <2>1. IsFiniteSet(S) /\ n + 1 \notin S /\ DOMAIN funding' = S \cup {n + 1}
      <3>1. n + 1 \notin S /\ DOMAIN funding' = S \cup {n + 1}
        BY <1>7
      <3>2. IsFiniteSet(DOMAIN funding)
        BY <1>1, FundingCalls
      <3> QED
        BY <1>7, <3>1, <3>2
    <2>2. \A d \in S : f[d] = g[d]
      BY <1>7 DEF Undone
    <2>3. g[n + 1] = amount
      BY <1>6, <1>7 DEF Undone
    <2>4. \A d \in DOMAIN funding' : g[d] \in Nat
      BY <1>7, FundingCalls, Zenon
    <2>5. \A d \in S \cup {n + 1} : g[d] \in Int
      BY <2>1, <2>4
    <2>6. /\ Outstanding(funding) = SumFunctionOnSet(f, S)
          /\ Outstanding(funding') = SumFunctionOnSet(g, S \cup {n + 1})
      BY <1>7, <2>1 DEF Outstanding
    <2> HIDE DEF f, g, S
    <2>7. SumFunctionOnSet(g, S \cup {n + 1}) = g[n + 1] + SumFunctionOnSet(g, S)
      BY ONLY <2>1, <2>5, SumAdd
    <2>8. SumFunctionOnSet(f, S) = SumFunctionOnSet(g, S)
      BY ONLY <2>1, <2>2, SumSame
    <2> QED
      BY <2>3, <2>6, <2>7, <2>8, Zenon
  <1>10. Outstanding(funding) \in Nat
    BY <1>1, FundingCalls
  <1>11. /\ funded' \in Nat /\ deposited' + Outstanding(funding') <= funded'
         /\ deposited' + allowance' <= funded'
    BY <1>1, <1>2, <1>4, <1>9, <1>10
  <1>12. FundingTypes'
    BY <1>2, <1>3, <1>7, <1>11 DEF FundingInv, FundingTypes
  <1> QED
    BY <1>3, <1>8, <1>11, <1>12 DEF FundingInv

(* An approval, a deposit, a refusal: a call moves on, and what the vault    *)
(* took and may take stays within what was asked for.                        *)
LEMMA CallSteps ==
    ASSUME FundingInv, NEW d \in DOMAIN funding,
           \/ Funding!Approved(d) \/ Funding!depositToVault(d) \/ Funding!Refused(d)
    PROVE  FundingInv'
  <1> DEFINE amount == funding[d].amount
             out == Outstanding(funding)
  <1>1. /\ card \in FundingCard /\ funding \in Seq(FundingCall) /\ funded \in Nat
        /\ deposited \in Nat /\ allowance \in Nat /\ purse \in Nat
        /\ deposited + out <= funded
        /\ deposited + allowance <= funded
    BY DEF FundingInv, FundingTypes
  <1>2. /\ quotes' = quotes /\ funded' = funded /\ funding[d].pc # "done"
    BY DEF Funding!Approved, Funding!depositToVault, Funding!Refused
  <1>3. amount \in Nat /\ out \in Nat
    BY <1>1, FundingCalls
  <1>4. /\ card' \in FundingCard /\ PreviewsAreOfTheForm(card)'
    <2>1. card' = [card EXCEPT !.funding = FALSE] \/ card' = card
      BY DEF Funding!Approved, Funding!depositToVault, Funding!Refused, Funding!Returns
    <2> QED
      BY <1>2, <2>1, FormKept
  <1>5. ASSUME NEW pc \in {"deposit", "done", "failed"}, funding' = [funding EXCEPT ![d].pc = pc],
               purse' \in Nat, allowance' \in Nat, deposited' \in Nat,
               deposited' + (out - amount + Due(pc, amount)) <= funded,
               deposited' + allowance' <= funded
        PROVE  FundingInv'
    <2>1. /\ funding' \in Seq(FundingCall) /\ DOMAIN funding' = DOMAIN funding
          /\ \A e \in DOMAIN funding :
                /\ funding'[e].amount = funding[e].amount /\ funding'[e].nth = funding[e].nth
                /\ funding'[e].previewed = funding[e].previewed
          /\ Outstanding(funding') = out - amount + Due(pc, amount)
      <3>1. /\ funding \in Seq(FundingCall) /\ d \in DOMAIN funding /\ funding[d].pc # "done"
            /\ pc \in {"deposit", "done", "failed"} /\ MovesOn(funding, funding', d, pc)
        BY <1>1, <1>2, <1>5 DEF MovesOn
      <3>2. /\ funding' \in Seq(FundingCall) /\ DOMAIN funding' = DOMAIN funding
            /\ \A e \in DOMAIN funding :
                  /\ funding'[e].amount = funding[e].amount /\ funding'[e].nth = funding[e].nth
                  /\ funding'[e].previewed = funding[e].previewed
        BY ONLY <3>1, FundingCallMoves
      <3>3. Outstanding(funding') = out - amount + Due(pc, amount)
        BY ONLY <3>1, FundingCallMoves
      <3> QED
        BY <3>2, <3>3
    <2>2. CallsAreAsPreviewed'
      BY <2>1 DEF FundingInv, CallsAreAsPreviewed
    <2>3. FundingTypes'
      BY <1>2, <1>4, <1>5, <2>1 DEF FundingInv, FundingTypes
    <2> QED
      BY <1>2, <1>4, <1>5, <2>1, <2>2, <2>3 DEF FundingInv
  <1>6. amount <= out
    <2> DEFINE g == [funding EXCEPT ![d].pc = "done"]
    <2>1. MovesOn(funding, g, d, "done")
      BY DEF MovesOn
    <2> HIDE DEF g
    <2> QED
      BY <1>1, <1>2, <2>1, FundingCallMoves
  <1>7. Due("done", amount) = 0 /\ Due("deposit", amount) = amount /\ Due("failed", amount) = amount
    BY DEF Due
  <1> HIDE DEF amount, out
  <1>8. CASE Funding!Approved(d)
    <2>1. /\ allowance' = amount /\ funding' = [funding EXCEPT ![d].pc = "deposit"]
          /\ purse' = purse /\ deposited' = deposited
      BY <1>8 DEF Funding!Approved, amount
    <2>2. /\ deposited + (out - amount + Due("deposit", amount)) <= funded
          /\ deposited + amount <= funded
      BY <1>1, <1>3, <1>6, <1>7
    <2> QED
      BY <1>1, <1>3, <1>5, <2>1, <2>2
  <1>9. CASE Funding!depositToVault(d) /\ amount <= purse /\ amount <= allowance
    <2>1. /\ purse' = purse - amount /\ allowance' = allowance - amount
          /\ deposited' = deposited + amount /\ funding' = [funding EXCEPT ![d].pc = "done"]
      BY <1>9 DEF Funding!depositToVault, Funding!Returns, amount
    <2>2. /\ purse' \in Nat /\ allowance' \in Nat /\ deposited' \in Nat
          /\ deposited' + (out - amount + Due("done", amount)) <= funded
          /\ deposited' + allowance' <= funded
      BY <1>1, <1>3, <1>6, <1>7, <1>9, <2>1
    <2> QED
      BY <1>5, <2>1, <2>2
  <1>10. CASE \/ Funding!depositToVault(d) /\ ~(amount <= purse /\ amount <= allowance)
              \/ Funding!Refused(d)
    <2>1. /\ UNCHANGED <<purse, allowance, deposited>>
          /\ funding' = [funding EXCEPT ![d].pc = "failed"]
      BY <1>10 DEF Funding!depositToVault, Funding!Refused, Funding!Returns, Funding!wallet, amount
    <2>2. deposited + (out - amount + Due("failed", amount)) <= funded
      BY <1>1, <1>3, <1>7
    <2> QED
      BY <1>1, <1>5, <2>1, <2>2
  <1> QED
    BY <1>8, <1>9, <1>10

(* The wallet pays for something else.                                       *)
LEMMA PaysStep ==
    ASSUME FundingInv, Funding!Pays
    PROVE  FundingInv'
  <1>1. /\ purse \in Nat /\ purse > 0 /\ purse' = purse - 1
        /\ UNCHANGED <<allowance, deposited, card, quotes, funding, funded>>
    BY DEF Funding!Pays, FundingInv, FundingTypes
  <1>2. purse' \in Nat
    BY <1>1
  <1> QED
    BY <1>1, <1>2 DEF FundingInv, FundingTypes, PreviewsAreOfTheForm, CallsAreAsPreviewed,
                      Funding!amountRaw

(* At first nothing is shown, asked or deposited.                            *)
LEMMA FundingStart ==
    ASSUME Funding!FundingAssumption, Funding!Init
    PROVE  FundingInv
  <1>1. /\ purse = Purse /\ allowance = 0 /\ deposited = 0 /\ funded = 0 /\ funding = << >>
        /\ quotes = [q \in Quotes |-> Funding!NoQuote]
    BY DEF Funding!Init
  <1>2. PICK amount \in Deposits : card = Funding!NewCard(amount, 0)
    BY DEF Funding!Init
  <1>3. card \in FundingCard /\ card.preview = Funding!NoPreview
    BY <1>2 DEF FundingCard, Funding!NewCard, Funding!NoTarget, Funding!NoPreview,
                Funding!NoAmount, Funding!FundingAssumption
  <1>4. /\ funding \in Seq(FundingCall) /\ DOMAIN funding = {}
    BY <1>1
  <1>5. Outstanding(funding) = 0
    BY <1>4, SumEmpty DEF Outstanding
  <1>6. purse \in Nat /\ FundingTypes
    BY <1>1, <1>3, <1>4 DEF FundingTypes, Funding!FundingAssumption
  <1> QED
    BY <1>1, <1>3, <1>4, <1>5, <1>6, NothingToCancel
    DEF FundingInv, PreviewsAreOfTheForm, CallsAreAsPreviewed

(* A step of another part leaves the card where it is.                       *)
LEMMA FundingRest ==
    ASSUME FundingInv, UNCHANGED Funding!vars
    PROVE  FundingInv'
  BY DEF FundingInv, FundingTypes, PreviewsAreOfTheForm, CallsAreAsPreviewed,
         Funding!vars, Funding!wallet, Funding!amountRaw
\* A wallet is asked to deposit what the card showed the shares of, and never
\* gives more than it was asked for: the preview shown is one of the amount and
\* the vault of the card, and what is deposited or not yet refused adds up to no
\* more than what was started.
THEOREM DepositsAsPreviewed == WebSpec => []DepositsAreAsPreviewed
  <1> DEFINE Inv == part = "funding" => FundingInv
  <1>1. WebInit => Inv
    BY InstanceIsProvable, FundingStart DEF WebInit
  <1>2. Inv /\ [WebNext]_webVars => Inv'
    <2> SUFFICES ASSUME FundingInv, part = "funding", [WebNext]_webVars
                 PROVE  FundingInv'
      BY DEF WebNext, webVars
    <2>1. Funding!Next \/ UNCHANGED Funding!vars
      BY DEF WebNext, webVars, fundingVars, Funding!vars, Funding!wallet
    <2>2. CASE UNCHANGED Funding!vars
      BY <2>2, FundingRest
    <2>3. CASE Funding!Next
      BY <2>3, InstanceIsProvable, FormSteps, DepartsStep, PreviewSteps, FundStep, CallSteps,
         PaysStep DEF Funding!Next
    <2> QED
      BY <2>1, <2>2, <2>3
  <1>3. Inv => DepositsAreAsPreviewed
    BY DEF DepositsAreAsPreviewed, Funding!DepositsAreAsPreviewed, FundingInv, CallsAreAsPreviewed
  <1> QED
    BY <1>1, <1>2, <1>3, PTL DEF WebSpec

------------------------------------------------------------------------------
(* Reinvestment.                                                             *)

BuyTask ==
    [position : Positions, kind : {"quote", "buy", "check"},
     pc : {"quoting", "checking", "wallet", "sent", "receipt", "reconcile"},
     weth : Nat, since : Int, tx : Nat, fresh : BOOLEAN, mounted : BOOLEAN]
Purchase ==
    [position : Positions, weth : Nat, deadline : Int,
     status : {"pending", "success", "reverted"}, here : BOOLEAN]
BuyForm ==
    [position : Positions \cup {Reinvest!NoPosition}, amount : Nat,
     quote : [weth : Nat, deadline : Int], accepted : BOOLEAN, working : BOOLEAN,
     submitted : Nat]

\* A transaction is named by its place among the purchases.
Known(txs) == 0..Len(txs)

PurchaseTypes ==
    /\ clock \in Nat
    /\ rewards \in [Positions -> Nat] /\ shownRewards \in [Positions -> Nat]
    /\ boundKeys \in Nat /\ shownKeys \in Nat
    /\ purchases \in Seq(Purchase) /\ Len(purchases) <= MaxPurchases
    /\ guard \in Known(purchases) \cup {Reinvest!Preparing}
    /\ kept \in [Positions -> Known(purchases)]
    /\ crossed \in BOOLEAN

\* A quote has its pc, and what was sent has its transaction.
TasksMatch(ts, txs) ==
    \A c \in BuyTasks :
        /\ ts[c].pc = "quoting" <=> ts[c].pc # "none" /\ ts[c].kind = "quote"
        /\ ts[c].pc \in {"sent", "receipt", "reconcile"} => ts[c].tx \in DOMAIN txs

\* The calls that may send a purchase or wait for one.
Buying(ts) == {c \in BuyTasks : ts[c].pc \in {"checking", "wallet", "sent", "receipt"}}
PendingHere(txs) == {x \in DOMAIN txs : txs[x].here /\ txs[x].status = "pending"}

\* The guard knows of the one call or purchase that is open.
GuardKnows(g, ts, txs) ==
    /\ \A c, b \in Buying(ts) : c = b
    /\ \A x, y \in PendingHere(txs) : x = y
    /\ g = Reinvest!NoTx => Buying(ts) = {} /\ PendingHere(txs) = {}
    /\ g \in DOMAIN txs => PendingHere(txs) \subseteq {g}
    /\ \A c \in Buying(ts) :
          /\ ts[c].pc \in {"checking", "wallet"} =>
                g = Reinvest!Preparing /\ PendingHere(txs) = {}
          /\ ts[c].pc = "sent" =>
                g = Reinvest!Preparing /\ PendingHere(txs) \subseteq {ts[c].tx}
          /\ ts[c].pc = "receipt" =>
                g = ts[c].tx /\ PendingHere(txs) \subseteq {ts[c].tx}

\* The calls whose form is still there.
Heard(ts) == {c \in BuyTasks : ts[c].pc # "none" /\ ts[c].mounted}

\* One call at most will tell the form how it ended, and the form waits for it.
FormWaits(f, ts) ==
    /\ \A c, b \in Heard(ts) : c = b
    /\ Heard(ts) # {} => f.working
    /\ \A c \in BuyTasks : ts[c].pc = "quoting" => ts[c].mounted /\ f.position \in Positions

\* What a quote in the form, or one that will be shown there, is for.
IsFor(weth, f, rs, ks) ==
    /\ f.position \in Positions
    /\ weth = f.amount
    /\ f.amount <= rs[f.position]
    /\ ks >= 1

QuotesFit(f, ts, rs, ks) ==
    /\ f.quote # Reinvest!NoQuote => IsFor(f.quote.weth, f, rs, ks)
    /\ \A c \in BuyTasks : ts[c].pc = "quoting" /\ ts[c].fresh => IsFor(ts[c].weth, f, rs, ks)

\* The part of the invariant about the calls and the form.
CallsInOrder(f, ts, txs, rs, ks) ==
    /\ f \in BuyForm /\ f.submitted \in Known(txs)
    /\ ts \in [BuyTasks -> BuyTask \cup {Reinvest!NoTask}]
    /\ TasksMatch(ts, txs)
    /\ FormWaits(f, ts)
    /\ QuotesFit(f, ts, rs, ks)

PurchaseInv ==
    /\ PurchaseTypes
    /\ CallsInOrder(form, tasks, purchases, shownRewards, shownKeys)
    /\ crossed \/ GuardKnows(guard, tasks, purchases)

\* A call that runs is none of those that do not.
LEMMA NoTaskIsNone == Reinvest!NoTask.pc = "none" /\ \A t \in BuyTask : t.pc # "none"
  BY DEF Reinvest!NoTask, BuyTask

\* A place holds a call or nothing.
LEMMA TaskPlaces ==
    ASSUME NEW ts \in [BuyTasks -> BuyTask \cup {Reinvest!NoTask}], NEW c \in BuyTasks
    PROVE  /\ ts[c].pc # "none" => ts[c] \in BuyTask
           /\ ts[c] \notin BuyTask => ts[c] = Reinvest!NoTask /\ ts[c].pc = "none"
  BY NoTaskIsNone

\* A form whose quote is withdrawn.
LEMMA Withdrawing ==
    ASSUME NEW f \in BuyForm
    PROVE  LET g == Reinvest!Withdrawn(f) IN
           /\ g \in BuyForm /\ g.quote = Reinvest!NoQuote /\ g.position = f.position
           /\ g.amount = f.amount /\ g.submitted = f.submitted /\ g.working = f.working
  <1> DEFINE g == Reinvest!Withdrawn(f)
  <1>1. Reinvest!NoQuote \in [weth : Nat, deadline : Int]
    BY DEF Reinvest!NoQuote
  <1>2. g = [f EXCEPT !.quote = Reinvest!NoQuote, !.accepted = FALSE]
    BY DEF Reinvest!Withdrawn
  <1> QED
    BY <1>1, <1>2 DEF BuyForm

\* A form that waits, or no longer does.
LEMMA Working ==
    ASSUME NEW f \in BuyForm, NEW b \in BOOLEAN
    PROVE  LET g == [f EXCEPT !.working = b] IN
           /\ g \in BuyForm /\ g.quote = f.quote /\ g.position = f.position
           /\ g.amount = f.amount /\ g.submitted = f.submitted /\ g.working = b
  BY DEF BuyForm

\* A form that shows another transaction.
LEMMA Submitting ==
    ASSUME NEW f \in BuyForm, NEW tx \in Nat
    PROVE  LET g == [f EXCEPT !.submitted = tx] IN
           /\ g \in BuyForm /\ g.quote = f.quote /\ g.position = f.position
           /\ g.amount = f.amount /\ g.submitted = tx /\ g.working = f.working
  BY DEF BuyForm

\* No form.
LEMMA ClosedForm ==
    /\ Reinvest!Closed \in BuyForm /\ Reinvest!Closed.submitted = 0
    /\ Reinvest!Closed.quote = Reinvest!NoQuote
  BY DEF BuyForm, Reinvest!Closed, Reinvest!NoQuote, Reinvest!NoPosition, Reinvest!NoTx

(* The calls that may have sent something are all that the guard is about.   *)
LEMMA GuardSame ==
    ASSUME NEW g, NEW ts, NEW us, NEW txs, GuardKnows(g, ts, txs),
           Buying(us) = Buying(ts),
           \A c \in Buying(ts) : us[c].pc = ts[c].pc /\ us[c].tx = ts[c].tx
    PROVE  GuardKnows(g, us, txs)
  BY DEF GuardKnows

\* Calls as they were, but for what they know of the form.
Alike(ts, us) ==
    \A c \in BuyTasks : /\ us[c] \in BuyTask \cup {Reinvest!NoTask}
                        /\ us[c].pc = ts[c].pc
                        /\ ts[c].pc # "none" => us[c].kind = ts[c].kind /\ us[c].tx = ts[c].tx
                                                /\ us[c].mounted = ts[c].mounted

(* Such calls match the purchases and the form as they did.                  *)
LEMMA AlikeCalls ==
    ASSUME NEW ts, NEW us, NEW txs, NEW g, NEW f, Alike(ts, us),
           TasksMatch(ts, txs), FormWaits(f, ts)
    PROVE  /\ TasksMatch(us, txs) /\ FormWaits(f, us)
           /\ GuardKnows(g, ts, txs) => GuardKnows(g, us, txs)
  <1>1. TasksMatch(us, txs)
    BY DEF TasksMatch, Alike
  <1>2. Heard(us) = Heard(ts)
    BY DEF Heard, Alike
  <1>3. FormWaits(f, us)
    BY <1>2 DEF FormWaits, Alike
  <1>4. Buying(us) = Buying(ts) /\ \A c \in Buying(ts) : us[c].pc = ts[c].pc /\ us[c].tx = ts[c].tx
    BY DEF Buying, Alike
  <1>5. GuardKnows(g, ts, txs) => GuardKnows(g, us, txs)
    BY <1>4, GuardSame
  <1> QED
    BY <1>1, <1>3, <1>5

(* A form that changed has made the quotes under way stale.                  *)
LEMMA OutdatedCalls ==
    ASSUME NEW ts, ts = tasks, ts \in [BuyTasks -> BuyTask \cup {Reinvest!NoTask}]
    PROVE  /\ Alike(ts, Reinvest!Outdated)
           /\ Reinvest!Outdated \in [BuyTasks -> BuyTask \cup {Reinvest!NoTask}]
           /\ \A c \in BuyTasks : ts[c].pc # "none" => ~Reinvest!Outdated[c].fresh
  <1> DEFINE us == Reinvest!Outdated
  <1>1. \A t \in BuyTask :
           LET u == [t EXCEPT !.fresh = FALSE] IN
           /\ u \in BuyTask /\ u.pc = t.pc /\ u.kind = t.kind /\ u.tx = t.tx
           /\ u.mounted = t.mounted /\ ~u.fresh
    BY DEF BuyTask
  <1>2. \A c \in BuyTasks :
           us[c] = IF ts[c].pc # "none" THEN [ts[c] EXCEPT !.fresh = FALSE] ELSE ts[c]
    BY DEF Reinvest!Outdated, Reinvest!Running
  <1>3. us = [c \in BuyTasks |-> us[c]]
    BY DEF Reinvest!Outdated
  <1> HIDE DEF us
  <1>4. \A c \in BuyTasks :
           /\ us[c] \in BuyTask \cup {Reinvest!NoTask}
           /\ us[c].pc = ts[c].pc
           /\ ts[c].pc # "none" => /\ us[c].kind = ts[c].kind /\ us[c].tx = ts[c].tx
                                   /\ us[c].mounted = ts[c].mounted /\ ~us[c].fresh
    <2> SUFFICES ASSUME NEW c \in BuyTasks
                 PROVE  /\ us[c] \in BuyTask \cup {Reinvest!NoTask}
                        /\ us[c].pc = ts[c].pc
                        /\ ts[c].pc # "none" =>
                              /\ us[c].kind = ts[c].kind /\ us[c].tx = ts[c].tx
                              /\ us[c].mounted = ts[c].mounted /\ ~us[c].fresh
      OBVIOUS
    <2>1. CASE ts[c].pc = "none"
      BY <1>2, <2>1
    <2>2. CASE ts[c].pc # "none"
      BY <1>1, <1>2, <2>2, TaskPlaces
    <2> QED
      BY <2>1, <2>2
  <1>5. us \in [BuyTasks -> BuyTask \cup {Reinvest!NoTask}]
    BY <1>3, <1>4
  <1> QED
    BY <1>4, <1>5 DEF Alike, us

\* How a call leaves the form it was made from.
Answered(m, f, g) == IF m THEN [g EXCEPT !.working = FALSE] ELSE f

(* A call ends: it tells a form that is still there, which then waits for    *)
(* nobody, and shows a quote only for what the form and the page say.        *)
LEMMA CallEnds ==
    ASSUME NEW f, NEW ts, NEW txs, NEW us, NEW rs, NEW ks, NEW c \in BuyTasks, NEW g \in BuyForm,
           CallsInOrder(f, ts, txs, rs, ks),
           ts[c].pc # "none",
           us \in Seq(Purchase), txs \in Seq(Purchase), Len(txs) <= Len(us),
           g.submitted \in Known(us),
           g.quote # Reinvest!NoQuote => IsFor(g.quote.weth, g, rs, ks)
    PROVE  CallsInOrder(Answered(ts[c].mounted, f, g), [ts EXCEPT ![c] = Reinvest!NoTask], us, rs, ks)
  <1> DEFINE vs == [ts EXCEPT ![c] = Reinvest!NoTask]
             h == Answered(ts[c].mounted, f, g)
  <1>1. /\ f \in BuyForm /\ f.submitted \in Known(txs)
        /\ ts \in [BuyTasks -> BuyTask \cup {Reinvest!NoTask}]
        /\ TasksMatch(ts, txs) /\ FormWaits(f, ts) /\ QuotesFit(f, ts, rs, ks)
    BY DEF CallsInOrder
  <1>2. /\ vs \in [BuyTasks -> BuyTask \cup {Reinvest!NoTask}]
        /\ vs[c] = Reinvest!NoTask /\ \A b \in BuyTasks \ {c} : vs[b] = ts[b]
    BY <1>1
  <1>3. Reinvest!NoTask.pc = "none"
    BY NoTaskIsNone
  <1>4. DOMAIN txs \subseteq DOMAIN us /\ Known(txs) \subseteq Known(us)
    BY DEF Known
  <1> HIDE DEF vs, h
  <1>5. TasksMatch(vs, us)
    BY <1>1, <1>2, <1>3, <1>4 DEF TasksMatch
  <1>6. CASE ts[c].mounted
    <2>1. h = [g EXCEPT !.working = FALSE]
      BY <1>6 DEF h, Answered
    <2>2. /\ h \in BuyForm /\ h.quote = g.quote /\ h.position = g.position
          /\ h.amount = g.amount /\ h.submitted = g.submitted
      BY <2>1, Working
    <2>3. Heard(ts) = {c}
      BY <1>1, <1>6 DEF FormWaits, Heard
    <2>4. Heard(vs) = {}
      <3>1. \A b \in BuyTasks : b # c => b \notin Heard(ts)
        BY <2>3
      <3>2. \A b \in BuyTasks : b # c => ~(vs[b].pc # "none" /\ vs[b].mounted)
        BY <1>2, <3>1 DEF Heard
      <3> QED
        BY <1>2, <1>3, <3>2 DEF Heard
    <2>5. \A b \in BuyTasks : vs[b].pc # "quoting"
      <3>1. \A b \in BuyTasks : ts[b].pc = "quoting" => b \in Heard(ts)
        BY <1>1 DEF FormWaits, Heard
      <3> QED
        BY <1>2, <1>3, <2>3, <3>1
    <2>6. FormWaits(h, vs)
      BY <2>4, <2>5 DEF FormWaits
    <2>7. QuotesFit(h, vs, rs, ks)
      BY <2>2, <2>5 DEF QuotesFit, IsFor
    <2> QED
      BY <1>2, <1>5, <2>2, <2>6, <2>7 DEF CallsInOrder, h, vs
  <1>7. CASE ~ts[c].mounted
    <2>1. h = f
      BY <1>7 DEF h, Answered
    <2>2. Heard(vs) = Heard(ts)
      BY <1>2, <1>3, <1>7 DEF Heard
    <2>3. \A b \in BuyTasks : vs[b].pc = "quoting" => vs[b] = ts[b]
      BY <1>2, <1>3
    <2>4. FormWaits(h, vs)
      BY <1>1, <2>1, <2>2, <2>3 DEF FormWaits
    <2>5. QuotesFit(h, vs, rs, ks)
      BY <1>1, <2>1, <2>3 DEF QuotesFit
    <2> QED
      BY <1>1, <1>2, <1>4, <1>5, <2>1, <2>4, <2>5 DEF CallsInOrder, h, vs
  <1> QED
    BY <1>6, <1>7

(* A purchase moves on: the form waits for it as before.                     *)
LEMMA CallMoves ==
    ASSUME NEW f, NEW ts, NEW txs, NEW us, NEW rs, NEW ks, NEW c \in BuyTasks, NEW g \in BuyForm,
           CallsInOrder(f, ts, txs, rs, ks),
           ts[c].pc \in {"checking", "wallet", "sent"},
           NEW t \in BuyTask, t.kind = ts[c].kind, t.mounted = ts[c].mounted,
           t.pc \in {"wallet", "sent", "receipt"},
           t.pc \in {"sent", "receipt"} => t.tx \in DOMAIN us,
           us \in Seq(Purchase), txs \in Seq(Purchase), Len(txs) <= Len(us),
           g.position = f.position, g.amount = f.amount, g.quote = f.quote,
           g.working = f.working, g.submitted \in Known(us)
    PROVE  CallsInOrder(g, [ts EXCEPT ![c] = t], us, rs, ks)
  <1> DEFINE vs == [ts EXCEPT ![c] = t]
  <1>1. /\ ts \in [BuyTasks -> BuyTask \cup {Reinvest!NoTask}]
        /\ TasksMatch(ts, txs) /\ FormWaits(f, ts) /\ QuotesFit(f, ts, rs, ks)
    BY DEF CallsInOrder
  <1>2. /\ vs \in [BuyTasks -> BuyTask \cup {Reinvest!NoTask}]
        /\ vs[c] = t /\ \A b \in BuyTasks \ {c} : vs[b] = ts[b]
    BY <1>1
  <1>3. DOMAIN txs \subseteq DOMAIN us
    OBVIOUS
  <1> HIDE DEF vs
  <1>4. TasksMatch(vs, us)
    BY <1>1, <1>2, <1>3 DEF TasksMatch
  <1>5. Heard(vs) = Heard(ts)
    <2>1. \A b \in BuyTasks : vs[b].pc # "none" /\ vs[b].mounted <=> ts[b].pc # "none" /\ ts[b].mounted
      BY <1>1, <1>2
    <2> QED
      BY <2>1 DEF Heard
  <1>6. \A b \in BuyTasks : vs[b].pc = "quoting" => vs[b] = ts[b]
    BY <1>2
  <1>7. FormWaits(g, vs)
    BY <1>1, <1>5, <1>6 DEF FormWaits
  <1>8. QuotesFit(g, vs, rs, ks)
    BY <1>1, <1>6 DEF QuotesFit, IsFor
  <1> QED
    BY <1>2, <1>4, <1>7, <1>8 DEF CallsInOrder, vs

(* A form that waits for nobody starts a call, and waits for that.           *)
LEMMA CallStarts ==
    ASSUME NEW f, NEW ts, NEW txs, NEW rs, NEW ks, NEW c \in BuyTasks, NEW g \in BuyForm,
           CallsInOrder(f, ts, txs, rs, ks),
           ts[c].pc = "none", ~f.working,
           NEW t \in BuyTask, t.mounted, t.pc \in {"quoting", "checking", "reconcile"},
           t.pc = "quoting" <=> t.kind = "quote",
           t.pc = "reconcile" => t.tx \in DOMAIN txs,
           t.pc = "quoting" => IsFor(t.weth, g, rs, ks),
           g.working, g.submitted = f.submitted,
           g.quote # Reinvest!NoQuote => IsFor(g.quote.weth, g, rs, ks)
    PROVE  CallsInOrder(g, [ts EXCEPT ![c] = t], txs, rs, ks)
  <1> DEFINE vs == [ts EXCEPT ![c] = t]
  <1>1. /\ f.submitted \in Known(txs)
        /\ ts \in [BuyTasks -> BuyTask \cup {Reinvest!NoTask}]
        /\ TasksMatch(ts, txs) /\ FormWaits(f, ts) /\ QuotesFit(f, ts, rs, ks)
    BY DEF CallsInOrder
  <1>2. /\ vs \in [BuyTasks -> BuyTask \cup {Reinvest!NoTask}]
        /\ vs[c] = t /\ \A b \in BuyTasks \ {c} : vs[b] = ts[b]
    BY <1>1
  <1> HIDE DEF vs
  <1>3. t.pc # "none"
    BY NoTaskIsNone
  <1>4. TasksMatch(vs, txs)
    BY <1>1, <1>2, <1>3 DEF TasksMatch
  <1>5. Heard(ts) = {}
    BY <1>1 DEF FormWaits
  <1>6. Heard(vs) = {c}
    <2>1. \A b \in BuyTasks : ~(ts[b].pc # "none" /\ ts[b].mounted)
      BY <1>5 DEF Heard
    <2>2. \A b \in BuyTasks : vs[b].pc # "none" /\ vs[b].mounted <=> b = c
      BY <1>2, <1>3, <2>1
    <2> QED
      BY <2>2 DEF Heard
  <1>7. \A b \in BuyTasks : vs[b].pc = "quoting" => b = c
    <2>1. \A b \in BuyTasks : ts[b].pc = "quoting" => b \in Heard(ts)
      BY <1>1 DEF FormWaits, Heard
    <2> QED
      BY <1>2, <1>5, <2>1
  <1>8. FormWaits(g, vs)
    BY <1>2, <1>6, <1>7 DEF FormWaits, IsFor
  <1>9. QuotesFit(g, vs, rs, ks)
    BY <1>2, <1>7 DEF QuotesFit
  <1> QED
    BY <1>1, <1>2, <1>4, <1>8, <1>9 DEF CallsInOrder, vs

(* When the call that holds the guard is gone, so are all that could send.   *)
LEMMA BuyingEnds ==
    ASSUME NEW ts \in [BuyTasks -> BuyTask \cup {Reinvest!NoTask}], NEW c \in BuyTasks,
           NEW g, NEW txs, GuardKnows(g, ts, txs)
    PROVE  LET vs == [ts EXCEPT ![c] = Reinvest!NoTask] IN
           /\ c \in Buying(ts) => Buying(vs) = {}
           /\ c \notin Buying(ts) => GuardKnows(g, vs, txs)
  <1> DEFINE vs == [ts EXCEPT ![c] = Reinvest!NoTask]
  <1>1. vs[c] = Reinvest!NoTask /\ \A b \in BuyTasks \ {c} : vs[b] = ts[b]
    OBVIOUS
  <1> HIDE DEF vs
  <1>2. Reinvest!NoTask.pc = "none"
    BY NoTaskIsNone
  <1>3. Buying(vs) = Buying(ts) \ {c}
    BY <1>1, <1>2 DEF Buying
  <1>4. c \in Buying(ts) => Buying(ts) = {c}
    BY DEF GuardKnows
  <1>5. ASSUME c \notin Buying(ts)
        PROVE  GuardKnows(g, vs, txs)
    <2>1. Buying(vs) = Buying(ts)
      BY <1>3, <1>5
    <2>2. \A b \in Buying(ts) : vs[b].pc = ts[b].pc /\ vs[b].tx = ts[b].tx
      BY <1>1, <1>5 DEF Buying
    <2> QED
      BY <2>1, <2>2, GuardSame
  <1> QED
    BY <1>3, <1>4, <1>5 DEF vs

(* Nobody can send: the guard need only know of what is open.                *)
LEMMA GuardAlone ==
    ASSUME NEW g, NEW ts, NEW txs, Buying(ts) = {},
           \A x, y \in PendingHere(txs) : x = y,
           g = Reinvest!NoTx => PendingHere(txs) = {},
           g \in DOMAIN txs => PendingHere(txs) \subseteq {g}
    PROVE  GuardKnows(g, ts, txs)
  BY DEF GuardKnows

(* Time passes, rewards come and go.                                         *)
LEMMA WorldSteps ==
    ASSUME PurchaseInv, Reinvest!Tick \/ \E p \in Positions : Reinvest!RewardsMove(p)
    PROVE  PurchaseInv'
  <1>1. UNCHANGED <<boundKeys, purchases, guard, kept, shownRewards, shownKeys, form, tasks, crossed>>
    BY DEF Reinvest!Tick, Reinvest!RewardsMove, Reinvest!bond, Reinvest!shown
  <1>2. clock' \in Nat
    BY DEF Reinvest!Tick, Reinvest!RewardsMove, PurchaseInv, PurchaseTypes
  <1>3. rewards' \in [Positions -> Nat]
    <2>1. CASE Reinvest!Tick
      BY <2>1 DEF Reinvest!Tick, Reinvest!bond, PurchaseInv, PurchaseTypes
    <2>2. ASSUME NEW p \in Positions, Reinvest!RewardsMove(p)
          PROVE  rewards' \in [Positions -> Nat]
      <3>1. rewards \in [Positions -> Nat]
        BY DEF PurchaseInv, PurchaseTypes
      <3>2. rewards' = [rewards EXCEPT ![p] = @ + 1] \/ rewards' = [rewards EXCEPT ![p] = 0]
        BY <2>2 DEF Reinvest!RewardsMove
      <3>3. rewards[p] + 1 \in Nat
        BY <3>1
      <3> QED
        BY <3>1, <3>2, <3>3
    <2> QED
      BY <2>1, <2>2
  <1>4. PurchaseTypes'
    BY <1>1, <1>2, <1>3 DEF PurchaseInv, PurchaseTypes, Reinvest!Preparing
  <1> QED
    BY <1>1, <1>4 DEF PurchaseInv

(* A purchase is mined: it is open no more, and no other is.                 *)
LEMMA MineStep ==
    ASSUME PurchaseInv, NEW x \in DOMAIN purchases, Reinvest!Mine(x)
    PROVE  PurchaseInv'
  <1>1. PICK status \in {"success", "reverted"} :
           purchases' = [purchases EXCEPT ![x].status = status]
    BY DEF Reinvest!Mine
  <1>2. /\ UNCHANGED <<clock, guard, kept, shownRewards, shownKeys, form, tasks, crossed>>
        /\ rewards' = rewards \/ rewards' = [rewards EXCEPT ![purchases[x].position] = 0]
    BY DEF Reinvest!Mine, Reinvest!shown
  <1>3. /\ purchases \in Seq(Purchase) /\ rewards \in [Positions -> Nat]
    BY DEF PurchaseInv, PurchaseTypes
  <1>4. purchases[x] \in Purchase
    BY <1>3
  <1> DEFINE t == [purchases[x] EXCEPT !.status = status]
  <1>5. t \in Purchase /\ t.status # "pending" /\ t.here = purchases[x].here
    <2>1. \A u \in Purchase : LET v == [u EXCEPT !.status = status] IN
             v \in Purchase /\ v.status # "pending" /\ v.here = u.here
      BY DEF Purchase
    <2> QED
      BY <1>4, <2>1
  <1>6. purchases' = [purchases EXCEPT ![x] = t]
    BY <1>1
  <1> HIDE DEF t
  <1>7. /\ purchases' \in Seq(Purchase) /\ Len(purchases') = Len(purchases)
        /\ DOMAIN purchases' = DOMAIN purchases /\ purchases'[x] = t
        /\ \A y \in DOMAIN purchases \ {x} : purchases'[y] = purchases[y]
    BY <1>3, <1>5, <1>6
  <1>8. PendingHere(purchases)' \subseteq PendingHere(purchases)
    BY <1>5, <1>7 DEF PendingHere
  <1>9. rewards' \in [Positions -> Nat] /\ boundKeys' \in Nat
    <2>1. boundKeys \in Nat
      BY DEF PurchaseInv, PurchaseTypes
    <2>2. boundKeys' = boundKeys \/ (boundKeys >= 1 /\ boundKeys' = boundKeys - 1)
      BY DEF Reinvest!Mine, Reinvest!Covered
    <2> QED
      BY <1>2, <1>3, <2>1, <2>2
  <1>10. PurchaseTypes'
    BY <1>2, <1>7, <1>9 DEF PurchaseInv, PurchaseTypes, Known, Reinvest!Preparing
  <1>11. CallsInOrder(form, tasks, purchases, shownRewards, shownKeys)'
    BY <1>2, <1>7 DEF PurchaseInv, CallsInOrder, TasksMatch, Known
  <1>12. GuardKnows(guard, tasks, purchases) => GuardKnows(guard, tasks, purchases')
    <2> DEFINE ps == PendingHere(purchases')
    <2>1. ps \subseteq PendingHere(purchases)
      BY <1>8
    <2> HIDE DEF ps
    <2> QED
      BY <1>7, <2>1 DEF GuardKnows, ps
  <1> QED
    BY <1>2, <1>10, <1>11, <1>12 DEF PurchaseInv

(* The page shows other rewards or Keys: quotes for what it showed are gone. *)
LEMMA MovedOnStep ==
    ASSUME PurchaseInv, NEW b \in BOOLEAN, Reinvest!MovedOn(b), NEW rs, NEW ks,
           ~b => QuotesFit(form, tasks, rs, ks)
    PROVE  /\ CallsInOrder(form', tasks', purchases, rs, ks)
           /\ GuardKnows(guard, tasks, purchases) => GuardKnows(guard, tasks', purchases)
  <1>1. CallsInOrder(form, tasks, purchases, shownRewards, shownKeys)
    BY DEF PurchaseInv
  <1>2. CASE ~b
    <2>1. form' = form /\ tasks' = tasks
      BY <1>2 DEF Reinvest!MovedOn
    <2> QED
      BY <1>1, <1>2, <2>1 DEF CallsInOrder
  <1>3. CASE b
    <2> DEFINE g == Reinvest!Withdrawn(form)
               us == Reinvest!Outdated
    <2>1. form' = g /\ tasks' = us
      BY <1>3 DEF Reinvest!MovedOn
    <2>2. /\ form \in BuyForm /\ form.submitted \in Known(purchases)
          /\ tasks \in [BuyTasks -> BuyTask \cup {Reinvest!NoTask}]
          /\ TasksMatch(tasks, purchases) /\ FormWaits(form, tasks)
      BY <1>1 DEF CallsInOrder
    <2>3. /\ g \in BuyForm /\ g.quote = Reinvest!NoQuote /\ g.submitted = form.submitted
          /\ g.position = form.position /\ g.working = form.working
      BY <2>2, Withdrawing
    <2>4. /\ Alike(tasks, us) /\ us \in [BuyTasks -> BuyTask \cup {Reinvest!NoTask}]
          /\ \A c \in BuyTasks : tasks[c].pc # "none" => ~us[c].fresh
      BY <2>2, OutdatedCalls
    <2> HIDE DEF g, us
    <2>5. /\ TasksMatch(us, purchases) /\ FormWaits(form, us)
          /\ GuardKnows(guard, tasks, purchases) => GuardKnows(guard, us, purchases)
      BY <2>2, <2>4, AlikeCalls
    <2>6. FormWaits(g, us)
      BY <2>3, <2>5 DEF FormWaits
    <2>7. QuotesFit(g, us, rs, ks)
      <3>1. \A c \in BuyTasks : us[c].pc = "quoting" => ~us[c].fresh
        BY <2>4 DEF Alike
      <3> QED
        BY <2>3, <3>1 DEF QuotesFit
    <2>8. CallsInOrder(g, us, purchases, rs, ks)
      BY <2>2, <2>3, <2>4, <2>5, <2>6, <2>7 DEF CallsInOrder
    <2> QED
      BY <2>1, <2>5, <2>8
  <1> QED
    BY <1>2, <1>3

(* The page reads rewards and Keys anew.                                     *)
LEMMA PageReads ==
    ASSUME PurchaseInv, Reinvest!RewardsRead \/ Reinvest!KeysRead
    PROVE  PurchaseInv'
  <1>0. UNCHANGED <<clock, rewards, boundKeys, purchases, guard, kept, crossed>>
    BY DEF Reinvest!RewardsRead, Reinvest!KeysRead, Reinvest!bond
  <1>1. PurchaseTypes /\ QuotesFit(form, tasks, shownRewards, shownKeys)
        /\ FormWaits(form, tasks)
    BY DEF PurchaseInv, CallsInOrder
  <1>2. CASE Reinvest!RewardsRead
    <2> DEFINE b == \E p \in Positions : p = form.position /\ shownRewards[p] # rewards[p]
    <2>1. /\ shownRewards' = rewards /\ shownKeys' = shownKeys /\ Reinvest!MovedOn(b)
      BY <1>2 DEF Reinvest!RewardsRead
    <2>2. ~b => QuotesFit(form, tasks, rewards, shownKeys)
      BY <1>1 DEF QuotesFit, IsFor
    <2>3. b \in BOOLEAN
      OBVIOUS
    <2> HIDE DEF b
    <2>4. /\ CallsInOrder(form', tasks', purchases, rewards, shownKeys)
          /\ GuardKnows(guard, tasks, purchases) => GuardKnows(guard, tasks', purchases)
      BY <2>1, <2>2, <2>3, MovedOnStep
    <2>5. PurchaseTypes'
      BY <1>0, <1>1, <2>1 DEF PurchaseTypes, Reinvest!Preparing
    <2> QED
      BY <1>0, <2>1, <2>4, <2>5 DEF PurchaseInv
  <1>3. CASE Reinvest!KeysRead
    <2> DEFINE b == form # Reinvest!Closed
    <2>1. /\ shownRewards' = shownRewards /\ shownKeys' = boundKeys /\ Reinvest!MovedOn(b)
      BY <1>3 DEF Reinvest!KeysRead
    <2>2. ~b => QuotesFit(form, tasks, shownRewards, shownKeys')
      <3> SUFFICES ASSUME form = Reinvest!Closed
                   PROVE  QuotesFit(form, tasks, shownRewards, shownKeys')
        OBVIOUS
      <3>1. form.quote = Reinvest!NoQuote
        BY ClosedForm
      <3>2. form.position \notin Positions
        BY InstanceIsProvable DEF Reinvest!Closed, Reinvest!ReinvestmentAssumption
      <3>3. \A c \in BuyTasks : tasks[c].pc # "quoting"
        BY <1>1, <3>2 DEF FormWaits
      <3> QED
        BY <3>1, <3>3 DEF QuotesFit
    <2>3. b \in BOOLEAN
      OBVIOUS
    <2> HIDE DEF b
    <2>4. /\ CallsInOrder(form', tasks', purchases, shownRewards, shownKeys')
          /\ GuardKnows(guard, tasks, purchases) => GuardKnows(guard, tasks', purchases)
      BY <2>1, <2>2, <2>3, MovedOnStep
    <2>5. PurchaseTypes'
      BY <1>0, <1>1, <2>1 DEF PurchaseTypes, Reinvest!Preparing
    <2> QED
      BY <1>0, <2>1, <2>4, <2>5 DEF PurchaseInv
  <1> QED
    BY <1>2, <1>3

(* A form that goes takes its quotes with it, and leaves the purchases.      *)
LEMMA Unmounting ==
    ASSUME NEW f, NEW ts, NEW txs, NEW rs, NEW ks, CallsInOrder(f, ts, txs, rs, ks), ts = tasks,
           NEW g \in BuyForm, g.quote = Reinvest!NoQuote, g.submitted \in Known(txs), NEW gd
    PROVE  /\ CallsInOrder(g, Reinvest!Unmounted, txs, rs, ks)
           /\ GuardKnows(gd, ts, txs) => GuardKnows(gd, Reinvest!Unmounted, txs)
  <1> DEFINE us == Reinvest!Unmounted
             Stays(c) == ts[c].pc \notin {"none", "quoting"}
  <1>1. /\ ts \in [BuyTasks -> BuyTask \cup {Reinvest!NoTask}] /\ TasksMatch(ts, txs)
    BY DEF CallsInOrder
  <1>2. \A t \in BuyTask :
           LET u == [t EXCEPT !.mounted = FALSE] IN
           u \in BuyTask /\ u.pc = t.pc /\ u.kind = t.kind /\ u.tx = t.tx /\ ~u.mounted
    BY DEF BuyTask
  <1>3. /\ us = [c \in BuyTasks |-> us[c]]
        /\ \A c \in BuyTasks : us[c] = IF ~Stays(c) THEN Reinvest!NoTask
                                       ELSE [ts[c] EXCEPT !.mounted = FALSE]
    BY <1>1 DEF Reinvest!Unmounted, Reinvest!Running, TasksMatch
  <1> HIDE DEF us
  <1>4. \A c \in BuyTasks :
           /\ us[c] \in BuyTask \cup {Reinvest!NoTask}
           /\ Stays(c) => /\ us[c].pc = ts[c].pc /\ us[c].kind = ts[c].kind
                          /\ us[c].tx = ts[c].tx /\ ~us[c].mounted
           /\ ~Stays(c) => us[c].pc = "none"
    <2> SUFFICES ASSUME NEW c \in BuyTasks
                 PROVE  /\ us[c] \in BuyTask \cup {Reinvest!NoTask}
                        /\ Stays(c) => /\ us[c].pc = ts[c].pc /\ us[c].kind = ts[c].kind
                                       /\ us[c].tx = ts[c].tx /\ ~us[c].mounted
                        /\ ~Stays(c) => us[c].pc = "none"
      OBVIOUS
    <2>1. CASE Stays(c)
      <3>1. ts[c] \in BuyTask
        BY <1>1, <2>1, TaskPlaces
      <3> QED
        BY <1>2, <1>3, <2>1, <3>1
    <2>2. CASE ~Stays(c)
      BY <1>3, <2>2, NoTaskIsNone
    <2> QED
      BY <2>1, <2>2
  <1>5. Heard(us) = {} /\ \A c \in BuyTasks : us[c].pc # "quoting"
    BY <1>4 DEF Heard
  <1>6. TasksMatch(us, txs)
    BY <1>1, <1>4 DEF TasksMatch
  <1>7. FormWaits(g, us) /\ QuotesFit(g, us, rs, ks)
    BY <1>5 DEF FormWaits, QuotesFit
  <1>8. us \in [BuyTasks -> BuyTask \cup {Reinvest!NoTask}]
    BY <1>3, <1>4
  <1>9. Buying(us) = Buying(ts)
    BY <1>4 DEF Buying
  <1>10. \A c \in Buying(ts) : us[c].pc = ts[c].pc /\ us[c].tx = ts[c].tx
    BY <1>4 DEF Buying
  <1>11. GuardKnows(gd, ts, txs) => GuardKnows(gd, us, txs)
    BY <1>9, <1>10, GuardSame
  <1> QED
    BY <1>6, <1>7, <1>8, <1>11 DEF CallsInOrder, us

(* A form opened or closed, the page left or loaded anew.                    *)
LEMMA PageSteps ==
    ASSUME PurchaseInv,
           \/ Reinvest!Leave \/ Reinvest!Reload \/ \E p \in Positions : Reinvest!select(p)
    PROVE  PurchaseInv'
  <1>1. PurchaseTypes /\ CallsInOrder(form, tasks, purchases, shownRewards, shownKeys)
    BY DEF PurchaseInv
  <1>2. 0 \in Known(purchases) /\ Known(purchases) \subseteq Nat
    <2>1. Len(purchases) \in Nat
      BY <1>1 DEF PurchaseTypes
    <2> QED
      BY <2>1 DEF Known
  <1>3. ASSUME NEW g \in BuyForm, g.quote = Reinvest!NoQuote, g.submitted \in Known(purchases),
               form' = g, tasks' = Reinvest!Unmounted,
               UNCHANGED <<clock, rewards, boundKeys, purchases, guard, kept, shownRewards, shownKeys, crossed>>
        PROVE  PurchaseInv'
    <2>1. PurchaseTypes'
      BY <1>1, <1>3 DEF PurchaseTypes, Reinvest!Preparing
    <2>2. /\ CallsInOrder(g, Reinvest!Unmounted, purchases, shownRewards, shownKeys)
          /\ GuardKnows(guard, tasks, purchases) => GuardKnows(guard, Reinvest!Unmounted, purchases)
      BY <1>1, <1>3, Unmounting
    <2> QED
      BY <1>3, <2>1, <2>2 DEF PurchaseInv
  <1>4. CASE Reinvest!Leave
    <2>1. /\ form' = Reinvest!Closed /\ tasks' = Reinvest!Unmounted
          /\ UNCHANGED <<clock, rewards, boundKeys, purchases, guard, kept, shownRewards, shownKeys, crossed>>
      BY <1>4 DEF Reinvest!Leave, Reinvest!bond, Reinvest!shown
    <2> QED
      BY <1>2, <1>3, <2>1, ClosedForm
  <1>5. ASSUME NEW p \in Positions, Reinvest!select(p)
        PROVE  PurchaseInv'
    <2> DEFINE g == [Reinvest!Closed EXCEPT !.position = p, !.amount = shownRewards[p],
                                            !.submitted = kept[p]]
    <2>1. /\ form' = IF form.position = p THEN Reinvest!Closed ELSE g
          /\ tasks' = Reinvest!Unmounted
          /\ UNCHANGED <<clock, rewards, boundKeys, purchases, guard, kept, shownRewards, shownKeys, crossed>>
      BY <1>5 DEF Reinvest!select, Reinvest!bond, Reinvest!shown
    <2>2. shownRewards[p] \in Nat /\ kept[p] \in Known(purchases) /\ kept[p] \in Nat
      BY <1>1, <1>2 DEF PurchaseTypes
    <2>3. g \in BuyForm /\ g.quote = Reinvest!NoQuote /\ g.submitted = kept[p]
      <3>1. \A f \in BuyForm : LET h == [f EXCEPT !.position = p, !.amount = shownRewards[p],
                                                  !.submitted = kept[p]] IN
               h \in BuyForm /\ h.quote = f.quote /\ h.submitted = kept[p]
        BY <2>2 DEF BuyForm
      <3> QED
        BY <3>1, ClosedForm
    <2> HIDE DEF g
    <2>4. CASE form.position = p
      BY <1>2, <1>3, <2>1, <2>4, ClosedForm
    <2>5. CASE form.position # p
      BY <1>3, <2>1, <2>2, <2>3, <2>5
    <2> QED
      BY <2>4, <2>5
  <1>6. CASE Reinvest!Reload
    <2>1. /\ form' = Reinvest!Closed
          /\ tasks' = [c \in BuyTasks |-> Reinvest!NoTask]
          /\ guard' = Reinvest!NoTx
          /\ purchases' = [x \in DOMAIN purchases |-> [purchases[x] EXCEPT !.here = FALSE]]
          /\ UNCHANGED <<clock, rewards, boundKeys, kept, shownRewards, shownKeys, crossed>>
      BY <1>6 DEF Reinvest!Reload, Reinvest!shown
    <2>2. purchases \in Seq(Purchase) /\ DOMAIN purchases = 1..Len(purchases)
      BY <1>1 DEF PurchaseTypes
    <2>3. \A t \in Purchase :
             LET u == [t EXCEPT !.here = FALSE] IN u \in Purchase /\ ~u.here
      BY DEF Purchase
    <2>4. \A x \in DOMAIN purchases : purchases'[x] \in Purchase /\ ~purchases'[x].here
      <3>1. \A x \in DOMAIN purchases : purchases[x] \in Purchase
        BY <2>2
      <3>2. \A x \in DOMAIN purchases : purchases'[x] = [purchases[x] EXCEPT !.here = FALSE]
        BY <2>1
      <3> QED
        BY <2>3, <3>1, <3>2
    <2>5. /\ purchases' \in Seq(Purchase) /\ DOMAIN purchases' = DOMAIN purchases
          /\ Len(purchases') = Len(purchases)
      <3>1. Len(purchases) \in Nat
        BY <2>2
      <3>2. purchases' = [x \in 1..Len(purchases) |-> purchases'[x]]
        BY <2>1, <2>2
      <3>3. purchases' \in Seq(Purchase)
        BY <2>2, <2>4, <3>1, <3>2, SeqDef
      <3> QED
        BY <2>2, <3>1, <3>2, <3>3
    <2>6. PendingHere(purchases') = {}
      BY <2>4, <2>5 DEF PendingHere
    <2>7. \A c \in BuyTasks : tasks'[c] = Reinvest!NoTask /\ tasks'[c].pc = "none"
      BY <2>1, NoTaskIsNone
    <2>8. Buying(tasks') = {} /\ Heard(tasks') = {}
      BY <2>7 DEF Buying, Heard
    <2>9. GuardKnows(guard', tasks', purchases')
      BY <2>6, <2>8, GuardAlone
    <2>10. /\ tasks' \in [BuyTasks -> BuyTask \cup {Reinvest!NoTask}]
           /\ TasksMatch(tasks', purchases')
      BY <2>1, <2>7 DEF TasksMatch
    <2>11. /\ FormWaits(form', tasks')
           /\ QuotesFit(form', tasks', shownRewards', shownKeys')
      BY <2>1, <2>7, <2>8, ClosedForm DEF FormWaits, QuotesFit
    <2>12. form' \in BuyForm /\ form'.submitted \in Known(purchases')
      BY <1>2, <2>1, <2>5, ClosedForm DEF Known
    <2>13. PurchaseTypes'
      BY <1>1, <1>2, <2>1, <2>5 DEF PurchaseTypes, Known, Reinvest!NoTx, Reinvest!Preparing
    <2> QED
      BY <2>9, <2>10, <2>11, <2>12, <2>13 DEF PurchaseInv, CallsInOrder
  <1> QED
    BY <1>4, <1>5, <1>6

\* A call as it starts.
LEMMA NewTask ==
    ASSUME NEW p \in Positions, NEW kind \in {"quote", "buy", "check"},
           NEW pc \in {"quoting", "checking", "reconcile"}, NEW weth \in Nat,
           NEW since \in Int, NEW tx \in Nat
    PROVE  LET t == Reinvest!Task(p, kind, pc, weth, since, tx) IN
           /\ t \in BuyTask /\ t.kind = kind /\ t.pc = pc /\ t.weth = weth /\ t.tx = tx
           /\ t.mounted
  BY DEF Reinvest!Task, BuyTask

(* What the holder does with the form, but for the purchase itself.          *)
LEMMA FormUsed ==
    ASSUME PurchaseInv, NEW p \in Positions,
           \/ \E weth \in Amounts : Reinvest!Edit(p, weth)
           \/ Reinvest!getQuote(p) \/ Reinvest!accept(p) \/ Reinvest!checkReceipt(p)
    PROVE  PurchaseInv'
  <1>1. /\ PurchaseTypes /\ CallsInOrder(form, tasks, purchases, shownRewards, shownKeys)
        /\ crossed \/ GuardKnows(guard, tasks, purchases)
    BY DEF PurchaseInv
  <1>2. /\ form \in BuyForm /\ form.submitted \in Known(purchases)
        /\ tasks \in [BuyTasks -> BuyTask \cup {Reinvest!NoTask}]
        /\ TasksMatch(tasks, purchases) /\ FormWaits(form, tasks)
        /\ QuotesFit(form, tasks, shownRewards, shownKeys)
    BY <1>1 DEF CallsInOrder
  <1>3. UNCHANGED <<clock, rewards, boundKeys, purchases, guard, kept, shownRewards, shownKeys, crossed>>
    BY DEF Reinvest!Edit, Reinvest!getQuote, Reinvest!accept, Reinvest!checkReceipt,
           Reinvest!bond, Reinvest!shown
  <1>4. form.amount \in Nat /\ form.submitted \in Nat
    BY <1>2 DEF BuyForm
  <1>5. PurchaseTypes'
    BY <1>1, <1>3 DEF PurchaseTypes, Reinvest!Preparing
  <1>6. SUFFICES /\ CallsInOrder(form', tasks', purchases, shownRewards, shownKeys)
                 /\ GuardKnows(guard, tasks, purchases) => GuardKnows(guard, tasks', purchases)
    BY <1>1, <1>3, <1>5 DEF PurchaseInv
  <1>7. ASSUME NEW g \in BuyForm, form' = g, tasks' = tasks, ~form.working, g.working = form.working,
               g.submitted = form.submitted, g.position = form.position,
               g.quote # Reinvest!NoQuote => g.quote = form.quote /\ g.amount = form.amount
        PROVE  CallsInOrder(form', tasks', purchases, shownRewards, shownKeys)
    <2>1. Heard(tasks) = {}
      BY <1>2, <1>7 DEF FormWaits
    <2>2. \A c \in BuyTasks : tasks[c].pc # "quoting"
      BY <1>2, <2>1 DEF FormWaits, Heard
    <2>3. FormWaits(g, tasks) /\ QuotesFit(g, tasks, shownRewards, shownKeys)
      BY <1>2, <1>7, <2>1, <2>2 DEF FormWaits, QuotesFit, IsFor
    <2> QED
      BY <1>2, <1>7, <2>3 DEF CallsInOrder
  <1>8. ASSUME NEW weth \in Amounts, Reinvest!Edit(p, weth)
        PROVE  CallsInOrder(form', tasks', purchases, shownRewards, shownKeys) /\ tasks' = tasks
    <2> DEFINE w == Reinvest!Withdrawn(form)
               g == [w EXCEPT !.amount = weth]
    <2>1. weth \in Nat
      BY InstanceIsProvable DEF Reinvest!ReinvestmentAssumption
    <2>2. form' = g /\ tasks' = tasks /\ ~form.working
      BY <1>8 DEF Reinvest!Edit, Reinvest!Disabled
    <2>3. /\ w \in BuyForm /\ w.quote = Reinvest!NoQuote /\ w.position = form.position
          /\ w.submitted = form.submitted /\ w.working = form.working
      BY <1>2, Withdrawing
    <2> HIDE DEF w
    <2>4. /\ g \in BuyForm /\ g.quote = Reinvest!NoQuote /\ g.position = form.position
          /\ g.submitted = form.submitted /\ g.working = form.working
      BY <2>1, <2>3 DEF BuyForm
    <2> HIDE DEF g
    <2> QED
      BY <1>7, <2>2, <2>4
  <1>9. ASSUME Reinvest!accept(p)
        PROVE  CallsInOrder(form', tasks', purchases, shownRewards, shownKeys) /\ tasks' = tasks
    <2> DEFINE b == ~form.accepted
               g == [form EXCEPT !.accepted = b]
    <2>1. form' = g /\ tasks' = tasks /\ ~form.working
      BY <1>9 DEF Reinvest!accept, Reinvest!Disabled
    <2>2. b \in BOOLEAN
      OBVIOUS
    <2> HIDE DEF b
    <2>3. /\ g \in BuyForm /\ g.quote = form.quote /\ g.position = form.position
          /\ g.submitted = form.submitted /\ g.working = form.working /\ g.amount = form.amount
      BY <1>2, <2>2 DEF BuyForm
    <2> HIDE DEF g
    <2> QED
      BY <1>7, <2>1, <2>3
  <1>10. ASSUME NEW t \in BuyTask, t.mounted, t.pc \in {"quoting", "reconcile"},
                t.pc = "quoting" <=> t.kind = "quote", Reinvest!Start(t), ~form.working,
                t.pc = "reconcile" => t.tx \in DOMAIN purchases,
                NEW g \in BuyForm, form' = g, g.working, g.submitted = form.submitted,
                t.pc = "quoting" => IsFor(t.weth, g, shownRewards, shownKeys),
                g.quote # Reinvest!NoQuote => IsFor(g.quote.weth, g, shownRewards, shownKeys)
         PROVE  /\ CallsInOrder(form', tasks', purchases, shownRewards, shownKeys)
                /\ GuardKnows(guard, tasks, purchases) => GuardKnows(guard, tasks', purchases)
    <2>1. PICK c \in BuyTasks : tasks[c].pc = "none" /\ tasks' = [tasks EXCEPT ![c] = t]
      BY <1>10 DEF Reinvest!Start, Reinvest!Running
    <2>2. CallsInOrder(g, [tasks EXCEPT ![c] = t], purchases, shownRewards, shownKeys)
      BY <1>1, <1>10, <2>1, CallStarts
    <2>3. tasks'[c] = t /\ \A b \in BuyTasks \ {c} : tasks'[b] = tasks[b]
      BY <1>2, <2>1
    <2>4. Buying(tasks') = Buying(tasks)
      BY <1>10, <2>1, <2>3 DEF Buying
    <2>5. \A b \in Buying(tasks) : tasks'[b] = tasks[b]
      BY <2>1, <2>3 DEF Buying
    <2>6. GuardKnows(guard, tasks, purchases) => GuardKnows(guard, tasks', purchases)
      BY <2>4, <2>5, GuardSame
    <2> QED
      BY <1>10, <2>1, <2>2, <2>6
  <1>11. ASSUME Reinvest!getQuote(p), Reinvest!input(p)
         PROVE  /\ CallsInOrder(form', tasks', purchases, shownRewards, shownKeys)
                /\ GuardKnows(guard, tasks, purchases) => GuardKnows(guard, tasks', purchases)
    <2> DEFINE w == Reinvest!Withdrawn(form)
               g == [w EXCEPT !.working = TRUE]
               t == Reinvest!Task(p, "quote", "quoting", form.amount, clock, Reinvest!NoTx)
    <2>1. /\ form' = g /\ Reinvest!Start(t) /\ ~form.working
          /\ form.position = p /\ form.amount <= shownRewards[p]
          /\ ~(shownKeys < 1)
      BY <1>11 DEF Reinvest!getQuote, Reinvest!Disabled, Reinvest!Shows, Reinvest!input
    <2>2. t \in BuyTask /\ t.pc = "quoting" /\ t.kind = "quote" /\ t.weth = form.amount /\ t.mounted
      <3>1. clock \in Int /\ Reinvest!NoTx \in Nat
        BY <1>1 DEF PurchaseTypes, Reinvest!NoTx
      <3> QED
        BY <1>4, <3>1, NewTask
    <2>3. /\ w \in BuyForm /\ w.quote = Reinvest!NoQuote /\ w.position = form.position
          /\ w.submitted = form.submitted /\ w.amount = form.amount
      BY <1>2, Withdrawing
    <2> HIDE DEF w, t
    <2>4. /\ g \in BuyForm /\ g.quote = Reinvest!NoQuote /\ g.position = form.position
          /\ g.submitted = form.submitted /\ g.amount = form.amount /\ g.working
      BY <2>3, Working
    <2> HIDE DEF g
    <2>5. shownKeys >= 1
      BY <1>1, <2>1 DEF PurchaseTypes
    <2>6. IsFor(t.weth, g, shownRewards, shownKeys)
      BY <2>1, <2>2, <2>4, <2>5 DEF IsFor
    <2> QED
      BY <1>10, <2>1, <2>2, <2>4, <2>6
  <1>12. ASSUME Reinvest!getQuote(p), ~Reinvest!input(p)
         PROVE  /\ CallsInOrder(form', tasks', purchases, shownRewards, shownKeys)
                /\ GuardKnows(guard, tasks, purchases) => GuardKnows(guard, tasks', purchases)
    <2>1. Reinvest!MovedOn(TRUE)
      BY <1>12 DEF Reinvest!getQuote, Reinvest!MovedOn
    <2> QED
      BY <2>1, MovedOnStep
  <1>13. ASSUME Reinvest!checkReceipt(p)
         PROVE  /\ CallsInOrder(form', tasks', purchases, shownRewards, shownKeys)
                /\ GuardKnows(guard, tasks, purchases) => GuardKnows(guard, tasks', purchases)
    <2> DEFINE g == [form EXCEPT !.working = TRUE]
               t == Reinvest!Task(p, "check", "reconcile", 0, 0, form.submitted)
    <2>1. form' = g /\ Reinvest!Start(t) /\ ~form.working /\ form.submitted # 0
      BY <1>13 DEF Reinvest!checkReceipt, Reinvest!NoTx
    <2>2. t \in BuyTask /\ t.pc = "reconcile" /\ t.kind = "check" /\ t.tx = form.submitted /\ t.mounted
      BY <1>4, NewTask
    <2>3. form.submitted \in DOMAIN purchases
      <3>1. DOMAIN purchases = 1..Len(purchases) /\ Len(purchases) \in Nat
        BY <1>1 DEF PurchaseTypes
      <3> QED
        BY <1>2, <2>1, <3>1 DEF Known
    <2>4. /\ g \in BuyForm /\ g.quote = form.quote /\ g.position = form.position
          /\ g.submitted = form.submitted /\ g.amount = form.amount /\ g.working
      BY <1>2, Working
    <2> HIDE DEF g, t
    <2>5. g.quote # Reinvest!NoQuote => IsFor(g.quote.weth, g, shownRewards, shownKeys)
      BY <1>2, <2>4 DEF QuotesFit, IsFor
    <2> QED
      BY <1>10, <2>1, <2>2, <2>3, <2>4, <2>5
  <1> QED
    BY <1>8, <1>9, <1>11, <1>12, <1>13

(* A purchase starts: only while nothing else is open.                       *)
LEMMA ExecuteStep ==
    ASSUME PurchaseInv, NEW p \in Positions, Reinvest!execute(p)
    PROVE  PurchaseInv'
  <1>1. /\ PurchaseTypes /\ CallsInOrder(form, tasks, purchases, shownRewards, shownKeys)
        /\ crossed \/ GuardKnows(guard, tasks, purchases)
    BY DEF PurchaseInv
  <1>2. /\ form \in BuyForm /\ form.submitted \in Known(purchases)
        /\ tasks \in [BuyTasks -> BuyTask \cup {Reinvest!NoTask}]
        /\ TasksMatch(tasks, purchases) /\ FormWaits(form, tasks)
        /\ QuotesFit(form, tasks, shownRewards, shownKeys)
    BY <1>1 DEF CallsInOrder
  <1>3. /\ UNCHANGED <<clock, rewards, boundKeys, purchases, kept, shownRewards, shownKeys, crossed>>
        /\ ~form.working
    BY DEF Reinvest!execute, Reinvest!bond, Reinvest!shown, Reinvest!Disabled
  <1>4. CASE form' = Reinvest!Withdrawn(form) /\ UNCHANGED <<guard, busy, tasks>>
    <2> DEFINE g == Reinvest!Withdrawn(form)
    <2>1. /\ g \in BuyForm /\ g.quote = Reinvest!NoQuote /\ g.position = form.position
          /\ g.submitted = form.submitted /\ g.amount = form.amount /\ g.working = form.working
      BY <1>2, Withdrawing
    <2> HIDE DEF g
    <2>2. \A c \in BuyTasks : tasks[c].pc # "quoting"
      BY <1>2, <1>3 DEF FormWaits, Heard
    <2>3. FormWaits(g, tasks) /\ QuotesFit(g, tasks, shownRewards, shownKeys)
      BY <1>2, <2>1, <2>2 DEF FormWaits, QuotesFit
    <2>4. CallsInOrder(g, tasks, purchases, shownRewards, shownKeys)
      BY <1>2, <2>1, <2>3 DEF CallsInOrder
    <2>5. PurchaseTypes'
      BY <1>1, <1>3, <1>4 DEF PurchaseTypes, Reinvest!Preparing
    <2> QED
      BY <1>1, <1>3, <1>4, <2>4, <2>5 DEF PurchaseInv, g
  <1> DEFINE since == form.quote.deadline - QuoteLife
             t == Reinvest!Task(p, "buy", "checking", form.quote.weth, since, Reinvest!NoTx)
             g == [form EXCEPT !.working = TRUE]
  <1>5. CASE /\ guard = Reinvest!NoTx /\ guard' = Reinvest!Preparing
             /\ form' = g /\ Reinvest!Start(t)
    <2>1. t \in BuyTask /\ t.pc = "checking" /\ t.kind = "buy" /\ t.mounted
      <3>1. form.quote.weth \in Nat /\ form.quote.deadline \in Int
        BY <1>2 DEF BuyForm
      <3>2. since \in Int /\ Reinvest!NoTx \in Nat
        BY <3>1, InstanceIsProvable DEF Reinvest!ReinvestmentAssumption, Reinvest!NoTx
      <3> HIDE DEF since
      <3> QED
        BY <3>1, <3>2, NewTask
    <2>2. /\ g \in BuyForm /\ g.quote = form.quote /\ g.position = form.position
          /\ g.submitted = form.submitted /\ g.amount = form.amount /\ g.working
      BY <1>2, Working
    <2>3. PICK c \in BuyTasks : tasks[c].pc = "none" /\ tasks' = [tasks EXCEPT ![c] = t]
      BY <1>5 DEF Reinvest!Start, Reinvest!Running
    <2> HIDE DEF t, g
    <2>4. g.quote # Reinvest!NoQuote => IsFor(g.quote.weth, g, shownRewards, shownKeys)
      BY <1>2, <2>2 DEF QuotesFit, IsFor
    <2>5. CallsInOrder(g, [tasks EXCEPT ![c] = t], purchases, shownRewards, shownKeys)
      BY <1>1, <1>3, <2>1, <2>2, <2>3, <2>4, CallStarts
    <2>6. ASSUME GuardKnows(guard, tasks, purchases)
          PROVE  GuardKnows(guard', tasks', purchases)
      <3>1. Buying(tasks) = {} /\ PendingHere(purchases) = {}
        BY <1>5, <2>6 DEF GuardKnows
      <3>2. \A b \in BuyTasks : tasks[b].pc \notin {"checking", "wallet", "sent", "receipt"}
        BY <3>1 DEF Buying
      <3>3. tasks'[c] = t /\ \A b \in BuyTasks \ {c} : tasks'[b] = tasks[b]
        BY <1>2, <2>3
      <3>4. Buying(tasks') = {c}
        BY <2>1, <3>2, <3>3 DEF Buying
      <3>5. guard' # Reinvest!NoTx
        BY <1>5, InstanceIsProvable
        DEF Reinvest!NoTx, Reinvest!Preparing, Reinvest!ReinvestmentAssumption
      <3> QED
        BY <1>5, <2>1, <3>1, <3>3, <3>4, <3>5 DEF GuardKnows
    <2>7. PurchaseTypes'
      BY <1>1, <1>3, <1>5 DEF PurchaseTypes, Reinvest!Preparing
    <2> QED
      BY <1>1, <1>3, <1>5, <2>3, <2>5, <2>6, <2>7 DEF PurchaseInv
  <1>6. CASE Reinvest!validateReinvestmentQuote(form.quote) /\ guard = Reinvest!NoTx
    BY <1>5, <1>6 DEF Reinvest!execute
  <1>7. CASE ~(Reinvest!validateReinvestmentQuote(form.quote) /\ guard = Reinvest!NoTx)
    BY <1>4, <1>7 DEF Reinvest!execute
  <1> QED
    BY <1>6, <1>7

(* A call of the page ends, and tells the form.                              *)
LEMMA EndsStep ==
    ASSUME PurchaseInv, NEW c \in BuyTasks, tasks[c].pc # "none",
           tasks' = [tasks EXCEPT ![c] = Reinvest!NoTask],
           NEW g \in BuyForm, form' = Answered(tasks[c].mounted, form, g),
           UNCHANGED <<clock, rewards, boundKeys, shownRewards, shownKeys>>,
           purchases' \in Seq(Purchase), Len(purchases) <= Len(purchases'),
           Len(purchases') <= MaxPurchases,
           guard' \in Known(purchases') \cup {Reinvest!Preparing},
           kept' \in [Positions -> Known(purchases')], crossed' \in BOOLEAN,
           g.submitted \in Known(purchases'),
           g.quote # Reinvest!NoQuote => IsFor(g.quote.weth, g, shownRewards, shownKeys),
           crossed' \/ GuardKnows(guard', tasks', purchases')
    PROVE  PurchaseInv'
  <1>1. /\ PurchaseTypes /\ CallsInOrder(form, tasks, purchases, shownRewards, shownKeys)
    BY DEF PurchaseInv
  <1>2. purchases \in Seq(Purchase)
    BY <1>1 DEF PurchaseTypes
  <1>3. CallsInOrder(Answered(tasks[c].mounted, form, g), [tasks EXCEPT ![c] = Reinvest!NoTask],
                     purchases', shownRewards, shownKeys)
    BY <1>1, <1>2, CallEnds
  <1>4. PurchaseTypes'
    BY <1>1 DEF PurchaseTypes, Reinvest!Preparing
  <1> QED
    BY <1>3, <1>4 DEF PurchaseInv

(* What a call has that ends, and what it finds.                             *)
LEMMA CallFacts ==
    ASSUME PurchaseInv, NEW c \in BuyTasks, tasks[c].pc # "none"
    PROVE  /\ tasks[c] \in BuyTask /\ tasks \in [BuyTasks -> BuyTask \cup {Reinvest!NoTask}]
           /\ tasks[c].mounted \in BOOLEAN
           /\ form \in BuyForm /\ form.submitted \in Known(purchases)
           /\ form.quote # Reinvest!NoQuote =>
                 IsFor(form.quote.weth, form, shownRewards, shownKeys)
           /\ purchases \in Seq(Purchase) /\ Len(purchases) \in Nat
           /\ Len(purchases) <= MaxPurchases
           /\ guard \in Known(purchases) \cup {Reinvest!Preparing}
           /\ kept \in [Positions -> Known(purchases)] /\ crossed \in BOOLEAN
           /\ crossed \/ GuardKnows(guard, tasks, purchases)
           /\ Reinvest!NoTx \in Known(purchases)
  <1>1. tasks \in [BuyTasks -> BuyTask \cup {Reinvest!NoTask}]
    BY DEF PurchaseInv, CallsInOrder
  <1>2. tasks[c] \in BuyTask /\ tasks[c].mounted \in BOOLEAN
    <2>1. tasks[c] \in BuyTask
      BY <1>1, TaskPlaces
    <2> QED
      BY <2>1 DEF BuyTask
  <1>3. Len(purchases) \in Nat /\ Reinvest!NoTx \in Known(purchases)
    BY DEF PurchaseInv, PurchaseTypes, Known, Reinvest!NoTx
  <1> QED
    BY <1>1, <1>2, <1>3 DEF PurchaseInv, PurchaseTypes, CallsInOrder, QuotesFit

(* A quote comes back, or does not; a check ends without an answer.          *)
LEMMA QuoteSteps ==
    ASSUME PurchaseInv, NEW c \in BuyTasks, tasks[c].pc # "none",
           Reinvest!Quoted(c) \/ Reinvest!QuoteFails(c) \/ Reinvest!CheckFails(c)
    PROVE  PurchaseInv'
  <1>1. /\ UNCHANGED <<clock, rewards, boundKeys, purchases, guard, kept, shownRewards, shownKeys,
                       crossed>>
        /\ tasks' = [tasks EXCEPT ![c] = Reinvest!NoTask]
        /\ tasks[c].pc \in {"quoting", "reconcile"}
    BY DEF Reinvest!Quoted, Reinvest!QuoteFails, Reinvest!CheckFails, Reinvest!Ended,
           Reinvest!bond, Reinvest!shown
  <1>2. /\ tasks[c] \in BuyTask /\ tasks \in [BuyTasks -> BuyTask \cup {Reinvest!NoTask}]
        /\ form \in BuyForm /\ form.submitted \in Known(purchases)
        /\ form.quote # Reinvest!NoQuote =>
              IsFor(form.quote.weth, form, shownRewards, shownKeys)
        /\ purchases \in Seq(Purchase) /\ Len(purchases) \in Nat
        /\ Len(purchases) <= MaxPurchases
        /\ guard \in Known(purchases) \cup {Reinvest!Preparing}
        /\ kept \in [Positions -> Known(purchases)] /\ crossed \in BOOLEAN
        /\ crossed \/ GuardKnows(guard, tasks, purchases)
    BY CallFacts
  <1>3. crossed' \/ GuardKnows(guard', tasks', purchases')
    <2>1. c \notin Buying(tasks)
      BY <1>1 DEF Buying
    <2> QED
      BY <1>1, <1>2, <2>1, BuyingEnds
  <1>4. ASSUME NEW g \in BuyForm, form' = Answered(tasks[c].mounted, form, g),
               g.submitted = form.submitted,
               g.quote # Reinvest!NoQuote => IsFor(g.quote.weth, g, shownRewards, shownKeys)
        PROVE  PurchaseInv'
    <2>1. /\ purchases' \in Seq(Purchase) /\ Len(purchases) <= Len(purchases')
          /\ Len(purchases') <= MaxPurchases
          /\ guard' \in Known(purchases') \cup {Reinvest!Preparing}
          /\ kept' \in [Positions -> Known(purchases')] /\ crossed' \in BOOLEAN
          /\ g.submitted \in Known(purchases')
      BY <1>1, <1>2, <1>4
    <2>2. UNCHANGED <<clock, rewards, boundKeys, shownRewards, shownKeys>>
      BY <1>1
    <2> QED
      BY <1>1, <1>3, <1>4, <2>1, <2>2, EndsStep
  <1>5. CASE form' = Answered(tasks[c].mounted, form, form)
    BY <1>2, <1>4, <1>5
  <1>6. CASE Reinvest!Quoted(c)
    <2>1. PICK createdAt \in tasks[c].since..clock :
             LET quote == [weth |-> tasks[c].weth, deadline |-> createdAt + QuoteLife]
                 g == IF Reinvest!Current(c) THEN [form EXCEPT !.quote = quote] ELSE form
             IN tasks[c].pc = "quoting" /\ Reinvest!Tell(c, g)
      BY <1>6 DEF Reinvest!Quoted
    <2> DEFINE quote == [weth |-> tasks[c].weth, deadline |-> createdAt + QuoteLife]
               g == [form EXCEPT !.quote = quote]
    <2>2. CASE ~Reinvest!Current(c)
      BY <1>5, <2>1, <2>2 DEF Reinvest!Tell, Answered
    <2>3. CASE Reinvest!Current(c)
      <3>1. form' = Answered(tasks[c].mounted, form, g)
        BY <2>1, <2>3 DEF Reinvest!Tell, Answered
      <3>2. quote \in [weth : Nat, deadline : Int] /\ quote.weth = tasks[c].weth
        <4>1. tasks[c].weth \in Nat /\ createdAt \in Int
          BY <1>2 DEF BuyTask
        <4>2. createdAt + QuoteLife \in Int
          BY <4>1, InstanceIsProvable DEF Reinvest!ReinvestmentAssumption
        <4> QED
          BY <4>1, <4>2
      <3> HIDE DEF quote
      <3>3. /\ g \in BuyForm /\ g.quote = quote /\ g.submitted = form.submitted
            /\ g.position = form.position /\ g.amount = form.amount
        BY <1>2, <3>2 DEF BuyForm
      <3>4. IsFor(tasks[c].weth, form, shownRewards, shownKeys)
        BY <2>1, <2>3 DEF PurchaseInv, CallsInOrder, QuotesFit, Reinvest!Current
      <3> HIDE DEF g
      <3>5. IsFor(g.quote.weth, g, shownRewards, shownKeys)
        BY <3>2, <3>3, <3>4 DEF IsFor
      <3> QED
        BY <1>4, <3>1, <3>3, <3>5
    <2> QED
      BY <2>2, <2>3
  <1>7. CASE Reinvest!QuoteFails(c) \/ Reinvest!CheckFails(c)
    BY <1>5, <1>7 DEF Reinvest!QuoteFails, Reinvest!CheckFails, Reinvest!Tell, Answered
  <1> QED
    BY <1>6, <1>7

(* A purchase that is not sent, one whose sending is unclear, one whose      *)
(* receipt does not come: what is open stays known.                          *)
LEMMA PurchaseGivesUp ==
    ASSUME PurchaseInv, NEW c \in BuyTasks, tasks[c].pc # "none",
           Reinvest!NotSent(c) \/ Reinvest!ReceiptTimesOut(c)
    PROVE  PurchaseInv'
  <1>1. /\ UNCHANGED <<clock, rewards, boundKeys, purchases, kept, shownRewards, shownKeys, crossed>>
        /\ tasks' = [tasks EXCEPT ![c] = Reinvest!NoTask]
        /\ tasks[c].pc \in {"checking", "wallet", "receipt"}
        /\ form' = Answered(tasks[c].mounted, form, Reinvest!Withdrawn(form))
    BY DEF Reinvest!NotSent, Reinvest!ReceiptTimesOut, Reinvest!Ended, Reinvest!Tell, Answered,
           Reinvest!bond, Reinvest!shown
  <1>2. /\ tasks[c] \in BuyTask /\ tasks \in [BuyTasks -> BuyTask \cup {Reinvest!NoTask}]
        /\ form \in BuyForm /\ form.submitted \in Known(purchases)
        /\ purchases \in Seq(Purchase) /\ Len(purchases) \in Nat
        /\ Len(purchases) <= MaxPurchases
        /\ guard \in Known(purchases) \cup {Reinvest!Preparing}
        /\ kept \in [Positions -> Known(purchases)] /\ crossed \in BOOLEAN
        /\ crossed \/ GuardKnows(guard, tasks, purchases)
        /\ Reinvest!NoTx \in Known(purchases)
    BY CallFacts
  <1> DEFINE g == Reinvest!Withdrawn(form)
  <1>3. g \in BuyForm /\ g.quote = Reinvest!NoQuote /\ g.submitted = form.submitted
    BY <1>2, Withdrawing
  <1> HIDE DEF g
  <1>4. c \in Buying(tasks)
    BY <1>1 DEF Buying
  <1>5. /\ guard' \in Known(purchases) \cup {Reinvest!Preparing}
        /\ GuardKnows(guard, tasks, purchases) => GuardKnows(guard', tasks', purchases)
    <2>1. CASE Reinvest!NotSent(c)
      <3>1. guard' = Reinvest!NoTx /\ tasks[c].pc \in {"checking", "wallet"}
        BY <2>1 DEF Reinvest!NotSent
      <3>2. ASSUME GuardKnows(guard, tasks, purchases)
            PROVE  GuardKnows(guard', tasks', purchases)
        <4>1. PendingHere(purchases) = {}
          BY <1>4, <3>1, <3>2 DEF GuardKnows
        <4>2. Buying(tasks') = {}
          BY <1>1, <1>2, <1>4, <3>2, BuyingEnds
        <4> QED
          BY <4>1, <4>2, GuardAlone
      <3> QED
        BY <1>2, <3>1, <3>2
    <2>2. CASE Reinvest!ReceiptTimesOut(c)
      <3>1. guard' = guard /\ tasks[c].pc = "receipt"
        BY <2>2 DEF Reinvest!ReceiptTimesOut, Reinvest!GuardKept
      <3>2. ASSUME GuardKnows(guard, tasks, purchases)
            PROVE  GuardKnows(guard', tasks', purchases)
        <4>1. /\ guard # Reinvest!NoTx /\ \A x, y \in PendingHere(purchases) : x = y
              /\ guard \in DOMAIN purchases => PendingHere(purchases) \subseteq {guard}
          BY <1>4, <3>2 DEF GuardKnows
        <4>2. Buying(tasks') = {}
          BY <1>1, <1>2, <1>4, <3>2, BuyingEnds
        <4> QED
          BY <3>1, <4>1, <4>2, GuardAlone
      <3> QED
        BY <1>2, <3>1, <3>2
    <2> QED
      BY <2>1, <2>2
  <1>6. crossed' \/ GuardKnows(guard', tasks', purchases')
    BY <1>1, <1>2, <1>5
  <1>7. /\ purchases' \in Seq(Purchase) /\ Len(purchases) <= Len(purchases')
        /\ Len(purchases') <= MaxPurchases
        /\ guard' \in Known(purchases') \cup {Reinvest!Preparing}
        /\ kept' \in [Positions -> Known(purchases')] /\ crossed' \in BOOLEAN
        /\ g.submitted \in Known(purchases')
    BY <1>1, <1>2, <1>3, <1>5
  <1>8. UNCHANGED <<clock, rewards, boundKeys, shownRewards, shownKeys>>
    BY <1>1
  <1>9. form' = Answered(tasks[c].mounted, form, g)
    BY <1>1 DEF g
  <1> QED
    BY <1>1, <1>3, <1>6, <1>7, <1>8, <1>9, EndsStep

\* What the guard must know of a call that moved on to t.
GuardPasses(h, t, us) ==
    /\ h # Reinvest!NoTx
    /\ PendingHere(us) \subseteq {t.tx}
    /\ h \in DOMAIN us => PendingHere(us) \subseteq {h}
    /\ t.pc = "wallet" => h = Reinvest!Preparing /\ PendingHere(us) = {}
    /\ t.pc = "sent" => h = Reinvest!Preparing
    /\ t.pc = "receipt" => h = t.tx

\* The calls with t in the place of c.
Put(ts, c, t) == [ts EXCEPT ![c] = t]

(* The call that holds the guard moves on.                                   *)
LEMMA GuardOfCall ==
    ASSUME NEW ts \in [BuyTasks -> BuyTask \cup {Reinvest!NoTask}], NEW c \in Buying(ts),
           NEW g, NEW txs, GuardKnows(g, ts, txs), NEW t, NEW h, NEW us,
           t.pc \in {"wallet", "sent", "receipt"}, GuardPasses(h, t, us)
    PROVE  GuardKnows(h, Put(ts, c, t), us)
  <1> DEFINE vs == Put(ts, c, t)
  <1>1. c \in BuyTasks /\ Buying(ts) = {c}
    BY DEF GuardKnows, Buying
  <1>2. vs[c] = t /\ \A b \in BuyTasks \ {c} : vs[b] = ts[b]
    BY <1>1 DEF Put
  <1> HIDE DEF vs
  <1>3. Buying(vs) = {c}
    <2>1. \A b \in BuyTasks \ {c} : ts[b].pc \notin {"checking", "wallet", "sent", "receipt"}
      BY <1>1 DEF Buying
    <2> QED
      BY <1>1, <1>2, <2>1 DEF Buying
  <1>4. \A x, y \in PendingHere(us) : x = y
    BY DEF GuardPasses
  <1>5. GuardKnows(h, vs, us)
    BY <1>2, <1>3, <1>4 DEF GuardKnows, GuardPasses
  <1> QED
    BY <1>5 DEF vs

(* A purchase goes out.                                                      *)
LEMMA SentPurchase ==
    ASSUME PurchaseInv, NEW c \in BuyTasks, tasks[c].pc # "none", Reinvest!Sent(c)
    PROVE  /\ purchases' \in Seq(Purchase) /\ Len(purchases') = Len(purchases) + 1
           /\ Len(purchases') <= MaxPurchases /\ Len(purchases) + 1 \in DOMAIN purchases'
           /\ Len(purchases) <= Len(purchases')
           /\ PendingHere(purchases') \subseteq PendingHere(purchases) \cup {Len(purchases) + 1}
           /\ Known(purchases) \subseteq Known(purchases')
           /\ Reinvest!Preparing \notin DOMAIN purchases'
  <1>1. /\ tasks[c] \in BuyTask /\ purchases \in Seq(Purchase) /\ Len(purchases) \in Nat
    BY CallFacts
  <1> DEFINE x == [position |-> tasks[c].position, weth |-> tasks[c].weth,
                   deadline |-> tasks[c].since + QuoteLife, status |-> "pending", here |-> TRUE]
             n == Len(purchases)
  <1>2. purchases' = Append(purchases, x) /\ n < MaxPurchases
    BY DEF Reinvest!Sent
  <1>3. x \in Purchase
    <2>1. /\ tasks[c].position \in Positions /\ tasks[c].weth \in Nat
          /\ tasks[c].since \in Int
      BY <1>1 DEF BuyTask
    <2>2. tasks[c].since + QuoteLife \in Int
      BY <2>1, InstanceIsProvable DEF Reinvest!ReinvestmentAssumption
    <2> QED
      BY <2>1, <2>2 DEF Purchase
  <1> HIDE DEF x
  <1>4. MaxPurchases \in Nat
    BY InstanceIsProvable DEF Reinvest!ReinvestmentAssumption
  <1>5. /\ purchases' \in Seq(Purchase) /\ Len(purchases') = n + 1
        /\ DOMAIN purchases' = 1..n + 1 /\ DOMAIN purchases = 1..n
        /\ \A i \in 1..n : purchases'[i] = purchases[i]
    BY <1>1, <1>2, <1>3
  <1>6. PendingHere(purchases') \subseteq PendingHere(purchases) \cup {n + 1}
    <2>1. \A i \in 1..n + 1 : i = n + 1 \/ i \in 1..n
      BY <1>1
    <2> QED
      BY <1>5, <2>1 DEF PendingHere
  <1>7. Reinvest!Preparing \notin DOMAIN purchases'
    BY <1>1, <1>2, <1>4, <1>5 DEF Reinvest!Preparing
  <1>8. Known(purchases) \subseteq Known(purchases')
    BY <1>1, <1>5 DEF Known
  <1> QED
    BY <1>1, <1>2, <1>4, <1>5, <1>6, <1>7, <1>8

(* The wallet fails without a word of whether the purchase is out.           *)
LEMMA WalletUnclearStep ==
    ASSUME PurchaseInv, NEW c \in BuyTasks, tasks[c].pc # "none", Reinvest!WalletUnclear(c)
    PROVE  PurchaseInv'
  <1>1. /\ UNCHANGED <<clock, rewards, boundKeys, guard, kept, shownRewards, shownKeys, crossed>>
        /\ tasks' = [tasks EXCEPT ![c] = Reinvest!NoTask]
        /\ tasks[c].pc = "wallet"
        /\ form' = Answered(tasks[c].mounted, form, Reinvest!Withdrawn(form))
        /\ Reinvest!Sent(c) \/ purchases' = purchases
    BY DEF Reinvest!WalletUnclear, Reinvest!Ended, Reinvest!Tell, Answered, Reinvest!shown
  <1>2. /\ tasks[c] \in BuyTask /\ tasks \in [BuyTasks -> BuyTask \cup {Reinvest!NoTask}]
        /\ form \in BuyForm /\ form.submitted \in Known(purchases)
        /\ purchases \in Seq(Purchase) /\ Len(purchases) \in Nat
        /\ Len(purchases) <= MaxPurchases
        /\ guard \in Known(purchases) \cup {Reinvest!Preparing}
        /\ kept \in [Positions -> Known(purchases)] /\ crossed \in BOOLEAN
        /\ crossed \/ GuardKnows(guard, tasks, purchases)
    BY CallFacts
  <1>3. /\ purchases' \in Seq(Purchase) /\ Len(purchases) <= Len(purchases')
        /\ Len(purchases') <= MaxPurchases /\ Known(purchases) \subseteq Known(purchases')
        /\ PendingHere(purchases') \subseteq PendingHere(purchases) \cup {Len(purchases) + 1}
        /\ Reinvest!Preparing \notin DOMAIN purchases'
    <2>1. CASE Reinvest!Sent(c)
      BY <2>1, SentPurchase
    <2>2. CASE purchases' = purchases
      <3>1. Reinvest!Preparing \notin DOMAIN purchases
        BY <1>2, InstanceIsProvable DEF Reinvest!Preparing, Reinvest!ReinvestmentAssumption
      <3> QED
        BY <1>2, <2>2, <3>1
    <2> QED
      BY <1>1, <2>1, <2>2
  <1> DEFINE g == Reinvest!Withdrawn(form)
  <1>4. g \in BuyForm /\ g.quote = Reinvest!NoQuote /\ g.submitted = form.submitted
    BY <1>2, Withdrawing
  <1> HIDE DEF g
  <1>5. ASSUME GuardKnows(guard, tasks, purchases)
        PROVE  GuardKnows(guard', tasks', purchases')
    <2>1. c \in Buying(tasks)
      BY <1>1 DEF Buying
    <2>2. Buying(tasks') = {}
      BY <1>1, <1>2, <1>5, <2>1, BuyingEnds
    <2>3. guard = Reinvest!Preparing /\ PendingHere(purchases) = {} /\ guard # Reinvest!NoTx
      BY <1>1, <1>5, <2>1 DEF GuardKnows
    <2>4. \A x, y \in PendingHere(purchases') : x = y
      BY <1>3, <2>3
    <2>5. guard' # Reinvest!NoTx /\ guard' \notin DOMAIN purchases'
      BY <1>1, <1>3, <2>3
    <2> QED
      BY <2>2, <2>4, <2>5, GuardAlone
  <1>6. crossed' \/ GuardKnows(guard', tasks', purchases')
    BY <1>1, <1>2, <1>5
  <1>7. /\ guard' \in Known(purchases') \cup {Reinvest!Preparing}
        /\ kept' \in [Positions -> Known(purchases')] /\ crossed' \in BOOLEAN
        /\ g.submitted \in Known(purchases')
    BY <1>1, <1>2, <1>3, <1>4
  <1>8. UNCHANGED <<clock, rewards, boundKeys, shownRewards, shownKeys>>
    BY <1>1
  <1>9. form' = Answered(tasks[c].mounted, form, g)
    BY <1>1 DEF g
  <1> QED
    BY <1>1, <1>3, <1>4, <1>6, <1>7, <1>8, <1>9, EndsStep

(* Checks made, purchase signed, hash remembered.                            *)
LEMMA PurchaseMoves ==
    ASSUME PurchaseInv, NEW c \in BuyTasks, tasks[c].pc # "none",
           Reinvest!Checked(c) \/ Reinvest!Sign(c) \/ Reinvest!Submitted(c)
    PROVE  PurchaseInv'
  <1>1. /\ UNCHANGED <<clock, rewards, boundKeys, shownRewards, shownKeys, crossed>>
        /\ tasks[c].pc \in {"checking", "wallet", "sent"}
    BY DEF Reinvest!Checked, Reinvest!Sign, Reinvest!Submitted, Reinvest!bond, Reinvest!shown
  <1>2. /\ tasks[c] \in BuyTask /\ tasks \in [BuyTasks -> BuyTask \cup {Reinvest!NoTask}]
        /\ form \in BuyForm /\ form.submitted \in Known(purchases)
        /\ purchases \in Seq(Purchase) /\ Len(purchases) \in Nat
        /\ Len(purchases) <= MaxPurchases
        /\ guard \in Known(purchases) \cup {Reinvest!Preparing}
        /\ kept \in [Positions -> Known(purchases)] /\ crossed \in BOOLEAN
        /\ crossed \/ GuardKnows(guard, tasks, purchases)
    BY CallFacts
  <1>3. /\ PurchaseTypes /\ CallsInOrder(form, tasks, purchases, shownRewards, shownKeys)
        /\ TasksMatch(tasks, purchases)
    BY DEF PurchaseInv, CallsInOrder
  <1>4. c \in Buying(tasks)
    BY <1>1 DEF Buying
  <1>5. ASSUME NEW t \in BuyTask, tasks' = [tasks EXCEPT ![c] = t],
               t.kind = tasks[c].kind, t.mounted = tasks[c].mounted,
               t.pc \in {"wallet", "sent", "receipt"},
               NEW g \in BuyForm, form' = g, g.position = form.position, g.amount = form.amount,
               g.quote = form.quote, g.working = form.working,
               g.submitted \in Known(purchases'),
               purchases' \in Seq(Purchase), Len(purchases) <= Len(purchases'),
               Len(purchases') <= MaxPurchases,
               guard' \in Known(purchases') \cup {Reinvest!Preparing},
               kept' \in [Positions -> Known(purchases')],
               t.pc \in {"sent", "receipt"} => t.tx \in DOMAIN purchases',
               GuardKnows(guard, tasks, purchases) => GuardPasses(guard', t, purchases')
        PROVE  PurchaseInv'
    <2>1. CallsInOrder(g, [tasks EXCEPT ![c] = t], purchases', shownRewards, shownKeys)
      BY <1>1, <1>2, <1>3, <1>5, CallMoves
    <2>2. PurchaseTypes'
      BY <1>1, <1>3, <1>5 DEF PurchaseTypes, Reinvest!Preparing
    <2>3. GuardKnows(guard, tasks, purchases) =>
             GuardKnows(guard', [tasks EXCEPT ![c] = t], purchases')
      <3>1. /\ tasks \in [BuyTasks -> BuyTask \cup {Reinvest!NoTask}] /\ c \in Buying(tasks)
            /\ t.pc \in {"wallet", "sent", "receipt"}
            /\ GuardKnows(guard, tasks, purchases) => GuardPasses(guard', t, purchases')
        BY <1>2, <1>4, <1>5
      <3>2. ASSUME GuardKnows(guard, tasks, purchases)
            PROVE  GuardKnows(guard', [tasks EXCEPT ![c] = t], purchases')
        <4>1. GuardPasses(guard', t, purchases')
          BY <3>1, <3>2
        <4>2. GuardKnows(guard', Put(tasks, c, t), purchases')
          BY ONLY <3>1, <3>2, <4>1, GuardOfCall
        <4> QED
          BY <4>2 DEF Put
      <3> QED
        BY <3>2
    <2> QED
      BY <1>1, <1>2, <1>5, <2>1, <2>2, <2>3 DEF PurchaseInv
  <1>6. CASE Reinvest!Checked(c)
    <2> DEFINE t == [tasks[c] EXCEPT !.pc = "wallet"]
    <2>1. /\ tasks' = [tasks EXCEPT ![c] = t] /\ tasks[c].pc = "checking"
          /\ UNCHANGED <<purchases, guard, kept, form>>
      BY <1>6 DEF Reinvest!Checked, Reinvest!bond
    <2>2. t \in BuyTask /\ t.kind = tasks[c].kind /\ t.mounted = tasks[c].mounted /\ t.pc = "wallet"
      BY <1>2 DEF BuyTask
    <2> HIDE DEF t
    <2>3. GuardKnows(guard, tasks, purchases) =>
             /\ guard # Reinvest!NoTx /\ guard = Reinvest!Preparing /\ PendingHere(purchases) = {}
      BY <1>4, <2>1 DEF GuardKnows
    <2>4. GuardKnows(guard, tasks, purchases) => GuardPasses(guard', t, purchases')
      BY <2>1, <2>2, <2>3 DEF GuardPasses
    <2>5. /\ purchases' \in Seq(Purchase) /\ Len(purchases) <= Len(purchases')
          /\ Len(purchases') <= MaxPurchases
          /\ guard' \in Known(purchases') \cup {Reinvest!Preparing}
          /\ kept' \in [Positions -> Known(purchases')] /\ form.submitted \in Known(purchases')
      BY <1>2, <2>1
    <2> QED
      BY <1>2, <1>5, <2>1, <2>2, <2>4, <2>5
  <1>7. CASE Reinvest!Sign(c)
    <2> DEFINE n == Len(purchases) + 1
               t == [tasks[c] EXCEPT !.pc = "sent", !.tx = n]
    <2>1. /\ tasks' = [tasks EXCEPT ![c].pc = "sent", ![c].tx = n] /\ tasks[c].pc = "wallet"
          /\ Reinvest!Sent(c) /\ UNCHANGED <<guard, kept, form>>
      BY <1>7 DEF Reinvest!Sign
    <2>2. n \in Nat
      BY <1>2
    <2>3. /\ purchases' \in Seq(Purchase) /\ Len(purchases') = n
          /\ Len(purchases') <= MaxPurchases /\ n \in DOMAIN purchases'
          /\ Len(purchases) <= Len(purchases')
          /\ PendingHere(purchases') \subseteq PendingHere(purchases) \cup {n}
          /\ Known(purchases) \subseteq Known(purchases')
          /\ Reinvest!Preparing \notin DOMAIN purchases'
      BY <2>1, SentPurchase
    <2> HIDE DEF n
    <2>4. tasks' = [tasks EXCEPT ![c] = t]
      BY <1>2, <2>1
    <2>5. /\ t \in BuyTask /\ t.kind = tasks[c].kind /\ t.mounted = tasks[c].mounted
          /\ t.pc = "sent" /\ t.tx = n
      BY <1>2, <2>2 DEF BuyTask
    <2> HIDE DEF t
    <2>6. GuardKnows(guard, tasks, purchases) =>
             /\ guard # Reinvest!NoTx /\ guard = Reinvest!Preparing /\ PendingHere(purchases) = {}
      BY <1>4, <2>1 DEF GuardKnows
    <2>7. kept' \in [Positions -> Known(purchases')] /\ form.submitted \in Known(purchases')
          /\ guard' \in Known(purchases') \cup {Reinvest!Preparing}
      BY <1>2, <2>1, <2>3
    <2>8. GuardKnows(guard, tasks, purchases) => GuardPasses(guard', t, purchases')
      BY <2>1, <2>3, <2>5, <2>6 DEF GuardPasses
    <2> QED
      BY <1>2, <1>5, <2>1, <2>3, <2>4, <2>5, <2>7, <2>8
  <1>8. CASE Reinvest!Submitted(c)
    <2> DEFINE tx == tasks[c].tx
               t == [tasks[c] EXCEPT !.pc = "receipt"]
               g == [form EXCEPT !.submitted = tx]
    <2>1. /\ tasks' = [tasks EXCEPT ![c] = t] /\ tasks[c].pc = "sent"
          /\ purchases' = purchases /\ guard' = tx
          /\ kept' = [kept EXCEPT ![tasks[c].position] = tx]
          /\ form' = IF tasks[c].mounted THEN g ELSE form
      BY <1>8 DEF Reinvest!Submitted, Reinvest!bond
    <2>2. tx \in DOMAIN purchases /\ tx \in Nat
      BY <1>2, <1>3, <2>1 DEF TasksMatch, BuyTask
    <2>3. /\ t \in BuyTask /\ t.kind = tasks[c].kind /\ t.mounted = tasks[c].mounted
          /\ t.pc = "receipt" /\ t.tx = tx
      BY <1>2 DEF BuyTask
    <2> HIDE DEF t, tx
    <2>4. /\ g \in BuyForm /\ g.quote = form.quote /\ g.position = form.position
          /\ g.amount = form.amount /\ g.submitted = tx /\ g.working = form.working
      BY <1>2, <2>2, Submitting
    <2> HIDE DEF g
    <2>5. tx \in Known(purchases) /\ tx # Reinvest!NoTx
      BY <1>2, <2>2 DEF Known, Reinvest!NoTx
    <2>6. kept' \in [Positions -> Known(purchases)]
      BY <1>2, <2>1, <2>5
    <2>7. GuardKnows(guard, tasks, purchases) => PendingHere(purchases) \subseteq {tx}
      BY <1>4, <2>1 DEF GuardKnows, tx
    <2>8. GuardKnows(guard, tasks, purchases) => GuardPasses(guard', t, purchases')
      BY <2>1, <2>3, <2>5, <2>7 DEF GuardPasses
    <2>9. /\ purchases' \in Seq(Purchase) /\ Len(purchases) <= Len(purchases')
          /\ Len(purchases') <= MaxPurchases /\ t.tx \in DOMAIN purchases'
          /\ guard' \in Known(purchases') \cup {Reinvest!Preparing}
          /\ kept' \in [Positions -> Known(purchases')]
          /\ form.submitted \in Known(purchases') /\ tx \in Known(purchases')
      BY <1>2, <2>1, <2>2, <2>3, <2>5, <2>6
    <2>10. CASE tasks[c].mounted
      <3>1. form' = g
        BY <2>1, <2>10
      <3> QED
        BY <1>5, <2>1, <2>3, <2>4, <2>8, <2>9, <3>1
    <2>11. CASE ~tasks[c].mounted
      <3>1. form' = form
        BY <2>1, <2>11
      <3> QED
        BY <1>2, <1>5, <2>1, <2>3, <2>8, <2>9, <3>1
    <2> QED
      BY <2>10, <2>11
  <1> QED
    BY <1>6, <1>7, <1>8

(* A receipt, awaited by the purchase's own call or looked for by hand: the  *)
(* guard goes when nothing that could send or wait is left.                  *)
LEMMA PurchaseSettles ==
    ASSUME PurchaseInv, NEW c \in BuyTasks, tasks[c].pc # "none",
           Reinvest!Receipt(c) \/ Reinvest!reconcileReinvestment(c)
    PROVE  PurchaseInv'
  <1> DEFINE tx == tasks[c].tx
  <1>1. /\ UNCHANGED <<clock, rewards, boundKeys, purchases, shownRewards, shownKeys>>
        /\ tasks' = [tasks EXCEPT ![c] = Reinvest!NoTask]
        /\ tasks[c].pc \in {"receipt", "reconcile"}
        /\ purchases[tx].status # "pending"
        /\ kept' = kept \/ kept' = [kept EXCEPT ![tasks[c].position] = Reinvest!NoTx]
    BY DEF Reinvest!Receipt, Reinvest!reconcileReinvestment, Reinvest!Ended,
           Reinvest!bond, Reinvest!shown
  <1>2. /\ tasks[c] \in BuyTask /\ tasks \in [BuyTasks -> BuyTask \cup {Reinvest!NoTask}]
        /\ form \in BuyForm /\ form.submitted \in Known(purchases)
        /\ form.quote # Reinvest!NoQuote =>
              IsFor(form.quote.weth, form, shownRewards, shownKeys)
        /\ purchases \in Seq(Purchase) /\ Len(purchases) \in Nat
        /\ Len(purchases) <= MaxPurchases
        /\ guard \in Known(purchases) \cup {Reinvest!Preparing}
        /\ kept \in [Positions -> Known(purchases)] /\ crossed \in BOOLEAN
        /\ crossed \/ GuardKnows(guard, tasks, purchases)
        /\ Reinvest!NoTx \in Known(purchases)
    BY CallFacts
  <1>3. tx \in DOMAIN purchases /\ tx \notin PendingHere(purchases)
    <2>1. TasksMatch(tasks, purchases)
      BY DEF PurchaseInv, CallsInOrder
    <2> QED
      BY <1>1, <2>1 DEF TasksMatch, PendingHere
  <1>4. /\ kept' \in [Positions -> Known(purchases)] /\ Reinvest!NoTx \in Nat
    BY <1>1, <1>2 DEF Reinvest!NoTx
  <1> HIDE DEF tx
  <1>5. ASSUME NEW g \in BuyForm, form' = Answered(tasks[c].mounted, form, g),
               g.submitted \in Known(purchases),
               g.quote # Reinvest!NoQuote => IsFor(g.quote.weth, g, shownRewards, shownKeys),
               guard' \in Known(purchases) \cup {Reinvest!Preparing}, crossed' \in BOOLEAN,
               crossed' \/ GuardKnows(guard', tasks', purchases)
        PROVE  PurchaseInv'
    <2>1. /\ purchases' \in Seq(Purchase) /\ Len(purchases) <= Len(purchases')
          /\ Len(purchases') <= MaxPurchases
          /\ guard' \in Known(purchases') \cup {Reinvest!Preparing}
          /\ kept' \in [Positions -> Known(purchases')] /\ crossed' \in BOOLEAN
          /\ g.submitted \in Known(purchases')
          /\ crossed' \/ GuardKnows(guard', tasks', purchases')
      BY <1>1, <1>2, <1>4, <1>5
    <2>2. UNCHANGED <<clock, rewards, boundKeys, shownRewards, shownKeys>>
      BY <1>1
    <2> QED
      BY <1>1, <1>5, <2>1, <2>2, EndsStep
  <1> DEFINE w == Reinvest!Withdrawn(form)
  <1>6. w \in BuyForm /\ w.quote = Reinvest!NoQuote /\ w.submitted = form.submitted
    BY <1>2, Withdrawing
  <1>7. CASE Reinvest!Receipt(c)
    <2> DEFINE g == [w EXCEPT !.submitted = Reinvest!NoTx]
    <2>1. /\ \/ form' = Answered(tasks[c].mounted, form, g)
             \/ form' = Answered(tasks[c].mounted, form, w)
          /\ guard' = Reinvest!NoTx /\ crossed' = crossed /\ tasks[c].pc = "receipt"
      BY <1>7 DEF Reinvest!Receipt, Reinvest!Tell, Answered
    <2> HIDE DEF w
    <2>2. g \in BuyForm /\ g.quote = Reinvest!NoQuote /\ g.submitted = Reinvest!NoTx
      BY <1>4, <1>6, Submitting
    <2> HIDE DEF g
    <2>3. ASSUME GuardKnows(guard, tasks, purchases)
          PROVE  GuardKnows(guard', tasks', purchases)
      <3>1. c \in Buying(tasks)
        BY <2>1 DEF Buying
      <3>2. PendingHere(purchases) = {}
        <4>1. PendingHere(purchases) \subseteq {tx}
          BY <2>1, <2>3, <3>1 DEF GuardKnows, tx
        <4> QED
          BY <1>3, <4>1
      <3>3. Buying(tasks') = {}
        BY <1>1, <1>2, <2>3, <3>1, BuyingEnds
      <3> QED
        BY <3>2, <3>3, GuardAlone
    <2>4. guard' \in Known(purchases) \cup {Reinvest!Preparing}
      BY <1>2, <2>1
    <2>5. crossed' \/ GuardKnows(guard', tasks', purchases)
      BY <1>2, <2>1, <2>3
    <2> QED
      BY <1>2, <1>5, <1>6, <2>1, <2>2, <2>4, <2>5
  <1>8. CASE Reinvest!reconcileReinvestment(c)
    <2> DEFINE g == [form EXCEPT !.submitted = Reinvest!NoTx]
               waited == \E b \in BuyTasks \ {c} : tasks[b].pc = "receipt" /\ tasks[b].tx = tx
    <2>1. /\ form' = Answered(tasks[c].mounted, form, g) /\ tasks[c].pc = "reconcile"
          /\ guard' = IF guard = tx THEN Reinvest!NoTx ELSE guard
      BY <1>8 DEF Reinvest!reconcileReinvestment, Reinvest!Tell, Answered, tx
    <2>2. crossed' = (crossed \/ waited)
      BY <1>8 DEF Reinvest!reconcileReinvestment, Reinvest!Running, tx
    <2>3. /\ g \in BuyForm /\ g.quote = form.quote /\ g.submitted = Reinvest!NoTx
          /\ g.position = form.position /\ g.amount = form.amount
      BY <1>2, <1>4, Submitting
    <2> HIDE DEF g
    <2>4. g.quote # Reinvest!NoQuote => IsFor(g.quote.weth, g, shownRewards, shownKeys)
      BY <1>2, <2>3 DEF IsFor
    <2>5. ASSUME GuardKnows(guard, tasks, purchases), ~waited
          PROVE  GuardKnows(guard', tasks', purchases)
      <3>1. c \notin Buying(tasks)
        BY <2>1 DEF Buying
      <3>2. GuardKnows(guard, tasks', purchases)
        BY <1>1, <1>2, <2>5, <3>1, BuyingEnds
      <3>3. CASE guard # tx
        BY <2>1, <3>2, <3>3
      <3>4. CASE guard = tx
        <4>1. tx # Reinvest!Preparing /\ PendingHere(purchases) = {}
          <5>1. PendingHere(purchases) \subseteq {tx}
            BY <1>3, <2>5, <3>4 DEF GuardKnows
          <5>2. MaxPurchases \in Nat /\ tx \in 1..Len(purchases)
            BY <1>2, <1>3, InstanceIsProvable DEF Reinvest!ReinvestmentAssumption
          <5> QED
            BY <1>2, <1>3, <5>1, <5>2 DEF Reinvest!Preparing
        <4>2. Buying(tasks) = {}
          <5>1. ASSUME NEW b \in Buying(tasks)
                PROVE  FALSE
            <6>1. tasks[b].pc = "receipt" /\ tasks[b].tx = tx /\ b \in BuyTasks
              BY <2>5, <3>4, <4>1, <5>1 DEF GuardKnows, Buying
            <6>2. b # c
              BY <2>1, <6>1
            <6> QED
              BY <2>5, <6>1, <6>2
          <5> QED
            BY <5>1
        <4>3. Buying(tasks') = {}
          <5>1. \A b \in BuyTasks : tasks'[b] = tasks[b] \/ tasks'[b] = Reinvest!NoTask
            BY <1>1, <1>2
          <5> QED
            BY <4>2, <5>1, NoTaskIsNone DEF Buying
        <4> QED
          BY <2>1, <3>4, <4>1, <4>3, GuardAlone
      <3> QED
        BY <3>3, <3>4
    <2> HIDE DEF waited
    <2>6. crossed' \in BOOLEAN
      BY <2>2
    <2>7. crossed' \/ GuardKnows(guard', tasks', purchases)
      BY <1>2, <2>2, <2>5
    <2>8. guard' \in Known(purchases) \cup {Reinvest!Preparing}
      BY <1>2, <2>1
    <2> QED
      BY <1>2, <1>5, <2>1, <2>3, <2>4, <2>6, <2>7, <2>8
  <1> QED
    BY <1>7, <1>8
(* At first nothing is open.                                                 *)
LEMMA PurchasesStart ==
    ASSUME Reinvest!Init
    PROVE  PurchaseInv
  <1>1. /\ clock = 0 /\ rewards = [p \in Positions |-> Earned] /\ boundKeys = BoundKeys
        /\ purchases = << >> /\ guard = 0 /\ kept = [p \in Positions |-> 0]
        /\ shownRewards = rewards /\ shownKeys = boundKeys /\ form = Reinvest!Closed
        /\ tasks = [c \in BuyTasks |-> Reinvest!NoTask] /\ crossed = FALSE
    BY DEF Reinvest!Init, Reinvest!NoTx
  <1>2. /\ purchases \in Seq(Purchase) /\ Len(purchases) = 0 /\ DOMAIN purchases = {}
        /\ 0 \in Known(purchases)
    BY <1>1 DEF Known
  <1>3. PurchaseTypes
    <2>1. /\ Earned \in Nat /\ BoundKeys \in Nat /\ MaxPurchases \in Nat
      BY InstanceIsProvable DEF Reinvest!ReinvestmentAssumption
    <2>2. rewards \in [Positions -> Nat] /\ kept \in [Positions -> Known(purchases)]
      BY <1>1, <1>2, <2>1
    <2>3. Len(purchases) <= MaxPurchases
      BY <1>2, <2>1
    <2> QED
      BY <1>1, <1>2, <2>1, <2>2, <2>3 DEF PurchaseTypes
  <1>4. \A c \in BuyTasks : tasks[c] = Reinvest!NoTask /\ tasks[c].pc = "none"
    BY <1>1, NoTaskIsNone
  <1>5. Buying(tasks) = {} /\ Heard(tasks) = {}
    BY <1>4 DEF Buying, Heard
  <1>6. CallsInOrder(form, tasks, purchases, shownRewards, shownKeys)
    BY <1>1, <1>2, <1>4, <1>5, ClosedForm DEF CallsInOrder, TasksMatch, FormWaits, QuotesFit
  <1>7. GuardKnows(guard, tasks, purchases)
    BY <1>2, <1>5 DEF GuardKnows, PendingHere
  <1> QED
    BY <1>3, <1>6, <1>7 DEF PurchaseInv

(* A step of another part leaves the purchases where they are.               *)
LEMMA PurchasesRest ==
    ASSUME PurchaseInv, UNCHANGED Reinvest!vars
    PROVE  PurchaseInv'
  <1>1. UNCHANGED <<clock, rewards, boundKeys, purchases, guard, kept, shownRewards, shownKeys,
                    form, tasks, crossed>>
    BY DEF Reinvest!vars, Reinvest!bond, Reinvest!shown
  <1>2. PurchaseTypes'
    BY <1>1 DEF PurchaseInv, PurchaseTypes, Reinvest!Preparing
  <1> QED
    BY <1>1, <1>2 DEF PurchaseInv

\* The cardinality of the module that the instance extends.
LEMMA CardinalityIsTheSame == \A S : Reinvest!Cardinality(S) = Cardinality(S)
  BY DEF Cardinality, Reinvest!Cardinality

(* What the invariant promises.                                              *)
LEMMA OnePurchase ==
    ASSUME PurchaseInv
    PROVE  Reinvest!PurchasesAreGuarded
  <1>1. crossed \/ GuardKnows(guard, tasks, purchases)
    BY DEF PurchaseInv
  <1>2. ASSUME ~crossed
        PROVE  Reinvest!Cardinality(PendingHere(purchases)) <= 1
    <2>1. \A x, y \in PendingHere(purchases) : x = y
      BY <1>1, <1>2 DEF GuardKnows
    <2>2. CASE PendingHere(purchases) = {}
      BY <2>2, CardinalityIsTheSame, FS_EmptySet
    <2>3. CASE PendingHere(purchases) # {}
      <3>1. PICK x : PendingHere(purchases) = {x}
        BY <2>1, <2>3
      <3>2. Cardinality({x}) = 1
        BY FS_Singleton
      <3>3. Cardinality(PendingHere(purchases)) = 1
        BY <3>1, <3>2
      <3> QED
        BY <3>3, CardinalityIsTheSame
    <2> QED
      BY <2>2, <2>3
  <1>3. Reinvest!OnePurchaseAtATime
    BY <1>2 DEF Reinvest!OnePurchaseAtATime, Reinvest!OnePurchasePerPage, PendingHere
  <1>4. Reinvest!QuotesAreCurrent
    BY DEF PurchaseInv, CallsInOrder, QuotesFit, IsFor, Reinvest!QuotesAreCurrent
  <1> QED
    BY <1>3, <1>4 DEF Reinvest!PurchasesAreGuarded

\* Two purchases of the wallet are never open, but for one whose receipt was
\* looked for by hand under its own call, and a quote to accept is one for the
\* amount, the rewards and the Keys on the page: the guard always knows the one
\* call that may send or wait, or the one purchase that is out.
THEOREM PurchasesGuarded == WebSpec => []PurchasesAreGuarded
  <1> DEFINE Inv == part = "reinvest" => PurchaseInv
  <1>1. WebInit => Inv
    BY PurchasesStart DEF WebInit
  <1>2. Inv /\ [WebNext]_webVars => Inv'
    <2> SUFFICES ASSUME PurchaseInv, part = "reinvest", [WebNext]_webVars
                 PROVE  PurchaseInv'
      BY DEF WebNext, webVars
    <2>1. Reinvest!Next \/ UNCHANGED Reinvest!vars
      BY DEF WebNext, webVars, purchaseVars, Reinvest!vars, Reinvest!bond, Reinvest!shown
    <2>2. CASE UNCHANGED Reinvest!vars
      BY <2>2, PurchasesRest
    <2>3. CASE Reinvest!Next
      <3>1. CASE \E c \in BuyTasks : Reinvest!Running(c) /\ Reinvest!TaskStep(c)
        BY <3>1, QuoteSteps, PurchaseGivesUp, WalletUnclearStep, PurchaseMoves, PurchaseSettles
        DEF Reinvest!Running, Reinvest!TaskStep
      <3> QED
        BY <2>3, <3>1, WorldSteps, MineStep, PageReads, PageSteps, FormUsed, ExecuteStep
        DEF Reinvest!Next
    <2> QED
      BY <2>1, <2>2, <2>3
  <1>3. Inv => PurchasesAreGuarded
    BY OnePurchase DEF PurchasesAreGuarded
  <1> QED
    BY <1>1, <1>2, <1>3, PTL DEF WebSpec

------------------------------------------------------------------------------
(* Watchlist.                                                                *)

WatchState == [agentIds : SUBSET Muppets, alertsReadThrough : Nat]
Troubles == {"health", "range", "oracle", "unavailable"}
Positive == Nat \ {0}
Summary == {Watch!NoSummary} \cup [observed : Positive, troubles : SUBSET Troubles, failed : Nat]
PulseItem ==
    [source : {"pulse"}, kind : {"item"}, agent : Muppets \cup {Watch!Reserve}, time : Positive]
LoadedRecords == [summaries : [Muppets -> Summary], pulse : SUBSET PulseItem]

WatchTypes ==
    /\ now \in Positive
    /\ stored \in WatchState
    /\ copies \in [Windows -> WatchState]
    /\ unheard \subseteq Windows
    /\ summaries \in [Muppets -> Summary]
    /\ pulse \subseteq PulseItem
    /\ loaded \in [Monitors -> LoadedRecords]

WatchInv ==
    /\ WatchTypes
    /\ stored.agentIds = follows
    /\ stored.alertsReadThrough = marked
    /\ \A w \in Windows : w \notin unheard => copies[w] = stored

(* The panels of a page agree whatever list and records it has.              *)
LEMMA PanelsOfRecords ==
    ASSUME WatchTypes, NEW w \in Monitors
    PROVE  Watch!PanelsAgree(w)
  <1> DEFINE ids == copies[w].agentIds
             read == copies[w].alertsReadThrough
             recs == loaded[w].summaries
             alerts == Watch!buildMonitorAlerts(w)
             rows == Watch!followed(w)
  <1>1. /\ ids \subseteq Muppets /\ read \in Nat
        /\ \A m \in Muppets : recs[m] \in Summary
        /\ loaded[w].pulse \subseteq PulseItem
    <2>1. w \in Windows
      BY InstanceIsProvable DEF Watch!WatchlistAssumption
    <2>2. copies[w] \in WatchState /\ loaded[w] \in LoadedRecords
      BY <2>1 DEF WatchTypes
    <2> QED
      BY <2>2 DEF WatchState, LoadedRecords
  <1>2. /\ rows = {m \in ids : recs[m] # Watch!NoSummary}
        /\ Watch!missingRecords(w) = {m \in ids : recs[m] = Watch!NoSummary}
    BY DEF Watch!followed, Watch!missingRecords
  <1>3. \A m \in rows : /\ recs[m].observed \in Positive /\ recs[m].failed \in Nat
                        /\ recs[m] \in Summary
    BY <1>1, <1>2 DEF Summary
  <1>4. alerts = (UNION {Watch!marketAlerts(m, recs[m]) : m \in rows})
                 \cup {item \in loaded[w].pulse : item.agent \in ids \cup {Watch!Reserve}}
    BY DEF Watch!buildMonitorAlerts
  <1> HIDE DEF alerts, rows, recs, ids, read
  <1>5. \A m \in rows : \A a \in Watch!marketAlerts(m, recs[m]) :
           /\ a \in alerts /\ a.source = "market" /\ a.agent = m /\ a.time \in Positive
    <2> SUFFICES ASSUME NEW m \in rows, NEW a \in Watch!marketAlerts(m, recs[m])
                 PROVE  /\ a \in alerts /\ a.source = "market" /\ a.agent = m
                        /\ a.time \in Positive
      OBVIOUS
    <2>1. a \in alerts
      BY ONLY <1>4, m \in rows, a \in Watch!marketAlerts(m, recs[m])
    <2>2. \/ \E kind \in recs[m].troubles : a = [source |-> "market", kind |-> kind, agent |-> m,
                                                time |-> recs[m].observed]
          \/ /\ recs[m].failed # 0
             /\ a = [source |-> "market", kind |-> "refresh", agent |-> m, time |-> recs[m].failed]
      BY DEF Watch!marketAlerts
    <2>3. CASE recs[m].failed # 0 /\ a = [source |-> "market", kind |-> "refresh", agent |-> m,
                                          time |-> recs[m].failed]
      BY <1>3, <2>1, <2>3 DEF Positive
    <2>4. CASE \E kind \in recs[m].troubles : a = [source |-> "market", kind |-> kind, agent |-> m,
                                                  time |-> recs[m].observed]
      BY <1>3, <2>1, <2>4
    <2> QED
      BY <2>2, <2>3, <2>4
  <1>6. \A a \in alerts : \/ a \in PulseItem
                          \/ \E m \in rows : a \in Watch!marketAlerts(m, recs[m])
    BY <1>1, <1>4
  <1>7. \A a \in alerts : a.time \in Positive /\ (a \in PulseItem => a.source = "pulse")
    BY <1>5, <1>6 DEF PulseItem
  <1>8. \A m \in rows : Watch!marketAlerts(m, recs[m]) # {} <=> Watch!summaryNeedsAttention(recs[m])
    BY DEF Watch!marketAlerts, Watch!summaryNeedsAttention
  <1>9. Watch!Attention(w) = {m \in rows : Watch!summaryNeedsAttention(recs[m])}
    BY DEF Watch!Attention, rows, recs
  <1>10. rows \cup Watch!missingRecords(w) = ids
    BY <1>2
  <1>11. \A m \in rows : m \in ids
    BY <1>2
  <1>12. \A m \in rows : recs[m].failed # 0 => \E a \in alerts : a.agent = m /\ a.kind = "refresh"
    <2> SUFFICES ASSUME NEW m \in rows, recs[m].failed # 0
                 PROVE  \E a \in alerts : a.agent = m /\ a.kind = "refresh"
      OBVIOUS
    <2> DEFINE a == [source |-> "market", kind |-> "refresh", agent |-> m, time |-> recs[m].failed]
    <2>1. a \in Watch!marketAlerts(m, recs[m])
      BY DEF Watch!marketAlerts
    <2>2. a.agent = m /\ a.kind = "refresh"
      OBVIOUS
    <2> HIDE DEF a
    <2> QED
      BY <1>5, <2>1, <2>2
  <1>13. Watch!Attention(w) = {a.agent : a \in {b \in alerts : b.source = "market"}}
    <2>1. ASSUME NEW m \in Watch!Attention(w)
          PROVE  m \in {a.agent : a \in {b \in alerts : b.source = "market"}}
      <3>1. PICK a \in Watch!marketAlerts(m, recs[m]) : TRUE
        BY <1>8, <1>9
      <3>2. a \in alerts /\ a.source = "market" /\ a.agent = m
        BY <1>5, <1>9, <3>1
      <3> QED
        BY <3>2
    <2>2. ASSUME NEW a \in alerts, a.source = "market"
          PROVE  a.agent \in Watch!Attention(w)
      <3>1. PICK m \in rows : a \in Watch!marketAlerts(m, recs[m])
        BY <1>6, <1>7, <2>2
      <3>2. a.agent = m /\ Watch!summaryNeedsAttention(recs[m])
        BY <1>5, <1>8, <3>1
      <3> QED
        BY <1>9, <3>2
    <2> QED
      BY <2>1, <2>2
  <1>14. Watch!Unread(w) # {} <=> \E a \in alerts : read < a.time
    <2>1. Watch!Unread(w) = {a \in alerts : read = 0 \/ a.time > read}
      BY DEF Watch!Unread, Watch!alertIsUnread, alerts, read
    <2>2. \A a \in alerts : (read = 0 \/ a.time > read) <=> read < a.time
      <3>1. \A a \in alerts : a.time \in Nat /\ a.time # 0
        BY <1>7 DEF Positive
      <3> QED
        BY <1>1, <3>1
    <2> QED
      BY <2>1, <2>2
  <1>15. {m \in rows : m \in Watch!Attention(w)} = Watch!Attention(w)
    BY <1>9
  <1> QED
    BY <1>10, <1>11, <1>12, <1>13, <1>14, <1>15
    DEF Watch!PanelsAgree, Watch!AlertsPanel, Watch!WatchlistPanel, Watch!WatchlistRow,
        alerts, rows, recs, ids, read

(* A tab's own write leaves its list and the storage in step.                *)
LEMMA Committed ==
    ASSUME WatchInv, NEW w \in Windows, NEW state \in WatchState, Watch!commit(w, state)
    PROVE  /\ stored' = state /\ copies' \in [Windows -> WatchState] /\ unheard' \subseteq Windows
           /\ \A v \in Windows : v \notin unheard' => copies'[v] = stored'
  <1>1. /\ stored' = state
        /\ copies' = [copies EXCEPT ![w] = state]
        /\ unheard' = IF state = stored THEN unheard ELSE (unheard \cup Windows) \ {w}
    BY DEF Watch!commit
  <1>2. copies \in [Windows -> WatchState] /\ unheard \subseteq Windows
    BY DEF WatchInv, WatchTypes
  <1>3. copies' \in [Windows -> WatchState] /\ unheard' \subseteq Windows
    BY <1>1, <1>2
  <1>4. ASSUME NEW v \in Windows, v \notin unheard'
        PROVE  copies'[v] = stored'
    <2>1. CASE v = w
      BY <1>1, <1>2, <2>1
    <2>2. CASE v # w
      <3>1. state = stored /\ v \notin unheard
        BY <1>1, <1>4, <2>2
      <3>2. copies[v] = stored
        BY <3>1 DEF WatchInv
      <3> QED
        BY <1>1, <1>2, <2>2, <3>1, <3>2
    <2> QED
      BY <2>1, <2>2
  <1> QED
    BY <1>1, <1>3, <1>4

(* A follow button changes the stored list as the holder chose.              *)
LEMMA FollowToggled ==
    ASSUME WatchInv, NEW w \in Windows, NEW m \in Muppets, Watch!toggle(w, m)
    PROVE  WatchInv'
  <1> DEFINE following == m \notin copies[w].agentIds
             next == Watch!withAgentFollow(Watch!CurrentState(w), m, following)
  <1>1. /\ Watch!commit(w, next)
        /\ follows' = IF ~following THEN follows \ {m}
                      ELSE IF Watch!Cardinality(follows \cup {m}) <= MaxFollows THEN follows \cup {m}
                      ELSE follows
        /\ UNCHANGED <<now, summaries, pulse, loaded, marked>>
    BY DEF Watch!toggle, Watch!records
  <1>2. stored \in WatchState /\ stored.agentIds = follows /\ stored.alertsReadThrough = marked
    BY DEF WatchInv, WatchTypes
  <1>3. next \in WatchState /\ next.agentIds = follows' /\ next.alertsReadThrough = marked
    BY <1>1, <1>2 DEF WatchState, Watch!withAgentFollow, Watch!CurrentState
  <1> HIDE DEF next, following
  <1>4. /\ stored' = next /\ copies' \in [Windows -> WatchState] /\ unheard' \subseteq Windows
        /\ \A v \in Windows : v \notin unheard' => copies'[v] = stored'
    BY <1>1, <1>3, Committed
  <1> QED
    BY <1>1, <1>3, <1>4 DEF WatchInv, WatchTypes

(* "Mark all read" moves the time and keeps the list.                        *)
LEMMA AlertsMarked ==
    ASSUME WatchInv, NEW w \in Windows, Watch!markAlertsRead(w)
    PROVE  WatchInv'
  <1> DEFINE next == Watch!withAlertsReadThrough(Watch!CurrentState(w), now)
  <1>1. /\ Watch!commit(w, next) /\ marked' = now
        /\ UNCHANGED <<now, summaries, pulse, loaded, follows>>
    BY DEF Watch!markAlertsRead, Watch!records
  <1>2. stored \in WatchState /\ stored.agentIds = follows /\ now \in Nat
    BY DEF WatchInv, WatchTypes, Positive
  <1>3. next \in WatchState /\ next.agentIds = follows /\ next.alertsReadThrough = marked'
    BY <1>1, <1>2 DEF WatchState, Watch!withAlertsReadThrough, Watch!CurrentState
  <1> HIDE DEF next
  <1>4. /\ stored' = next /\ copies' \in [Windows -> WatchState] /\ unheard' \subseteq Windows
        /\ \A v \in Windows : v \notin unheard' => copies'[v] = stored'
    BY <1>1, <1>3, Committed
  <1> QED
    BY <1>1, <1>3, <1>4 DEF WatchInv, WatchTypes

(* A tab that hears of a write, or is reloaded, shows what is stored.        *)
LEMMA TabsCatchUp ==
    ASSUME WatchInv, NEW w \in Windows, Watch!onStorage(w) \/ Watch!Open(w)
    PROVE  WatchInv'
  <1>1. /\ copies' = [copies EXCEPT ![w] = stored]
        /\ unheard' = unheard \ {w}
        /\ UNCHANGED <<now, stored, summaries, pulse, follows, marked>>
    BY DEF Watch!onStorage, Watch!Open, Watch!records
  <1>2. loaded' = loaded \/ loaded' = [v \in Monitors |-> IF v = w THEN Watch!NothingLoaded ELSE loaded[v]]
    BY DEF Watch!onStorage, Watch!Open
  <1>3. Watch!NothingLoaded \in LoadedRecords
    BY DEF Watch!NothingLoaded, LoadedRecords, Summary
  <1>4. loaded \in [Monitors -> LoadedRecords]
    BY DEF WatchInv, WatchTypes
  <1> HIDE DEF LoadedRecords
  <1>5. loaded' \in [Monitors -> LoadedRecords]
    BY <1>2, <1>3, <1>4
  <1>6. /\ stored \in WatchState /\ copies \in [Windows -> WatchState] /\ unheard \subseteq Windows
        /\ \A v \in Windows : v \notin unheard => copies[v] = stored
    BY DEF WatchInv, WatchTypes
  <1> HIDE DEF WatchState
  <1>7. copies' \in [Windows -> WatchState] /\ unheard' \subseteq Windows
    BY <1>1, <1>6
  <1>8. \A v \in Windows : v \notin unheard' => copies'[v] = stored'
    BY <1>1, <1>6
  <1> QED
    BY <1>1, <1>5, <1>7, <1>8 DEF WatchInv, WatchTypes

(* What the backend records is of its form.                                  *)
LEMMA MarketObserved ==
    ASSUME WatchInv, NEW m \in Tracked, Watch!Observed(m)
    PROVE  WatchInv'
  <1>1. PICK found \in Watch!Findings \cup {Watch!Unreadable} :
          summaries' = [summaries EXCEPT ![m] =
             IF found = Watch!Unreadable /\ @ # Watch!NoSummary /\ @.troubles # Watch!Unreadable
             THEN [@ EXCEPT !.failed = now]
             ELSE [observed |-> now, troubles |-> found, failed |-> 0]]
    BY DEF Watch!Observed
  <1>2. UNCHANGED <<now, stored, copies, unheard, pulse, loaded, follows, marked>>
    BY DEF Watch!Observed
  <1>3. found \subseteq Troubles
    BY DEF Watch!Findings, Watch!Unreadable, Troubles
  <1>4. now \in Positive /\ now \in Nat /\ summaries \in [Muppets -> Summary]
    BY DEF WatchInv, WatchTypes, Positive
  <1>5. \A s \in Summary :
          s # Watch!NoSummary => [s EXCEPT !.failed = now] \in Summary
    BY <1>4 DEF Summary
  <1>6. [observed |-> now, troubles |-> found, failed |-> 0] \in Summary
    BY <1>3, <1>4 DEF Summary
  <1> HIDE DEF Summary
  <1>7. summaries' \in [Muppets -> Summary]
    BY <1>1, <1>4, <1>5, <1>6
  <1> QED
    BY <1>2, <1>7 DEF WatchInv, WatchTypes

\* A pulse of the reserve or of a market makes alerts and chooses nothing.
LEMMA PulseReported ==
    ASSUME WatchInv, NEW m \in Muppets \cup {Watch!Reserve}, Watch!Reported(m)
    PROVE  WatchInv'
  <1>1. /\ pulse' = pulse \cup {[source |-> "pulse", kind |-> "item", agent |-> m, time |-> now]}
        /\ UNCHANGED <<now, stored, copies, unheard, summaries, loaded, follows, marked>>
    BY DEF Watch!Reported
  <1>2. pulse' \subseteq PulseItem
    BY <1>1 DEF WatchInv, WatchTypes, PulseItem
  <1> QED
    BY <1>1, <1>2 DEF WatchInv, WatchTypes

(* A load keeps what it could not read and takes the rest as recorded.       *)
LEMMA RecordsLoaded ==
    ASSUME WatchInv, NEW w \in Monitors, Watch!load(w)
    PROVE  WatchInv'
  <1>1. PICK failures \in SUBSET {"watchlist records", "alert receipts"} :
          loaded' = [loaded EXCEPT
             ![w].summaries = IF "watchlist records" \in failures THEN @ ELSE summaries,
             ![w].pulse = IF "alert receipts" \in failures THEN @ ELSE pulse]
    BY DEF Watch!load
  <1>2. UNCHANGED <<now, stored, copies, unheard, summaries, pulse, follows, marked>>
    BY DEF Watch!load, Watch!records
  <1>3. /\ loaded \in [Monitors -> LoadedRecords]
        /\ summaries \in [Muppets -> Summary] /\ pulse \subseteq PulseItem
    BY DEF WatchInv, WatchTypes
  <1> HIDE DEF Summary, PulseItem
  <1>4. loaded' \in [Monitors -> LoadedRecords]
    BY <1>1, <1>3 DEF LoadedRecords
  <1> QED
    BY <1>2, <1>4 DEF WatchInv, WatchTypes

\* At first every tab has what is stored.
LEMMA WatchStart ==
    ASSUME Watch!Init
    PROVE  WatchInv
  BY DEF Watch!Init, WatchInv, WatchTypes, Watch!EmptyState, Watch!NoSummary, Watch!NothingLoaded,
         WatchState, Positive, Summary, LoadedRecords

\* A step of another part leaves the watchlist alone.
LEMMA WatchRest ==
    ASSUME WatchInv, UNCHANGED Watch!vars
    PROVE  WatchInv'
  BY DEF Watch!vars, Watch!records, WatchInv, WatchTypes

\* Every step of tabs, storage and backend keeps the invariant.
LEMMA WatchStep ==
    ASSUME WatchInv, Watch!Next
    PROVE  WatchInv'
  <1>1. CASE Watch!Tick
    BY <1>1 DEF Watch!Tick, Watch!records, WatchInv, WatchTypes, Positive
  <1> QED
    BY <1>1, FollowToggled, AlertsMarked, TabsCatchUp, MarketObserved, PulseReported, RecordsLoaded
    DEF Watch!Next

(* What the browser keeps is what the holder last chose in any of its tabs,  *)
(* for every number of tabs, Muppets and Monitor pages, and the panels of a  *)
(* Monitor page agree with one another.                                      *)
THEOREM FollowsKept == WebSpec => []FollowsAreKept
  <1> DEFINE Inv == part = "watch" => WatchInv
  <1>1. WebInit => Inv
    BY WatchStart DEF WebInit
  <1>2. Inv /\ [WebNext]_webVars => Inv'
    <2> SUFFICES ASSUME Inv, [WebNext]_webVars, part' = "watch"
                 PROVE  WatchInv'
      OBVIOUS
    <2>1. part = "watch" /\ WatchInv
      BY DEF WebNext, webVars
    <2>2. Watch!Next \/ UNCHANGED Watch!vars
      BY <2>1 DEF WebNext, webVars, watchVars, Watch!vars, Watch!records
    <2> QED
      BY <2>1, <2>2, WatchStep, WatchRest
  <1>3. Inv => FollowsAreKept
    <2>1. ASSUME WatchInv
          PROVE  Watch!FollowsAreKept
      BY <2>1, PanelsOfRecords DEF WatchInv, Watch!FollowsAreKept
    <2> QED
      BY <2>1 DEF FollowsAreKept
  <1> QED
    BY <1>1, <1>2, <1>3, PTL DEF WebSpec

------------------------------------------------------------------------------
(* Polled views.                                                             *)

UnderWay ==
    [pc : {"asked", "served"}, current : BOOLEAN, subject : Subjects \cup {1},
     nth : Positive, facts : Nat]
AskRecords == {Views!NoAsk} \cup UnderWay

(* What the styles of the views have in common: those that wait for their    *)
(* own requests ignore the others', and those that hear all stay with one.   *)
StyleFits(v) ==
    /\ v.single => v.scoped
    /\ ~v.scoped => v.turns \subseteq {Views!Home}

ViewTypes ==
    /\ StyleFits(viewed)
    /\ subject \in Subjects \cup {1}
    /\ facts \in Nat /\ asked \in Nat
    /\ asks \in [Asks -> AskRecords]
    /\ showing.nth \in Nat /\ showing.facts \in Nat
    /\ loading \in BOOLEAN /\ failed \in BOOLEAN

(* What is under way is of the past and, when heard, about the subject; the  *)
(* answer on display is no later than anything a waiting view still hears.   *)
AsksFit ==
    /\ ~viewed.scoped => subject = Views!Home
    /\ showing.nth <= asked /\ showing.facts <= facts
    /\ \A a \in Asks : asks[a].pc # "none" =>
          /\ asks[a].nth <= asked /\ asks[a].facts <= facts
          /\ Views!Heard(a) => asks[a].subject = subject
    /\ viewed.single => \A a \in Asks : asks[a].current =>
          /\ asks[a].nth > showing.nth
          /\ asks[a].pc = "served" => asks[a].facts >= showing.facts
          /\ \A b \in Asks : asks[b].current => a = b

ViewsInv ==
    /\ ViewTypes
    /\ AsksFit
    /\ Views!ScreensAreHonest

\* The views of the seven pages have the traits the theorem needs.
LEMMA StylesFit == \A v \in Views!Views : StyleFits(v)
  <1> DEFINE Times == {"first", "load", "effect", "never"}
             Styles == [single : BOOLEAN, scoped : BOOLEAN, timed : BOOLEAN,
                        turns : SUBSET (Subjects \cup {1}), reading : Times, told : BOOLEAN,
                        patient : BOOLEAN]
             Fit(v) == v \in Styles /\ StyleFits(v)
  <1>1. \A single, scoped, timed \in BOOLEAN, turns \in SUBSET (Subjects \cup {1}) :
          /\ single => scoped
          /\ ~scoped => turns \subseteq {1}
          => Fit(Views!Style(single, scoped, timed, turns))
    BY DEF StyleFits, Views!Style, Views!Home
  <1>2. \A v \in Styles, when \in Times : StyleFits(v) => Fit(Views!Reading(v, when))
    BY DEF StyleFits, Views!Reading
  <1>3. \A v \in Styles : StyleFits(v) => Fit(Views!Patient(v))
    BY DEF StyleFits, Views!Patient
  <1>4. \A v \in Styles : StyleFits(v) => Fit(Views!Silent(v))
    BY DEF StyleFits, Views!Silent
  <1>5. \A v, when : Fit(v) /\ when \in Times => Fit(Views!Reading(v, when))
    BY <1>2
  <1>6. \A v : Fit(v) => Fit(Views!Patient(v)) /\ Fit(Views!Silent(v))
    BY <1>3, <1>4
  <1>7. TRUE \in BOOLEAN /\ FALSE \in BOOLEAN
    OBVIOUS
  <1>8. Subjects \in SUBSET (Subjects \cup {1}) /\ {} \in SUBSET (Subjects \cup {1})
        /\ {1} \in SUBSET (Subjects \cup {1})
    OBVIOUS
  <1>9. "load" \in Times /\ "effect" \in Times /\ "never" \in Times
    OBVIOUS
  <1> HIDE DEF Fit, Times
  <1>10. /\ Fit(Views!Style(TRUE, TRUE, TRUE, Subjects)) /\ Fit(Views!Style(TRUE, TRUE, TRUE, {}))
         /\ Fit(Views!Style(FALSE, TRUE, TRUE, Subjects)) /\ Fit(Views!Style(FALSE, TRUE, TRUE, {}))
         /\ Fit(Views!Style(FALSE, TRUE, FALSE, Subjects))
         /\ Fit(Views!Style(FALSE, TRUE, FALSE, {}))
         /\ Fit(Views!Style(FALSE, FALSE, TRUE, {1})) /\ Fit(Views!Style(FALSE, FALSE, TRUE, {}))
    BY <1>1, <1>7, <1>8
  <1>11. /\ Fit(Views!Revenue) /\ Fit(Views!PerformanceTable) /\ Fit(Views!StockDropList)
         /\ Fit(Views!CreatorProfile) /\ Fit(Views!LaunchPerformance) /\ Fit(Views!ActivityRail)
         /\ Fit(Views!RwaReserve) /\ Fit(Views!Proof) /\ Fit(Views!Monitor)
         /\ Fit(Views!MuppetPerformance) /\ Fit(Views!SystemPulse) /\ Fit(Views!FundingTarget)
         /\ Fit(Views!Proofs)
    BY <1>5, <1>6, <1>9, <1>10
    DEF Views!Revenue, Views!PerformanceTable, Views!SystemPulse, Views!StockDropList,
        Views!CreatorProfile, Views!FundingTarget, Views!LaunchPerformance, Views!ActivityRail,
        Views!RwaReserve, Views!Proofs, Views!Proof, Views!Monitor, Views!MuppetPerformance,
        Views!Home
  <1>12. \A v \in Views!Views : Fit(v)
    BY <1>11 DEF Views!Views
  <1> QED
    BY <1>12 DEF Fit

(* A request takes a place that is free and leaves the others alone.         *)
LEMMA Requested ==
    ASSUME ViewTypes, NEW others \in [Asks -> AskRecords], NEW s \in Subjects \cup {1},
           Views!request(others, s)
    PROVE  /\ asked' = asked + 1
           /\ \E a \in Asks :
                /\ others[a].pc = "none"
                /\ asks' \in [Asks -> AskRecords]
                /\ asks'[a].pc = "asked" /\ asks'[a].current /\ asks'[a].subject = s
                /\ asks'[a].nth = asked + 1 /\ asks'[a].facts = 0
                /\ \A b \in Asks : b # a => asks'[b] = others[b]
  <1>1. PICK a \in Asks : /\ others[a].pc = "none"
                          /\ asks' = [others EXCEPT ![a] = Views!Request(s, asked + 1)]
    BY DEF Views!request
  <1>2. asked' = asked + 1 /\ asked \in Nat
    BY DEF Views!request, ViewTypes
  <1>3. Views!Request(s, asked + 1) \in AskRecords
    <2>1. asked + 1 \in Positive
      BY <1>2 DEF Positive
    <2> QED
      BY <2>1 DEF Views!Request, AskRecords, UnderWay
  <1>4. /\ asks' \in [Asks -> AskRecords] /\ asks'[a] = Views!Request(s, asked + 1)
        /\ \A b \in Asks : b # a => asks'[b] = others[b]
    BY <1>1, <1>3
  <1> QED
    BY <1>1, <1>2, <1>4 DEF Views!Request

(* The timer asks again only when nothing it waits for is under way.         *)
LEMMA ViewAsks ==
    ASSUME ViewsInv, Views!Ask
    PROVE  ViewsInv' /\ showing' = showing
  <1>1. /\ ViewTypes /\ AsksFit /\ Views!ScreensAreHonest
        /\ Views!Waiting(viewed) /\ Views!request(asks, subject)
        /\ loading' = (loading \/ viewed.reading = "load")
        /\ UNCHANGED <<viewed, subject, facts, showing, failed>>
    BY DEF ViewsInv, Views!Ask
  <1>2. /\ asks \in [Asks -> AskRecords] /\ subject \in Subjects \cup {1} /\ asked \in Nat
        /\ facts \in Nat /\ showing.nth \in Nat /\ showing.facts \in Nat
    BY <1>1 DEF ViewTypes
  <1>3. PICK a \in Asks :
          /\ asks[a].pc = "none" /\ asks' \in [Asks -> AskRecords]
          /\ asks'[a].pc = "asked" /\ asks'[a].current /\ asks'[a].subject = subject
          /\ asks'[a].nth = asked + 1 /\ asks'[a].facts = 0
          /\ \A b \in Asks : b # a => asks'[b] = asks[b]
    BY <1>1, <1>2, Requested
  <1>4. asked' = asked + 1
    BY <1>1, <1>2, Requested
  <1>5. ViewTypes'
    BY <1>1, <1>2, <1>3, <1>4 DEF ViewTypes
  <1>6. AsksFit'
    <2>1. ~viewed.scoped => subject = Views!Home
      BY <1>1 DEF AsksFit
    <2>2. showing.nth <= asked + 1 /\ showing.facts <= facts /\ showing.nth < asked + 1
      BY <1>1, <1>2 DEF AsksFit
    <2>3. \A b \in Asks : asks'[b].pc # "none" =>
             /\ asks'[b].nth <= asked + 1 /\ asks'[b].facts <= facts
             /\ Views!Heard(b)' => asks'[b].subject = subject
      <3> TAKE b \in Asks
      <3>1. CASE b = a
        BY <1>2, <1>3, <3>1
      <3>2. CASE b # a
        <4>1. asks'[b] = asks[b] /\ (Views!Heard(b)' <=> Views!Heard(b))
          BY <1>1, <1>3, <3>2 DEF Views!Heard
        <4>2. asks[b] \in AskRecords
          BY <1>2
        <4>3. asks[b].pc # "none" => asks[b].nth \in Nat /\ asks[b].facts \in Nat
          BY <4>2 DEF AskRecords, UnderWay, Views!NoAsk, Positive
        <4> QED
          BY <1>1, <1>2, <4>1, <4>3 DEF AsksFit
      <3> QED
        BY <3>1, <3>2
    <2>4. viewed.single => \A b \in Asks : asks'[b].current => b = a
      BY <1>1, <1>3 DEF Views!Waiting
    <2> QED
      BY <1>1, <1>3, <1>4, <2>1, <2>2, <2>3, <2>4 DEF AsksFit
  <1>7. Views!ScreensAreHonest'
    <2>1. Views!Heard(a)'
      BY <1>3 DEF Views!Heard
    <2> QED
      BY <1>1, <1>3, <2>1 DEF Views!ScreensAreHonest, Views!Screen, Views!Ready
  <1> QED
    BY <1>1, <1>5, <1>6, <1>7 DEF ViewsInv

(* What a record of a request holds, with its fields named.                  *)
LEMMA AskFields ==
    ASSUME ViewTypes, NEW a \in Asks
    PROVE  /\ asks[a].current => asks[a].pc # "none"
           /\ asks[a].pc # "none" => /\ asks[a].nth \in Nat /\ asks[a].nth # 0
                                     /\ asks[a].facts \in Nat /\ asks[a].current \in BOOLEAN
                                     /\ asks[a].subject \in Subjects \cup {1}
           /\ asks[a].pc = "none" => asks[a] = Views!NoAsk
  <1>1. asks[a] = Views!NoAsk \/ asks[a] \in UnderWay
    BY DEF ViewTypes, AskRecords
  <1>2. CASE asks[a] = Views!NoAsk
    BY <1>2 DEF Views!NoAsk
  <1>3. CASE asks[a] \in UnderWay
    BY <1>3 DEF UnderWay, Positive
  <1> QED
    BY <1>1, <1>2, <1>3

(* A new effect: what was asked before is not heard any more.                *)
LEMMA ViewTurns ==
    ASSUME ViewsInv, NEW s \in Subjects, Views!Turn(s)
    PROVE  ViewsInv' /\ showing' = showing
  <1> DEFINE others == [a \in Asks |-> [asks[a] EXCEPT !.current = FALSE]]
  <1>1. /\ ViewTypes /\ AsksFit /\ Views!ScreensAreHonest
        /\ s \in viewed.turns /\ subject' = s
        /\ Views!request(others, s)
        /\ loading' = (loading \/ viewed.reading \in {"load", "effect"})
        /\ UNCHANGED <<viewed, facts, showing, failed>>
    BY DEF ViewsInv, Views!Turn
  <1>2. /\ asks \in [Asks -> AskRecords] /\ asked \in Nat
        /\ facts \in Nat /\ showing.nth \in Nat /\ showing.facts \in Nat
    BY <1>1 DEF ViewTypes
  <1>3. \A a \in Asks :
          /\ others[a] \in AskRecords /\ others[a].pc = asks[a].pc /\ ~others[a].current
          /\ others[a].pc # "none" => /\ others[a].nth = asks[a].nth /\ others[a].facts = asks[a].facts
                                      /\ others[a].subject = asks[a].subject
    <2>1. \A r \in AskRecords :
            LET n == [r EXCEPT !.current = FALSE] IN
            /\ n \in AskRecords /\ n.pc = r.pc /\ n.current = FALSE
            /\ r.pc # "none" => n.nth = r.nth /\ n.facts = r.facts /\ n.subject = r.subject
      <3>1. LET n == [Views!NoAsk EXCEPT !.current = FALSE] IN
            n = Views!NoAsk /\ Views!NoAsk.pc = "none" /\ Views!NoAsk.current = FALSE
        <4> DEFINE Idle == [pc : {"none"}, current : {FALSE}]
        <4>1. Views!NoAsk \in Idle /\ \A r \in Idle : [r EXCEPT !.current = FALSE] \in Idle
          BY DEF Views!NoAsk
        <4>2. \A r \in Idle : r = [pc |-> r.pc, current |-> r.current]
          OBVIOUS
        <4>3. \A r \in Idle : r = Views!NoAsk
          BY <4>2 DEF Views!NoAsk
        <4>4. Views!NoAsk.pc = "none" /\ Views!NoAsk.current = FALSE
          BY DEF Views!NoAsk
        <4> HIDE DEF Idle
        <4> QED
          BY <4>1, <4>3, <4>4
      <3>2. \A r \in UnderWay :
              LET n == [r EXCEPT !.current = FALSE] IN
              /\ n \in UnderWay /\ n.pc = r.pc /\ n.current = FALSE
              /\ n.nth = r.nth /\ n.facts = r.facts /\ n.subject = r.subject
        BY DEF UnderWay
      <3> QED
        BY <3>1, <3>2 DEF AskRecords
    <2> QED
      BY <1>2, <2>1
  <1>4. others \in [Asks -> AskRecords]
    BY <1>3
  <1> HIDE DEF others
  <1>5. PICK a \in Asks :
          /\ others[a].pc = "none" /\ asks' \in [Asks -> AskRecords]
          /\ asks'[a].pc = "asked" /\ asks'[a].current /\ asks'[a].subject = s
          /\ asks'[a].nth = asked + 1 /\ asks'[a].facts = 0
          /\ \A b \in Asks : b # a => asks'[b] = others[b]
    BY <1>1, <1>4, Requested
  <1>6. asked' = asked + 1
    BY <1>1, <1>4, Requested
  <1>7. ViewTypes'
    BY <1>1, <1>2, <1>5, <1>6 DEF ViewTypes
  <1>8. ~viewed.scoped => subject' = Views!Home /\ subject = Views!Home
    BY <1>1 DEF AsksFit, ViewTypes, StyleFits
  <1>9. AsksFit'
    <2>1. showing.nth <= asked + 1 /\ showing.facts <= facts /\ showing.nth < asked + 1
      BY <1>1, <1>2 DEF AsksFit
    <2>2. \A b \in Asks : asks'[b].pc # "none" =>
             /\ asks'[b].nth <= asked + 1 /\ asks'[b].facts <= facts
             /\ Views!Heard(b)' => asks'[b].subject = s
      <3> TAKE b \in Asks
      <3>1. CASE b = a
        BY <1>2, <1>5, <3>1
      <3>2. CASE b # a
        <4>1. /\ asks'[b].pc = asks[b].pc /\ ~asks'[b].current
              /\ asks[b].pc # "none" => /\ asks'[b].nth = asks[b].nth /\ asks'[b].facts = asks[b].facts
                                        /\ asks'[b].subject = asks[b].subject
          BY <1>3, <1>5, <3>2
        <4>2. asks[b].pc # "none" => asks[b].nth \in Nat /\ asks[b].facts \in Nat
          BY <1>1, AskFields
        <4>3. Views!Heard(b)' => ~viewed.scoped
          BY <1>1, <4>1 DEF Views!Heard
        <4>4. ~viewed.scoped => Views!Heard(b)
          BY DEF Views!Heard
        <4>5. asks[b].pc # "none" => /\ asks[b].nth <= asked /\ asks[b].facts <= facts
                                     /\ Views!Heard(b) => asks[b].subject = subject
          BY <1>1 DEF AsksFit
        <4> QED
          BY <1>1, <1>2, <1>8, <4>1, <4>2, <4>3, <4>4, <4>5
      <3> QED
        BY <3>1, <3>2
    <2>3. \A b \in Asks : asks'[b].current => b = a
      BY <1>3, <1>5
    <2> QED
      BY <1>1, <1>5, <1>6, <1>8, <2>1, <2>2, <2>3 DEF AsksFit
  <1>10. Views!ScreensAreHonest'
    <2>1. Views!Heard(a)'
      BY <1>5 DEF Views!Heard
    <2> QED
      BY <1>1, <1>5, <2>1 DEF Views!ScreensAreHonest, Views!Screen, Views!Ready
  <1> QED
    BY <1>1, <1>7, <1>9, <1>10 DEF ViewsInv

\* A new answer in the backend changes nothing on the page.
LEMMA ViewRecords ==
    ASSUME ViewsInv, Views!Record
    PROVE  ViewsInv' /\ showing' = showing
  <1>1. /\ ViewTypes /\ AsksFit /\ Views!ScreensAreHonest
        /\ facts' = facts + 1
        /\ UNCHANGED <<viewed, subject, asks, asked, showing, loading, failed>>
    BY DEF ViewsInv, Views!Record
  <1>2. facts \in Nat /\ showing.facts \in Nat
    BY <1>1 DEF ViewTypes
  <1>3. \A a \in Asks : asks[a].pc # "none" => asks[a].facts \in Nat
    BY <1>1, AskFields
  <1>4. ViewTypes'
    BY <1>1, <1>2 DEF ViewTypes
  <1>5. AsksFit'
    BY <1>1, <1>2, <1>3 DEF AsksFit, Views!Heard
  <1>6. Views!ScreensAreHonest'
    BY <1>1 DEF Views!ScreensAreHonest, Views!Screen, Views!Ready, Views!Heard
  <1> QED
    BY <1>1, <1>4, <1>5, <1>6 DEF ViewsInv

\* The backend reads its answer; the page shows what it did.
LEMMA ViewServed ==
    ASSUME ViewsInv, NEW a \in Asks, Views!Served(a)
    PROVE  ViewsInv' /\ showing' = showing
  <1>1. /\ ViewTypes /\ AsksFit /\ Views!ScreensAreHonest
        /\ asks[a].pc = "asked"
        /\ asks' = [asks EXCEPT ![a].pc = "served", ![a].facts = facts]
        /\ UNCHANGED <<viewed, subject, facts, asked, showing, loading, failed>>
    BY DEF ViewsInv, Views!Served
  <1>2. asks \in [Asks -> AskRecords] /\ facts \in Nat /\ asked \in Nat
        /\ showing.nth \in Nat /\ showing.facts \in Nat
    BY <1>1 DEF ViewTypes
  <1>3. \A r \in AskRecords : r.pc = "asked" =>
          LET n == [[r EXCEPT !.pc = "served"] EXCEPT !.facts = facts] IN
          /\ n \in AskRecords /\ n.pc = "served" /\ n.facts = facts
          /\ n.nth = r.nth /\ n.subject = r.subject /\ n.current = r.current
    <2>1. \A r \in UnderWay :
            LET n == [[r EXCEPT !.pc = "served"] EXCEPT !.facts = facts] IN
            /\ n \in UnderWay /\ n.pc = "served" /\ n.facts = facts
            /\ n.nth = r.nth /\ n.subject = r.subject /\ n.current = r.current
      BY <1>2 DEF UnderWay
    <2>2. Views!NoAsk.pc # "asked"
      BY DEF Views!NoAsk
    <2> QED
      BY <2>1, <2>2 DEF AskRecords
  <1>4. /\ asks' \in [Asks -> AskRecords]
        /\ asks'[a].pc = "served" /\ asks'[a].facts = facts /\ asks'[a].nth = asks[a].nth
        /\ asks'[a].subject = asks[a].subject /\ asks'[a].current = asks[a].current
        /\ \A b \in Asks : b # a => asks'[b] = asks[b]
    BY <1>1, <1>2, <1>3
  <1>5. \A b \in Asks : Views!Heard(b)' <=> Views!Heard(b)
    BY <1>1, <1>4 DEF Views!Heard
  <1>6. ViewTypes'
    BY <1>1, <1>4 DEF ViewTypes
  <1>7. AsksFit'
    <2>1. \A b \in Asks : asks'[b].pc # "none" =>
             /\ asks'[b].nth <= asked /\ asks'[b].facts <= facts
             /\ Views!Heard(b)' => asks'[b].subject = subject
      BY <1>1, <1>2, <1>4, <1>5 DEF AsksFit
    <2>2. \A b \in Asks : asks'[b].current <=> asks[b].current
      BY <1>4
    <2>3. viewed.single => \A b \in Asks : asks'[b].current =>
             /\ asks'[b].nth > showing.nth
             /\ asks'[b].pc = "served" => asks'[b].facts >= showing.facts
             /\ \A c \in Asks : asks'[c].current => b = c
      BY <1>1, <1>2, <1>4, <2>2 DEF AsksFit
    <2> QED
      BY <1>1, <2>1, <2>3 DEF AsksFit
  <1>8. Views!ScreensAreHonest'
    <2>1. \A b \in Asks : asks[b].pc # "none" => asks'[b].pc # "none"
      BY <1>4
    <2> QED
      BY <1>1, <1>5, <2>1 DEF Views!ScreensAreHonest, Views!Screen, Views!Ready
  <1> QED
    BY <1>1, <1>6, <1>7, <1>8 DEF ViewsInv

(* A request that ends leaves its place free and the others alone.           *)
LEMMA Ended ==
    ASSUME ViewsInv, NEW a \in Asks, NEW error \in BOOLEAN, Views!Ends(a, error),
           asks[a].pc # "none", UNCHANGED <<viewed, subject, facts, asked>>
    PROVE  /\ asks' \in [Asks -> AskRecords]
           /\ asks'[a] = Views!NoAsk
           /\ \A b \in Asks : b # a => asks'[b] = asks[b] /\ (Views!Heard(b)' <=> Views!Heard(b))
           /\ \A b \in Asks : asks'[b].pc # "none" => b # a
           /\ \A b \in Asks : asks'[b].current => b # a
           /\ loading' \in BOOLEAN /\ failed' \in BOOLEAN
           /\ Views!Heard(a) => ~loading' /\ (failed' <=> error /\ viewed.told)
           /\ ~Views!Heard(a) => (loading' <=> loading) /\ (failed' <=> failed)
  <1>1. ViewTypes /\ asks \in [Asks -> AskRecords] /\ failed \in BOOLEAN /\ loading \in BOOLEAN
    BY DEF ViewsInv, ViewTypes
  <1>2. asks' = [asks EXCEPT ![a] = Views!NoAsk]
    BY DEF Views!Ends
  <1>3. Views!NoAsk \in AskRecords /\ Views!NoAsk.pc = "none" /\ Views!NoAsk.current = FALSE
    BY DEF AskRecords, Views!NoAsk
  <1>4. /\ asks' \in [Asks -> AskRecords]
        /\ asks'[a] = Views!NoAsk
        /\ \A b \in Asks : b # a => asks'[b] = asks[b]
    BY <1>1, <1>2, <1>3
  <1>5. \A b \in Asks : b # a => (Views!Heard(b)' <=> Views!Heard(b))
    BY <1>4 DEF Views!Heard
  <1>6. /\ loading' = (loading /\ ~Views!Heard(a))
        /\ failed' = IF Views!Heard(a) THEN error /\ viewed.told ELSE failed
    BY DEF Views!Ends
  <1>7. /\ loading' \in BOOLEAN /\ failed' \in BOOLEAN
        /\ Views!Heard(a) => ~loading' /\ (failed' <=> error /\ viewed.told)
        /\ ~Views!Heard(a) => (loading' <=> loading) /\ (failed' <=> failed)
    BY <1>1, <1>6
  <1> QED
    BY <1>3, <1>4, <1>5, <1>7

(* Once its request has ended, an effect that waits for it hears no other;   *)
(* and when nobody heard the end, the request that is read is still there.   *)
LEMMA EndsFit ==
    ASSUME ViewsInv, NEW a \in Asks, NEW error \in BOOLEAN, Views!Ends(a, error),
           asks[a].pc # "none", UNCHANGED <<viewed, subject, facts, asked>>
    PROVE  /\ \A b \in Asks : asks'[b].pc # "none" =>
                /\ asks'[b].nth <= asked /\ asks'[b].facts <= facts
                /\ Views!Heard(b)' => asks'[b].subject = subject
           /\ viewed.single =>
                /\ asks[a].current => \A b \in Asks : ~asks'[b].current
                /\ \A b \in Asks : asks'[b].current =>
                     /\ asks'[b].nth > showing.nth
                     /\ asks'[b].pc = "served" => asks'[b].facts >= showing.facts
                     /\ \A c \in Asks : asks'[c].current => b = c
           /\ loading' => \E b \in Asks : asks'[b].pc # "none" /\ Views!Heard(b)'
  <1> DEFINE Untouched(b) == asks'[b] = asks[b] /\ (Views!Heard(b)' <=> Views!Heard(b))
  <1>1. /\ \A b \in Asks : b # a => Untouched(b)
        /\ \A b \in Asks : asks'[b].pc # "none" => b # a
        /\ \A b \in Asks : asks'[b].current => b # a
        /\ Views!Heard(a) => ~loading'
        /\ ~Views!Heard(a) => (loading' <=> loading)
    BY Ended
  <1>2. AsksFit /\ Views!ScreensAreHonest
    BY DEF ViewsInv
  <1>3. \A b \in Asks : asks'[b].pc # "none" =>
          /\ asks'[b].nth <= asked /\ asks'[b].facts <= facts
          /\ Views!Heard(b)' => asks'[b].subject = subject
    BY <1>1, <1>2 DEF AsksFit
  <1>4. viewed.single =>
          /\ asks[a].current => \A b \in Asks : ~asks'[b].current
          /\ \A b \in Asks : asks'[b].current =>
               /\ asks'[b].nth > showing.nth
               /\ asks'[b].pc = "served" => asks'[b].facts >= showing.facts
               /\ \A c \in Asks : asks'[c].current => b = c
    BY <1>1, <1>2 DEF AsksFit
  <1>5. ASSUME loading'
        PROVE  \E b \in Asks : asks'[b].pc # "none" /\ Views!Heard(b)'
    <2>1. loading /\ ~Views!Heard(a)
      BY <1>1, <1>5
    <2>2. PICK b \in Asks : asks[b].pc # "none" /\ Views!Heard(b)
      BY <1>2, <2>1 DEF Views!ScreensAreHonest
    <2> QED
      BY <1>1, <2>1, <2>2
  <1> QED
    BY <1>3, <1>4, <1>5

(* An answer is about the subject, and for a view that waits for its own     *)
(* requests later than the one on display.                                   *)
LEMMA ViewAnswers ==
    ASSUME ViewsInv, NEW a \in Asks, Views!Answer(a)
    PROVE  /\ ViewsInv'
           /\ showing' # showing =>
                /\ showing'.subject = subject
                /\ viewed.single => showing'.nth > showing.nth /\ showing'.facts >= showing.facts
  <1>1. /\ ViewTypes /\ AsksFit /\ Views!ScreensAreHonest
        /\ asks[a].pc = "served" /\ asks[a].pc # "none"
        /\ Views!Ends(a, FALSE) /\ FALSE \in BOOLEAN
        /\ showing' = IF Views!Heard(a)
                      THEN [subject |-> asks[a].subject, nth |-> asks[a].nth, facts |-> asks[a].facts]
                      ELSE showing
        /\ UNCHANGED <<viewed, subject, facts, asked>>
    BY DEF ViewsInv, Views!Answer
  <1>2. /\ asks' \in [Asks -> AskRecords] /\ loading' \in BOOLEAN /\ failed' \in BOOLEAN
        /\ Views!Heard(a) => ~loading' /\ ~failed'
        /\ ~Views!Heard(a) => (loading' <=> loading) /\ (failed' <=> failed)
    BY <1>1, Ended
  <1>3. /\ \A b \in Asks : asks'[b].pc # "none" =>
             /\ asks'[b].nth <= asked /\ asks'[b].facts <= facts
             /\ Views!Heard(b)' => asks'[b].subject = subject
        /\ viewed.single =>
             /\ asks[a].current => \A b \in Asks : ~asks'[b].current
             /\ \A b \in Asks : asks'[b].current =>
                  /\ asks'[b].nth > showing.nth
                  /\ asks'[b].pc = "served" => asks'[b].facts >= showing.facts
                  /\ \A c \in Asks : asks'[c].current => b = c
        /\ loading' => \E b \in Asks : asks'[b].pc # "none" /\ Views!Heard(b)'
    BY <1>1, EndsFit
  <1>4. /\ asks[a].nth \in Nat /\ asks[a].nth # 0 /\ asks[a].facts \in Nat
        /\ asks[a].nth <= asked /\ asks[a].facts <= facts
        /\ Views!Heard(a) => asks[a].subject = subject
        /\ viewed.single /\ asks[a].current =>
             asks[a].nth > showing.nth /\ asks[a].facts >= showing.facts
    BY <1>1, AskFields DEF AsksFit
  <1>5. StyleFits(viewed)
    BY <1>1 DEF ViewTypes
  <1>6. CASE Views!Heard(a)
    <2>1. /\ showing'.subject = subject /\ showing'.nth = asks[a].nth
          /\ showing'.facts = asks[a].facts /\ showing' # Views!Nothing
      <3>1. showing' = [subject |-> asks[a].subject, nth |-> asks[a].nth, facts |-> asks[a].facts]
        BY <1>1, <1>6
      <3>2. showing'.nth # Views!Nothing.nth
        BY <1>4, <3>1 DEF Views!Nothing
      <3> QED
        BY <1>4, <1>6, <3>1, <3>2
    <2>2. viewed.single => asks[a].current
      BY <1>5, <1>6 DEF StyleFits, Views!Heard
    <2>3. ViewTypes'
      BY <1>1, <1>2, <1>4, <2>1 DEF ViewTypes
    <2>4. AsksFit'
      BY <1>1, <1>3, <1>4, <2>1, <2>2 DEF AsksFit
    <2>5. Views!ScreensAreHonest'
      BY <1>1, <1>2, <1>6, <2>1 DEF Views!ScreensAreHonest, Views!Screen, Views!Ready
    <2> QED
      BY <1>1, <1>4, <2>1, <2>2, <2>3, <2>4, <2>5 DEF ViewsInv
  <1>7. CASE ~Views!Heard(a)
    <2>1. showing' = showing
      BY <1>1, <1>7
    <2>2. ViewTypes'
      BY <1>1, <1>2, <2>1 DEF ViewTypes
    <2>3. AsksFit'
      BY <1>1, <1>3, <2>1 DEF AsksFit
    <2>4. Views!ScreensAreHonest'
      BY <1>1, <1>2, <1>3, <1>7, <2>1 DEF Views!ScreensAreHonest, Views!Screen, Views!Ready
    <2> QED
      BY <2>1, <2>2, <2>3, <2>4 DEF ViewsInv
  <1> QED
    BY <1>6, <1>7

\* A request that fails leaves what is shown.
LEMMA ViewFails ==
    ASSUME ViewsInv, NEW a \in Asks, Views!Fails(a)
    PROVE  ViewsInv' /\ showing' = showing
  <1>1. /\ ViewTypes /\ AsksFit /\ Views!ScreensAreHonest
        /\ asks[a].pc # "none" /\ Views!Ends(a, TRUE) /\ TRUE \in BOOLEAN
        /\ UNCHANGED <<viewed, subject, facts, asked, showing>>
    BY DEF ViewsInv, Views!Fails
  <1>2. /\ asks' \in [Asks -> AskRecords] /\ loading' \in BOOLEAN /\ failed' \in BOOLEAN
        /\ Views!Heard(a) => ~loading' /\ (failed' <=> viewed.told)
        /\ ~Views!Heard(a) => (loading' <=> loading) /\ (failed' <=> failed)
    BY <1>1, Ended
  <1>3. /\ \A b \in Asks : asks'[b].pc # "none" =>
             /\ asks'[b].nth <= asked /\ asks'[b].facts <= facts
             /\ Views!Heard(b)' => asks'[b].subject = subject
        /\ viewed.single =>
             \A b \in Asks : asks'[b].current =>
                  /\ asks'[b].nth > showing.nth
                  /\ asks'[b].pc = "served" => asks'[b].facts >= showing.facts
                  /\ \A c \in Asks : asks'[c].current => b = c
        /\ loading' => \E b \in Asks : asks'[b].pc # "none" /\ Views!Heard(b)'
    BY <1>1, EndsFit
  <1>4. ViewTypes'
    BY <1>1, <1>2 DEF ViewTypes
  <1>5. AsksFit'
    BY <1>1, <1>3 DEF AsksFit
  <1>6. Views!ScreensAreHonest'
    BY <1>1, <1>2, <1>3 DEF Views!ScreensAreHonest, Views!Screen, Views!Ready
  <1> QED
    BY <1>1, <1>4, <1>5, <1>6 DEF ViewsInv

\* A step of another part leaves the view alone.
LEMMA ViewsRest ==
    ASSUME ViewsInv, UNCHANGED Views!vars
    PROVE  ViewsInv' /\ showing' = showing
  BY DEF ViewsInv, ViewTypes, AsksFit, Views!vars, Views!ScreensAreHonest, Views!Screen,
         Views!Ready, Views!Heard

\* At first nothing is asked and nothing is shown.
LEMMA ViewsStart ==
    ASSUME Views!Init
    PROVE  ViewsInv
  <1>1. /\ viewed \in Views!Views /\ subject = Views!Home /\ facts = 0 /\ asked = 1
        /\ asks = [a \in Asks |-> IF a = 1 THEN Views!Request(Views!Home, 1) ELSE Views!NoAsk]
        /\ showing = Views!Nothing
        /\ loading = (viewed.reading # "never") /\ failed = FALSE
    BY DEF Views!Init
  <1>2. 1 \in Asks
    BY InstanceIsProvable DEF Views!ViewsAssumption
  <1>3. /\ Views!Request(Views!Home, 1) \in AskRecords
        /\ Views!Request(Views!Home, 1) = [pc |-> "asked", current |-> TRUE, subject |-> 1,
                                           nth |-> 1, facts |-> 0]
    BY DEF Views!Request, Views!Home, AskRecords, UnderWay, Positive
  <1>4. Views!NoAsk \in AskRecords /\ Views!NoAsk.pc = "none" /\ Views!NoAsk.current = FALSE
    BY DEF AskRecords, Views!NoAsk
  <1>5. /\ asks \in [Asks -> AskRecords]
        /\ asks[1].pc = "asked" /\ asks[1].current /\ asks[1].subject = 1
        /\ asks[1].nth = 1 /\ asks[1].facts = 0
        /\ \A a \in Asks : a # 1 => asks[a].pc = "none" /\ ~asks[a].current
    BY <1>1, <1>2, <1>3, <1>4
  <1>6. showing.nth = 0 /\ showing.facts = 0 /\ showing = Views!Nothing
    BY <1>1 DEF Views!Nothing
  <1>7. ViewTypes
    <2>1. loading \in BOOLEAN /\ failed \in BOOLEAN
      BY <1>1
    <2>2. StyleFits(viewed)
      BY <1>1, StylesFit
    <2> QED
      BY <1>1, <1>5, <1>6, <2>1, <2>2 DEF ViewTypes, Views!Home
  <1>8. AsksFit
    BY <1>1, <1>5, <1>6 DEF AsksFit, Views!Home
  <1>9. Views!ScreensAreHonest
    BY <1>1, <1>2, <1>5 DEF Views!ScreensAreHonest, Views!Screen, Views!Ready, Views!Heard
  <1> QED
    BY <1>7, <1>8, <1>9 DEF ViewsInv

(* A view never shows an answer about what it was before, one that waits for *)
(* its own requests never goes back to an older answer, and what the pages   *)
(* say of their reads is so: for every number of requests under way.         *)
THEOREM AnswersOrdered == WebSpec => AnswersComeInOrder
  <1> DEFINE Later == showing' # showing =>
                        /\ showing'.subject = subject
                        /\ viewed.single =>
                             /\ showing'.nth > showing.nth
                             /\ showing'.facts >= showing.facts
  <1>1. WebInit => ViewsInv
    BY ViewsStart DEF WebInit
  <1>2. ViewsInv /\ [WebNext]_webVars => ViewsInv' /\ [Later]_(Views!vars)
    <2> SUFFICES ASSUME ViewsInv, [WebNext]_webVars
                 PROVE  ViewsInv' /\ Later
      OBVIOUS
    <2>1. Views!Next \/ UNCHANGED Views!vars
      BY DEF WebNext, webVars, viewVars, Views!vars
    <2>2. CASE UNCHANGED Views!vars
      BY <2>2, ViewsRest
    <2>3. CASE Views!Next
      BY <2>3, ViewAsks, ViewTurns, ViewRecords, ViewServed, ViewAnswers, ViewFails DEF Views!Next
    <2> QED
      BY <2>1, <2>2, <2>3
  <1>3. ViewsInv => Views!ScreensAreHonest
    BY DEF ViewsInv
  <1> QED
    BY <1>1, <1>2, <1>3, PTL DEF WebSpec, AnswersComeInOrder, Views!AnswersComeInOrder

------------------------------------------------------------------------------
(* Protocol data of the pages.                                               *)

Things == {"ask", "bid", "idle", "deployed", "shares"}
Readings == [head : Nat, world : SUBSET Things, account : Data!Readers \cup {"none"}]
PageTabs ==
    [view : Data!Pages, account : Data!Readers, refreshed : BOOLEAN, asOf : Nat,
     loading : BOOLEAN, error : BOOLEAN, shown : Readings, positions : Readings]
Unused == [pc |-> "unused"]
UsedRequests ==
    [pc : {"asked", "read", "failed"}, account : Data!Readers, fresh : BOOLEAN, reading : Readings]
Calls ==
    [pc : Data!OfSnapshots \cup Data!OfPositions, account : Data!Readers, force : BOOLEAN,
     active : BOOLEAN, request : Requests \cup {0}, reading : Readings]

DataTypes ==
    /\ head \in Nat
    /\ proxy \in [Data!Readers -> Readings]
    /\ snapshots \in [Requests -> {Unused} \cup UsedRequests]
    /\ shared \in [Data!Readers -> Requests \cup {0}]
    /\ tab \in PageTabs
    /\ loads \in [Loads -> {Data!NoLoad} \cup Calls]

(* Cached readings, shared and answered requests are their wallet's.         *)
CachesFit ==
    /\ \A a \in Data!Readers : proxy[a] # Data!NoReading => proxy[a].account = a
    /\ \A r \in Requests : snapshots[r].pc = "read" => snapshots[r].reading.account = snapshots[r].account
    /\ \A a \in Data!Readers : shared[a] # 0 =>
          snapshots[shared[a]].pc # "unused" /\ snapshots[shared[a]].account = a

(* What a page shows when nothing is read: the property, and that only the   *)
(* Earn page of a wallet has positions, and that a page which has confirmed  *)
(* an action has asked for a refresh.                                        *)
TabFits(t) ==
    /\ t.asOf <= head
    /\ t.asOf # 0 => t.refreshed
    /\ ~t.loading /\ ~t.error /\ t.shown # Data!NoReading =>
          t.shown.account = t.account /\ t.shown.head >= t.asOf
    /\ t.view # "earn" /\ t.account # Data!NoAccount /\ ~t.loading /\ ~t.error =>
          t.shown # Data!NoReading
    /\ t.positions # Data!NoReading =>
          t.view = "earn" /\ t.account # Data!NoAccount /\ t.positions.account = t.account

(* A call that still counts is for the wallet the page has, and after a      *)
(* confirmed action waits for a fresh request of its own.                    *)
CallFits(call, t, known) ==
    call.pc # "none" /\ call.active =>
        /\ call.account = t.account
        /\ Data!enabled(t)
        /\ call.pc \in Data!OfPositions => t.view = "earn"
        /\ call.pc = "answered" => call.reading.account = call.account
        /\ call.pc = "config" /\ t.asOf # 0 => call.force
        /\ call.pc = "snapshot" =>
             LET request == known[call.request] IN
             /\ call.request \in Requests
             /\ request.pc # "unused" /\ request.account = call.account
             /\ t.asOf # 0 =>
                  request.fresh /\ (request.pc = "read" => request.reading.head >= t.asOf)

DataInv ==
    /\ DataTypes
    /\ CachesFit
    /\ TabFits(tab)
    /\ \A l \in Loads : CallFits(loads[l], tab, snapshots)

(* An effect that is dropped waits for nothing any more.                     *)
LEMMA IgnoredCalls ==
    ASSUME DataTypes, NEW pcs, NEW l \in Loads
    PROVE  /\ Data!Ignored(pcs)[l] \in {Data!NoLoad} \cup Calls
           /\ loads[l].pc \in pcs /\ loads[l].pc # "none" => ~Data!Ignored(pcs)[l].active
           /\ loads[l].pc \notin pcs => Data!Ignored(pcs)[l] = loads[l]
           /\ Data!Ignored(pcs)[l].pc = loads[l].pc
  <1>1. loads[l] \in Calls \/ loads[l] = Data!NoLoad
    BY DEF DataTypes
  <1>2. \A c \in Calls : LET n == [c EXCEPT !.active = FALSE] IN
                         n \in Calls /\ n.active = FALSE /\ n.pc = c.pc
    BY DEF Calls
  <1>3. Data!NoLoad.pc = "none" /\ \A c \in Calls : c.pc # "none"
    BY DEF Data!NoLoad, Calls, Data!OfSnapshots, Data!OfPositions
  <1>4. Data!Ignored(pcs)[l] = IF loads[l].pc \in pcs THEN [loads[l] EXCEPT !.active = FALSE] ELSE loads[l]
    BY DEF Data!Ignored
  <1>5. CASE loads[l].pc \notin pcs
    BY <1>1, <1>4, <1>5
  <1>6. CASE loads[l].pc \in pcs /\ loads[l] \in Calls
    BY <1>2, <1>4, <1>6
  <1>7. CASE loads[l].pc \in pcs /\ loads[l] = Data!NoLoad
    <2> DEFINE Idle == [pc : {"none"}]
    <2>1. Data!NoLoad \in Idle /\ \A c \in Idle : [c EXCEPT !.active = FALSE] \in Idle
      BY DEF Data!NoLoad
    <2>2. \A c \in Idle : c = [pc |-> c.pc]
      OBVIOUS
    <2>3. \A c \in Idle : c = Data!NoLoad
      BY <2>2 DEF Data!NoLoad
    <2> HIDE DEF Idle
    <2> QED
      BY <1>3, <1>4, <1>7, <2>1, <2>3
  <1> QED
    BY <1>1, <1>5, <1>6, <1>7

(* With an effect the page waits for a call that fits it, and what it waited *)
(* for before counts only where nothing has changed for it.                  *)
LEMMA EffectFits ==
    ASSUME DataInv, NEW t \in PageTabs, NEW anew \in BOOLEAN, Data!Effect(t, anew),
           t.asOf <= head, t.asOf # 0 => t.refreshed,
           Data!enabled(t) /\ t.positions # Data!NoReading =>
              t.view = "earn" /\ t.account # Data!NoAccount /\ t.positions.account = t.account,
           ~anew => t.account = tab.account /\ t.view = tab.view
    PROVE  /\ tab' \in PageTabs /\ loads' \in [Loads -> {Data!NoLoad} \cup Calls]
           /\ TabFits(tab')
           /\ \A l \in Loads : CallFits(loads'[l], tab', snapshots)
  <1> DEFINE pcs == Data!OfSnapshots \cup IF anew THEN Data!OfPositions ELSE {}
             ignored == Data!Ignored(pcs)
  <1>1. DataTypes /\ \A l \in Loads : CallFits(loads[l], tab, snapshots)
    BY DEF DataInv
  <1>2. \A l \in Loads :
          /\ ignored[l] \in {Data!NoLoad} \cup Calls
          /\ loads[l].pc \in pcs /\ loads[l].pc # "none" => ~ignored[l].active
          /\ loads[l].pc \notin pcs => ignored[l] = loads[l]
          /\ ignored[l].pc = loads[l].pc
    BY <1>1, IgnoredCalls
  <1>3. ignored = [l \in Loads |-> ignored[l]]
    BY DEF Data!Ignored
  <1>4. ASSUME NEW l \in Loads, ignored[l].pc # "none", ignored[l].active
        PROVE  /\ ~anew /\ loads[l].pc \in Data!OfPositions /\ ignored[l] = loads[l]
               /\ loads[l].account = t.account /\ t.view = "earn" /\ Data!enabled(t)
               /\ loads[l].pc = "answered" => loads[l].reading.account = loads[l].account
    <2>1. loads[l].pc \notin pcs /\ ignored[l] = loads[l]
      BY <1>2, <1>4
    <2>2. loads[l].pc \in Data!OfSnapshots \cup Data!OfPositions
      BY <1>1, <1>2, <1>4, <2>1 DEF DataTypes, Calls, Data!NoLoad
    <2>3. ~anew /\ loads[l].pc \in Data!OfPositions
      BY <2>1, <2>2
    <2>4. /\ loads[l].account = tab.account /\ Data!enabled(tab) /\ tab.view = "earn"
          /\ loads[l].pc = "answered" => loads[l].reading.account = loads[l].account
      BY <1>1, <1>4, <2>1, <2>3 DEF CallFits
    <2> QED
      BY <2>1, <2>3, <2>4 DEF Data!enabled
  <1> HIDE DEF ignored, pcs
  <1>5. CASE Data!enabled(t)
    <2>1. tab' = [t EXCEPT !.loading = TRUE, !.error = FALSE]
      BY <1>5 DEF Data!Effect
    <2>2. PICK k \in Loads :
            loads' = [ignored EXCEPT ![k] =
              [pc |-> "config", account |-> t.account, force |-> Data!Forced(t),
               active |-> TRUE, request |-> Data!NoRequest, reading |-> Data!NoReading]]
      BY <1>5 DEF Data!Effect, ignored, pcs
    <2> DEFINE call == [pc |-> "config", account |-> t.account, force |-> Data!Forced(t),
                        active |-> TRUE, request |-> Data!NoRequest, reading |-> Data!NoReading]
    <2>3. /\ tab' \in PageTabs /\ tab'.loading /\ tab'.account = t.account /\ tab'.view = t.view
          /\ tab'.asOf = t.asOf /\ tab'.refreshed = t.refreshed /\ tab'.positions = t.positions
      BY <2>1 DEF PageTabs
    <2>4. Data!NoReading \in Readings
      BY DEF Data!NoReading, Readings
    <2>5. call \in Calls
      BY <2>4 DEF Calls, PageTabs, Data!Forced, Data!NoRequest, Data!OfSnapshots
    <2>6. CallFits(call, tab', snapshots)
      BY <1>5, <2>3 DEF CallFits, Data!Forced, Data!enabled, Data!OfPositions
    <2> HIDE DEF call
    <2>7. /\ loads' \in [Loads -> {Data!NoLoad} \cup Calls] /\ loads'[k] = call
          /\ \A l \in Loads : l # k => loads'[l] = ignored[l]
      BY <1>2, <1>3, <2>2, <2>5 DEF call
    <2>8. TabFits(tab')
      BY <1>5, <2>3 DEF TabFits
    <2>9. ASSUME NEW l \in Loads
          PROVE  CallFits(loads'[l], tab', snapshots)
      <3>1. CASE l = k
        BY <2>6, <2>7, <3>1
      <3>2. CASE l # k
        BY <1>4, <2>3, <2>7, <3>2
        DEF CallFits, Data!enabled, Data!OfPositions
      <3> QED
        BY <3>1, <3>2
    <2> QED
      BY <2>3, <2>7, <2>8, <2>9
  <1>6. CASE ~Data!enabled(t)
    <2>1. /\ tab' = [t EXCEPT !.loading = FALSE, !.error = FALSE, !.shown = Data!NoReading,
                             !.positions = Data!NoReading]
          /\ loads' = ignored
      BY <1>6 DEF Data!Effect, ignored, pcs
    <2>2. Data!NoReading \in Readings
      BY DEF Data!NoReading, Readings
    <2>3. /\ tab' \in PageTabs /\ tab'.account = t.account /\ tab'.view = t.view
          /\ tab'.asOf = t.asOf /\ tab'.refreshed = t.refreshed
          /\ tab'.shown = Data!NoReading /\ tab'.positions = Data!NoReading
      BY <2>1, <2>2 DEF PageTabs
    <2>4. loads' \in [Loads -> {Data!NoLoad} \cup Calls]
      BY <1>2, <1>3, <2>1
    <2>5. TabFits(tab')
      BY <1>6, <2>3 DEF TabFits, Data!enabled
    <2>6. \A l \in Loads : CallFits(loads'[l], tab', snapshots)
      BY <1>4, <1>6, <2>1 DEF CallFits
    <2> QED
      BY <2>3, <2>4, <2>5, <2>6
  <1> QED
    BY <1>5, <1>6

\* What a new effect has to leave for the invariant to hold.
LEMMA DataAfterEffect ==
    ASSUME DataInv, UNCHANGED <<head, proxy, snapshots, shared>>,
           tab' \in PageTabs, loads' \in [Loads -> {Data!NoLoad} \cup Calls], TabFits(tab'),
           \A l \in Loads : CallFits(loads'[l], tab', snapshots)
    PROVE  DataInv'
  <1>1. DataTypes /\ CachesFit
    BY DEF DataInv
  <1>2. DataTypes'
    BY <1>1 DEF DataTypes
  <1>3. CachesFit'
    BY <1>1 DEF CachesFit
  <1>4. TabFits(tab)'
    BY DEF TabFits
  <1>5. \A l \in Loads : CallFits(loads[l], tab, snapshots)'
    BY DEF CallFits
  <1> QED
    BY <1>2, <1>3, <1>4, <1>5 DEF DataInv

(* Mounts, wallets that come and go, and refreshes.                          *)
LEMMA DataEffects ==
    ASSUME DataInv,
           \/ \E page \in Data!Pages : Data!Mount(page)
           \/ Data!Disconnect \/ Data!refresh \/ \E a \in Accounts : Data!Connect(a)
           \/ Data!Settled /\ doing.mounted
    PROVE  DataInv'
  <1>1. UNCHANGED <<head, proxy, snapshots, shared>>
    BY DEF Data!Mount, Data!Disconnect, Data!refresh, Data!Connect, Data!Settled,
           Data!chainState, Data!caches
  <1>2. DataTypes /\ TabFits(tab) /\ tab \in PageTabs /\ head \in Nat
    BY DEF DataInv, DataTypes
  <1>3. \E t \in PageTabs, anew \in BOOLEAN :
          /\ Data!Effect(t, anew) /\ t.asOf <= head /\ (t.asOf # 0 => t.refreshed)
          /\ Data!enabled(t) /\ t.positions # Data!NoReading =>
                t.view = "earn" /\ t.account # Data!NoAccount /\ t.positions.account = t.account
          /\ ~anew => t.account = tab.account /\ t.view = tab.view
    <2>1. ASSUME NEW page \in Data!Pages, Data!Mount(page)
          PROVE  <1>3!:
      <3> DEFINE t == [Data!NewTab(page) EXCEPT !.account = tab.account]
      <3>1. Data!NewTab(page) \in PageTabs /\ Data!NewTab(page).asOf = 0
            /\ Data!NewTab(page).positions = Data!NoReading
        BY DEF Data!NewTab, PageTabs, Readings, Data!NoReading, Data!Readers
      <3>2. t \in PageTabs /\ t.asOf = 0 /\ t.positions = Data!NoReading
        BY <1>2, <3>1 DEF PageTabs
      <3>3. Data!Effect(t, TRUE)
        BY <2>1 DEF Data!Mount
      <3>4. t.asOf <= head
        BY <1>2, <3>2
      <3> HIDE DEF t
      <3> QED
        BY <3>2, <3>3, <3>4
    <2>2. CASE Data!Disconnect
      <3> DEFINE t == [tab EXCEPT !.account = Data!NoAccount]
      <3>1. /\ t \in PageTabs /\ t.asOf = tab.asOf /\ t.refreshed = tab.refreshed
            /\ t.positions = tab.positions /\ t.view = tab.view /\ t.account = Data!NoAccount
        BY <1>2 DEF PageTabs, Data!Readers
      <3>2. Data!Effect(t, TRUE)
        BY <2>2 DEF Data!Disconnect
      <3> HIDE DEF t
      <3> QED
        BY <1>2, <3>1, <3>2 DEF TabFits, Data!enabled
    <2>3. CASE Data!refresh
      <3> DEFINE t == [tab EXCEPT !.refreshed = TRUE]
      <3>1. /\ t \in PageTabs /\ t.asOf = tab.asOf /\ t.refreshed
            /\ t.positions = tab.positions /\ t.view = tab.view /\ t.account = tab.account
        BY <1>2 DEF PageTabs
      <3>2. Data!Effect(t, FALSE)
        BY <2>3 DEF Data!refresh
      <3> HIDE DEF t
      <3> QED
        BY <1>2, <3>1, <3>2 DEF TabFits
    <2>4. ASSUME NEW a \in Accounts, Data!Connect(a)
          PROVE  <1>3!:
      <3> DEFINE t == [tab EXCEPT !.account = a]
      <3>1. /\ t \in PageTabs /\ t.asOf = tab.asOf /\ t.refreshed = tab.refreshed
            /\ t.positions = tab.positions /\ t.view = tab.view /\ t.account = a
        BY <1>2 DEF PageTabs, Data!Readers
      <3>2. Data!Effect(t, TRUE) /\ tab.account = Data!NoAccount
        BY <2>4 DEF Data!Connect
      <3> HIDE DEF t
      <3> QED
        BY <1>2, <3>1, <3>2 DEF TabFits
    <2>5. CASE Data!Settled /\ doing.mounted
      <3> DEFINE t == [tab EXCEPT !.refreshed = TRUE, !.asOf = head]
      <3>1. /\ t \in PageTabs /\ t.asOf = head /\ t.refreshed
            /\ t.positions = tab.positions /\ t.view = tab.view /\ t.account = tab.account
        BY <1>2 DEF PageTabs
      <3>2. Data!Effect(t, FALSE)
        BY <2>5 DEF Data!Settled
      <3>3. head <= head
        BY <1>2
      <3> HIDE DEF t
      <3> QED
        BY <1>2, <3>1, <3>2, <3>3 DEF TabFits
    <2> QED
      BY <2>1, <2>2, <2>3, <2>4, <2>5
  <1>4. /\ tab' \in PageTabs /\ loads' \in [Loads -> {Data!NoLoad} \cup Calls]
        /\ TabFits(tab') /\ \A l \in Loads : CallFits(loads'[l], tab', snapshots)
    BY <1>3, EffectFits
  <1> QED
    BY <1>1, <1>4, DataAfterEffect

(* The chain moves, whoever moves it, and actions go on.                     *)
LEMMA DataWaits ==
    ASSUME DataInv, head' = head \/ head' = head + 1, UNCHANGED <<proxy, snapshots, shared, tab, loads>>
    PROVE  DataInv'
  <1>1. DataTypes /\ CachesFit /\ TabFits(tab) /\ \A l \in Loads : CallFits(loads[l], tab, snapshots)
    BY DEF DataInv
  <1>2. DataTypes'
    BY <1>1 DEF DataTypes
  <1>3. CachesFit'
    BY <1>1 DEF CachesFit
  <1>4. TabFits(tab)'
    <2>1. head \in Nat /\ tab.asOf \in Nat
      BY <1>1 DEF DataTypes, PageTabs
    <2> QED
      BY <1>1, <2>1 DEF TabFits
  <1>5. \A l \in Loads : CallFits(loads[l], tab, snapshots)'
    BY <1>1 DEF CallFits
  <1> QED
    BY <1>2, <1>3, <1>4, <1>5 DEF DataInv

\* The wallet's actions, up to the read that follows them, show nothing new.
LEMMA DataActs ==
    ASSUME DataInv,
           \/ Data!ChainMoves \/ Data!Mined \/ Data!Approved \/ Data!ActionFails
           \/ \E kind \in Kinds : Data!perform(kind)
           \/ Data!Settled /\ ~doing.mounted
    PROVE  DataInv'
  <1>1. /\ head' = head \/ head' = head + 1
        /\ UNCHANGED <<proxy, snapshots, shared, tab, loads>>
    BY DEF Data!ChainMoves, Data!Mined, Data!Approved, Data!ActionFails, Data!perform,
           Data!Settled, Data!Changed, Data!chainState, Data!caches
  <1> QED
    BY <1>1, DataWaits

\* The fields of a load that runs.
LEMMA CallFields ==
    ASSUME DataTypes, NEW l \in Loads, loads[l].pc # "none"
    PROVE  /\ loads[l] \in Calls
           /\ loads[l].pc \in {"config", "snapshot", "positions", "answered"}
           /\ loads[l].account \in Data!Readers /\ loads[l].force \in BOOLEAN
           /\ loads[l].active \in BOOLEAN /\ loads[l].request \in Requests \cup {0}
           /\ loads[l].reading \in Readings
  <1>1. loads[l] \in Calls \/ loads[l] = Data!NoLoad
    BY DEF DataTypes
  <1>2. Data!NoLoad.pc = "none"
    BY DEF Data!NoLoad
  <1>3. loads[l] \in Calls
    BY <1>1, <1>2
  <1> QED
    BY <1>3 DEF Calls, Data!OfSnapshots, Data!OfPositions

\* The fields of a snapshot's request.
LEMMA RequestFields ==
    ASSUME DataTypes, NEW r \in Requests, snapshots[r].pc # "unused"
    PROVE  /\ snapshots[r] \in UsedRequests
           /\ snapshots[r].pc \in {"asked", "read", "failed"}
           /\ snapshots[r].account \in Data!Readers /\ snapshots[r].fresh \in BOOLEAN
           /\ snapshots[r].reading \in Readings
  <1>1. snapshots[r] \in UsedRequests \/ snapshots[r] = Unused
    BY DEF DataTypes
  <1>2. Unused.pc = "unused"
    BY DEF Unused
  <1>3. snapshots[r] \in UsedRequests
    BY <1>1, <1>2
  <1> QED
    BY <1>3 DEF UsedRequests

(* A call that waits for a request now and the others as they were.          *)
LEMMA CallWaits ==
    ASSUME DataTypes, NEW l \in Loads, loads[l].pc = "config", NEW r \in Requests,
           loads' = [loads EXCEPT ![l].pc = "snapshot", ![l].request = r]
    PROVE  /\ loads' \in [Loads -> {Data!NoLoad} \cup Calls]
           /\ loads'[l].pc = "snapshot" /\ loads'[l].request = r
           /\ loads'[l].account = loads[l].account /\ loads'[l].active = loads[l].active
           /\ \A k \in Loads : k # l => loads'[k] = loads[k]
  <1> DEFINE n == [[loads[l] EXCEPT !.pc = "snapshot"] EXCEPT !.request = r]
  <1>1. loads[l] \in Calls /\ loads \in [Loads -> {Data!NoLoad} \cup Calls]
    BY CallFields DEF DataTypes
  <1>2. /\ n \in Calls /\ n.pc = "snapshot" /\ n.request = r
        /\ n.account = loads[l].account /\ n.active = loads[l].active
    BY <1>1 DEF Calls, Data!OfSnapshots
  <1>3. [loads EXCEPT ![l] = [loads[l] EXCEPT !.pc = "snapshot"]][l] = [loads[l] EXCEPT !.pc = "snapshot"]
    BY <1>1
  <1>4. loads'[l] = n /\ DOMAIN loads' = Loads /\ \A k \in Loads : k # l => loads'[k] = loads[k]
    BY <1>1, <1>3
  <1>5. loads' = [k \in Loads |-> loads'[k]]
    BY <1>1
  <1> HIDE DEF n
  <1>6. \A k \in Loads : loads'[k] \in {Data!NoLoad} \cup Calls
    BY <1>1, <1>2, <1>4
  <1> QED
    BY <1>2, <1>4, <1>5, <1>6

(* A call joins the request of its wallet that is shared, or makes its own.  *)
LEMMA SnapshotAsked ==
    ASSUME DataInv, NEW l \in Loads, Data!loadProtocolSnapshot(l)
    PROVE  DataInv'
  <1> DEFINE load == loads[l]
             joined == shared[load.account]
  <1>1. /\ DataTypes /\ CachesFit /\ TabFits(tab)
        /\ \A k \in Loads : CallFits(loads[k], tab, snapshots)
        /\ load.pc = "config" /\ load.active
        /\ UNCHANGED <<head, proxy, tab>>
    BY DEF DataInv, Data!loadProtocolSnapshot, Data!chainState
  <1>2. /\ load \in Calls /\ load.account \in Data!Readers /\ load.force \in BOOLEAN
        /\ load.reading \in Readings
    BY <1>1, CallFields
  <1>3. /\ load.account = tab.account /\ Data!enabled(tab) /\ (tab.asOf # 0 => load.force)
    BY <1>1 DEF CallFits
  <1>4. /\ loads \in [Loads -> {Data!NoLoad} \cup Calls]
        /\ snapshots \in [Requests -> {Unused} \cup UsedRequests]
        /\ shared \in [Data!Readers -> Requests \cup {0}]
    BY <1>1 DEF DataTypes
  <1>6. TabFits(tab)'
    BY <1>1 DEF TabFits
  <1>7. CASE ~load.force /\ joined # 0
    <2>1. /\ loads' = [loads EXCEPT ![l].pc = "snapshot", ![l].request = joined]
          /\ UNCHANGED <<snapshots, shared>>
      BY <1>7 DEF Data!loadProtocolSnapshot, Data!NoRequest
    <2>2. joined \in Requests /\ snapshots[joined].pc # "unused"
          /\ snapshots[joined].account = load.account
      BY <1>1, <1>2, <1>4, <1>7 DEF CachesFit
    <2>3. /\ loads' \in [Loads -> {Data!NoLoad} \cup Calls]
          /\ loads'[l].pc = "snapshot" /\ loads'[l].request = joined
          /\ loads'[l].account = load.account
          /\ \A k \in Loads : k # l => loads'[k] = loads[k]
      BY <1>1, <2>1, <2>2, CallWaits
    <2>4. CallFits(loads'[l], tab, snapshots)
      BY <1>3, <1>7, <2>2, <2>3 DEF CallFits, Data!OfPositions
    <2>5. \A k \in Loads : CallFits(loads[k], tab, snapshots)'
      BY <1>1, <2>1, <2>3, <2>4 DEF CallFits
    <2>6. DataTypes' /\ CachesFit'
      BY <1>1, <2>1, <2>3 DEF DataTypes, CachesFit
    <2> QED
      BY <1>6, <2>5, <2>6 DEF DataInv
  <1>8. CASE ~(~load.force /\ joined # 0)
    <2> DEFINE asked1(r) == [pc |-> "asked", account |-> load.account, fresh |-> load.force,
                             reading |-> Data!NoReading]
    <2>1. PICK r \in Requests :
            /\ snapshots[r].pc = "unused"
            /\ snapshots' = [snapshots EXCEPT ![r] = asked1(r)]
            /\ shared' = [shared EXCEPT ![load.account] = r]
            /\ loads' = [loads EXCEPT ![l].pc = "snapshot", ![l].request = r]
      BY <1>8 DEF Data!loadProtocolSnapshot, Data!NoRequest
    <2>2. asked1(r) \in UsedRequests
      BY <1>2 DEF UsedRequests, Readings, Data!NoReading
    <2>3. /\ snapshots' \in [Requests -> {Unused} \cup UsedRequests]
          /\ snapshots'[r].pc = "asked" /\ snapshots'[r].account = load.account
          /\ snapshots'[r].fresh = load.force
          /\ \A q \in Requests : q # r => snapshots'[q] = snapshots[q]
      BY <1>4, <2>1, <2>2
    <2>4. /\ shared' \in [Data!Readers -> Requests \cup {0}]
          /\ shared'[load.account] = r
          /\ \A a \in Data!Readers : a # load.account => shared'[a] = shared[a]
      BY <1>2, <1>4, <2>1
    <2>5. /\ loads' \in [Loads -> {Data!NoLoad} \cup Calls]
          /\ loads'[l].pc = "snapshot" /\ loads'[l].request = r
          /\ loads'[l].account = load.account
          /\ \A k \in Loads : k # l => loads'[k] = loads[k]
      BY <1>1, <2>1, CallWaits
    <2>6. CallFits(loads'[l], tab, snapshots')
      BY <1>3, <2>3, <2>5 DEF CallFits, Data!OfPositions
    <2>7. ASSUME NEW k \in Loads, k # l
          PROVE  CallFits(loads'[k], tab, snapshots')
      <3>1. CallFits(loads[k], tab, snapshots) /\ loads'[k] = loads[k]
        BY <1>1, <2>5, <2>7
      <3>2. \A q \in Requests : snapshots[q].pc # "unused" => snapshots'[q] = snapshots[q]
        BY <2>1, <2>3
      <3> QED
        BY <3>1, <3>2 DEF CallFits
    <2>8. \A k \in Loads : CallFits(loads[k], tab, snapshots)'
      BY <1>1, <2>6, <2>7 DEF CallFits
    <2>9. DataTypes'
      BY <1>1, <2>3, <2>4, <2>5 DEF DataTypes
    <2>10. CachesFit'
      <3>1. \A a \in Data!Readers : shared'[a] # 0 =>
              snapshots'[shared'[a]].pc # "unused" /\ snapshots'[shared'[a]].account = a
        <4> TAKE a \in Data!Readers
        <4>1. CASE a = load.account
          BY <2>3, <2>4, <4>1
        <4>2. CASE a # load.account
          <5>1. shared'[a] = shared[a] /\ shared[a] \in Requests \cup {0}
            BY <1>4, <2>4, <4>2
          <5>2. shared[a] # 0 => snapshots[shared[a]].pc # "unused" /\ snapshots[shared[a]].account = a
            BY <1>1 DEF CachesFit
          <5> QED
            BY <2>1, <2>3, <5>1, <5>2
        <4> QED
          BY <4>1, <4>2
      <3>2. \A q \in Requests : snapshots'[q].pc = "read" =>
              snapshots'[q].reading.account = snapshots'[q].account
        BY <1>1, <2>3 DEF CachesFit
      <3>3. \A a \in Data!Readers : proxy'[a] # Data!NoReading => proxy'[a].account = a
        BY <1>1 DEF CachesFit
      <3> QED
        BY <3>1, <3>2, <3>3 DEF CachesFit
    <2> QED
      BY <1>6, <2>8, <2>9, <2>10 DEF DataInv
  <1> QED
    BY <1>7, <1>8

(* What counts for a page counts while its wallet, view and last confirmed   *)
(* action are the same.                                                      *)
LEMMA CallStillFits ==
    ASSUME NEW call, NEW t, NEW u, NEW known, CallFits(call, t, known),
           u.account = t.account, u.view = t.view, u.asOf = t.asOf
    PROVE  CallFits(call, u, known)
  BY DEF CallFits, Data!enabled

\* A reading of an account is not the absence of one.
LEMMA ReadingsDiffer ==
    ASSUME NEW reading, reading.account \in Data!Readers
    PROVE  reading # Data!NoReading
  <1>1. "none" \notin Data!Readers
    BY InstanceIsProvable DEF Data!DataAssumption, Data!Readers, Data!NoAccount
  <1> QED
    BY <1>1 DEF Data!NoReading

\* A load that is dropped, or has no configuration, shows nothing.
LEMMA DataDrops ==
    ASSUME DataInv, NEW l \in Loads, loads[l].pc # "none", Data!ConfigFails(l) \/ Data!Dropped(l)
    PROVE  DataInv'
  <1>1. /\ DataTypes /\ TabFits(tab) /\ \A k \in Loads : CallFits(loads[k], tab, snapshots)
        /\ UNCHANGED <<head, proxy, snapshots, shared>>
        /\ loads' = [loads EXCEPT ![l] = Data!NoLoad]
        /\ tab' = tab \/ tab' = [tab EXCEPT !.loading = FALSE, !.error = TRUE]
    BY DEF DataInv, Data!ConfigFails, Data!Dropped, Data!chainState, Data!caches
  <1>2. tab \in PageTabs /\ loads \in [Loads -> {Data!NoLoad} \cup Calls]
    BY <1>1 DEF DataTypes
  <1>3. tab' \in PageTabs /\ TabFits(tab')
    <2>1. CASE tab' = tab
      BY <1>1, <1>2, <2>1
    <2>2. CASE tab' = [tab EXCEPT !.loading = FALSE, !.error = TRUE]
      <3>1. /\ tab' \in PageTabs /\ tab'.error
            /\ tab'.asOf = tab.asOf /\ tab'.refreshed = tab.refreshed /\ tab'.view = tab.view
            /\ tab'.account = tab.account /\ tab'.positions = tab.positions
        BY <1>2, <2>2 DEF PageTabs
      <3> QED
        BY <1>1, <3>1 DEF TabFits
    <2> QED
      BY <1>1, <2>1, <2>2
  <1>4. tab'.account = tab.account /\ tab'.view = tab.view /\ tab'.asOf = tab.asOf
    BY <1>1, <1>2 DEF PageTabs
  <1>5. /\ loads' \in [Loads -> {Data!NoLoad} \cup Calls] /\ loads'[l] = Data!NoLoad
        /\ \A k \in Loads : k # l => loads'[k] = loads[k]
    BY <1>1, <1>2
  <1>6. CallFits(Data!NoLoad, tab', snapshots)
    BY DEF CallFits, Data!NoLoad
  <1>7. \A k \in Loads : CallFits(loads'[k], tab', snapshots)
    BY <1>1, <1>4, <1>5, <1>6, CallStillFits
  <1> QED
    BY <1>1, <1>3, <1>5, <1>7, DataAfterEffect

(* A fresh request is answered as the chain is now, another one possibly     *)
(* from what the backend read for the same wallet before.                    *)
LEMMA RequestAnswered ==
    ASSUME DataInv, NEW r \in Requests, Data!ProxyRead(r)
    PROVE  DataInv'
  <1> DEFINE s == snapshots[r]
             reading == IF s.fresh \/ proxy[s.account] = Data!NoReading
                        THEN Data!Reading(s.account) ELSE proxy[s.account]
  <1>1. /\ DataTypes /\ CachesFit /\ TabFits(tab)
        /\ \A k \in Loads : CallFits(loads[k], tab, snapshots)
        /\ s.pc = "asked" /\ s.pc # "unused"
        /\ proxy' = [proxy EXCEPT ![s.account] = reading]
        /\ snapshots' = [snapshots EXCEPT ![r].pc = "read", ![r].reading = reading]
        /\ UNCHANGED <<head, shared, tab, loads>>
    BY DEF DataInv, Data!ProxyRead, Data!chainState
  <1>2. s \in UsedRequests /\ s.account \in Data!Readers /\ s.fresh \in BOOLEAN
    BY <1>1, RequestFields
  <1>3. /\ head \in Nat /\ proxy \in [Data!Readers -> Readings]
        /\ snapshots \in [Requests -> {Unused} \cup UsedRequests]
    BY <1>1 DEF DataTypes
  <1>4. /\ Data!Reading(s.account) \in Readings /\ Data!Reading(s.account).account = s.account
        /\ Data!Reading(s.account).head = head
    <2>1. Data!loadListings \cup Data!loadOffers \cup Data!enrichAgent \in SUBSET Things
      BY DEF Data!loadListings, Data!loadOffers, Data!enrichAgent, Things
    <2> QED
      BY <1>2, <1>3, <2>1 DEF Data!Reading, Readings
  <1>5. reading \in Readings /\ reading.account = s.account /\ (s.fresh => reading.head = head)
    BY <1>1, <1>2, <1>3, <1>4 DEF CachesFit
  <1> HIDE DEF reading
  <1>6. /\ snapshots' \in [Requests -> {Unused} \cup UsedRequests]
        /\ snapshots'[r].pc = "read" /\ snapshots'[r].reading = reading
        /\ snapshots'[r].account = s.account /\ snapshots'[r].fresh = s.fresh
        /\ \A q \in Requests : q # r => snapshots'[q] = snapshots[q]
    <2> DEFINE n == [[s EXCEPT !.pc = "read"] EXCEPT !.reading = reading]
    <2>1. /\ n \in UsedRequests /\ n.pc = "read" /\ n.reading = reading
          /\ n.account = s.account /\ n.fresh = s.fresh
      BY <1>2, <1>5 DEF UsedRequests
    <2>2. [snapshots EXCEPT ![r] = [s EXCEPT !.pc = "read"]][r] = [s EXCEPT !.pc = "read"]
      BY <1>3
    <2>3. /\ snapshots'[r] = n
          /\ \A q \in Requests : q # r => snapshots'[q] = snapshots[q]
          /\ snapshots' = [q \in Requests |-> snapshots'[q]]
      BY <1>1, <1>3, <2>2
    <2> HIDE DEF n
    <2>4. \A q \in Requests : snapshots'[q] \in {Unused} \cup UsedRequests
      BY <1>3, <2>1, <2>3
    <2> QED
      BY <2>1, <2>3, <2>4
  <1>7. /\ proxy' \in [Data!Readers -> Readings] /\ proxy'[s.account] = reading
        /\ \A a \in Data!Readers : a # s.account => proxy'[a] = proxy[a]
    BY <1>1, <1>2, <1>3, <1>5
  <1> HIDE DEF s
  <1>8. DataTypes'
    BY <1>1, <1>6, <1>7 DEF DataTypes
  <1>9. CachesFit'
    <2>1. \A a \in Data!Readers : proxy'[a] # Data!NoReading => proxy'[a].account = a
      BY <1>1, <1>5, <1>7 DEF CachesFit
    <2>2. \A q \in Requests : snapshots'[q].pc = "read" =>
            snapshots'[q].reading.account = snapshots'[q].account
      BY <1>1, <1>5, <1>6 DEF CachesFit
    <2>3. \A a \in Data!Readers : shared[a] # 0 =>
            snapshots'[shared[a]].pc # "unused" /\ snapshots'[shared[a]].account = a
      <3>1. \A a \in Data!Readers : shared[a] \in Requests \cup {0}
        BY <1>1 DEF DataTypes
      <3> QED
        BY <1>1, <1>6, <3>1 DEF CachesFit, s
    <2> QED
      BY <1>1, <2>1, <2>2, <2>3 DEF CachesFit
  <1>10. TabFits(tab)'
    BY <1>1 DEF TabFits
  <1>11. ASSUME NEW k \in Loads
         PROVE  CallFits(loads[k], tab, snapshots)'
    <2>1. CallFits(loads[k], tab, snapshots) /\ loads' = loads /\ tab' = tab
      BY <1>1
    <2>2. \A q \in Requests : /\ snapshots'[q].account = snapshots[q].account
                              /\ snapshots'[q].fresh = snapshots[q].fresh
                              /\ snapshots[q].pc # "unused" => snapshots'[q].pc # "unused"
                              /\ q # r => snapshots'[q] = snapshots[q]
      BY <1>6 DEF s
    <2>3. tab.asOf \in Nat /\ tab.asOf <= head
      BY <1>1 DEF DataTypes, PageTabs, TabFits
    <2>4. snapshots[r].fresh => snapshots'[r].reading.head >= tab.asOf
      BY <1>3, <1>5, <1>6, <2>3 DEF s
    <2> QED
      BY <2>1, <2>2, <2>4 DEF CallFits
  <1> QED
    BY <1>8, <1>9, <1>10, <1>11 DEF DataInv

\* A snapshot that fails is nobody's snapshot.
LEMMA RequestFails ==
    ASSUME DataInv, NEW r \in Requests, Data!SnapshotFails(r)
    PROVE  DataInv'
  <1> DEFINE s == snapshots[r]
  <1>1. /\ DataTypes /\ CachesFit /\ TabFits(tab)
        /\ \A k \in Loads : CallFits(loads[k], tab, snapshots)
        /\ s.pc = "asked" /\ s.pc # "unused"
        /\ snapshots' = [snapshots EXCEPT ![r].pc = "failed"]
        /\ shared' = IF shared[s.account] = r THEN [shared EXCEPT ![s.account] = Data!NoRequest] ELSE shared
        /\ UNCHANGED <<head, proxy, tab, loads>>
    BY DEF DataInv, Data!SnapshotFails, Data!chainState
  <1>2. s \in UsedRequests /\ s.account \in Data!Readers
    BY <1>1, RequestFields
  <1>3. /\ snapshots \in [Requests -> {Unused} \cup UsedRequests]
        /\ shared \in [Data!Readers -> Requests \cup {0}]
    BY <1>1 DEF DataTypes
  <1>4. \A q \in UsedRequests : LET n == [q EXCEPT !.pc = "failed"] IN
          n \in UsedRequests /\ n.pc = "failed" /\ n.account = q.account /\ n.fresh = q.fresh
    BY DEF UsedRequests
  <1>5. /\ snapshots' \in [Requests -> {Unused} \cup UsedRequests]
        /\ snapshots'[r].pc = "failed"
        /\ snapshots'[r].account = s.account /\ snapshots'[r].fresh = s.fresh
        /\ \A q \in Requests : q # r => snapshots'[q] = snapshots[q]
    BY <1>1, <1>2, <1>3, <1>4
  <1>6. /\ shared' \in [Data!Readers -> Requests \cup {0}]
        /\ \A a \in Data!Readers : shared'[a] = shared[a] \/ shared'[a] = 0
    BY <1>1, <1>2, <1>3 DEF Data!NoRequest
  <1> HIDE DEF s
  <1>7. DataTypes'
    BY <1>1, <1>5, <1>6 DEF DataTypes
  <1>8. CachesFit'
    <2>1. \A q \in Requests : snapshots'[q].pc = "read" =>
            snapshots'[q].reading.account = snapshots'[q].account
      BY <1>1, <1>5 DEF CachesFit
    <2>2. \A a \in Data!Readers : shared'[a] # 0 =>
            snapshots'[shared'[a]].pc # "unused" /\ snapshots'[shared'[a]].account = a
      BY <1>1, <1>3, <1>5, <1>6 DEF CachesFit, s
    <2>3. \A a \in Data!Readers : proxy'[a] # Data!NoReading => proxy'[a].account = a
      BY <1>1 DEF CachesFit
    <2> QED
      BY <2>1, <2>2, <2>3 DEF CachesFit
  <1>9. TabFits(tab)'
    BY <1>1 DEF TabFits
  <1>10. ASSUME NEW k \in Loads
         PROVE  CallFits(loads[k], tab, snapshots)'
    <2>1. CallFits(loads[k], tab, snapshots) /\ loads' = loads /\ tab' = tab
      BY <1>1
    <2>2. \A q \in Requests : /\ snapshots'[q].account = snapshots[q].account
                              /\ snapshots'[q].fresh = snapshots[q].fresh
                              /\ snapshots[q].pc # "unused" => snapshots'[q].pc # "unused"
                              /\ q # r => snapshots'[q] = snapshots[q]
      BY <1>5 DEF s
    <2> QED
      BY <1>5, <2>1, <2>2 DEF CallFits
  <1> QED
    BY <1>7, <1>8, <1>9, <1>10 DEF DataInv

\* An entry that leaves the backend's cache is not missed.
LEMMA CachesExpire ==
    ASSUME DataInv, NEW a \in Data!Readers, Data!Expire(a)
    PROVE  DataInv'
  <1>1. /\ DataTypes /\ CachesFit /\ TabFits(tab)
        /\ \A k \in Loads : CallFits(loads[k], tab, snapshots)
        /\ UNCHANGED <<head, snapshots, tab, loads>>
        /\ \/ shared' = [shared EXCEPT ![a] = 0] /\ proxy' = proxy
           \/ proxy' = [proxy EXCEPT ![a] = Data!NoReading] /\ shared' = shared
    BY DEF DataInv, Data!Expire, Data!chainState, Data!NoRequest
  <1>2. /\ proxy \in [Data!Readers -> Readings]
        /\ shared \in [Data!Readers -> Requests \cup {0}]
        /\ Data!NoReading \in Readings
    BY <1>1 DEF DataTypes, Data!NoReading, Readings
  <1>3. /\ proxy' \in [Data!Readers -> Readings]
        /\ \A b \in Data!Readers : proxy'[b] = proxy[b] \/ proxy'[b] = Data!NoReading
    BY <1>1, <1>2
  <1>4. /\ shared' \in [Data!Readers -> Requests \cup {0}]
        /\ \A b \in Data!Readers : shared'[b] = shared[b] \/ shared'[b] = 0
    BY <1>1, <1>2
  <1>5. DataTypes'
    BY <1>1, <1>3, <1>4 DEF DataTypes
  <1>6. CachesFit'
    BY <1>1, <1>3, <1>4 DEF CachesFit
  <1>7. TabFits(tab)'
    BY <1>1 DEF TabFits
  <1>8. \A k \in Loads : CallFits(loads[k], tab, snapshots)'
    BY <1>1 DEF CallFits
  <1> QED
    BY <1>5, <1>6, <1>7, <1>8 DEF DataInv

(* What a call brings is shown only while it counts, and then it is the      *)
(* wallet's own and includes what the page has confirmed.                    *)
LEMMA SnapshotShown ==
    ASSUME DataInv, NEW l \in Loads, Data!Shown(l)
    PROVE  DataInv'
  <1> DEFINE load == loads[l]
             answer == snapshots[load.request]
             ignored == Data!Ignored(Data!OfPositions)
  <1>1. /\ DataTypes /\ CachesFit /\ TabFits(tab)
        /\ \A k \in Loads : CallFits(loads[k], tab, snapshots)
        /\ load.pc = "snapshot" /\ load.pc # "none" /\ answer.pc \in {"read", "failed"}
        /\ UNCHANGED <<head, proxy, snapshots, shared>>
    BY DEF DataInv, Data!Shown, Data!chainState, Data!caches
  <1>2. /\ load \in Calls /\ load.account \in Data!Readers
        /\ tab \in PageTabs /\ loads \in [Loads -> {Data!NoLoad} \cup Calls]
        /\ Data!NoReading \in Readings
    BY <1>1, CallFields DEF DataTypes, Data!NoReading, Readings
  <1>3. CallFits(Data!NoLoad, tab, snapshots)
    BY DEF CallFits, Data!NoLoad
  <1>4. CASE ~load.active
    <2>1. tab' = tab /\ loads' = [loads EXCEPT ![l] = Data!NoLoad]
      BY <1>4 DEF Data!Shown
    <2>2. /\ loads' \in [Loads -> {Data!NoLoad} \cup Calls] /\ loads'[l] = Data!NoLoad
          /\ \A k \in Loads : k # l => loads'[k] = loads[k]
      BY <1>2, <2>1
    <2>3. \A k \in Loads : CallFits(loads'[k], tab', snapshots)
      BY <1>1, <1>3, <2>1, <2>2
    <2> QED
      BY <1>1, <1>2, <2>1, <2>2, <2>3, DataAfterEffect
  <1>5. CASE load.active
    <2>1. /\ load.account = tab.account /\ Data!enabled(tab)
          /\ load.request \in Requests /\ answer.pc # "unused" /\ answer.account = load.account
          /\ tab.asOf # 0 => (answer.pc = "read" => answer.reading.head >= tab.asOf)
      BY <1>1, <1>5 DEF CallFits
    <2>2. answer.reading \in Readings
      BY <1>1, <2>1, RequestFields
    <2>3. /\ tab' \in PageTabs /\ TabFits(tab')
          /\ tab'.account = tab.account /\ tab'.view = tab.view /\ tab'.asOf = tab.asOf
      <3>1. CASE answer.pc = "failed"
        <4>1. tab' = [tab EXCEPT !.loading = FALSE, !.error = TRUE, !.shown = Data!NoReading,
                                 !.positions = Data!NoReading]
          BY <1>5, <3>1 DEF Data!Shown
        <4>2. /\ tab' \in PageTabs /\ tab'.error /\ tab'.positions = Data!NoReading
              /\ tab'.asOf = tab.asOf /\ tab'.refreshed = tab.refreshed /\ tab'.view = tab.view
              /\ tab'.account = tab.account
          BY <1>2, <4>1 DEF PageTabs
        <4> QED
          BY <1>1, <4>2 DEF TabFits
      <3>2. CASE answer.pc = "read"
        <4>1. tab' = [tab EXCEPT !.loading = FALSE, !.shown = answer.reading]
          BY <1>5, <3>2 DEF Data!Shown
        <4>2. /\ tab' \in PageTabs /\ tab'.shown = answer.reading
              /\ tab'.asOf = tab.asOf /\ tab'.refreshed = tab.refreshed /\ tab'.view = tab.view
              /\ tab'.account = tab.account /\ tab'.positions = tab.positions
          BY <1>2, <2>2, <4>1 DEF PageTabs
        <4>3. answer.reading.account = tab.account /\ answer.reading # Data!NoReading
          BY <1>1, <1>2, <2>1, <3>2, ReadingsDiffer DEF CachesFit
        <4>4. answer.reading.head >= tab.asOf
          BY <1>2, <2>1, <2>2, <3>2 DEF Readings, PageTabs
        <4> QED
          BY <1>1, <4>2, <4>3, <4>4 DEF TabFits
      <3> QED
        BY <1>1, <3>1, <3>2
    <2>4. \A k \in Loads :
            /\ ignored[k] \in {Data!NoLoad} \cup Calls
            /\ loads[k].pc \in Data!OfPositions /\ loads[k].pc # "none" => ~ignored[k].active
            /\ loads[k].pc \notin Data!OfPositions => ignored[k] = loads[k]
            /\ ignored[k].pc = loads[k].pc
      BY <1>1, IgnoredCalls
    <2>5. ignored = [k \in Loads |-> ignored[k]]
      BY DEF Data!Ignored
    <2>6. ignored[l] = load
      BY <1>1, <2>4 DEF Data!OfPositions
    <2>7. \A k \in Loads : CallFits(ignored[k], tab, snapshots)
      <3> TAKE k \in Loads
      <3>1. CASE loads[k].pc \in Data!OfPositions /\ loads[k].pc # "none"
        BY <2>4, <3>1 DEF CallFits
      <3>2. CASE loads[k].pc \notin Data!OfPositions
        BY <1>1, <2>4, <3>2
      <3> QED
        BY <3>1, <3>2 DEF Data!OfPositions
    <2> HIDE DEF ignored
    <2>8. \E call \in {Data!NoLoad} \cup Calls :
            loads' = [ignored EXCEPT ![l] = call] /\ CallFits(call, tab, snapshots)
      <3>1. CASE answer.pc = "read" /\ tab.view = "earn"
        <4> DEFINE n == [load EXCEPT !.pc = "positions"]
        <4>1. loads' = [ignored EXCEPT ![l].pc = "positions"]
          BY <1>5, <3>1 DEF Data!Shown, ignored
        <4>2. n \in Calls /\ n.pc = "positions" /\ n.account = load.account
          BY <1>2 DEF Calls, Data!OfPositions
        <4>3. loads' = [ignored EXCEPT ![l] = n]
          BY <2>5, <2>6, <4>1
        <4> HIDE DEF n
        <4>4. CallFits(n, tab, snapshots)
          BY <2>1, <3>1, <4>2 DEF CallFits
        <4> QED
          BY <4>2, <4>3, <4>4
      <3>2. CASE ~(answer.pc = "read" /\ tab.view = "earn")
        BY <1>3, <1>5, <3>2 DEF Data!Shown, ignored
      <3> QED
        BY <3>1, <3>2
    <2>9. /\ loads' \in [Loads -> {Data!NoLoad} \cup Calls]
          /\ \A k \in Loads : CallFits(loads'[k], tab, snapshots)
      BY <2>4, <2>5, <2>7, <2>8
    <2>10. \A k \in Loads : CallFits(loads'[k], tab', snapshots)
      BY <2>3, <2>9, CallStillFits
    <2> QED
      BY <1>1, <2>3, <2>9, <2>10, DataAfterEffect
  <1> QED
    BY <1>4, <1>5

\* Positions are read for the account the load was made for.
LEMMA PositionsRead ==
    ASSUME DataInv, NEW l \in Loads, Data!readPositions(l)
    PROVE  DataInv'
  <1> DEFINE load == loads[l]
             reading == Data!Reading(load.account)
             n == [[load EXCEPT !.pc = "answered"] EXCEPT !.reading = reading]
  <1>1. /\ DataTypes /\ TabFits(tab) /\ \A k \in Loads : CallFits(loads[k], tab, snapshots)
        /\ load.pc = "positions" /\ load.pc # "none"
        /\ loads' = [loads EXCEPT ![l].pc = "answered", ![l].reading = reading]
        /\ UNCHANGED <<head, proxy, snapshots, shared, tab>>
    BY DEF DataInv, Data!readPositions, Data!chainState, Data!caches
  <1>2. /\ load \in Calls /\ load.account \in Data!Readers /\ tab \in PageTabs /\ head \in Nat
        /\ loads \in [Loads -> {Data!NoLoad} \cup Calls]
    BY <1>1, CallFields DEF DataTypes
  <1>3. reading \in Readings /\ reading.account = load.account
    <2>1. Data!loadListings \cup Data!loadOffers \cup Data!enrichAgent \in SUBSET Things
      BY DEF Data!loadListings, Data!loadOffers, Data!enrichAgent, Things
    <2> QED
      BY <1>2, <2>1 DEF Data!Reading, Readings
  <1> HIDE DEF reading
  <1>4. /\ n \in Calls /\ n.pc = "answered" /\ n.reading = reading
        /\ n.account = load.account /\ n.active = load.active
    BY <1>2, <1>3 DEF Calls, Data!OfPositions
  <1>5. [loads EXCEPT ![l] = [load EXCEPT !.pc = "answered"]][l] = [load EXCEPT !.pc = "answered"]
    BY <1>2
  <1>6. /\ loads'[l] = n /\ \A k \in Loads : k # l => loads'[k] = loads[k]
        /\ loads' = [k \in Loads |-> loads'[k]]
    BY <1>1, <1>2, <1>5
  <1> HIDE DEF n
  <1>7. loads' \in [Loads -> {Data!NoLoad} \cup Calls]
    <2>1. \A k \in Loads : loads'[k] \in {Data!NoLoad} \cup Calls
      BY <1>2, <1>4, <1>6
    <2> QED
      BY <1>6, <2>1
  <1>8. CallFits(n, tab, snapshots)
    BY <1>1, <1>3, <1>4 DEF CallFits, Data!OfPositions
  <1>9. tab' = tab /\ \A k \in Loads : CallFits(loads'[k], tab, snapshots)
    BY <1>1, <1>6, <1>8
  <1> QED
    BY <1>1, <1>2, <1>7, <1>9, DataAfterEffect

\* Positions are shown to the account they were read for.
LEMMA PositionsAreShown ==
    ASSUME DataInv, NEW l \in Loads, Data!PositionsShown(l)
    PROVE  DataInv'
  <1> DEFINE load == loads[l]
  <1>1. /\ DataTypes /\ TabFits(tab) /\ \A k \in Loads : CallFits(loads[k], tab, snapshots)
        /\ load.pc = "answered" /\ load.pc # "none"
        /\ tab' = IF load.active THEN [tab EXCEPT !.positions = load.reading] ELSE tab
        /\ loads' = [loads EXCEPT ![l] = Data!NoLoad]
        /\ UNCHANGED <<head, proxy, snapshots, shared>>
    BY DEF DataInv, Data!PositionsShown, Data!Wanted, Data!chainState, Data!caches
  <1>2. /\ load \in Calls /\ load.reading \in Readings /\ tab \in PageTabs
        /\ loads \in [Loads -> {Data!NoLoad} \cup Calls]
    BY <1>1, CallFields DEF DataTypes
  <1>3. /\ loads' \in [Loads -> {Data!NoLoad} \cup Calls] /\ loads'[l] = Data!NoLoad
        /\ \A k \in Loads : k # l => loads'[k] = loads[k]
    BY <1>1, <1>2
  <1>4. CallFits(Data!NoLoad, tab, snapshots)
    BY DEF CallFits, Data!NoLoad
  <1>5. \A k \in Loads : CallFits(loads'[k], tab, snapshots)
    BY <1>1, <1>3, <1>4
  <1>6. CASE ~load.active
    BY <1>1, <1>2, <1>3, <1>5, <1>6, DataAfterEffect
  <1>7. CASE load.active
    <2>1. /\ load.account = tab.account /\ Data!enabled(tab) /\ tab.view = "earn"
          /\ load.reading.account = load.account
      BY <1>1, <1>7 DEF CallFits, Data!OfPositions
    <2>2. tab' = [tab EXCEPT !.positions = load.reading]
      BY <1>1, <1>7
    <2>3. /\ tab' \in PageTabs /\ tab'.positions = load.reading
          /\ tab'.asOf = tab.asOf /\ tab'.refreshed = tab.refreshed /\ tab'.view = tab.view
          /\ tab'.account = tab.account /\ tab'.loading = tab.loading /\ tab'.error = tab.error
          /\ tab'.shown = tab.shown
      BY <1>2, <2>2 DEF PageTabs
    <2>4. TabFits(tab')
      BY <1>1, <2>1, <2>3 DEF TabFits, Data!enabled
    <2>5. \A k \in Loads : CallFits(loads'[k], tab', snapshots)
      BY <1>5, <2>3, CallStillFits
    <2> QED
      BY <1>1, <1>3, <2>3, <2>4, <2>5, DataAfterEffect
  <1> QED
    BY <1>6, <1>7

\* At first nothing is loaded.
LEMMA DataStart ==
    ASSUME Data!Init
    PROVE  DataInv
  <1>1. /\ head = 0 /\ proxy = [a \in Data!Readers |-> Data!NoReading]
        /\ snapshots = [r \in Requests |-> Unused] /\ shared = [a \in Data!Readers |-> 0]
        /\ loads = [l \in Loads |-> Data!NoLoad]
    BY DEF Data!Init, Unused, Data!NoRequest
  <1>2. PICK page \in Data!Pages : tab = Data!NewTab(page)
    BY DEF Data!Init
  <1>3. Data!NoReading \in Readings
    BY DEF Data!NoReading, Readings
  <1>4. /\ tab \in PageTabs /\ tab.asOf = 0 /\ tab.shown = Data!NoReading
        /\ tab.positions = Data!NoReading /\ tab.account = Data!NoAccount
    BY <1>2, <1>3 DEF Data!NewTab, PageTabs, Data!Readers
  <1>5. DataTypes
    BY <1>1, <1>3, <1>4 DEF DataTypes
  <1>6. CachesFit
    BY <1>1 DEF CachesFit, Unused
  <1>7. TabFits(tab)
    BY <1>1, <1>4 DEF TabFits
  <1>8. \A l \in Loads : CallFits(loads[l], tab, snapshots)
    BY <1>1 DEF CallFits, Data!NoLoad
  <1> QED
    BY <1>5, <1>6, <1>7, <1>8 DEF DataInv

\* Every step of pages, requests, chain and cache keeps the invariant.
LEMMA DataStep ==
    ASSUME DataInv, Data!Next
    PROVE  DataInv'
  <1>1. CASE \E l \in Loads : Data!Asked(l) /\ (Data!LoadStep(l) \/ Data!ConfigFails(l))
    <2>1. PICK l \in Loads : Data!Asked(l) /\ (Data!LoadStep(l) \/ Data!ConfigFails(l))
      BY <1>1
    <2>2. loads[l].pc # "none"
      BY <2>1 DEF Data!Asked
    <2> QED
      BY <2>1, <2>2, SnapshotAsked, SnapshotShown, PositionsRead, PositionsAreShown, DataDrops
      DEF Data!LoadStep
  <1>2. CASE Data!Settled
    BY <1>2, DataEffects, DataActs
  <1> QED
    BY <1>1, <1>2, DataEffects, DataActs, RequestAnswered, RequestFails, CachesExpire
    DEF Data!Next

(* Once a page has loaded without an error, it shows the connected wallet's  *)
(* own snapshot, one that includes every action the page has confirmed, and  *)
(* bond positions only to their owner: for every number of wallets, loads    *)
(* and requests under way.                                                   *)
THEOREM LoadedViewsCurrent == WebSpec => []LoadedViewsAreCurrent
  <1> DEFINE Inv == part = "data" => DataInv
  <1>1. WebInit => Inv
    BY DataStart DEF WebInit
  <1>2. Inv /\ [WebNext]_webVars => Inv'
    <2> SUFFICES ASSUME Inv, [WebNext]_webVars, part' = "data"
                 PROVE  DataInv'
      OBVIOUS
    <2>1. part = "data" /\ DataInv
      BY DEF WebNext, webVars
    <2>2. Data!Next \/ UNCHANGED <<head, proxy, snapshots, shared, tab, loads>>
      BY <2>1 DEF WebNext, webVars, dataVars
    <2> QED
      BY <2>1, <2>2, DataStep, DataWaits
  <1>3. Inv => LoadedViewsAreCurrent
    <2> SUFFICES ASSUME DataInv
                 PROVE  Data!LoadedViewsAreCurrent
      BY DEF LoadedViewsAreCurrent
    <2>1. TabFits(tab)
      BY DEF DataInv
    <2> QED
      BY <2>1 DEF TabFits, Data!LoadedViewsAreCurrent, Data!PortfolioPage
  <1> QED
    BY <1>1, <1>2, <1>3, PTL DEF WebSpec

------------------------------------------------------------------------------
(* The market page's board.                                                  *)

OrderRows == [key : Agents, price : Prices, active : BOOLEAN]
Bests == [id : Nat, price : Prices \cup {0}]
Quotations ==
    {Board!NoSnapshot} \cup
    [fee : MarketFees, floor : [Agents -> Bests], topBid : [Agents -> Bests]]
Boards ==
    [snapshot : Quotations, filter : SUBSET Agents, compared : SUBSET Agents,
     picked : Agents \cup {0}, busy : BOOLEAN]

BoardTypes ==
    /\ listings \in [Board!Markets -> Seq(OrderRows)]
    /\ offers \in [Board!Markets -> Seq(OrderRows)]
    /\ fees \in [Board!Markets -> MarketFees]
    /\ board \in Boards

(* A market's order of a Key, active or not, at the price that is quoted.    *)
IsOrder(orders, market, m, id, price) ==
    /\ id \in DOMAIN orders[market]
    /\ orders[market][id].key = m /\ orders[market][id].price = price

Quoted(orders, m, best) ==
    best # Board!NoBest => IsOrder(orders, Board!agentMarket(m), m, best.id, best.price)

ComparisonFits(b) ==
    IsFiniteSet(b.compared) /\ Cardinality(b.compared) <= 2 /\ b.compared \subseteq Board!visible(b)

(* A snapshot quotes orders that were made, and an order sent from it is one *)
(* of the right market, Key and price: numbers are never given twice.        *)
SnapshotFits(snapshot) ==
    snapshot # Board!NoSnapshot =>
        \A m \in Agents : /\ Quoted(listings, m, snapshot.floor[m])
                          /\ Quoted(offers, m, snapshot.topBid[m])
OrderFits(o) ==
    o # Board!NoOrder =>
        /\ o.market \in Board!Markets
        /\ \/ o.kind = "buy" /\ IsOrder(listings, o.market, o.agent, o.id, o.shown)
           \/ o.kind = "sell" /\ IsOrder(offers, o.market, o.agent, o.id, o.shown)

ReceiptsFit == \A r \in receipts : r.key = r.order.agent /\ r.price = r.order.shown

BoardInv ==
    /\ BoardTypes
    /\ SnapshotFits(board.snapshot)
    /\ OrderFits(order)
    /\ ReceiptsFit
    /\ ComparisonFits(board)

(* A set of numbers that is not empty has a smallest one.                    *)
LEMMA SmallestNumber ==
    ASSUME NEW T, T \subseteq Nat, T # {}
    PROVE  \E n \in T : \A k \in T : n <= k
  <1>1. PICK n \in T : \A k \in T : <<k, n>> \notin OpToRel(<, Nat)
    BY WFMin, NatLessThanWellFounded, Zenon
  <1>2. \A k \in T : ~(k < n)
    BY <1>1, Zenon DEF OpToRel
  <1>3. \A k \in T : n <= k
    BY <1>2
  <1> QED
    BY <1>3

(* The first of some orders is one of them.                                  *)
LEMMA FirstIsOne ==
    ASSUME NEW rows, \A row \in rows : row.id \in Nat, rows # {}
    PROVE  \E row \in rows : Board!First(rows) = [id |-> row.id, price |-> row.price]
  <1>1. PICK n \in {row.id : row \in rows} : \A k \in {row.id : row \in rows} : n <= k
    <2>1. {row.id : row \in rows} \subseteq Nat /\ {row.id : row \in rows} # {}
      OBVIOUS
    <2> HIDE DEF Board!First
    <2> QED
      BY <2>1, SmallestNumber
  <1>2. \E r \in rows : \A s \in rows : r.id <= s.id
    BY <1>1
  <1> DEFINE row == CHOOSE r \in rows : \A s \in rows : r.id <= s.id
  <1>3. row \in rows
    BY <1>2
  <1>4. Board!First(rows) = [id |-> row.id, price |-> row.price]
    BY DEF Board!First
  <1> QED
    BY <1>3, <1>4

(* The best order quoted of a Key is one its own market has.                 *)
LEMMA BestIsQuoted ==
    ASSUME NEW orders \in [Board!Markets -> Seq(OrderRows)], NEW m \in Agents, NEW best,
           NEW rows, rows \subseteq Board!Own(Board!Rows(orders), m, Board!agentMarket(m)),
           best = Board!First(rows)
    PROVE  best \in Bests /\ Quoted(orders, m, best)
  <1> DEFINE market == Board!agentMarket(m)
  <1>1. market \in Board!Markets
    BY DEF Board!agentMarket, Board!Markets
  <1>2. \A row \in rows :
          /\ row.id \in DOMAIN orders[market] /\ row.id \in Nat
          /\ orders[market][row.id].key = m /\ orders[market][row.id].price = row.price
          /\ row.price \in Prices
    <2> SUFFICES ASSUME NEW row \in rows
                 PROVE  /\ row.id \in DOMAIN orders[market] /\ row.id \in Nat
                        /\ orders[market][row.id].key = m
                        /\ orders[market][row.id].price = row.price
                        /\ row.price \in Prices
      OBVIOUS
    <2>1. row \in Board!Rows(orders) /\ row.key = m /\ row.market = market
      BY DEF Board!Own
    <2>2. PICK n \in Board!Markets : \E id \in DOMAIN orders[n] :
            row = [id |-> id, market |-> n, key |-> orders[n][id].key,
                   price |-> orders[n][id].price, active |-> orders[n][id].active]
      BY <2>1 DEF Board!Rows
    <2>3. PICK id \in DOMAIN orders[n] :
            row = [id |-> id, market |-> n, key |-> orders[n][id].key,
                   price |-> orders[n][id].price, active |-> orders[n][id].active]
      BY <2>2
    <2>4. /\ row.id = id /\ row.market = n /\ row.key = orders[n][id].key
          /\ row.price = orders[n][id].price
      BY <2>3
    <2>5. n = market /\ orders[n] \in Seq(OrderRows)
      BY <1>1, <2>1, <2>4
    <2>6. id \in Nat /\ orders[n][id] \in OrderRows
      BY <2>5
    <2>7. orders[n][id].price \in Prices
      BY <2>6 DEF OrderRows
    <2> QED
      BY <2>1, <2>4, <2>5, <2>6, <2>7
  <1>3. CASE rows = {}
    BY <1>3 DEF Board!First, Board!NoBest, Bests, Quoted
  <1>4. CASE rows # {}
    <2>1. PICK row \in rows : best = [id |-> row.id, price |-> row.price]
      BY <1>2, <1>4, FirstIsOne
    <2>2. best.id = row.id /\ best.price = row.price
      BY <2>1
    <2> QED
      BY <1>2, <2>1, <2>2 DEF Bests, Quoted, IsOrder
  <1> QED
    BY <1>3, <1>4

\* A snapshot taken now quotes the orders of the two books.
LEMMA SnapshotsFit ==
    ASSUME BoardTypes
    PROVE  Board!Snapshot \in Quotations /\ SnapshotFits(Board!Snapshot)
  <1>1. /\ listings \in [Board!Markets -> Seq(OrderRows)] /\ offers \in [Board!Markets -> Seq(OrderRows)]
        /\ fees["current"] \in MarketFees
    BY DEF BoardTypes, Board!Markets
  <1>2. \A m \in Agents :
          LET floor == Board!Floor(Board!Own(Board!Rows(listings), m, Board!agentMarket(m))) IN
          floor \in Bests /\ Quoted(listings, m, floor)
    <2> TAKE m \in Agents
    <2> DEFINE own == Board!Own(Board!Rows(listings), m, Board!agentMarket(m))
               rows == {r \in own : \A s \in own : r.price <= s.price}
    <2>1. rows \subseteq own /\ Board!Floor(own) = Board!First(rows)
      BY DEF Board!Floor
    <2> HIDE DEF rows
    <2> QED
      BY <1>1, <2>1, BestIsQuoted
  <1>3. \A m \in Agents :
          LET bid == Board!TopBid(Board!Own(Board!Rows(offers), m, Board!agentMarket(m))) IN
          bid \in Bests /\ Quoted(offers, m, bid)
    <2> TAKE m \in Agents
    <2> DEFINE own == Board!Own(Board!Rows(offers), m, Board!agentMarket(m))
               rows == {r \in own : \A s \in own : r.price >= s.price}
    <2>1. rows \subseteq own /\ Board!TopBid(own) = Board!First(rows)
      BY DEF Board!TopBid
    <2> HIDE DEF rows
    <2> QED
      BY <1>1, <2>1, BestIsQuoted
  <1>4. /\ Board!Snapshot.fee = fees["current"]
        /\ \A m \in Agents :
             /\ Board!Snapshot.floor[m] = Board!Floor(Board!Own(Board!Rows(listings), m, Board!agentMarket(m)))
             /\ Board!Snapshot.topBid[m] = Board!TopBid(Board!Own(Board!Rows(offers), m, Board!agentMarket(m)))
    BY DEF Board!Snapshot
  <1>5. Board!Snapshot \in Quotations
    BY <1>1, <1>2, <1>3 DEF Board!Snapshot, Quotations
  <1>6. SnapshotFits(Board!Snapshot)
    BY <1>2, <1>3, <1>4 DEF SnapshotFits
  <1> QED
    BY <1>5, <1>6

(* What markets do to an order they have: they may end it, no more.          *)
OrdersKept(old, new) ==
    \A market \in Board!Markets : \A id \in DOMAIN old[market] :
        /\ id \in DOMAIN new[market]
        /\ new[market][id].key = old[market][id].key
        /\ new[market][id].price = old[market][id].price

\* A new order leaves the others as they are.
LEMMA OrderAdded ==
    ASSUME NEW old \in [Board!Markets -> Seq(OrderRows)], NEW market \in Board!Markets,
           NEW m \in Agents, NEW price \in Prices, NEW new,
           new = [old EXCEPT ![market] = Append(@, [key |-> m, price |-> price, active |-> TRUE])]
    PROVE  new \in [Board!Markets -> Seq(OrderRows)] /\ OrdersKept(old, new)
  <1> DEFINE row == [key |-> m, price |-> price, active |-> TRUE]
             q == old[market]
  <1>1. row \in OrderRows
    BY DEF OrderRows
  <1>2. q \in Seq(OrderRows)
    OBVIOUS
  <1> HIDE DEF row
  <1>3. /\ Append(q, row) \in Seq(OrderRows)
        /\ \A id \in DOMAIN q : id \in DOMAIN Append(q, row) /\ Append(q, row)[id] = q[id]
    BY <1>1, <1>2
  <1>4. new[market] = Append(q, row) /\ \A n \in Board!Markets : n # market => new[n] = old[n]
    BY DEF row
  <1>5. new \in [Board!Markets -> Seq(OrderRows)]
    BY <1>3 DEF row
  <1>6. ASSUME NEW n \in Board!Markets, NEW id \in DOMAIN old[n]
        PROVE  /\ id \in DOMAIN new[n] /\ new[n][id].key = old[n][id].key
               /\ new[n][id].price = old[n][id].price
    BY <1>3, <1>4, <1>6
  <1> QED
    BY <1>5, <1>6 DEF OrdersKept

\* An order that ends keeps its Key and its price.
LEMMA OrderEnded ==
    ASSUME NEW old \in [Board!Markets -> Seq(OrderRows)], NEW market \in Board!Markets,
           NEW id \in DOMAIN old[market], NEW new,
           new = [old EXCEPT ![market][id].active = FALSE]
    PROVE  new \in [Board!Markets -> Seq(OrderRows)] /\ OrdersKept(old, new)
  <1> DEFINE q == old[market]
             n == [q EXCEPT ![id] = [q[id] EXCEPT !.active = FALSE]]
  <1>1. q \in Seq(OrderRows) /\ q[id] \in OrderRows
    OBVIOUS
  <1>2. \A r \in OrderRows : LET e == [r EXCEPT !.active = FALSE] IN
          e \in OrderRows /\ e.key = r.key /\ e.price = r.price
    BY DEF OrderRows
  <1>3. [q[id] EXCEPT !.active = FALSE] \in OrderRows
    BY <1>1, <1>2
  <1>4. n \in Seq(OrderRows) /\ DOMAIN n = DOMAIN q
    BY <1>1, <1>3
  <1>5. \A i \in DOMAIN q : n[i].key = q[i].key /\ n[i].price = q[i].price
    BY <1>1, <1>2
  <1>6. new = [old EXCEPT ![market] = n]
    OBVIOUS
  <1> HIDE DEF n
  <1>7. new[market] = n /\ \A k \in Board!Markets : k # market => new[k] = old[k]
    BY <1>6
  <1>8. new \in [Board!Markets -> Seq(OrderRows)]
    BY <1>4, <1>6
  <1> QED
    BY <1>4, <1>5, <1>7, <1>8 DEF OrdersKept

(* What is quoted or ordered stays so while the markets keep their orders.   *)
LEMMA QuotesStay ==
    ASSUME BoardInv, OrdersKept(listings, listings'), OrdersKept(offers, offers')
    PROVE  SnapshotFits(board.snapshot)' \/ board'.snapshot # board.snapshot
  <1> SUFFICES ASSUME board'.snapshot = board.snapshot, board.snapshot # Board!NoSnapshot,
                      NEW m \in Agents
               PROVE  /\ Quoted(listings', m, board.snapshot.floor[m])
                      /\ Quoted(offers', m, board.snapshot.topBid[m])
    BY DEF SnapshotFits
  <1>1. /\ Quoted(listings, m, board.snapshot.floor[m])
        /\ Quoted(offers, m, board.snapshot.topBid[m])
    BY DEF BoardInv, SnapshotFits
  <1>2. Board!agentMarket(m) \in Board!Markets
    BY DEF Board!agentMarket, Board!Markets
  <1> QED
    BY <1>1, <1>2 DEF Quoted, IsOrder, OrdersKept

\* What others trade does not touch the order under way.
LEMMA OrderStays ==
    ASSUME BoardInv, OrdersKept(listings, listings'), OrdersKept(offers, offers'), order' = order
    PROVE  OrderFits(order)'
  <1>1. OrderFits(order)
    BY DEF BoardInv
  <1> QED
    BY <1>1 DEF OrderFits, IsOrder, OrdersKept

(* Others trade, and the owner changes a fee.                                *)
LEMMA OthersTrade ==
    ASSUME BoardInv, NEW market \in Board!Markets,
           \/ \E m \in Agents, price \in Prices :
                 Board!createListing(market, m, price) \/ Board!createOffer(market, m, price)
           \/ Board!Taken(market)
           \/ \E fee \in MarketFees : Board!setFee(market, fee)
    PROVE  BoardInv'
  <1>1. UNCHANGED <<board, order, receipts>>
    BY DEF Board!createListing, Board!createOffer, Board!Taken, Board!setFee, Board!Page
  <1>2. /\ listings \in [Board!Markets -> Seq(OrderRows)] /\ offers \in [Board!Markets -> Seq(OrderRows)]
        /\ fees \in [Board!Markets -> MarketFees] /\ board \in Boards
    BY DEF BoardInv, BoardTypes
  <1>3. OrdersKept(listings, listings) /\ OrdersKept(offers, offers)
    BY DEF OrdersKept
  <1>4. /\ listings' \in [Board!Markets -> Seq(OrderRows)] /\ OrdersKept(listings, listings')
        /\ offers' \in [Board!Markets -> Seq(OrderRows)] /\ OrdersKept(offers, offers')
        /\ fees' \in [Board!Markets -> MarketFees]
    <2>1. ASSUME NEW m \in Agents, NEW price \in Prices, Board!createListing(market, m, price)
          PROVE  <1>4!:
      <3>1. /\ listings' = [listings EXCEPT ![market] =
                    Append(@, [key |-> m, price |-> price, active |-> TRUE])]
            /\ UNCHANGED <<offers, fees>>
        BY <2>1 DEF Board!createListing
      <3>2. listings' \in [Board!Markets -> Seq(OrderRows)] /\ OrdersKept(listings, listings')
        BY <1>2, <3>1, OrderAdded
      <3> QED
        BY <1>2, <1>3, <3>1, <3>2
    <2>2. ASSUME NEW m \in Agents, NEW price \in Prices, Board!createOffer(market, m, price)
          PROVE  <1>4!:
      <3>1. /\ offers' = [offers EXCEPT ![market] =
                    Append(@, [key |-> m, price |-> price, active |-> TRUE])]
            /\ UNCHANGED <<listings, fees>>
        BY <2>2 DEF Board!createOffer
      <3>2. offers' \in [Board!Markets -> Seq(OrderRows)] /\ OrdersKept(offers, offers')
        BY <1>2, <3>1, OrderAdded
      <3> QED
        BY <1>2, <1>3, <3>1, <3>2
    <2>3. ASSUME Board!Taken(market)
          PROVE  <1>4!:
      <3>1. CASE \E id \in DOMAIN listings[market] :
                    listings' = [listings EXCEPT ![market][id].active = FALSE] /\ UNCHANGED offers
        <4>1. PICK id \in DOMAIN listings[market] :
                 listings' = [listings EXCEPT ![market][id].active = FALSE] /\ UNCHANGED offers
          BY <3>1
        <4>2. listings' \in [Board!Markets -> Seq(OrderRows)] /\ OrdersKept(listings, listings')
          BY <1>2, <4>1, OrderEnded
        <4>3. UNCHANGED fees
          BY <2>3 DEF Board!Taken
        <4> QED
          BY <1>2, <1>3, <4>1, <4>2, <4>3
      <3>2. CASE \E id \in DOMAIN offers[market] :
                    offers' = [offers EXCEPT ![market][id].active = FALSE] /\ UNCHANGED listings
        <4>1. PICK id \in DOMAIN offers[market] :
                 offers' = [offers EXCEPT ![market][id].active = FALSE] /\ UNCHANGED listings
          BY <3>2
        <4>2. offers' \in [Board!Markets -> Seq(OrderRows)] /\ OrdersKept(offers, offers')
          BY <1>2, <4>1, OrderEnded
        <4>3. UNCHANGED fees
          BY <2>3 DEF Board!Taken
        <4> QED
          BY <1>2, <1>3, <4>1, <4>2, <4>3
      <3> QED
        BY <2>3, <3>1, <3>2 DEF Board!Taken
    <2>4. ASSUME NEW fee \in MarketFees, Board!setFee(market, fee)
          PROVE  <1>4!:
      BY <1>2, <1>3, <2>4 DEF Board!setFee
    <2> QED
      BY <2>1, <2>2, <2>3, <2>4
  <1>5. SnapshotFits(board.snapshot)' /\ OrderFits(order)'
    BY <1>1, <1>4, QuotesStay, OrderStays
  <1>6. BoardTypes'
    BY <1>1, <1>2, <1>4 DEF BoardTypes
  <1>7. ReceiptsFit'
    BY <1>1 DEF BoardInv, ReceiptsFit
  <1>8. ComparisonFits(board)'
    BY <1>1 DEF BoardInv, ComparisonFits, Board!visible, Board!agents
  <1> QED
    BY <1>5, <1>6, <1>7, <1>8 DEF BoardInv

(* Whatever the page comes to list, it compares no more than that.           *)
LEMMA PageShows ==
    ASSUME BoardInv, NEW b \in Boards, SnapshotFits(b.snapshot), b.compared = board.compared,
           Board!Shows(b), UNCHANGED <<listings, offers, fees, order, receipts>>
    PROVE  BoardInv'
  <1> DEFINE seen == Board!visible(b)
             p == [b EXCEPT !.compared = @ \cap seen]
             busy1 == b.busy /\ Board!selected(b) # Board!NoneOpen
                             /\ Board!selected(board) # Board!NoneOpen
  <1>1. /\ BoardTypes /\ OrderFits(order) /\ ReceiptsFit
        /\ IsFiniteSet(b.compared) /\ Cardinality(b.compared) <= 2
    BY DEF BoardInv, ComparisonFits
  <1>2. board' = [p EXCEPT !.busy = busy1]
    BY DEF Board!Shows, Board!Pruned
  <1>3. busy1 \in BOOLEAN
    OBVIOUS
  <1>4. b.compared \cap seen \in SUBSET Agents
    BY DEF Boards
  <1> HIDE DEF busy1, seen
  <1>5. /\ p \in Boards /\ p.snapshot = b.snapshot /\ p.filter = b.filter
        /\ p.compared = b.compared \cap seen
    BY <1>4 DEF Boards
  <1> HIDE DEF p
  <1>6. /\ board' \in Boards /\ board'.snapshot = b.snapshot /\ board'.filter = b.filter
        /\ board'.compared = b.compared \cap seen
    BY <1>2, <1>3, <1>5 DEF Boards
  <1>7. Board!visible(board') = seen
    BY <1>6 DEF Board!visible, Board!agents, seen
  <1>8. /\ IsFiniteSet(board'.compared) /\ Cardinality(board'.compared) <= 2
        /\ board'.compared \subseteq seen
    <2>1. board'.compared \subseteq b.compared
      BY <1>6
    <2>2. /\ IsFiniteSet(board'.compared)
          /\ Cardinality(board'.compared) <= Cardinality(b.compared)
      BY <1>1, <2>1, FS_Subset
    <2>3. Cardinality(board'.compared) \in Nat /\ Cardinality(b.compared) \in Nat
      BY <1>1, <2>2, FS_CardinalityType
    <2> QED
      BY <1>1, <1>6, <2>2, <2>3
  <1>9. BoardTypes'
    BY <1>1, <1>6 DEF BoardTypes
  <1>10. SnapshotFits(board.snapshot)'
    BY <1>6 DEF SnapshotFits, Quoted, IsOrder
  <1>11. OrderFits(order)'
    BY <1>1 DEF OrderFits, IsOrder
  <1>12. ReceiptsFit'
    BY <1>1 DEF ReceiptsFit
  <1>13. ComparisonFits(board)'
    BY <1>7, <1>8 DEF ComparisonFits, Board!visible, Board!agents
  <1> QED
    BY <1>9, <1>10, <1>11, <1>12, <1>13 DEF BoardInv

\* Filters, drawers and snapshots keep the board's invariant.
LEMMA PageMoves ==
    ASSUME BoardInv,
           \/ Board!refreshAll \/ Board!SnapshotLost \/ Board!onClose
           \/ \E f \in {Agents} \cup {{m} : m \in Agents} : Board!setFilter(f)
           \/ \E m \in Agents : Board!onOpenAgent(m)
    PROVE  BoardInv'
  <1>1. UNCHANGED <<listings, offers, fees, order, receipts>>
    BY DEF Board!refreshAll, Board!SnapshotLost, Board!onClose, Board!setFilter,
           Board!onOpenAgent, Board!markets
  <1>2. board \in Boards /\ BoardTypes /\ SnapshotFits(board.snapshot)
    BY DEF BoardInv, BoardTypes
  <1>3. \E b \in Boards : /\ Board!Shows(b) /\ SnapshotFits(b.snapshot)
                          /\ b.compared = board.compared
    <2>1. CASE Board!refreshAll
      <3> DEFINE b == [board EXCEPT !.snapshot = Board!Snapshot]
      <3>1. Board!Shows(b)
        BY <2>1 DEF Board!refreshAll
      <3>2. Board!Snapshot \in Quotations /\ SnapshotFits(Board!Snapshot)
        BY <1>2, SnapshotsFit
      <3>3. b \in Boards /\ b.snapshot = Board!Snapshot /\ b.compared = board.compared
        BY <1>2, <3>2 DEF Boards
      <3> HIDE DEF b
      <3> QED
        BY <3>1, <3>2, <3>3
    <2>2. CASE Board!SnapshotLost
      <3> DEFINE b == [board EXCEPT !.snapshot = Board!NoSnapshot]
      <3>1. Board!Shows(b)
        BY <2>2 DEF Board!SnapshotLost
      <3>2. Board!NoSnapshot \in Quotations /\ SnapshotFits(Board!NoSnapshot)
        BY DEF Quotations, SnapshotFits
      <3>3. b \in Boards /\ b.snapshot = Board!NoSnapshot /\ b.compared = board.compared
        BY <1>2, <3>2 DEF Boards
      <3> HIDE DEF b
      <3> QED
        BY <3>1, <3>2, <3>3
    <2>3. CASE Board!onClose
      <3> DEFINE b == [board EXCEPT !.picked = Board!NoneOpen]
      <3>1. Board!Shows(b)
        BY <2>3 DEF Board!onClose
      <3>2. b \in Boards /\ b.snapshot = board.snapshot /\ b.compared = board.compared
        BY <1>2 DEF Boards, Board!NoneOpen
      <3> HIDE DEF b
      <3> QED
        BY <1>2, <3>1, <3>2
    <2>4. ASSUME NEW f \in {Agents} \cup {{m} : m \in Agents}, Board!setFilter(f)
          PROVE  <1>3!:
      <3> DEFINE b == [board EXCEPT !.filter = f]
      <3>1. Board!Shows(b)
        BY <2>4 DEF Board!setFilter
      <3>2. f \in SUBSET Agents
        OBVIOUS
      <3>3. b \in Boards /\ b.snapshot = board.snapshot /\ b.compared = board.compared
        BY <1>2, <3>2 DEF Boards
      <3> HIDE DEF b
      <3> QED
        BY <1>2, <3>1, <3>3
    <2>5. ASSUME NEW m \in Agents, Board!onOpenAgent(m)
          PROVE  <1>3!:
      <3> DEFINE b == [board EXCEPT !.picked = m]
      <3>1. Board!Shows(b)
        BY <2>5 DEF Board!onOpenAgent, Board!PerformanceRow
      <3>2. b \in Boards /\ b.snapshot = board.snapshot /\ b.compared = board.compared
        BY <1>2 DEF Boards
      <3> HIDE DEF b
      <3> QED
        BY <1>2, <3>1, <3>2
    <2> QED
      BY <2>1, <2>2, <2>3, <2>4, <2>5
  <1> QED
    BY <1>1, <1>3, PageShows

(* The comparison takes two, of what is listed.                              *)
LEMMA ComparisonMoves ==
    ASSUME BoardInv, Board!onClearComparison \/ \E m \in Agents : Board!toggleComparison(m)
    PROVE  BoardInv'
  <1>1. /\ BoardTypes /\ OrderFits(order) /\ ReceiptsFit /\ ComparisonFits(board)
        /\ SnapshotFits(board.snapshot) /\ board \in Boards
        /\ UNCHANGED <<listings, offers, fees, order, receipts>>
    BY DEF BoardInv, BoardTypes, Board!onClearComparison, Board!toggleComparison, Board!markets
  <1>2. \E set \in SUBSET Agents :
          /\ board' = [board EXCEPT !.compared = set]
          /\ IsFiniteSet(set) /\ Cardinality(set) <= 2 /\ set \subseteq Board!visible(board)
    <2>1. CASE Board!onClearComparison
      BY <2>1, FS_EmptySet DEF Board!onClearComparison
    <2>2. ASSUME NEW m \in Agents, Board!toggleComparison(m)
          PROVE  <1>2!:
      <3> DEFINE old == board.compared
      <3>1. /\ m \in Board!visible(board)
            /\ board' = [board EXCEPT !.compared =
                   IF m \in old THEN old \ {m}
                   ELSE IF Board!Cardinality(old) < 2 THEN old \cup {m} ELSE old]
        BY <2>2 DEF Board!toggleComparison, Board!PerformanceRow
      <3>2. Board!Cardinality(old) = Cardinality(old)
        BY DEF Cardinality, Board!Cardinality
      <3>3. /\ old \in SUBSET Agents /\ IsFiniteSet(old) /\ Cardinality(old) <= 2
            /\ old \subseteq Board!visible(board) /\ Cardinality(old) \in Nat
        BY <1>1, FS_CardinalityType DEF ComparisonFits, Boards
      <3> HIDE DEF old
      <3>4. CASE m \in old
        <4>1. IsFiniteSet(old \ {m}) /\ Cardinality(old \ {m}) = Cardinality(old) - 1
          BY <3>3, <3>4, FS_RemoveElement
        <4>2. Cardinality(old \ {m}) <= 2
          BY <3>3, <4>1
        <4> QED
          BY <3>1, <3>3, <3>4, <4>1, <4>2
      <3>5. CASE m \notin old /\ Cardinality(old) < 2
        <4>1. IsFiniteSet(old \cup {m}) /\ Cardinality(old \cup {m}) = Cardinality(old) + 1
          BY <3>3, <3>5, FS_AddElement
        <4>2. Cardinality(old \cup {m}) <= 2
          BY <3>3, <3>5, <4>1
        <4> QED
          BY <3>1, <3>2, <3>3, <3>5, <4>1, <4>2
      <3>6. CASE m \notin old /\ ~(Cardinality(old) < 2)
        BY <3>1, <3>2, <3>3, <3>6
      <3> QED
        BY <3>4, <3>5, <3>6
    <2> QED
      BY <2>1, <2>2
  <1>3. PICK set \in SUBSET Agents :
          /\ board' = [board EXCEPT !.compared = set]
          /\ IsFiniteSet(set) /\ Cardinality(set) <= 2 /\ set \subseteq Board!visible(board)
    BY <1>2
  <1>4. /\ board' \in Boards /\ board'.compared = set
        /\ board'.snapshot = board.snapshot /\ board'.filter = board.filter
    BY <1>1, <1>3 DEF Boards
  <1>5. ComparisonFits(board)'
    BY <1>3, <1>4 DEF ComparisonFits, Board!visible, Board!agents
  <1>6. BoardTypes'
    BY <1>1, <1>4 DEF BoardTypes
  <1>7. SnapshotFits(board.snapshot)'
    BY <1>1, <1>4 DEF SnapshotFits, Quoted, IsOrder
  <1>8. OrderFits(order)' /\ ReceiptsFit'
    BY <1>1 DEF OrderFits, IsOrder, ReceiptsFit
  <1> QED
    BY <1>5, <1>6, <1>7, <1>8 DEF BoardInv

(* The button up or down, and nothing else of the page.                      *)
LEMMA ButtonMoves ==
    ASSUME BoardInv, NEW busy1 \in BOOLEAN, board' = [board EXCEPT !.busy = busy1]
    PROVE  /\ board' \in Boards /\ board'.snapshot = board.snapshot
           /\ ComparisonFits(board)'
  <1>1. board \in Boards /\ ComparisonFits(board)
    BY DEF BoardInv, BoardTypes
  <1>2. /\ board' \in Boards /\ board'.snapshot = board.snapshot
        /\ board'.compared = board.compared /\ board'.filter = board.filter
    BY <1>1 DEF Boards
  <1> QED
    BY <1>1, <1>2 DEF ComparisonFits, Board!visible, Board!agents

(* An order is of the Muppet whose drawer is open, at the quoted price.      *)
LEMMA OrderSent ==
    ASSUME BoardInv, Board!buyFloorKeys \/ Board!sellIntoTopBid
    PROVE  BoardInv'
  <1> DEFINE m == Board!selected(board)
  <1>1. /\ BoardTypes /\ SnapshotFits(board.snapshot) /\ ReceiptsFit
        /\ UNCHANGED <<listings, offers, fees, receipts>>
        /\ m # Board!NoneOpen /\ board' = [board EXCEPT !.busy = TRUE]
    BY DEF BoardInv, Board!buyFloorKeys, Board!sellIntoTopBid, Board!Presses, Board!markets
  <1>2. m \in Agents /\ board.snapshot # Board!NoSnapshot
    BY <1>1 DEF Board!selected, Board!agents
  <1>3. Board!agentMarket(m) \in Board!Markets
    BY DEF Board!agentMarket, Board!Markets
  <1>4. /\ Quoted(listings, m, board.snapshot.floor[m])
        /\ Quoted(offers, m, board.snapshot.topBid[m])
    BY <1>1, <1>2 DEF SnapshotFits
  <1>5. OrderFits(order')
    <2>1. CASE Board!buyFloorKeys
      <3> DEFINE best == board.snapshot.floor[m]
      <3>1. /\ best # Board!NoBest
            /\ order' = [pc |-> "signed", kind |-> "buy", agent |-> m,
                         market |-> Board!agentMarket(m), id |-> best.id, shown |-> best.price,
                         value |-> best.price + Board!Fee(best.price, board.snapshot.fee)]
        BY <2>1 DEF Board!buyFloorKeys, Board!Presses
      <3>2. /\ order'.kind = "buy" /\ order'.agent = m /\ order'.market = Board!agentMarket(m)
            /\ order'.id = best.id /\ order'.shown = best.price
        BY <3>1
      <3> QED
        BY <1>3, <1>4, <3>1, <3>2 DEF OrderFits, Quoted
    <2>2. CASE Board!sellIntoTopBid
      <3> DEFINE best == board.snapshot.topBid[m]
      <3>1. /\ best # Board!NoBest
            /\ order' = [pc |-> "signed", kind |-> "sell", agent |-> m,
                         market |-> Board!agentMarket(m), id |-> best.id, shown |-> best.price,
                         value |-> best.price + Board!Fee(best.price, board.snapshot.fee)]
        BY <2>2 DEF Board!sellIntoTopBid, Board!Presses
      <3>2. /\ order'.kind = "sell" /\ order'.agent = m /\ order'.market = Board!agentMarket(m)
            /\ order'.id = best.id /\ order'.shown = best.price
        BY <3>1
      <3> QED
        BY <1>3, <1>4, <3>1, <3>2 DEF OrderFits, Quoted
    <2> QED
      BY <2>1, <2>2
  <1>6. board' \in Boards /\ board'.snapshot = board.snapshot /\ ComparisonFits(board)'
    BY <1>1, ButtonMoves
  <1>7. BoardTypes'
    BY <1>1, <1>6 DEF BoardTypes
  <1>8. SnapshotFits(board.snapshot)' /\ ReceiptsFit' /\ OrderFits(order)'
    BY <1>1, <1>5, <1>6 DEF SnapshotFits, Quoted, IsOrder, ReceiptsFit, OrderFits
  <1> QED
    BY <1>6, <1>7, <1>8 DEF BoardInv

\* A refused order leaves no receipt.
LEMMA OrderRefused ==
    ASSUME BoardInv, Board!OrderFails
    PROVE  BoardInv'
  <1>1. /\ BoardTypes /\ SnapshotFits(board.snapshot) /\ ReceiptsFit
        /\ UNCHANGED <<listings, offers, fees, receipts>>
        /\ order' = Board!NoOrder /\ board' = [board EXCEPT !.busy = FALSE]
    BY DEF BoardInv, Board!OrderFails, Board!markets
  <1>2. board' \in Boards /\ board'.snapshot = board.snapshot /\ ComparisonFits(board)'
    BY <1>1, ButtonMoves
  <1>3. BoardTypes'
    BY <1>1, <1>2 DEF BoardTypes
  <1>4. SnapshotFits(board.snapshot)' /\ ReceiptsFit' /\ OrderFits(order)'
    BY <1>1, <1>2 DEF SnapshotFits, Quoted, IsOrder, ReceiptsFit, OrderFits
  <1> QED
    BY <1>2, <1>3, <1>4 DEF BoardInv

(* An order settles by number, and the number is still of the same Key.      *)
LEMMA OrderSettles ==
    ASSUME BoardInv, Board!buy \/ Board!acceptOffer
    PROVE  BoardInv'
  <1>1. /\ BoardTypes /\ SnapshotFits(board.snapshot) /\ ReceiptsFit /\ OrderFits(order)
        /\ order # Board!NoOrder /\ UNCHANGED fees
        /\ order' = Board!NoOrder /\ board' = [board EXCEPT !.busy = FALSE]
    BY DEF BoardInv, Board!buy, Board!acceptOffer, Board!Settles
  <1>2. /\ listings \in [Board!Markets -> Seq(OrderRows)] /\ offers \in [Board!Markets -> Seq(OrderRows)]
        /\ order.market \in Board!Markets
    BY <1>1 DEF BoardTypes, OrderFits
  <1>3. OrdersKept(listings, listings) /\ OrdersKept(offers, offers)
    BY DEF OrdersKept
  <1>4. /\ listings' \in [Board!Markets -> Seq(OrderRows)] /\ OrdersKept(listings, listings')
        /\ offers' \in [Board!Markets -> Seq(OrderRows)] /\ OrdersKept(offers, offers')
        /\ receipts' = receipts \cup {[order |-> order, key |-> order.agent, price |-> order.shown]}
    <2>1. CASE Board!buy
      <3>1. /\ order.kind = "buy" /\ IsOrder(listings, order.market, order.agent, order.id, order.shown)
        BY <1>1, <2>1 DEF Board!buy, OrderFits
      <3>2. /\ listings' = [listings EXCEPT ![order.market][order.id].active = FALSE]
            /\ UNCHANGED offers
            /\ receipts' = receipts \cup
                  {[order |-> order, key |-> listings[order.market][order.id].key,
                    price |-> listings[order.market][order.id].price]}
        BY <2>1 DEF Board!buy, Board!Settles
      <3>3. listings' \in [Board!Markets -> Seq(OrderRows)] /\ OrdersKept(listings, listings')
        <4>1. order.id \in DOMAIN listings[order.market]
          BY <3>1 DEF IsOrder
        <4> QED
          BY <1>2, <3>2, <4>1, OrderEnded
      <3> QED
        BY <1>2, <1>3, <3>1, <3>2, <3>3 DEF IsOrder
    <2>2. CASE Board!acceptOffer
      <3>1. /\ order.kind = "sell" /\ IsOrder(offers, order.market, order.agent, order.id, order.shown)
        BY <1>1, <2>2 DEF Board!acceptOffer, OrderFits
      <3>2. /\ offers' = [offers EXCEPT ![order.market][order.id].active = FALSE]
            /\ UNCHANGED listings
            /\ receipts' = receipts \cup
                  {[order |-> order, key |-> offers[order.market][order.id].key,
                    price |-> offers[order.market][order.id].price]}
        BY <2>2 DEF Board!acceptOffer, Board!Settles
      <3>3. offers' \in [Board!Markets -> Seq(OrderRows)] /\ OrdersKept(offers, offers')
        <4>1. order.id \in DOMAIN offers[order.market]
          BY <3>1 DEF IsOrder
        <4> QED
          BY <1>2, <3>2, <4>1, OrderEnded
      <3> QED
        BY <1>2, <1>3, <3>1, <3>2, <3>3 DEF IsOrder
    <2> QED
      BY <2>1, <2>2 DEF BoardInv
  <1>5. board' \in Boards /\ board'.snapshot = board.snapshot /\ ComparisonFits(board)'
    BY <1>1, ButtonMoves
  <1>6. BoardTypes'
    BY <1>1, <1>4, <1>5 DEF BoardTypes
  <1>7. SnapshotFits(board.snapshot)'
    BY <1>4, <1>5, QuotesStay
  <1>8. OrderFits(order)'
    BY <1>1 DEF OrderFits
  <1>9. ReceiptsFit'
    BY <1>1, <1>4 DEF ReceiptsFit
  <1> QED
    BY <1>5, <1>6, <1>7, <1>8, <1>9 DEF BoardInv

\* At first nothing is listed, compared or ordered.
LEMMA BoardStart ==
    ASSUME Board!Init
    PROVE  BoardInv
  <1>1. /\ listings = [market \in Board!Markets |-> << >>]
        /\ offers = [market \in Board!Markets |-> << >>]
        /\ \E fee \in MarketFees : fees = [market \in Board!Markets |-> fee]
        /\ board = [snapshot |-> Board!NoSnapshot, filter |-> Agents, compared |-> {},
                    picked |-> Board!NoneOpen, busy |-> FALSE]
        /\ order = Board!NoOrder /\ receipts = {}
    BY DEF Board!Init
  <1>2. << >> \in Seq(OrderRows)
    OBVIOUS
  <1>3. board \in Boards /\ board.snapshot = Board!NoSnapshot /\ board.compared = {}
    BY <1>1 DEF Boards, Quotations, Board!NoneOpen
  <1>4. BoardTypes
    BY <1>1, <1>2, <1>3 DEF BoardTypes
  <1>5. ComparisonFits(board)
    BY <1>3, FS_EmptySet DEF ComparisonFits
  <1>6. SnapshotFits(board.snapshot) /\ OrderFits(order) /\ ReceiptsFit
    BY <1>1, <1>3 DEF SnapshotFits, OrderFits, ReceiptsFit
  <1> QED
    BY <1>4, <1>5, <1>6 DEF BoardInv

\* A step of another part leaves the board alone.
LEMMA BoardRest ==
    ASSUME BoardInv, UNCHANGED Board!vars
    PROVE  BoardInv'
  BY DEF Board!vars, Board!markets, BoardInv, BoardTypes, SnapshotFits, OrderFits, ReceiptsFit,
         ComparisonFits, Quoted, IsOrder, Board!visible, Board!agents

(* A Key order settles for the Key of the Muppet whose drawer sent it and at *)
(* the price that drawer showed, and the comparison never holds what the     *)
(* board does not list: for every number of Muppets, prices and orders.      *)
THEOREM BoardTrue == WebSpec => []BoardIsTrue
  <1> DEFINE Inv == part = "board" => BoardInv
  <1>1. WebInit => Inv
    BY BoardStart DEF WebInit
  <1>2. Inv /\ [WebNext]_webVars => Inv'
    <2> SUFFICES ASSUME Inv, [WebNext]_webVars, part' = "board"
                 PROVE  BoardInv'
      OBVIOUS
    <2>1. part = "board" /\ BoardInv
      BY DEF WebNext, webVars
    <2>2. Board!Next \/ UNCHANGED Board!vars
      BY <2>1 DEF WebNext, webVars, boardVars, Board!vars, Board!markets
    <2>3. CASE Board!Next
      BY <2>1, <2>3, OthersTrade, PageMoves, ComparisonMoves, OrderSent, OrderRefused, OrderSettles
      DEF Board!Next
    <2> QED
      BY <2>1, <2>2, <2>3, BoardRest
  <1>3. Inv => BoardIsTrue
    <2> SUFFICES ASSUME BoardInv
                 PROVE  Board!BoardIsTrue
      BY DEF BoardIsTrue
    <2>1. Board!Cardinality(board.compared) = Cardinality(board.compared)
      BY DEF Cardinality, Board!Cardinality
    <2> QED
      BY <2>1 DEF BoardInv, ReceiptsFit, ComparisonFits, Board!BoardIsTrue
  <1> QED
    BY <1>1, <1>2, <1>3, PTL DEF WebSpec

------------------------------------------------------------------------------
(* Stock Drops.  What a page calls claimed comes by one of two ways: the      *)
(* evidence it read, or a claim whose receipt succeeded.  The second is the   *)
(* long one.  The receipt is found through a hash that went from a call to    *)
(* the page's Map and the browser's storage, and back to another call, in     *)
(* another tab or after a reload, so the invariant follows the hash: wherever *)
(* it is kept it is that of a claim of the very allocation it is kept for,    *)
(* and a call tells the card of a page only while the page has its wallet.    *)

Wallets == Holders \cup {NoHolder}

------------------------------------------------------------------------------
(* The invariant.                                                          *)

DropRecord == [funded : Nat, claimed : Nat]

\* A drop pays within its budget, and the events and the bits agree.
Books ==
    /\ drops \in Seq(DropRecord) /\ Len(drops) <= MaxDrops
    /\ claimedWords \in [DropIds -> SUBSET Holders]
    /\ payouts \in SUBSET Claims
    /\ \A d \in DOMAIN drops : drops[d].claimed <= drops[d].funded
    /\ \A d \in DropIds \ DOMAIN drops : claimedWords[d] = {}
    /\ \A d \in DropIds, a \in Holders : <<d, a>> \in payouts <=> isClaimed(d, a)

ClaimTx == [drop : DropIds, account : Holders, status : {"pending", "success", "reverted"}]

IsClaimOf(x, key) ==
    /\ x \in DOMAIN claimTxs
    /\ key = <<claimTxs[x].drop, claimTxs[x].account>>

\* A transaction that succeeded has paid.
Transactions ==
    /\ claimTxs \in Seq(ClaimTx)
    /\ \A x \in DOMAIN claimTxs :
          claimTxs[x].status = "success" => <<claimTxs[x].drop, claimTxs[x].account>> \in payouts

\* A hash is remembered for its own allocation.
Memory ==
    /\ saved \in [Claims -> Nat]
    /\ pending \in [Tabs -> [Claims -> Nat]]
    /\ \A key \in Claims : saved[key] # NoTx => IsClaimOf(saved[key], key)
    /\ \A t \in Tabs, key \in Claims :
          pending[t][key] # NoTx => IsClaimOf(pending[t][key], key)

Evidence == [account : Wallets, drops : SUBSET DropIds, claimed : SUBSET DropIds]
Card == [shown : BOOLEAN, submitted : Nat, confirmed : BOOLEAN, busy : BOOLEAN]

\* What a page calls claimed was paid to the wallet it is connected to.
Pages ==
    /\ holder \in [Tabs -> Wallets]
    /\ evidence \in [Tabs -> Evidence]
    /\ cards \in [Tabs -> [DropIds -> Card]]
    /\ \A t \in Tabs, d \in DropIds : cards[t][d].shown => holder[t] \in Holders
    /\ \A t \in Tabs, d \in DropIds : Claimed(t, d) => <<d, holder[t]>> \in payouts

Stops == {"read", "simulate", "wallet", "sent", "receipt", "settle", "check"}
Call == [pc : Stops, tab : Tabs, drop : DropIds, account : Holders, tx : Nat, mounted : BOOLEAN]

\* A call with a hash has one of its own allocation, and a call that a card
\* still listens to is one of the wallet connected there.
CallsOK ==
    /\ jobs \in [Jobs -> Call \cup {NoJob}]
    /\ \A j \in Jobs : InFlight(j) =>
          /\ jobs[j].mounted => holder[jobs[j].tab] = jobs[j].account
          /\ jobs[j].pc \in {"sent", "receipt", "settle", "check"} => IsClaimOf(jobs[j].tx, Key(j))

DropsInv == Books /\ Transactions /\ Memory /\ Pages /\ CallsOK

------------------------------------------------------------------------------
(* The contract.                                                           *)

\* The fields of the drops.
LEMMA DropFields ==
  ASSUME Books
  PROVE  /\ DOMAIN drops = 1..Len(drops) /\ Len(drops) \in Nat
         /\ \A d \in DOMAIN drops : /\ drops[d] \in DropRecord
                                  /\ drops[d].funded \in Nat /\ drops[d].claimed \in Nat
                                  /\ drops[d].claimed <= drops[d].funded
<1>1. DOMAIN drops = 1..Len(drops) /\ Len(drops) \in Nat
  BY DEF Books
<1>2. \A d \in DOMAIN drops : drops[d] \in DropRecord
  BY <1>1, ElementOfSeq DEF Books
<1> QED
  BY <1>1, <1>2 DEF Books, DropRecord

\* No drop has less than nothing left.
LEMMA LeftType ==
  ASSUME Books
  PROVE  \A d \in DropIds : Left(d) \in Nat
  BY DropFields DEF Left

\* A new drop has paid nothing.
LEMMA FundKeepsBooks ==
  ASSUME DropsAssumption, Books, NEW amount \in Budgets, fundDrop(amount)
  PROVE  Books'
<1> DEFINE new == [funded |-> amount, claimed |-> 0]
<1>1. amount \in Nat /\ new \in DropRecord
  BY DEF DropsAssumption, DropRecord
<1>2. /\ drops' = Append(drops, new) /\ Len(drops) < MaxDrops
      /\ UNCHANGED <<claimedWords, payouts>>
  BY DEF fundDrop
<1>3. drops' \in Seq(DropRecord) /\ Len(drops') = Len(drops) + 1
  BY <1>1, <1>2 DEF Books
<1>4. \A d \in DOMAIN drops : d \in DOMAIN drops' /\ drops'[d] = drops[d]
  BY <1>1, <1>2 DEF Books
<1>5. \A d \in DOMAIN drops' : drops'[d].claimed <= drops'[d].funded
  <2>1. SUFFICES ASSUME NEW d \in DOMAIN drops'
                 PROVE  drops'[d].claimed <= drops'[d].funded
    OBVIOUS
  <2>2. d \in DOMAIN drops \/ drops'[d] = new
    BY <1>1, <1>2, <1>3, DropFields DEF Books
  <2> QED
    BY <1>1, <1>4, <2>2, DropFields
<1>6. Len(drops') <= MaxDrops
  BY <1>2, <1>3 DEF Books, DropsAssumption
<1> QED
  BY <1>2, <1>3, <1>4, <1>5, <1>6 DEF Books, isClaimed

\* A claim is paid within the budget of its drop, with its bit and its event.
LEMMA ClaimKeepsBooks ==
  ASSUME DropsAssumption, Books, NEW d \in DropIds, NEW a \in Holders, Claim(d, a)
  PROVE  /\ Books'
         /\ payouts \subseteq payouts'
         /\ <<d, a>> \in payouts'
<1> DEFINE amount == Allocation[<<d, a>>]
<1>1. amount \in Nat /\ <<d, a>> \in Claims
  BY DEF DropsAssumption, Claims
<1>2. /\ d \in DOMAIN drops /\ a \notin claimedWords[d]
      /\ amount <= drops[d].funded - drops[d].claimed
      /\ claimedWords' = [claimedWords EXCEPT ![d] = @ \cup {a}]
      /\ drops' = [drops EXCEPT ![d].claimed = @ + amount]
      /\ payouts' = payouts \cup {<<d, a>>}
  BY DEF Claim, Claimable, isClaimed, Left, Marked
<1>3. drops[d].claimed + amount \in Nat /\ drops[d].claimed + amount <= drops[d].funded
  BY <1>1, <1>2, DropFields
<1>4. /\ drops' \in Seq(DropRecord) /\ Len(drops') = Len(drops)
      /\ DOMAIN drops' = DOMAIN drops
  <2>1. drops' \in [DOMAIN drops -> DropRecord]
    BY <1>2, <1>3, DropFields DEF DropRecord
  <2> QED
    BY <2>1, DropFields DEF Books
<1>5. \A e \in DOMAIN drops' : drops'[e].claimed <= drops'[e].funded
  BY <1>2, <1>3, DropFields DEF DropRecord
<1>6. claimedWords' \in [DropIds -> SUBSET Holders] /\ payouts' \in SUBSET Claims
  BY <1>1, <1>2 DEF Books
<1>7. \A e \in DropIds \ DOMAIN drops' : claimedWords'[e] = {}
  BY <1>2, <1>4 DEF Books
<1>8. \A e \in DropIds, b \in Holders : <<e, b>> \in payouts' <=> b \in claimedWords'[e]
  BY <1>2 DEF Books, isClaimed
<1> QED
  BY <1>2, <1>4, <1>5, <1>6, <1>7, <1>8 DEF Books, isClaimed

\* A step elsewhere leaves the books alone.
LEMMA BooksUnchanged ==
  ASSUME Books, UNCHANGED contract
  PROVE  Books' /\ payouts' = payouts
  BY DEF Books, contract, isClaimed

------------------------------------------------------------------------------
(* Everything else the invariant says is about allocations that were paid  *)
(* and transactions that were sent, and neither is ever taken back.        *)

Grows ==
    /\ payouts \subseteq payouts'
    /\ \A x \in DOMAIN claimTxs :
          /\ x \in DOMAIN claimTxs'
          /\ claimTxs'[x].drop = claimTxs[x].drop
          /\ claimTxs'[x].account = claimTxs[x].account

\* A transaction stays the claim it is.
LEMMA StillClaimOf ==
  ASSUME Grows, NEW x, NEW key, IsClaimOf(x, key)
  PROVE  IsClaimOf(x, key)'
  BY DEF Grows, IsClaimOf

\* What is remembered stays true while it is not changed.
LEMMA MemoryKept ==
  ASSUME Memory, Grows, UNCHANGED <<saved, pending>>
  PROVE  Memory'
  BY DEF Memory, Grows, IsClaimOf

\* What is shown stays true while it is not changed.
LEMMA PagesKept ==
  ASSUME Pages, Grows, UNCHANGED view
  PROVE  Pages'
  BY DEF Pages, Grows, view, Claimed

\* What a call carries stays true while it is not changed.
LEMMA CallsKept ==
  ASSUME CallsOK, Grows, UNCHANGED <<jobs, holder>>
  PROVE  CallsOK'
  BY DEF CallsOK, Grows, IsClaimOf, InFlight, Key

\* Transactions stay sound while payments are only added.
LEMMA TransactionsKept ==
  ASSUME Transactions, payouts \subseteq payouts', UNCHANGED claimTxs
  PROVE  Transactions' /\ Grows
  BY DEF Transactions, Grows

\* The fields of the claim transactions.
LEMMA TxFields ==
  ASSUME Transactions
  PROVE  /\ DOMAIN claimTxs = 1..Len(claimTxs) /\ Len(claimTxs) \in Nat
         /\ \A x \in DOMAIN claimTxs : /\ claimTxs[x] \in ClaimTx /\ x \in Nat
                                     /\ claimTxs[x].drop \in DropIds
                                     /\ claimTxs[x].account \in Holders
<1>1. DOMAIN claimTxs = 1..Len(claimTxs) /\ Len(claimTxs) \in Nat
  BY DEF Transactions
<1>2. \A x \in DOMAIN claimTxs : claimTxs[x] \in ClaimTx
  BY <1>1, ElementOfSeq DEF Transactions
<1> QED
  BY <1>1, <1>2 DEF ClaimTx

\* A mined claim is paid, or reverts and pays nothing.
LEMMA MineKeepsInv ==
  ASSUME DropsAssumption, DropsInv, NEW x \in DOMAIN claimTxs, Mine(x)
  PROVE  DropsInv'
<1> DEFINE tx == claimTxs[x]
<1>1. /\ tx \in ClaimTx /\ tx.drop \in DropIds /\ tx.account \in Holders
      /\ Books /\ Transactions /\ Memory /\ Pages /\ CallsOK
  BY TxFields DEF DropsInv
<1>2. PICK status \in {"success", "reverted"} :
         /\ claimTxs' = [claimTxs EXCEPT ![x].status = status]
         /\ IF status = "success" THEN Claim(tx.drop, tx.account) ELSE UNCHANGED contract
  BY DEF Mine
<1>3. /\ Books' /\ payouts \subseteq payouts'
      /\ status = "success" => <<tx.drop, tx.account>> \in payouts'
  BY <1>1, <1>2, ClaimKeepsBooks, BooksUnchanged
<1>4. /\ DOMAIN claimTxs' = DOMAIN claimTxs
      /\ claimTxs' \in Seq(ClaimTx)
  <2>1. claimTxs' \in [1..Len(claimTxs) -> ClaimTx]
    BY <1>1, <1>2, TxFields DEF ClaimTx
  <2> QED
    BY <1>1, <2>1, TxFields
<1>5. Grows
  BY <1>1, <1>2, <1>3, <1>4, TxFields DEF Grows, ClaimTx
<1>6. Transactions'
  BY <1>1, <1>2, <1>3, <1>4, TxFields DEF Transactions, ClaimTx
<1>7. UNCHANGED <<memory, view, jobs>>
  BY DEF Mine
<1> QED
  BY <1>1, <1>3, <1>5, <1>6, <1>7, MemoryKept, PagesKept, CallsKept
     DEF DropsInv, memory, view

\* Calls that do not come from the page take nothing from what it knows.
LEMMA ContractKeepsInv ==
  ASSUME DropsAssumption, DropsInv,
         \/ \E amount \in Budgets : fundDrop(amount)
         \/ \E d \in DOMAIN drops, a \in Holders : RelayClaim(d, a)
         \/ IssuerAdjusts
  PROVE  DropsInv'
<1>1. Books /\ Transactions /\ Memory /\ Pages /\ CallsOK
  BY DEF DropsInv
<1>2. DOMAIN drops \subseteq DropIds
  BY <1>1, DropFields DEF Books, DropIds, DropsAssumption
<1>3. UNCHANGED <<claimTxs, memory, view, jobs>>
  BY DEF fundDrop, RelayClaim, IssuerAdjusts
<1>4. Books' /\ payouts \subseteq payouts'
  <2>1. CASE \E amount \in Budgets : fundDrop(amount)
    BY <1>1, <2>1, FundKeepsBooks DEF fundDrop
  <2>2. CASE \E d \in DOMAIN drops, a \in Holders : RelayClaim(d, a)
    BY <1>1, <1>2, <2>2, ClaimKeepsBooks DEF RelayClaim
  <2>3. CASE IssuerAdjusts
    BY <1>1, <2>3 DEF IssuerAdjusts, Books, isClaimed
  <2> QED
    BY <2>1, <2>2, <2>3
<1> QED
  BY <1>1, <1>3, <1>4, TransactionsKept, MemoryKept, PagesKept, CallsKept
     DEF DropsInv, memory, view

------------------------------------------------------------------------------
(* The page.                                                               *)

\* A step of the page alone leaves contract and chain alone.
LEMMA NothingMined ==
  ASSUME Books, Transactions, UNCHANGED <<contract, claimTxs>>
  PROVE  Books' /\ Transactions' /\ Grows /\ payouts' = payouts
  BY BooksUnchanged, TransactionsKept

\* What the page finds for an allocation is a claim of it, or nothing.
LEMMA PendingType ==
  ASSUME Memory, NEW t \in Tabs, NEW key \in Claims
  PROVE  /\ pendingStockClaim(t, key) \in Nat
         /\ pendingStockClaim(t, key) # NoTx => IsClaimOf(pendingStockClaim(t, key), key)
  BY DEF Memory, pendingStockClaim

\* The fields of a claim call that runs.
LEMMA DropCallFields ==
  ASSUME CallsOK, NEW j \in Jobs, InFlight(j)
  PROVE  /\ jobs[j] \in Call /\ jobs[j].tab \in Tabs /\ jobs[j].drop \in DropIds
         /\ jobs[j].account \in Holders /\ Key(j) \in Claims
<1>1. jobs[j] \in Call
  BY DEF CallsOK, InFlight, NoJob
<1> QED
  BY <1>1 DEF Call, Key, Claims

\* Calls whose page went away, or lost its cards, tell it nothing.
LEMMA DetachedCalls ==
  ASSUME CallsOK, Grows, NEW t \in Tabs, jobs' = Detached(t),
         \A u \in Tabs \ {t} : holder'[u] = holder[u]
  PROVE  CallsOK'
<1>1. jobs' \in [Jobs -> Call \cup {NoJob}]
  <2>1. SUFFICES ASSUME NEW j \in Jobs
                 PROVE  jobs'[j] \in Call \cup {NoJob}
    BY DEF Detached
  <2>2. CASE InFlight(j)
    BY <2>2, DropCallFields DEF Detached, Call
  <2>3. CASE ~InFlight(j)
    BY <2>3 DEF Detached, CallsOK
  <2> QED
    BY <2>2, <2>3
<1>2. SUFFICES ASSUME NEW j \in Jobs, InFlight(j)'
               PROVE  /\ jobs'[j].mounted => holder'[jobs'[j].tab] = jobs'[j].account
                      /\ jobs'[j].pc \in {"sent", "receipt", "settle", "check"}
                            => IsClaimOf(jobs[j].tx, Key(j))'
  BY <1>1 DEF CallsOK
<1>3. InFlight(j)
  BY <1>2 DEF InFlight, Detached, NoJob
<1>4. jobs[j] \in Call
  BY <1>3, DropCallFields
<1>5. /\ jobs'[j].pc = jobs[j].pc /\ jobs'[j].tab = jobs[j].tab /\ jobs'[j].drop = jobs[j].drop
      /\ jobs'[j].account = jobs[j].account /\ jobs'[j].tx = jobs[j].tx
      /\ jobs'[j].mounted => jobs[j].mounted /\ jobs[j].tab # t
  BY <1>3, <1>4 DEF Detached, Call
<1>6. jobs'[j].mounted => holder'[jobs'[j].tab] = jobs'[j].account
  BY <1>3, <1>4, <1>5 DEF CallsOK, Call
<1>7. ASSUME jobs'[j].pc \in {"sent", "receipt", "settle", "check"}
      PROVE  IsClaimOf(jobs[j].tx, Key(j))'
  BY <1>3, <1>5, <1>7 DEF CallsOK, Grows, IsClaimOf, Key
<1> QED
  BY <1>6, <1>7

\* A page without cards says nothing untrue.
LEMMA CardsGoneKeepsInv ==
  ASSUME DropsAssumption, DropsInv, NEW t \in Tabs, NEW a \in Wallets,
         holder' = [holder EXCEPT ![t] = a], CardsGone(t),
         UNCHANGED <<contract, claimTxs, memory>>
  PROVE  DropsInv'
<1>1. Books' /\ Transactions' /\ Grows /\ Memory'
  BY NothingMined, MemoryKept DEF DropsInv, memory
<1>2. CallsOK'
  BY <1>1, DetachedCalls DEF DropsInv, CardsGone, Pages
<1>3. /\ holder' \in [Tabs -> Wallets] /\ evidence' \in [Tabs -> Evidence]
      /\ cards' \in [Tabs -> [DropIds -> Card]]
  BY DEF DropsInv, Pages, CardsGone, NoEvidence, NoCards, NoCard, Evidence, Card, Wallets, NoTx
<1>4. \A u \in Tabs, d \in DropIds :
         /\ cards'[u][d].shown => holder'[u] \in Holders
         /\ Claimed(u, d)' => <<d, holder'[u]>> \in payouts'
  <2>1. SUFFICES ASSUME NEW u \in Tabs, NEW d \in DropIds
                 PROVE  /\ cards'[u][d].shown => holder'[u] \in Holders
                        /\ Claimed(u, d)' => <<d, holder'[u]>> \in payouts'
    OBVIOUS
  <2>2. CASE u = t
    BY <2>2 DEF DropsInv, Pages, CardsGone, NoEvidence, NoCards, NoCard, Claimed
  <2>3. CASE u # t
    <3>1. holder'[u] = holder[u] /\ evidence'[u] = evidence[u] /\ cards'[u] = cards[u]
      BY <2>3 DEF DropsInv, Pages, CardsGone
    <3> QED
      BY <1>1, <3>1 DEF DropsInv, Pages, Claimed, Grows
  <2> QED
    BY <2>2, <2>3
<1> QED
  BY <1>1, <1>2, <1>3, <1>4 DEF DropsInv, Pages

\* Another wallet, or a load that fails, empties the cards.
LEMMA ConnectKeepsInv ==
  ASSUME DropsAssumption, DropsInv, NEW t \in Tabs,
         \/ \E a \in Holders : Connect(t, a)
         \/ LoadFails(t)
  PROVE  DropsInv'
<1>1. CASE \E a \in Holders : Connect(t, a)
  BY <1>1, CardsGoneKeepsInv DEF Connect, Wallets
<1>2. CASE LoadFails(t)
  <2>1. holder[t] \in Wallets /\ holder' = [holder EXCEPT ![t] = holder[t]]
    BY <1>2 DEF LoadFails, DropsInv, Pages
  <2> QED
    BY <1>2, <2>1, CardsGoneKeepsInv DEF LoadFails
<1> QED
  BY <1>1, <1>2

\* A reload forgets the page's map and keeps the storage.
LEMMA ReloadKeepsInv ==
  ASSUME DropsAssumption, DropsInv, NEW t \in Tabs, Reload(t)
  PROVE  DropsInv'
<1>1. Books' /\ Transactions' /\ Grows
  BY NothingMined DEF DropsInv, Reload
<1>2. Memory'
  BY <1>1 DEF DropsInv, Memory, Reload, Grows, IsClaimOf, NoTx
<1>3. Pages'
  <2>1. /\ holder' \in [Tabs -> Wallets] /\ evidence' \in [Tabs -> Evidence]
        /\ cards' \in [Tabs -> [DropIds -> Card]]
    BY DEF DropsInv, Pages, Reload, NoEvidence, NoCards, NoCard, Evidence, Card, Wallets, NoTx
  <2>2. SUFFICES ASSUME NEW u \in Tabs, NEW d \in DropIds
                 PROVE  /\ cards'[u][d].shown => holder'[u] \in Holders
                        /\ Claimed(u, d)' => <<d, holder'[u]>> \in payouts'
    BY <2>1 DEF Pages
  <2>3. CASE u = t
    BY <2>3 DEF DropsInv, Pages, Reload, NoEvidence, NoCards, NoCard, Claimed
  <2>4. CASE u # t
    <3>1. holder'[u] = holder[u] /\ evidence'[u] = evidence[u] /\ cards'[u] = cards[u]
      BY <2>4 DEF DropsInv, Pages, Reload
    <3> QED
      BY <1>1, <3>1 DEF DropsInv, Pages, Claimed, Grows
  <2> QED
    BY <2>3, <2>4
<1>4. CallsOK'
  <2>1. jobs' \in [Jobs -> Call \cup {NoJob}]
    BY DEF DropsInv, CallsOK, Reload
  <2>2. SUFFICES ASSUME NEW j \in Jobs, InFlight(j)'
                 PROVE  /\ jobs'[j].mounted => holder'[jobs'[j].tab] = jobs'[j].account
                        /\ jobs'[j].pc \in {"sent", "receipt", "settle", "check"}
                              => IsClaimOf(jobs[j].tx, Key(j))'
    BY <2>1 DEF CallsOK
  <2>3. jobs'[j] = jobs[j] /\ InFlight(j) /\ jobs[j].tab # t
    BY <2>2 DEF DropsInv, CallsOK, Reload, InFlight, NoJob
  <2>4. jobs[j].tab \in Tabs /\ holder'[jobs[j].tab] = holder[jobs[j].tab]
    BY <2>3, DropCallFields DEF DropsInv, Pages, Reload
  <2> QED
    BY <1>1, <2>3, <2>4 DEF DropsInv, CallsOK, Grows, IsClaimOf, Key
<1> QED
  BY <1>1, <1>2, <1>3, <1>4 DEF DropsInv

\* The cards of a load are what the contract says of this wallet.
LEMMA LoadKeepsInv ==
  ASSUME DropsAssumption, DropsInv, NEW t \in Tabs, Load(t)
  PROVE  DropsInv'
<1> DEFINE fresh == StockDropState(holder[t])
<1>1. Books' /\ Transactions' /\ Grows /\ Memory' /\ CallsOK' /\ payouts' = payouts
  BY NothingMined, MemoryKept, CallsKept DEF DropsInv, Load, memory
<1>2. DOMAIN drops \subseteq DropIds /\ holder[t] \in Holders
  <2>1. DOMAIN drops \subseteq DropIds
    BY DropFields DEF DropsInv, Books, DropIds, DropsAssumption
  <2> QED
    BY <2>1 DEF DropsInv, Pages, Load, Wallets
<1>3. fresh \in Evidence
  BY <1>2 DEF StockDropState, Evidence, Wallets
<1>4. \A d \in DropIds : FreshCard(t, d) \in Card
  BY <1>2, PendingType DEF FreshCard, NoCard, NoTx, Card, Claims, DropsInv
<1>5. evidence' = [evidence EXCEPT ![t] = fresh] /\ holder' = holder
  BY DEF Load
<1>6. cards' \in [Tabs -> [DropIds -> Card]] /\ \A u \in Tabs \ {t} : cards'[u] = cards[u]
  BY <1>4 DEF Load, DropsInv, Pages
<1>7. \A d \in DropIds : cards'[t][d].confirmed => cards[t][d].confirmed
  BY DEF Load, DropsInv, Pages, FreshCard, NoCard
<1>8. \A d \in fresh.claimed : <<d, holder[t]>> \in payouts
  BY <1>2 DEF StockDropState, DropsInv, Books
<1>9. SUFFICES ASSUME NEW u \in Tabs, NEW d \in DropIds
               PROVE  /\ cards'[u][d].shown => holder'[u] \in Holders
                      /\ Claimed(u, d)' => <<d, holder'[u]>> \in payouts'
  <2>1. evidence' \in [Tabs -> Evidence] /\ holder' \in [Tabs -> Wallets]
    BY <1>3, <1>5 DEF DropsInv, Pages
  <2> QED
    BY <1>1, <1>6, <1>9, <2>1 DEF DropsInv, Pages
<1>10. CASE u = t
  BY <1>1, <1>2, <1>5, <1>7, <1>8, <1>10 DEF DropsInv, Pages, Claimed
<1>11. CASE u # t
  <2>1. evidence'[u] = evidence[u] /\ cards'[u] = cards[u]
    BY <1>5, <1>6, <1>11 DEF DropsInv, Pages
  <2> QED
    BY <1>1, <1>5, <2>1 DEF DropsInv, Pages, Claimed
<1> QED
  BY <1>10, <1>11

\* What a click, an error or an answer makes of a card.
LEMMA CardUpdates ==
  ASSUME NEW c \in Card, NEW hash \in Nat, NEW confirmed \in BOOLEAN
  PROVE  /\ [c EXCEPT !.busy = TRUE] \in Card
         /\ [c EXCEPT !.submitted = hash] \in Card
         /\ [c EXCEPT !.busy = FALSE, !.submitted = hash,
                      !.confirmed = c.confirmed \/ confirmed] \in Card
  BY DEF Card

\* One card is changed.
LEMMA CardTypes ==
  ASSUME NEW cs \in [Tabs -> [DropIds -> Card]], NEW t \in Tabs, NEW d \in DropIds,
         NEW c \in Card
  PROVE  [cs EXCEPT ![t][d] = c] \in [Tabs -> [DropIds -> Card]]
  OBVIOUS

\* A new call begins at a card, so with the wallet the card is for.
LEMMA StartKeepsInv ==
  ASSUME DropsAssumption, DropsInv, NEW t \in Tabs, NEW d \in DropIds,
         NEW pc \in {"read", "check"}, NEW tx \in Nat,
         cards[t][d].shown, Start(t, d, pc, tx),
         pc = "check" => IsClaimOf(tx, <<d, holder[t]>>),
         UNCHANGED <<contract, claimTxs, saved, pending, holder, evidence>>
  PROVE  DropsInv'
<1>1. Books' /\ Transactions' /\ Grows /\ Memory' /\ payouts' = payouts
  BY NothingMined, MemoryKept DEF DropsInv
<1>2. holder[t] \in Holders
  BY DEF DropsInv, Pages
<1> DEFINE call == [pc |-> pc, tab |-> t, drop |-> d, account |-> holder[t],
                    tx |-> tx, mounted |-> TRUE]
<1>3. PICK i \in Jobs : jobs' = [jobs EXCEPT ![i] = call]
  BY DEF Start
<1>4. call \in Call
  BY <1>2 DEF Call, Stops
<1>5. jobs' \in [Jobs -> Call \cup {NoJob}]
  BY <1>3, <1>4 DEF DropsInv, CallsOK
<1>6. SUFFICES ASSUME NEW j \in Jobs, InFlight(j)'
               PROVE  /\ jobs'[j].mounted => holder'[jobs'[j].tab] = jobs'[j].account
                      /\ jobs'[j].pc \in {"sent", "receipt", "settle", "check"}
                            => IsClaimOf(jobs[j].tx, Key(j))'
  <2>1. CallsOK'
    BY <1>5, <1>6 DEF CallsOK
  <2>2. cards' = [cards EXCEPT ![t][d].busy = TRUE]
    BY DEF Start
  <2>3. Pages'
    <3>1. cards' \in [Tabs -> [DropIds -> Card]]
      <4>1. cards \in [Tabs -> [DropIds -> Card]] /\ cards[t][d] \in Card
        BY DEF DropsInv, Pages
      <4>2. [cards[t][d] EXCEPT !.busy = TRUE] \in Card
        BY <4>1, CardUpdates
      <4> QED
        BY <2>2, <4>1, <4>2
    <3>2. \A u \in Tabs, e \in DropIds : /\ cards'[u][e].shown = cards[u][e].shown
                                         /\ cards'[u][e].confirmed = cards[u][e].confirmed
      BY <2>2 DEF DropsInv, Pages, Card
    <3> QED
      BY <1>1, <3>1, <3>2 DEF DropsInv, Pages, Claimed
  <2> QED
    BY <1>1, <2>1, <2>3 DEF DropsInv
<1>7. CASE j = i
  BY <1>1, <1>3, <1>7 DEF DropsInv, CallsOK, IsClaimOf, Grows, Key
<1>8. CASE j # i
  <2>1. jobs'[j] = jobs[j] /\ InFlight(j)
    BY <1>3, <1>6, <1>8 DEF DropsInv, CallsOK, InFlight
  <2> QED
    BY <1>1, <2>1 DEF DropsInv, CallsOK, IsClaimOf, Grows, Key
<1> QED
  BY <1>7, <1>8

\* A call that begins carries its own allocation.
LEMMA ClaimButtonKeepsInv ==
  ASSUME DropsAssumption, DropsInv, NEW t \in Tabs, NEW d \in DropIds,
         claim(t, d) \/ check(t, d)
  PROVE  DropsInv'
<1> DEFINE key == <<d, holder[t]>>
<1>1. cards[t][d].shown /\ key \in Claims
  BY DEF claim, check, DropsInv, Pages, Claims
<1>2. /\ pendingStockClaim(t, key) \in Nat
      /\ pendingStockClaim(t, key) # NoTx => IsClaimOf(pendingStockClaim(t, key), key)
  BY <1>1, PendingType DEF DropsInv
<1>3. CASE check(t, d)
  BY <1>1, <1>2, <1>3, StartKeepsInv DEF check, memory
<1>4. CASE claim(t, d) /\ UNCHANGED jobs
  <2>1. /\ cards' = [cards EXCEPT ![t][d].submitted = pendingStockClaim(t, key)]
        /\ UNCHANGED <<contract, claimTxs, saved, pending, holder, evidence, jobs>>
    <3>1. ~Start(t, d, "read", NoTx)
      <4>1. SUFFICES ASSUME NEW j \in Jobs, ~InFlight(j),
                            jobs' = [jobs EXCEPT ![j] = [pc |-> "read", tab |-> t, drop |-> d,
                                       account |-> holder[t], tx |-> NoTx, mounted |-> TRUE]]
                     PROVE  FALSE
        BY DEF Start
      <4>2. jobs'[j].pc = "read" /\ jobs[j].pc = "none"
        BY <4>1, DropCallFields DEF DropsInv, CallsOK, InFlight
      <4> QED
        BY <1>4, <4>2
    <3> QED
      BY <1>4, <3>1 DEF claim
  <2>2. Books' /\ Transactions' /\ Grows /\ Memory' /\ CallsOK' /\ payouts' = payouts
    BY <2>1, NothingMined, MemoryKept, CallsKept DEF DropsInv
  <2>3. cards' \in [Tabs -> [DropIds -> Card]]
    <3>1. cards \in [Tabs -> [DropIds -> Card]] /\ cards[t][d] \in Card
      BY DEF DropsInv, Pages
    <3>2. [cards[t][d] EXCEPT !.submitted = pendingStockClaim(t, key)] \in Card
      BY <1>2, <3>1, CardUpdates
    <3> QED
      BY <2>1, <3>1, <3>2
  <2>4. \A u \in Tabs, e \in DropIds : /\ cards'[u][e].shown = cards[u][e].shown
                                       /\ cards'[u][e].confirmed = cards[u][e].confirmed
    BY <2>1 DEF DropsInv, Pages, Card
  <2> QED
    BY <2>1, <2>2, <2>3, <2>4 DEF DropsInv, Pages, Claimed
<1>5. CASE claim(t, d) /\ Start(t, d, "read", NoTx)
  BY <1>1, <1>5, StartKeepsInv DEF claim, NoTx
<1> QED
  BY <1>3, <1>4, <1>5 DEF claim

------------------------------------------------------------------------------
(* The calls.                                                              *)

\* A call that goes on keeps its wallet and, but for Sign, its hash.
LEMMA GoesOnKeepsCalls ==
  ASSUME CallsOK, Grows, UNCHANGED holder, NEW i \in Jobs, InFlight(i),
         NEW pc \in Stops, NEW tx \in Nat,
         jobs' = [jobs EXCEPT ![i] = [jobs[i] EXCEPT !.pc = pc, !.tx = tx]],
         pc \in {"sent", "receipt", "settle", "check"} =>
             /\ tx \in DOMAIN claimTxs'
             /\ Key(i) = <<claimTxs'[tx].drop, claimTxs'[tx].account>>
  PROVE  CallsOK'
<1>1. jobs[i] \in Call
  BY DropCallFields
<1>2. /\ jobs'[i] \in Call /\ jobs' \in [Jobs -> Call \cup {NoJob}]
      /\ jobs'[i].pc = pc /\ jobs'[i].tx = tx /\ Key(i)' = Key(i)
      /\ jobs'[i].tab = jobs[i].tab /\ jobs'[i].account = jobs[i].account
      /\ jobs'[i].mounted = jobs[i].mounted
  BY <1>1 DEF CallsOK, Call, Key
<1>3. SUFFICES ASSUME NEW j \in Jobs, InFlight(j)'
               PROVE  /\ jobs'[j].mounted => holder'[jobs'[j].tab] = jobs'[j].account
                      /\ jobs'[j].pc \in {"sent", "receipt", "settle", "check"}
                            => IsClaimOf(jobs[j].tx, Key(j))'
  BY <1>2 DEF CallsOK
<1>4. CASE j = i
  <2>1. jobs[i].mounted => holder[jobs[i].tab] = jobs[i].account
    BY DEF CallsOK
  <2> QED
    BY <1>2, <1>4, <2>1 DEF IsClaimOf
<1>5. CASE j # i
  <2>1. jobs'[j] = jobs[j] /\ InFlight(j)
    BY <1>3, <1>5 DEF CallsOK, InFlight
  <2> QED
    BY <2>1 DEF CallsOK, IsClaimOf, Grows, Key
<1> QED
  BY <1>4, <1>5

\* What a returning call tells its card is true: a success was paid to the
\* wallet of the call, and that is the wallet of the card.
LEMMA ReturnsKeepsInv ==
  ASSUME DropsAssumption, DropsInv, NEW i \in Jobs, InFlight(i),
         NEW hash \in Nat, NEW confirmed \in BOOLEAN, Returns(i, hash, confirmed),
         confirmed => Key(i) \in payouts,
         UNCHANGED <<contract, claimTxs, holder, evidence>>
  PROVE  Books' /\ Transactions' /\ Grows /\ Pages' /\ CallsOK'
<1> DEFINE t == jobs[i].tab
           d == jobs[i].drop
<1>1. Books' /\ Transactions' /\ Grows /\ payouts' = payouts
  BY NothingMined DEF DropsInv
<1>2. jobs[i] \in Call /\ t \in Tabs /\ d \in DropIds
  BY DropCallFields DEF DropsInv
<1>3. CallsOK'
  <2>1. jobs' = [jobs EXCEPT ![i] = NoJob] /\ jobs' \in [Jobs -> Call \cup {NoJob}]
    BY DEF Returns, DropsInv, CallsOK
  <2>2. SUFFICES ASSUME NEW j \in Jobs, InFlight(j)'
                 PROVE  /\ jobs'[j].mounted => holder'[jobs'[j].tab] = jobs'[j].account
                        /\ jobs'[j].pc \in {"sent", "receipt", "settle", "check"}
                              => IsClaimOf(jobs[j].tx, Key(j))'
    BY <2>1 DEF CallsOK
  <2>3. jobs'[j] = jobs[j] /\ InFlight(j)
    BY <2>1, <2>2 DEF DropsInv, CallsOK, InFlight, NoJob
  <2> QED
    BY <1>1, <2>3 DEF DropsInv, CallsOK, IsClaimOf, Grows, Key
<1>4. CASE ~jobs[i].mounted
  BY <1>1, <1>3, <1>4, PagesKept DEF Returns, DropsInv, view
<1>5. CASE jobs[i].mounted
  <2> DEFINE told == [cards[t][d] EXCEPT !.busy = FALSE, !.submitted = hash,
                                         !.confirmed = cards[t][d].confirmed \/ confirmed]
  <2>1. cards' = [cards EXCEPT ![t][d] = told]
    BY <1>5 DEF Returns
  <2>2. told \in Card /\ told.shown = cards[t][d].shown
        /\ told.confirmed = (cards[t][d].confirmed \/ confirmed)
    <3>1. cards[t][d] \in Card
      BY <1>2 DEF DropsInv, Pages
    <3>2. told \in Card
      BY <3>1, CardUpdates
    <3> QED
      BY <3>1, <3>2 DEF Card
  <2>3. cards' \in [Tabs -> [DropIds -> Card]]
    BY <1>2, <2>1, <2>2, CardTypes DEF DropsInv, Pages
  <2>4. confirmed => <<d, holder[t]>> \in payouts
    BY <1>5 DEF DropsInv, CallsOK, Key
  <2>5. SUFFICES ASSUME NEW u \in Tabs, NEW e \in DropIds
                 PROVE  /\ cards'[u][e].shown => holder'[u] \in Holders
                        /\ Claimed(u, e)' => <<e, holder'[u]>> \in payouts'
    BY <1>1, <1>3, <2>3 DEF DropsInv, Pages
  <2>6. CASE u = t /\ e = d
    BY <1>1, <1>2, <2>1, <2>2, <2>4, <2>6 DEF DropsInv, Pages, Claimed
  <2>7. CASE ~(u = t /\ e = d)
    <3>1. cards'[u][e] = cards[u][e]
      BY <1>2, <2>1, <2>7 DEF DropsInv, Pages
    <3> QED
      BY <1>1, <3>1 DEF DropsInv, Pages, Claimed
  <2> QED
    BY <2>6, <2>7
<1> QED
  BY <1>4, <1>5, <1>2 DEF Call

\* A call that throws ends, and its card falls back on what is remembered.
LEMMA ThrowsKeepsInv ==
  ASSUME DropsAssumption, DropsInv, NEW i \in Jobs, InFlight(i), Throws(i),
         UNCHANGED <<contract, claimTxs, saved, pending, holder, evidence>>
  PROVE  DropsInv'
<1>1. PICK hash \in Nat : Returns(i, hash, FALSE)
  <2>1. jobs[i].tab \in Tabs /\ jobs[i].drop \in DropIds /\ Key(i) \in Claims
    BY DropCallFields DEF DropsInv
  <2>2. cards[jobs[i].tab][jobs[i].drop].submitted \in Nat
    BY <2>1 DEF DropsInv, Pages, Card
  <2>3. pendingStockClaim(jobs[i].tab, Key(i)) \in Nat
    BY <2>1, PendingType DEF DropsInv
  <2> QED
    BY <2>2, <2>3 DEF Throws
<1>2. Books' /\ Transactions' /\ Grows /\ Pages' /\ CallsOK'
  BY <1>1, ReturnsKeepsInv
<1> QED
  BY <1>2, MemoryKept DEF DropsInv

\* A hash is remembered for the allocation it claims.
LEMMA RememberKeepsMemory ==
  ASSUME Memory, UNCHANGED claimTxs, NEW t \in Tabs, NEW key \in Claims, NEW tx \in Nat,
         remember(t, key, tx), tx # NoTx => IsClaimOf(tx, key)
  PROVE  Memory'
<1>1. saved' \in [Claims -> Nat] /\ pending' \in [Tabs -> [Claims -> Nat]]
  BY DEF Memory, remember
<1>2. \A k \in Claims : (saved'[k] = tx /\ k = key) \/ saved'[k] = saved[k]
  BY DEF Memory, remember
<1>3. \A u \in Tabs, k \in Claims :
         (pending'[u][k] = tx /\ k = key) \/ pending'[u][k] = pending[u][k]
  BY DEF Memory, remember
<1> QED
  BY <1>1, <1>2, <1>3 DEF Memory, IsClaimOf

\* Every step of a claim call keeps the invariant.
LEMMA JobKeepsInv ==
  ASSUME DropsAssumption, DropsInv, NEW i \in Jobs, InFlight(i), JobStep(i)
  PROVE  DropsInv'
<1>1. /\ jobs[i] \in Call /\ jobs[i].tab \in Tabs /\ jobs[i].drop \in DropIds
      /\ jobs[i].account \in Holders /\ Key(i) \in Claims
      /\ Books /\ Transactions /\ Memory /\ Pages /\ CallsOK
  BY DropCallFields DEF DropsInv
<1>2. /\ jobs[i].tx \in Nat
      /\ jobs[i].pc \in {"sent", "receipt", "settle", "check"} => IsClaimOf(jobs[i].tx, Key(i))
  BY <1>1 DEF Call, CallsOK
<1> DEFINE goes(pc, tx) == jobs' = [jobs EXCEPT ![i] = [jobs[i] EXCEPT !.pc = pc, !.tx = tx]]
\* A call that only looks goes on with the hash it has, or gives up.
<1>3. ASSUME NEW pc \in {"simulate", "wallet"}, GoesOn(i, pc), UNCHANGED cards,
             UNCHANGED <<contract, claimTxs, saved, pending, holder, evidence>>
      PROVE  DropsInv'
  <2>1. Books' /\ Transactions' /\ Grows /\ Memory' /\ Pages'
    BY <1>1, <1>3, NothingMined, MemoryKept, PagesKept DEF view
  <2>2. goes(pc, jobs[i].tx)
    BY <1>1, <1>3 DEF GoesOn, Call, CallsOK
  <2>3. CallsOK'
    BY <1>1, <1>2, <1>3, <2>1, <2>2, GoesOnKeepsCalls DEF Stops
  <2> QED
    BY <2>1, <2>3 DEF DropsInv
<1>4. CASE Read(i)
  BY <1>3, <1>4, ThrowsKeepsInv DEF Read
<1>5. CASE Simulate(i)
  BY <1>3, <1>5, ThrowsKeepsInv DEF Simulate
<1>6. CASE Sign(i)
  <2> DEFINE new == [drop |-> jobs[i].drop, account |-> jobs[i].account, status |-> "pending"]
  <2>1. claimTxs' = Append(claimTxs, new) /\ new \in ClaimTx
    BY <1>1, <1>6 DEF Sign, ClaimTx
  <2>2. /\ claimTxs' \in Seq(ClaimTx) /\ Len(claimTxs') = Len(claimTxs) + 1
        /\ DOMAIN claimTxs' = 1..(Len(claimTxs) + 1) /\ Len(claimTxs) \in Nat
        /\ claimTxs'[Len(claimTxs) + 1] = new
        /\ \A x \in DOMAIN claimTxs : claimTxs'[x] = claimTxs[x]
    BY <1>1, <2>1, TxFields DEF Transactions
  <2>3. UNCHANGED <<contract, saved, pending, holder, evidence, cards>>
    BY <1>6 DEF Sign, memory, view
  <2>4. Books' /\ payouts' = payouts
    BY <1>1, <2>3, BooksUnchanged
  <2>5. Grows
    BY <1>1, <2>2, <2>4, TxFields DEF Grows
  <2>6. Transactions'
    BY <1>1, <2>2, <2>4, TxFields DEF Transactions
  <2>7. Memory' /\ Pages'
    BY <1>1, <2>3, <2>5, MemoryKept, PagesKept DEF view
  <2>8. goes("sent", Len(claimTxs) + 1)
    BY <1>1, <1>6 DEF Sign, CallsOK, Call
  <2>9. /\ Len(claimTxs) + 1 \in Nat /\ Len(claimTxs) + 1 \in DOMAIN claimTxs'
        /\ Key(i) = <<claimTxs'[Len(claimTxs) + 1].drop, claimTxs'[Len(claimTxs) + 1].account>>
    BY <2>2 DEF Key
  <2>10. CallsOK'
    <3> DEFINE x == Len(claimTxs) + 1
    <3>1. goes("sent", x) /\ x \in Nat
          /\ x \in DOMAIN claimTxs' /\ Key(i) = <<claimTxs'[x].drop, claimTxs'[x].account>>
      BY <2>8, <2>9
    <3> HIDE DEF x
    <3> QED
      BY <1>1, <2>3, <2>5, <3>1, GoesOnKeepsCalls DEF Stops
  <2> QED
    BY <2>4, <2>6, <2>7, <2>10 DEF DropsInv
<1>7. CASE Submitted(i)
  <2>1. /\ UNCHANGED <<contract, claimTxs, holder, evidence>>
        /\ goes("receipt", jobs[i].tx)
        /\ IsClaimOf(jobs[i].tx, Key(i))
        /\ remember(jobs[i].tab, Key(i), jobs[i].tx)
    BY <1>1, <1>2, <1>7 DEF Submitted, GoesOn, CallsOK, Call
  <2>2. Books' /\ Transactions' /\ Grows /\ payouts' = payouts
    BY <1>1, <2>1, NothingMined
  <2>3. Memory'
    BY <1>1, <1>2, <2>1, RememberKeepsMemory
  <2>4. CallsOK'
    BY <1>1, <1>2, <2>1, <2>2, GoesOnKeepsCalls DEF Stops, IsClaimOf
  <2>5. Pages'
    <3>1. CASE ~jobs[i].mounted
      BY <1>1, <1>7, <2>1, <2>2, <3>1, PagesKept DEF Submitted, view
    <3>2. CASE jobs[i].mounted
      <4> DEFINE t == jobs[i].tab
                 d == jobs[i].drop
                 c == [cards[t][d] EXCEPT !.submitted = jobs[i].tx]
      <4>1. cards' = [cards EXCEPT ![t][d] = c]
        BY <1>7, <3>2 DEF Submitted
      <4>2. cards \in [Tabs -> [DropIds -> Card]] /\ cards[t][d] \in Card
        BY <1>1 DEF Pages
      <4>3. c \in Card
        BY <1>2, <4>2, CardUpdates
      <4>4. cards' \in [Tabs -> [DropIds -> Card]]
        BY <1>1, <4>1, <4>2, <4>3, CardTypes
      <4>5. c.shown = cards[t][d].shown /\ c.confirmed = cards[t][d].confirmed
        BY <4>2 DEF Card
      <4>6. \A u \in Tabs, e \in DropIds : /\ cards'[u][e].shown = cards[u][e].shown
                                           /\ cards'[u][e].confirmed = cards[u][e].confirmed
        BY <1>1, <4>1, <4>2, <4>5
      <4> QED
        BY <1>1, <2>1, <2>2, <4>4, <4>6 DEF Pages, Claimed
    <3> QED
      BY <3>1, <3>2
  <2> QED
    BY <2>2, <2>3, <2>4, <2>5 DEF DropsInv
<1>8. CASE Receipt(i)
  <2> DEFINE hash == pendingStockClaim(jobs[i].tab, Key(i))
  <2>1. CASE hash = NoTx
    BY <1>8, <2>1, ThrowsKeepsInv DEF Receipt
  <2>2. CASE hash # NoTx
    <3>1. /\ goes("settle", hash) /\ UNCHANGED cards
          /\ UNCHANGED <<contract, claimTxs, saved, pending, holder, evidence>>
      BY <1>1, <1>8, <2>2 DEF Receipt, CallsOK, Call
    <3>2. hash \in Nat /\ IsClaimOf(hash, Key(i))
      BY <1>1, <2>2, PendingType
    <3>3. Books' /\ Transactions' /\ Grows /\ Memory' /\ Pages'
      BY <1>1, <3>1, NothingMined, MemoryKept, PagesKept DEF view
    <3>4. CallsOK'
      BY <1>1, <3>1, <3>2, <3>3, GoesOnKeepsCalls DEF Stops, IsClaimOf
    <3> QED
      BY <3>3, <3>4 DEF DropsInv
  <2> QED
    BY <2>1, <2>2
<1>9. CASE reconcileStockClaim(i)
  <2> DEFINE won == claimTxs[jobs[i].tx].status = "success"
  <2>1. /\ Returns(i, NoTx, won) /\ remember(jobs[i].tab, Key(i), NoTx)
        /\ UNCHANGED <<contract, claimTxs, holder, evidence>>
        /\ IsClaimOf(jobs[i].tx, Key(i))
    BY <1>2, <1>9 DEF reconcileStockClaim
  <2>2. won => Key(i) \in payouts
    BY <1>1, <2>1 DEF IsClaimOf, Transactions
  <2>3. Books' /\ Transactions' /\ Grows /\ Pages' /\ CallsOK'
    BY <2>1, <2>2, ReturnsKeepsInv DEF NoTx
  <2>4. Memory'
    BY <1>1, <2>1, RememberKeepsMemory DEF NoTx
  <2> QED
    BY <2>3, <2>4 DEF DropsInv
<1>10. CASE Fails(i)
  BY <1>10, ThrowsKeepsInv DEF Fails
<1> QED
  BY <1>4, <1>5, <1>6, <1>7, <1>8, <1>9, <1>10 DEF JobStep

------------------------------------------------------------------------------
(* The invariant holds, and with it the ledger.                            *)

\* At first nothing is claimed, remembered or shown.
LEMMA InvInit ==
  ASSUME DropsAssumption
  PROVE  Init => DropsInv
<1> SUFFICES ASSUME Init
             PROVE  DropsInv
  OBVIOUS
<1>1. Books
  BY DEF Init, Books, isClaimed, DropsAssumption
<1>2. Transactions
  BY DEF Init, Transactions
<1>3. Memory
  BY DEF Init, Memory, NoTx
<1>4. Pages
  BY DEF Init, Pages, NoEvidence, NoCards, NoCard, Evidence, Card, Wallets, NoTx, Claimed
<1>5. CallsOK
  BY DEF Init, CallsOK, InFlight, NoJob
<1> QED
  BY <1>1, <1>2, <1>3, <1>4, <1>5 DEF DropsInv

\* Every step keeps the invariant.
LEMMA InvStep ==
  ASSUME DropsAssumption
  PROVE  DropsInv /\ [Next]_vars => DropsInv'
<1> SUFFICES ASSUME DropsInv, [Next]_vars
             PROVE  DropsInv'
  OBVIOUS
<1>1. CASE \/ \E amount \in Budgets : fundDrop(amount)
           \/ \E d \in DOMAIN drops, a \in Holders : RelayClaim(d, a)
           \/ IssuerAdjusts
  BY <1>1, ContractKeepsInv
<1>2. CASE \E x \in DOMAIN claimTxs : Mine(x)
  BY <1>2, MineKeepsInv
<1>3. ASSUME NEW t \in Tabs, (\E a \in Holders : Connect(t, a)) \/ LoadFails(t)
      PROVE  DropsInv'
  BY <1>3, ConnectKeepsInv
<1>4. ASSUME NEW t \in Tabs, Load(t)
      PROVE  DropsInv'
  BY <1>4, LoadKeepsInv
<1>5. ASSUME NEW t \in Tabs, Reload(t)
      PROVE  DropsInv'
  BY <1>5, ReloadKeepsInv
<1>6. ASSUME NEW t \in Tabs, NEW d \in DropIds, claim(t, d) \/ check(t, d)
      PROVE  DropsInv'
  BY <1>6, ClaimButtonKeepsInv
<1>7. ASSUME NEW j \in Jobs, InFlight(j), JobStep(j)
      PROVE  DropsInv'
  BY <1>7, JobKeepsInv
<1>8. CASE UNCHANGED vars
  <2>1. UNCHANGED <<contract, claimTxs, saved, pending, view, holder, jobs>>
    BY <1>8 DEF vars, memory, view
  <2> QED
    BY <2>1, NothingMined, MemoryKept, PagesKept, CallsKept DEF DropsInv
<1> QED
  BY <1>1, <1>2, <1>3, <1>4, <1>5, <1>6, <1>7, <1>8 DEF Next

\* The hash that a page, the storage or a call keeps for an allocation is that
\* of a claim of this allocation, and what a page calls claimed was paid.
THEOREM DropsInvariant ==
  ASSUME DropsAssumption
  PROVE  Spec => []DropsInv
<1>1. Init => DropsInv
  BY InvInit
<1>2. DropsInv /\ [Next]_vars => DropsInv'
  BY InvStep
<1> QED
  BY <1>1, <1>2, PTL DEF Spec

------------------------------------------------------------------------------
(* The refinement: every step of contract, browser and page is a step of     *)
(* the ledger, or what the page shows shrinks and grows within what is paid. *)

LeftOf == [d \in DropIds |-> Left(d)]

\* What holders are told changes with the cards only.
LEMMA ToldUnchanged ==
  ASSUME UNCHANGED view
  PROVE  Told' = Told
  BY DEF view, Told, Claimed

\* The page and the browser only ever change what is told.
LEMMA PageTells ==
  ASSUME DropsInv', UNCHANGED contract
  PROVE  [Ledger!Next]_(Ledger!ledger)
<1>1. LeftOf' = LeftOf /\ payouts' = payouts
  BY DEF contract, LeftOf, Left
<1>2. Told' \in SUBSET payouts
  BY <1>1 DEF DropsInv, Pages, Told, Claims
<1> QED
  BY <1>1, <1>2 DEF Ledger!Next, Ledger!Tell, Ledger!ledger, LeftOf

\* Funding a drop is the ledger's Fund.
LEMMA FundRefines ==
  ASSUME DropsAssumption, DropsInv, NEW amount \in Budgets, fundDrop(amount)
  PROVE  \E d \in DropIds : Ledger!Fund(d)
<1> PICK d \in Nat : d = Len(drops) + 1
  BY DropFields DEF DropsInv
<1> DEFINE new == [funded |-> amount, claimed |-> 0]
<1>1. /\ drops' = Append(drops, new) /\ Len(drops) < MaxDrops
      /\ UNCHANGED <<payouts, view>> /\ amount \in Nat /\ amount > 0
  BY DEF fundDrop, DropsAssumption
<1>2. /\ DOMAIN drops = 1..Len(drops) /\ Len(drops) \in Nat
      /\ DOMAIN drops' = 1..d /\ drops'[d] = new
      /\ \A e \in DOMAIN drops : drops'[e] = drops[e]
  BY <1>1, DropFields DEF DropsInv, Books
<1>3. d \in DropIds /\ d \notin DOMAIN drops
  BY <1>1, <1>2 DEF DropIds, DropsAssumption
<1>4. Left(d) = 0 /\ Left(d)' = amount
  BY <1>1, <1>2, <1>3 DEF Left
<1>5. \A e \in DropIds \ {d} : Left(e)' = Left(e)
  BY <1>2 DEF Left, DropIds
<1>6. \A h \in Holders : <<d, h>> \notin payouts
  BY <1>3 DEF DropsInv, Books, isClaimed
<1>7. LeftOf' = [LeftOf EXCEPT ![d] = LeftOf'[d]]
  BY <1>3, <1>5 DEF LeftOf
<1>8. Told' = Told
  BY <1>1, ToldUnchanged
<1>9. Ledger!Fund(d)
  BY <1>1, <1>3, <1>4, <1>6, <1>7, <1>8 DEF Ledger!Fund, LeftOf
<1> QED
  BY <1>3, <1>9

\* A claim that is paid is the ledger's Pay.
LEMMA ClaimRefines ==
  ASSUME DropsAssumption, DropsInv, NEW d \in DropIds, NEW a \in Holders,
         Claim(d, a), UNCHANGED view
  PROVE  Ledger!Pay(d, a)
<1> DEFINE amount == Allocation[<<d, a>>]
<1>1. /\ d \in DOMAIN drops /\ ~isClaimed(d, a) /\ amount <= Left(d)
      /\ drops' = [drops EXCEPT ![d].claimed = @ + amount]
      /\ payouts' = payouts \cup {<<d, a>>}
  BY DEF Claim, Claimable
<1>2. amount \in Nat
  BY DEF DropsAssumption, Claims
<1>3. /\ drops[d] \in DropRecord /\ drops[d].funded \in Nat /\ drops[d].claimed \in Nat
      /\ DOMAIN drops' = DOMAIN drops
  BY <1>1, DropFields DEF DropsInv
<1>4. drops'[d].funded = drops[d].funded /\ drops'[d].claimed = drops[d].claimed + amount
  BY <1>1, <1>3 DEF DropRecord
<1>5. Left(d)' = Left(d) - amount
  BY <1>1, <1>2, <1>3, <1>4 DEF Left
<1>6. \A e \in DropIds \ {d} : Left(e)' = Left(e)
  BY <1>1, <1>3 DEF Left
<1>7. LeftOf' = [LeftOf EXCEPT ![d] = @ - amount]
  BY <1>5, <1>6 DEF LeftOf
<1>8. <<d, a>> \notin payouts
  BY <1>1 DEF DropsInv, Books
<1>9. Told' = Told
  BY ToldUnchanged
<1> QED
  BY <1>1, <1>7, <1>8, <1>9 DEF Ledger!Pay, LeftOf

\* Every step is one of the ledger or leaves it alone.
LEMMA StepRefines ==
  ASSUME DropsAssumption, DropsInv, DropsInv', [Next]_vars
  PROVE  [Ledger!Next]_(Ledger!ledger)
<1>1. CASE \E amount \in Budgets : fundDrop(amount)
  BY <1>1, FundRefines DEF Ledger!Next
<1>2. ASSUME NEW d \in DOMAIN drops, NEW a \in Holders, RelayClaim(d, a)
      PROVE  [Ledger!Next]_(Ledger!ledger)
  <2>1. d \in DropIds
    BY DropFields DEF DropsInv, Books, DropIds, DropsAssumption
  <2>2. Claim(d, a) /\ UNCHANGED view
    BY <1>2 DEF RelayClaim
  <2> QED
    BY <2>1, <2>2, ClaimRefines DEF Ledger!Next
<1>3. CASE IssuerAdjusts
  <2>1. LeftOf' = LeftOf /\ payouts' = payouts /\ Told' = Told
    BY <1>3, ToldUnchanged DEF IssuerAdjusts, LeftOf, Left
  <2> QED
    BY <2>1 DEF Ledger!ledger, LeftOf
<1>4. ASSUME NEW x \in DOMAIN claimTxs, Mine(x)
      PROVE  [Ledger!Next]_(Ledger!ledger)
  <2> DEFINE tx == claimTxs[x]
  <2>1. tx.drop \in DropIds /\ tx.account \in Holders
    BY TxFields DEF DropsInv
  <2>2. UNCHANGED view /\ (Claim(tx.drop, tx.account) \/ UNCHANGED contract)
    BY <1>4 DEF Mine
  <2>3. CASE Claim(tx.drop, tx.account)
    BY <2>1, <2>2, <2>3, ClaimRefines DEF Ledger!Next
  <2>4. CASE UNCHANGED contract
    BY <2>4, PageTells
  <2> QED
    BY <2>2, <2>3, <2>4
<1>5. ASSUME NEW t \in Tabs,
             \/ \E a \in Holders : Connect(t, a)
             \/ Load(t) \/ LoadFails(t) \/ Reload(t)
             \/ \E d \in DropIds : claim(t, d) \/ check(t, d)
      PROVE  [Ledger!Next]_(Ledger!ledger)
  <2>1. UNCHANGED contract
    BY <1>5 DEF Connect, Load, LoadFails, Reload, claim, check
  <2> QED
    BY <2>1, PageTells
<1>6. ASSUME NEW j \in Jobs, JobStep(j)
      PROVE  [Ledger!Next]_(Ledger!ledger)
  <2>1. UNCHANGED contract
    BY <1>6 DEF JobStep, Read, Simulate, Sign, Submitted, Receipt, reconcileStockClaim, Fails
  <2> QED
    BY <2>1, PageTells
<1>7. CASE UNCHANGED vars
  <2>1. UNCHANGED contract
    BY <1>7 DEF vars
  <2> QED
    BY <2>1, PageTells
<1> QED
  BY <1>1, <1>2, <1>3, <1>4, <1>5, <1>6, <1>7 DEF Next

\* However claims are relayed, sent twice, reverted, lost from sight, looked
\* up from another tab or after a reload, each allocation is paid once and
\* within the budget of its drop, and is called claimed only when it was paid.
THEOREM DropsImplementLedger ==
  ASSUME DropsAssumption
  PROVE  Spec => ImplementsLedger
<1>1. Init => Ledger!Init
  BY DEF Init, Ledger!Init, Left, Told, Claimed, NoEvidence, NoCards, NoCard, Claims
<1>2. DropsInv /\ DropsInv' /\ [Next]_vars => [Ledger!Next]_(Ledger!ledger)
  BY StepRefines
<1>3. Spec => []DropsInv
  BY DropsInvariant
<1> QED
  BY <1>1, <1>2, <1>3, PTL DEF Spec, ImplementsLedger, Ledger!Spec

------------------------------------------------------------------------------
(* The contract's balance.                                                 *)

\* What the contract says it owes is what its drops have left.
Solid ==
    /\ inventory \in Nat /\ liability \in Nat
    /\ liability = SumFunctionOnSet(LeftOf, DropIds)

\* What the drops have left can be added up.
LEMMA LeftSummable ==
  ASSUME DropsAssumption, Books
  PROVE  IsFiniteSet(DropIds) /\ \A d \in DropIds : LeftOf[d] \in Nat
<1>1. IsFiniteSet(DropIds)
  BY FS_Interval DEF DropIds, DropsAssumption
<1> QED
  BY <1>1, LeftType DEF LeftOf

\* A new drop adds its budget to what is left, and nothing else.
LEMMA FundKeepsSolid ==
  ASSUME DropsAssumption, Books, Solid, NEW amount \in Budgets, fundDrop(amount)
  PROVE  Solid' /\ payouts' = payouts
<1> DEFINE d == Len(drops) + 1
           new == [funded |-> amount, claimed |-> 0]
<1>1. /\ Books' /\ amount \in Nat /\ d \in DropIds /\ d \notin DOMAIN drops
      /\ drops' = Append(drops, new) /\ Len(drops) \in Nat
  BY FundKeepsBooks, DropFields DEF fundDrop, DropsAssumption, DropIds
<1>2. /\ DOMAIN drops' = DOMAIN drops \cup {d} /\ drops'[d] = new
      /\ \A e \in DOMAIN drops : drops'[e] = drops[e]
  BY <1>1, DropFields DEF Books, DropRecord
<1>3. /\ LeftOf[d] = 0 /\ LeftOf'[d] = amount
      /\ \A e \in DropIds \ {d} : LeftOf[e] = LeftOf'[e]
  BY <1>1, <1>2 DEF LeftOf, Left
<1>4. /\ IsFiniteSet(DropIds)
      /\ \A e \in DropIds : LeftOf[e] \in Int /\ LeftOf'[e] \in Int
  BY <1>1, <1>3, LeftSummable
<1>5. SumFunctionOnSet(LeftOf', DropIds) = SumFunctionOnSet(LeftOf, DropIds) - LeftOf[d] + LeftOf'[d]
  BY <1>1, <1>3, <1>4, SumChange
<1>6. SumFunctionOnSet(LeftOf, DropIds) \in Nat
  BY DEF Solid
<1> QED
  BY <1>1, <1>3, <1>5, <1>6 DEF Solid, fundDrop

\* A claim takes from the balance what it takes from its own drop, and only
\* where the rest still covers every other drop.
LEMMA ClaimKeepsSolid ==
  ASSUME DropsAssumption, Books, Solid, NEW d \in DropIds, NEW a \in Holders, Claim(d, a)
  PROVE  /\ Solid'
         /\ inventory' >= SumFunctionOnSet(LeftOf', DropIds)
<1> DEFINE amount == Allocation[<<d, a>>]
<1>1. /\ Books' /\ amount \in Nat /\ d \in DOMAIN drops /\ amount <= Left(d)
      /\ inventory >= (liability - amount) + amount
      /\ drops' = [drops EXCEPT ![d].claimed = @ + amount]
      /\ liability' = liability - amount /\ inventory' = inventory - amount
  BY ClaimKeepsBooks DEF Claim, Claimable, Solvent, DropsAssumption, Claims
<1>2. /\ DOMAIN drops' = DOMAIN drops
      /\ drops'[d].funded = drops[d].funded /\ drops'[d].claimed = drops[d].claimed + amount
      /\ \A e \in DOMAIN drops \ {d} : drops'[e] = drops[e]
  BY <1>1, DropFields DEF DropRecord
<1>3. /\ LeftOf'[d] = LeftOf[d] - amount
      /\ \A e \in DropIds \ {d} : LeftOf[e] = LeftOf'[e]
  BY <1>1, <1>2, DropFields DEF LeftOf, Left
<1>4. /\ IsFiniteSet(DropIds)
      /\ \A e \in DropIds : LeftOf[e] \in Int /\ LeftOf'[e] \in Int
  <2>1. \A e \in DropIds : LeftOf[e] \in Nat
    BY LeftSummable
  <2>2. LeftOf'[d] \in Int
    BY <1>1, <1>3, <2>1
  <2> QED
    BY <1>3, <2>1, <2>2, LeftSummable
<1>5. SumFunctionOnSet(LeftOf', DropIds) = SumFunctionOnSet(LeftOf, DropIds) - LeftOf[d] + LeftOf'[d]
  BY <1>3, <1>4, SumChange
<1>6. LeftOf[d] <= SumFunctionOnSet(LeftOf, DropIds)
  <2>1. IsFiniteSet(DropIds \ {d}) /\ SumFunctionOnSet(LeftOf, DropIds \ {d}) \in Nat
    BY <1>4, LeftSummable, SumNat, FS_RemoveElement
  <2>2. SumFunctionOnSet(LeftOf, DropIds) = LeftOf[d] + SumFunctionOnSet(LeftOf, DropIds \ {d})
    BY <1>4, SumRemove
  <2> QED
    BY <1>4, <2>1, <2>2
<1>7. LeftOf[d] = Left(d) /\ LeftOf[d] \in Nat
  BY LeftSummable DEF LeftOf
<1> QED
  BY <1>1, <1>3, <1>4, <1>5, <1>6, <1>7 DEF Solid

\* At first there is nothing owed.
LEMMA SolidInit ==
  ASSUME DropsAssumption, Init
  PROVE  Solid
<1>1. /\ IsFiniteSet(DropIds)
      /\ \A d \in DropIds : LeftOf[d] = 0
  BY FS_Interval DEF Init, LeftOf, Left, DropIds, DropsAssumption
<1> QED
  BY <1>1, SumZero DEF Solid, Init

\* Only the issuer, who touches no drop, moves the balance otherwise.
LEMMA SolidStep ==
  ASSUME DropsAssumption, DropsInv, Solid, [Next]_vars
  PROVE  /\ Solid'
         /\ payouts' # payouts => inventory' >= SumFunctionOnSet(LeftOf', DropIds)
<1> USE DEF DropsInv
<1>1. CASE \E amount \in Budgets : fundDrop(amount)
  BY <1>1, FundKeepsSolid
<1>2. CASE \E d \in DOMAIN drops, a \in Holders : RelayClaim(d, a)
  <2>1. DOMAIN drops \subseteq DropIds
    BY DropFields DEF Books, DropIds, DropsAssumption
  <2> QED
    BY <1>2, <2>1, ClaimKeepsSolid DEF RelayClaim
<1>3. CASE IssuerAdjusts
  BY <1>3 DEF IssuerAdjusts, Solid, LeftOf, Left
<1>4. ASSUME UNCHANGED contract
      PROVE  Solid' /\ payouts' = payouts
  BY <1>4 DEF contract, Solid, LeftOf, Left
<1>5. ASSUME NEW x \in DOMAIN claimTxs, Mine(x)
      PROVE  /\ Solid'
             /\ payouts' # payouts => inventory' >= SumFunctionOnSet(LeftOf', DropIds)
  <2>1. claimTxs[x].drop \in DropIds /\ claimTxs[x].account \in Holders
    BY TxFields
  <2>2. Claim(claimTxs[x].drop, claimTxs[x].account) \/ UNCHANGED contract
    BY <1>5 DEF Mine
  <2> QED
    BY <1>4, <2>1, <2>2, ClaimKeepsSolid
<1>6. ASSUME NEW t \in Tabs,
             \/ \E a \in Holders : Connect(t, a)
             \/ Load(t) \/ LoadFails(t) \/ Reload(t)
             \/ \E d \in DropIds : claim(t, d) \/ check(t, d)
      PROVE  UNCHANGED contract
  BY <1>6 DEF Connect, Load, LoadFails, Reload, claim, check
<1>7. ASSUME NEW j \in Jobs, JobStep(j)
      PROVE  UNCHANGED contract
  BY <1>7 DEF JobStep, Read, Simulate, Sign, Submitted, Receipt, reconcileStockClaim, Fails
<1>8. CASE UNCHANGED vars
  BY <1>4, <1>8 DEF vars
<1> QED
  BY <1>1, <1>2, <1>3, <1>4, <1>5, <1>6, <1>7, <1>8 DEF Next

\* Whatever the issuer takes back, the contract owes what its drops have left,
\* and a claim is paid only while the rest covers all the others.
THEOREM OtherDropsSpared ==
  ASSUME DropsAssumption
  PROVE  Spec => ClaimsSpareOtherDrops
<1>1. Init => Solid
  BY SolidInit
<1>2. DropsInv /\ Solid /\ [Next]_vars => Solid'
  BY SolidStep
<1>3. DropsInv /\ Solid /\ [Next]_vars
         => [payouts' # payouts =>
               inventory' >= SumFunctionOnSet([d \in DropIds |-> Left(d)'], DropIds)]_vars
  BY SolidStep DEF LeftOf
<1>4. Spec => []DropsInv
  BY DropsInvariant
<1> QED
  BY <1>1, <1>2, <1>3, <1>4, PTL DEF Spec, ClaimsSpareOtherDrops
==============================================================================
