------------------------------- MODULE Profiles -------------------------------
(* Public handles: the shell around the pages shows the connected wallet's    *)
(* handle and has a new one signed; the backend keeps one handle for each     *)
(* wallet and no handle for two.  A claim is a challenge, a signature and a   *)
(* request whose handler reads and writes the database in several steps, with *)
(* other requests in between, and the shell's calls outlive the connection    *)
(* they were made under.                                                      *)
EXTENDS Naturals, FiniteSets

CONSTANTS
    Signers,        \* wallets
    NoSigner,       \* no wallet is connected
    Handles,
    NoHandle,
    Nonces,         \* identities of challenges, so a bound on claims
    Reads,          \* identities of profile reads, so a bound on those in flight
    MaxTroubles     \* bound on disconnections, repeated requests and failures

VARIABLES
    profiles,       \* wallet |-> its handle in wallet_profiles
    claims,         \* nonce |-> the claim made with it, from challenge to answer
    requests,       \* claim requests the backend is working on: nonce and stage
    account,        \* the connected wallet
    restoring,      \* getConnectedWallet has not answered yet
    handle,         \* the handle in the header
    reads,          \* profile reads of the shell
    claimed,        \* handles wallets have claimed so far
    overtaken,      \* a wallet was connected before an older question was answered
    troubles

vars == <<profiles, claims, requests, account, restoring, handle, reads, claimed, overtaken, troubles>>

\* What WebClientProofs needs of the constants.
ProfilesAssumption == NoSigner \notin Signers
------------------------------------------------------------------------------
Trouble == troubles < MaxTroubles /\ troubles' = troubles + 1
NoClaim == [pc |-> "none"]
NoRead == [pc |-> "none"]
------------------------------------------------------------------------------
(* The shell.                                                                *)

\* The profile effect: the connected wallet's handle is read anew, and none is
\* shown without a wallet; what was asked before is ignored.
Effect(a) ==
    LET ignored == [r \in Reads |-> IF reads[r].pc = "none" THEN NoRead
                                    ELSE [reads[r] EXCEPT !.active = FALSE]]
        free == {r \in Reads : reads[r].pc = "none"}
    IN
    /\ account' = a
    /\ IF a = NoSigner
       THEN /\ handle' = NoHandle
            /\ reads' = ignored
       ELSE /\ UNCHANGED handle
            /\ \E r \in free :
                 /\ \A q \in free : r <= q
                 /\ reads' = [ignored EXCEPT ![r] = [pc |-> "asked", wallet |-> a, active |-> TRUE,
                                                     answer |-> NoHandle]]

\* The accounts a wallet already granted, asked when the shell is mounted.
getConnectedWallet(a) ==
    /\ restoring /\ restoring' = FALSE
    /\ overtaken' = (overtaken \/ account # NoSigner)
    /\ IF a = NoSigner THEN UNCHANGED <<account, handle, reads>> ELSE Effect(a)
    /\ UNCHANGED <<profiles, claims, requests, claimed, troubles>>

requestWallet ==
    /\ account # NoSigner
    /\ Trouble
    /\ Effect(NoSigner)
    /\ overtaken' = (overtaken \/ \E n \in Nonces : claims[n].pc \notin {"none", "ended"})
    /\ UNCHANGED <<profiles, claims, requests, restoring, claimed>>

connectWallet(a) ==
    /\ account = NoSigner
    /\ Effect(a)
    /\ UNCHANGED <<profiles, claims, requests, restoring, claimed, overtaken, troubles>>

\* Mutant: the answer is shown whichever wallet is connected now.
AnyRead(r) == TRUE

\* The effect that asked still stands.
Active(r) == reads[r].active

get_profile(r) ==
    /\ reads[r].pc = "asked"
    /\ reads' = [reads EXCEPT ![r].pc = "answered", ![r].answer = profiles[reads[r].wallet]]
    /\ UNCHANGED <<profiles, claims, requests, account, restoring, handle, claimed, overtaken, troubles>>

fetchWalletProfile(r) ==
    /\ reads[r].pc = "answered"
    /\ handle' = IF Active(r) THEN reads[r].answer ELSE handle
    /\ reads' = [reads EXCEPT ![r] = NoRead]
    /\ UNCHANGED <<profiles, claims, requests, account, restoring, claimed, overtaken, troubles>>

ReadFails(r) ==
    /\ reads[r].pc # "none" /\ Trouble
    /\ reads' = [reads EXCEPT ![r] = NoRead]
    /\ UNCHANGED <<profiles, claims, requests, account, restoring, handle, claimed, overtaken>>

\* saveHandle: the backend's challenge, the wallet's signature, the claim.
create_challenge(n, h) ==
    /\ account # NoSigner /\ handle = NoHandle
    /\ claims[n] = NoClaim
    /\ \A m \in Nonces : claims[m] = NoClaim => n <= m
    /\ claims' = [claims EXCEPT ![n] = [pc |-> "sign", open |-> TRUE, wallet |-> account, handle |-> h]]
    /\ UNCHANGED <<profiles, requests, account, restoring, handle, reads, claimed, overtaken, troubles>>

Signed(n) ==
    /\ claims[n].pc = "sign"
    /\ claims' = [claims EXCEPT ![n].pc = "claim"]
    /\ requests' = requests \cup {[nonce |-> n, stage |-> "received"]}
    /\ UNCHANGED <<profiles, account, restoring, handle, reads, claimed, overtaken, troubles>>

Declined(n) ==
    /\ claims[n].pc = "sign" /\ Trouble
    /\ claims' = [claims EXCEPT ![n].pc = "ended"]
    /\ UNCHANGED <<profiles, requests, account, restoring, handle, reads, claimed, overtaken>>

\* A request may reach the backend a second time.
Repeated(n) ==
    /\ claims[n].pc \in {"claim", "claimed", "refused", "ended"} /\ Trouble
    /\ requests' = requests \cup {[nonce |-> n, stage |-> "received"]}
    /\ requests' # requests
    /\ UNCHANGED <<profiles, claims, account, restoring, handle, reads, claimed, overtaken>>
------------------------------------------------------------------------------
(* claim_profile: the challenge is checked in one connection; in another, the *)
(* handle is looked up, and then written with the challenge's removal.  So a  *)
(* challenge that two requests have both checked is used by both.             *)

Goes(q, stage) == requests' = (requests \ {q}) \cup {[q EXCEPT !.stage = stage]}

Answered(q, answer, open) ==
    /\ requests' = requests \ {q}
    /\ claims' = [claims EXCEPT ![q.nonce].open = open,
                                ![q.nonce].pc = IF @ = "claim" THEN answer ELSE @]

get_profile_challenge(q) ==
    /\ q.stage = "received"
    /\ IF claims[q.nonce].open THEN Goes(q, "checked") /\ UNCHANGED claims
       ELSE Answered(q, "refused", FALSE)
    /\ UNCHANGED <<profiles, account, restoring, handle, reads, claimed, overtaken, troubles>>

TakenByAnother(q) ==
    \E w \in Signers \ {claims[q.nonce].wallet} : profiles[w] = claims[q.nonce].handle

HandleLookedUp(q) ==
    /\ q.stage = "checked"
    /\ IF TakenByAnother(q) THEN Answered(q, "refused", claims[q.nonce].open)
       ELSE Goes(q, "free") /\ UNCHANGED claims
    /\ UNCHANGED <<profiles, account, restoring, handle, reads, claimed, overtaken, troubles>>

\* Mutant: the handle was free when it was looked up.
LookedUpOnly(q) == FALSE

\* The column is unique: the row is not written.
Conflict(q) == TakenByAnother(q)

claim_wallet_profile(q) ==
    LET c == claims[q.nonce] IN
    /\ q.stage = "free"
    /\ IF Conflict(q)
       THEN Answered(q, "refused", c.open) /\ UNCHANGED <<profiles, claimed>>
       ELSE /\ profiles' = [profiles EXCEPT ![c.wallet] = c.handle]
            /\ claimed' = claimed \cup {<<c.wallet, c.handle>>}
            /\ Answered(q, "claimed", FALSE)
    /\ UNCHANGED <<account, restoring, handle, reads, overtaken, troubles>>

\* The backend's answer reaches saveHandle, whatever is connected now.
HandleSaved(n) ==
    /\ claims[n].pc = "claimed"
    /\ handle' = claims[n].handle
    /\ claims' = [claims EXCEPT ![n].pc = "ended"]
    /\ UNCHANGED <<profiles, requests, account, restoring, reads, claimed, overtaken, troubles>>

SaveRefused(n) ==
    /\ \/ claims[n].pc = "refused" /\ UNCHANGED troubles
       \/ claims[n].pc = "claimed" /\ Trouble
    /\ claims' = [claims EXCEPT ![n].pc = "ended"]
    /\ UNCHANGED <<profiles, requests, account, restoring, handle, reads, claimed, overtaken>>
------------------------------------------------------------------------------
Init ==
    /\ profiles = [w \in Signers |-> NoHandle]
    /\ claims = [n \in Nonces |-> NoClaim]
    /\ requests = {}
    /\ account = NoSigner
    /\ restoring = TRUE
    /\ handle = NoHandle
    /\ reads = [r \in Reads |-> NoRead]
    /\ claimed = {}
    /\ overtaken = FALSE
    /\ troubles = 0

Next ==
    \/ \E a \in Signers \cup {NoSigner} : getConnectedWallet(a)
    \/ requestWallet
    \/ \E a \in Signers : connectWallet(a)
    \/ \E r \in Reads : get_profile(r) \/ fetchWalletProfile(r) \/ ReadFails(r)
    \/ \E n \in Nonces :
         \/ \E h \in Handles : create_challenge(n, h)
         \/ Signed(n) \/ Declined(n) \/ Repeated(n) \/ HandleSaved(n) \/ SaveRefused(n)
    \/ \E q \in requests : get_profile_challenge(q) \/ HandleLookedUp(q) \/ claim_wallet_profile(q)

Spec == Init /\ [][Next]_vars
------------------------------------------------------------------------------
\* No two wallets have the same handle, however the steps of their claims, and
\* of claims that arrive twice, are interleaved; and the header shows its wallet
\* a handle that wallet has claimed, however late reads come back, unless an
\* older call of the shell, a claim or the first question for accounts, was
\* overtaken by another connection.
HandlesAreTrue ==
    /\ \A v, w \in Signers : v # w /\ profiles[v] = profiles[w] => profiles[v] = NoHandle
    /\ overtaken \/ handle = NoHandle \/ <<account, handle>> \in claimed
=============================================================================
