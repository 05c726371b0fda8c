---------------------------- MODULE LaunchFlowProofs ----------------------------
(* Theorems about LaunchFlow for every value of its constants.               *)
EXTENDS LaunchFlow, TLAPS

------------------------------------------------------------------------------
(* The chain.                                                                *)

Tx == [stage : Stages, from : Wallets, status : {"pending", "success", "reverted"},
       key : Nat, plan : Plans, quantity : Quantities, after : {NoTx} \cup TxIds]

\* Later states of the chain still have its transactions, and their receipts.
Extends(ch, later) ==
    \A x \in DOMAIN ch :
        /\ x \in DOMAIN later
        /\ later[x].stage = ch[x].stage
        /\ ch[x].status # "pending" => later[x].status = ch[x].status

ChainTypes == chain \in Seq(Tx) /\ Len(chain) <= MaxTxs

\* What a record says of a chain is so: each transaction was sent in its stage,
\* each confirmation is a success, and the stages come in their order.
TrueIn(cp, ch) ==
    /\ cp \in Checkpoint
    /\ checkpointIsConsistent(cp)
    /\ \A s \in Stages :
          /\ cp.tx[s] # NoTx => cp.tx[s] \in DOMAIN ch /\ ch[cp.tx[s]].stage = s
          /\ cp.ok[s] => ch[cp.tx[s]].status = "success"

(* A record that is true stays true: receipts are final.                     *)
LEMMA TrueLater ==
    ASSUME NEW cp, NEW ch, NEW later, TrueIn(cp, ch), Extends(ch, later)
    PROVE  TrueIn(cp, later)
  <1>1. ASSUME NEW s \in Stages, cp.tx[s] # NoTx
        PROVE  /\ cp.tx[s] \in DOMAIN later /\ later[cp.tx[s]].stage = s
               /\ cp.ok[s] => later[cp.tx[s]].status = "success"
    BY <1>1 DEF TrueIn, Extends
  <1>2. \A s \in Stages : cp.ok[s] => cp.tx[s] # NoTx
    BY DEF TrueIn, checkpointIsConsistent
  <1> QED
    BY <1>1, <1>2 DEF TrueIn

(* The parts of a record.                                                    *)
LEMMA CheckpointParts ==
    ASSUME NEW cp \in Checkpoint
    PROVE  /\ cp = [tx |-> cp.tx, ok |-> cp.ok]
           /\ cp.tx \in [Stages -> {NoTx} \cup TxIds] /\ cp.ok \in [Stages -> BOOLEAN]
  BY DEF Checkpoint

(* An empty record claims nothing.                                           *)
LEMMA BlankIsTrue ==
    ASSUME NEW ch
    PROVE  TrueIn(Blank, ch)
  BY DEF TrueIn, Blank, Checkpoint, checkpointIsConsistent, keyMarketStarted, Stages

\* It is the turn of a stage in a record, and x is a transaction of that stage.
IsNext(cp, ch, stage, x) ==
    /\ stage \in Stages /\ TrueIn(cp, ch) /\ ~cp.ok[stage]
    /\ stage # "create" => cp.ok["create"]
    /\ stage = "list" => cp.ok["approve"]
    /\ x \in TxIds /\ x \in DOMAIN ch /\ ch[x].stage = stage

\* A record that differs from another in one stage.
DiffersIn(new, cp, stage, x, ok) ==
    /\ new.tx[stage] = x /\ new.ok[stage] = ok
    /\ \A s \in Stages \ {stage} : new.tx[s] = cp.tx[s] /\ new.ok[s] = cp.ok[s]

(* What onCheckpoint records of a stage that is its turn.                    *)
LEMMA RecordedIsTrue ==
    ASSUME NEW cp, NEW ch, NEW stage, NEW x, NEW ok \in BOOLEAN,
           IsNext(cp, ch, stage, x), ok => ch[x].status = "success"
    PROVE  /\ TrueIn(Recorded(cp, stage, x, ok), ch)
           /\ DiffersIn(Recorded(cp, stage, x, ok), cp, stage, x, ok)
  <1> DEFINE new == Recorded(cp, stage, x, ok)
             tx == [cp.tx EXCEPT ![stage] = x]
             oks == [cp.ok EXCEPT ![stage] = ok]
  <1>0. /\ x # NoTx /\ x \in TxIds /\ x \in DOMAIN ch /\ ch[x].stage = stage
        /\ stage \in Stages /\ ~cp.ok[stage]
        /\ stage # "create" => cp.ok["create"]
        /\ stage = "list" => cp.ok["approve"]
    BY LaunchAssumption DEF TxIds, NoTx, IsNext
  <1>1. cp \in Checkpoint /\ checkpointIsConsistent(cp) /\ TrueIn(cp, ch)
    BY DEF TrueIn, IsNext
  <1>2. /\ cp.tx \in [Stages -> {NoTx} \cup TxIds] /\ cp.ok \in [Stages -> BOOLEAN]
        /\ cp = [tx |-> cp.tx, ok |-> cp.ok]
    BY <1>1, CheckpointParts
  <1>3. new = [tx |-> tx, ok |-> oks]
    <2> DEFINE sent == [cp EXCEPT !.tx = tx]
    <2>1. \A a, b : \A r : r = [tx |-> a, ok |-> b]
                     => /\ [r EXCEPT !.tx = tx] = [tx |-> tx, ok |-> b]
                        /\ [r EXCEPT !.ok = oks] = [tx |-> a, ok |-> oks]
      OBVIOUS
    <2>2. sent = [tx |-> tx, ok |-> cp.ok]
      <3> HIDE DEF tx
      <3> QED
        BY <1>2, <2>1
    <2>3. sent.ok = cp.ok
      BY <2>2
    <2>4. new = [sent EXCEPT !.ok = [sent.ok EXCEPT ![stage] = ok]]
      BY DEF Recorded
    <2> HIDE DEF sent, tx, new
    <2> QED
      BY <2>1, <2>2, <2>3, <2>4
  <1>4. /\ tx \in [Stages -> {NoTx} \cup TxIds] /\ oks \in [Stages -> BOOLEAN]
        /\ tx[stage] = x /\ oks[stage] = ok
        /\ \A s \in Stages \ {stage} : tx[s] = cp.tx[s] /\ oks[s] = cp.ok[s]
    BY <1>0, <1>2
  <1> HIDE DEF tx, oks, new
  <1>5. new.tx = tx /\ new.ok = oks /\ new \in Checkpoint
    BY <1>3, <1>4 DEF Checkpoint
  <1>6. checkpointIsConsistent(new)
    <2>1. \A s \in Stages : oks[s] => tx[s] # NoTx
      BY <1>0, <1>1, <1>4 DEF checkpointIsConsistent
    <2>2. "create" \in Stages /\ "approve" \in Stages /\ "list" \in Stages
          /\ Stages = {"create", "approve", "list"}
      BY DEF Stages
    <2>3. (tx["approve"] # NoTx \/ tx["list"] # NoTx) => oks["create"]
      BY <1>0, <1>1, <1>4, <2>2 DEF checkpointIsConsistent, keyMarketStarted
    <2>4. tx["list"] # NoTx => oks["approve"]
      BY <1>0, <1>1, <1>4, <2>2 DEF checkpointIsConsistent, keyMarketStarted
    <2> QED
      BY <1>5, <2>1, <2>3, <2>4 DEF checkpointIsConsistent, keyMarketStarted
  <1>7. ASSUME NEW s \in Stages
        PROVE  /\ tx[s] # NoTx => tx[s] \in DOMAIN ch /\ ch[tx[s]].stage = s
               /\ oks[s] => ch[tx[s]].status = "success"
    <2>1. CASE s = stage
      BY <1>0, <1>4, <2>1
    <2>2. CASE s # stage
      BY <1>1, <1>4, <2>2 DEF TrueIn
    <2> QED
      BY <2>1, <2>2
  <1> QED
    BY <1>4, <1>5, <1>6, <1>7 DEF TrueIn, DiffersIn, new

(* A reverted stage and what followed it can be taken out of a record.       *)
LEMMA ClearedIsTrue ==
    ASSUME NEW cp, NEW ch, TrueIn(cp, ch), NEW stage \in Stages
    PROVE  /\ TrueIn(Cleared(cp, stage), ch)
           /\ Cleared(cp, stage).tx[stage] = NoTx /\ ~Cleared(cp, stage).ok[stage]
           /\ stage # "create" /\ cp.ok["create"] => Cleared(cp, stage).ok["create"]
           /\ stage = "list" /\ cp.ok["approve"] => Cleared(cp, stage).ok["approve"]
  <1> DEFINE tx == [s \in Stages |-> IF s \in Later(stage) THEN NoTx ELSE cp.tx[s]]
             oks == [s \in Stages |-> s \notin Later(stage) /\ cp.ok[s]]
             new == Cleared(cp, stage)
  <1>1. cp \in Checkpoint /\ checkpointIsConsistent(cp)
    BY DEF TrueIn
  <1>2. /\ cp.tx \in [Stages -> {NoTx} \cup TxIds] /\ cp.ok \in [Stages -> BOOLEAN]
    BY <1>1, CheckpointParts
  <1>3. new.tx = tx /\ new.ok = oks /\ new = [tx |-> tx, ok |-> oks]
    BY DEF Cleared
  <1>4. /\ stage \in Later(stage)
        /\ stage = "create" => Later(stage) = Stages
        /\ stage = "approve" => Later(stage) = {"approve", "list"}
        /\ stage = "list" => Later(stage) = {"list"}
        /\ Stages = {"create", "approve", "list"}
    BY DEF Later, Stages
  <1>5. \A s \in Stages : /\ s \in Later(stage) => tx[s] = NoTx /\ ~oks[s]
                          /\ s \notin Later(stage) => tx[s] = cp.tx[s] /\ oks[s] = cp.ok[s]
    BY <1>2
  <1>6. tx \in [Stages -> {NoTx} \cup TxIds] /\ oks \in [Stages -> BOOLEAN]
    BY <1>2
  <1> HIDE DEF tx, oks, new
  <1>7. new \in Checkpoint
    BY <1>3, <1>6 DEF Checkpoint
  <1>8. checkpointIsConsistent(new)
    BY <1>1, <1>3, <1>4, <1>5 DEF checkpointIsConsistent, keyMarketStarted
  <1>9. ASSUME NEW s \in Stages
        PROVE  /\ tx[s] # NoTx => tx[s] \in DOMAIN ch /\ ch[tx[s]].stage = s
               /\ oks[s] => ch[tx[s]].status = "success"
    BY <1>5 DEF TrueIn
  <1>10. /\ tx[stage] = NoTx /\ ~oks[stage]
         /\ stage # "create" /\ cp.ok["create"] => oks["create"]
         /\ stage = "list" /\ cp.ok["approve"] => oks["approve"]
    BY <1>4, <1>5
  <1> QED
    BY <1>3, <1>7, <1>8, <1>9, <1>10 DEF TrueIn, new

------------------------------------------------------------------------------
(* The invariant.                                                            *)

CallRecord ==
    [pc : Waits, stage : Stages, tab : Tabs, kind : {"launch", "market"}, mounted : BOOLEAN,
     busy : BOOLEAN, account : Wallets, session : Session, quantity : Quantities,
     resumed : {NoTx} \cup TxIds, tx : {NoTx} \cup TxIds]

Reverted(x, ch) == x \in DOMAIN ch /\ ch[x].status = "reverted"

\* A call in flight works on the stage whose turn it is in its own record, waits
\* for a receipt only of what it knows was sent, and before it sends a creation
\* the one it was told of, if any, has reverted.
CallIsSound(call, ch) ==
    LET cp == call.session.cp IN
    /\ TrueIn(cp, ch)
    /\ ~cp.ok[call.stage]
    /\ call.stage # "create" => cp.ok["create"]
    /\ call.stage = "list" => cp.ok["approve"]
    /\ call.pc \in {"settle", "receipt"} => cp.tx[call.stage] # NoTx
    /\ call.pc = "sent" => call.tx \in DOMAIN ch /\ ch[call.tx].stage = call.stage
    /\ call.stage = "create" /\ call.resumed # NoTx =>
          /\ call.pc = "settle" => cp.tx["create"] = call.resumed
          /\ call.pc # "settle" /\ call.pc # "receipt" => Reverted(call.resumed, ch)

PageTypes ==
    /\ wallet \in [Tabs -> Wallets \cup {NoWallet}]
    /\ plan \in [Tabs -> Plans]
    /\ quantity \in [Tabs -> Quantities]
    /\ session \in [Tabs -> Session \cup {NoSession}]
    /\ storage \in [Wallets -> Session \cup {NoSession}]
    /\ calls \in [Calls -> CallRecord \cup {NoCall}]

SessionsAreTrue(ch) ==
    /\ \A w \in Wallets : TrueIn(storage[w].cp, ch)
    /\ \A t \in Tabs : TrueIn(session[t].cp, ch)

CallsAreSound(ch) == \A c \in Calls : InFlight(c) => CallIsSound(calls[c], ch)

ResumedOnlyAfterReverts(ch) ==
    \A x \in DOMAIN ch :
        ch[x].stage = "create" /\ ch[x].after # NoTx => Reverted(ch[x].after, ch)

LaunchInv ==
    /\ ChainTypes
    /\ PageTypes
    /\ SessionsAreTrue(chain)
    /\ CallsAreSound(chain)
    /\ ResumedOnlyAfterReverts(chain)

(* A call is in flight or there is none.                                     *)
LEMMA CallInFlight ==
    ASSUME PageTypes, NEW c \in Calls
    PROVE  /\ InFlight(c) => calls[c] \in CallRecord
           /\ ~InFlight(c) => calls[c] = NoCall
  <1>1. calls[c] \in CallRecord \cup {NoCall}
    BY DEF PageTypes
  <1>2. calls[c] \in CallRecord => calls[c].pc # "none"
    BY DEF CallRecord, Waits
  <1>3. NoCall.pc = "none"
    BY DEF NoCall
  <1> QED
    BY <1>1, <1>2, <1>3 DEF InFlight

(* The facts about a call that persist as the chain grows.                   *)
LEMMA CallLater ==
    ASSUME NEW call \in CallRecord, NEW ch, NEW later, CallIsSound(call, ch), Extends(ch, later)
    PROVE  CallIsSound(call, later)
  <1>1. TrueIn(call.session.cp, later)
    BY TrueLater DEF CallIsSound
  <1>2. call.pc = "sent" => call.tx \in DOMAIN later /\ later[call.tx].stage = call.stage
    BY DEF CallIsSound, Extends
  <1>3. \A x : Reverted(x, ch) => Reverted(x, later)
    BY DEF Reverted, Extends
  <1> QED
    BY <1>1, <1>2, <1>3 DEF CallIsSound

(* Steps that leave the chain alone need only keep the page and the calls.   *)
LEMMA ChainKept ==
    ASSUME LaunchInv, chain' = chain, PageTypes', SessionsAreTrue(chain)', CallsAreSound(chain)'
    PROVE  LaunchInv'
  BY DEF LaunchInv, ChainTypes, ResumedOnlyAfterReverts, Reverted

(* A page may show a true record.                                            *)
LEMMA ShownIsTrue ==
    ASSUME LaunchInv, NEW t \in Tabs, NEW s \in Session \cup {NoSession}, TrueIn(s.cp, chain),
           NEW fresh \in BOOLEAN, Show(t, s, fresh)
    PROVE  /\ session' \in [Tabs -> Session \cup {NoSession}]
           /\ \A o \in Tabs : TrueIn(session'[o].cp, chain)
           /\ plan' \in [Tabs -> Plans] /\ quantity' \in [Tabs -> Quantities]
  <1>1. /\ session \in [Tabs -> Session \cup {NoSession}] /\ plan \in [Tabs -> Plans]
        /\ quantity \in [Tabs -> Quantities] /\ \A o \in Tabs : TrueIn(session[o].cp, chain)
    BY DEF LaunchInv, PageTypes, SessionsAreTrue
  <1>2. session' = [session EXCEPT ![t] = s]
    BY DEF Show
  <1>3. s # NoSession => s.plan \in Plans /\ s.quantity \in Quantities
    BY DEF Session
  <1>4. DefaultPlan \in Plans
    BY LaunchAssumption DEF DefaultPlan
  <1>5. session' \in [Tabs -> Session \cup {NoSession}]
        /\ \A o \in Tabs : session'[o] = IF o = t THEN s ELSE session[o]
    BY <1>1, <1>2
  <1>6. plan' \in [Tabs -> Plans] /\ quantity' \in [Tabs -> Quantities]
    <2>1. CASE s # NoSession
      BY <1>1, <1>3, <2>1 DEF Show
    <2>2. CASE s = NoSession
      BY <1>1, <1>4, <2>2 DEF Show
    <2> QED
      BY <2>1, <2>2
  <1> QED
    BY <1>1, <1>5, <1>6

(* What readLaunchSession returns is a true record, or none.                 *)
LEMMA ReadIsTrue ==
    ASSUME LaunchInv, NEW w \in Wallets
    PROVE  /\ readLaunchSession(w) \in Session \cup {NoSession}
           /\ TrueIn(readLaunchSession(w).cp, chain)
  <1>1. storage[w] \in Session \cup {NoSession} /\ TrueIn(storage[w].cp, chain)
    BY DEF LaunchInv, PageTypes, SessionsAreTrue
  <1>2. TrueIn(NoSession.cp, chain)
    BY BlankIsTrue DEF NoSession
  <1> QED
    BY <1>1, <1>2 DEF readLaunchSession

(* A record saved by a call is its session with the new facts.               *)
LEMMA PersistedIsTrue ==
    ASSUME LaunchInv, NEW c \in Calls, calls[c] \in CallRecord, NEW cp, TrueIn(cp, chain),
           Persist(c, cp)
    PROVE  /\ session' \in [Tabs -> Session \cup {NoSession}]
           /\ storage' \in [Wallets -> Session \cup {NoSession}]
           /\ quantity' \in [Tabs -> Quantities]
           /\ \A o \in Tabs : TrueIn(session'[o].cp, chain)
           /\ \A w \in Wallets : TrueIn(storage'[w].cp, chain)
  <1> DEFINE s == [calls[c].session EXCEPT !.cp = cp]
             t == calls[c].tab
  <1>1. calls[c].session \in Session /\ t \in Tabs /\ cp \in Checkpoint
        /\ calls[c].mounted \in BOOLEAN
    BY DEF CallRecord, TrueIn
  <1>2. s \in Session /\ s.cp = cp /\ s.wallet \in Wallets /\ s.quantity \in Quantities
    <2>1. \A x \in Session : [x EXCEPT !.cp = cp] \in Session /\ [x EXCEPT !.cp = cp].cp = cp
      BY <1>1 DEF Session
    <2>2. \A x \in Session : x.wallet \in Wallets /\ x.quantity \in Quantities
      BY DEF Session
    <2>3. s \in Session /\ s.cp = cp
      BY <1>1, <2>1
    <2> HIDE DEF s
    <2> QED
      BY <2>2, <2>3
  <1>3. /\ storage' = [storage EXCEPT ![s.wallet] = s]
        /\ session' = [session EXCEPT ![t] = s] \/ session' = session
        /\ quantity' = [quantity EXCEPT ![t] = s.quantity] \/ quantity' = quantity
    <2>1. storage' = [storage EXCEPT ![s.wallet] = s]
      BY DEF Persist, saveLaunchSession
    <2>2. CASE calls[c].mounted
      BY <2>1, <2>2, Zenon DEF Persist
    <2>3. CASE ~calls[c].mounted
      BY <2>1, <2>3, Zenon DEF Persist
    <2> QED
      BY <2>2, <2>3
  <1>4. /\ session \in [Tabs -> Session \cup {NoSession}]
        /\ storage \in [Wallets -> Session \cup {NoSession}]
        /\ quantity \in [Tabs -> Quantities]
        /\ \A o \in Tabs : TrueIn(session[o].cp, chain)
        /\ \A w \in Wallets : TrueIn(storage[w].cp, chain)
    BY DEF LaunchInv, PageTypes, SessionsAreTrue
  <1> HIDE DEF s, t
  <1>5. storage' \in [Wallets -> Session \cup {NoSession}]
        /\ \A w \in Wallets : storage'[w] = IF w = s.wallet THEN s ELSE storage[w]
    BY <1>2, <1>3, <1>4
  <1>6. session' \in [Tabs -> Session \cup {NoSession}]
        /\ \A o \in Tabs : session'[o] = s \/ session'[o] = session[o]
    BY <1>1, <1>2, <1>3, <1>4
  <1>7. quantity' \in [Tabs -> Quantities]
    BY <1>1, <1>2, <1>3, <1>4
  <1>8. \A w \in Wallets : TrueIn(storage'[w].cp, chain)
    BY <1>2, <1>4, <1>5
  <1>9. \A o \in Tabs : TrueIn(session'[o].cp, chain)
    BY <1>2, <1>4, <1>6
  <1> QED
    BY <1>5, <1>6, <1>7, <1>8, <1>9

------------------------------------------------------------------------------
(* The steps of the chain.                                                   *)

(* What was true before a chain grew is true after.                          *)
LEMMA ChainGrown ==
    ASSUME LaunchInv, Extends(chain, chain'), ChainTypes', ResumedOnlyAfterReverts(chain)',
           UNCHANGED <<storage, page>>, PageTypes',
           \A c \in Calls : calls'[c].pc # "none" => CallIsSound(calls'[c], chain')
    PROVE  LaunchInv'
  <1>1. SessionsAreTrue(chain)'
    <2>1. storage' = storage /\ session' = session
      BY DEF page
    <2>2. /\ \A w \in Wallets : TrueIn(storage[w].cp, chain')
          /\ \A t \in Tabs : TrueIn(session[t].cp, chain')
      BY TrueLater DEF LaunchInv, SessionsAreTrue
    <2> QED
      BY <2>1, <2>2 DEF SessionsAreTrue
  <1>2. CallsAreSound(chain)'
    BY DEF CallsAreSound, InFlight
  <1> QED
    BY <1>1, <1>2 DEF LaunchInv

(* A receipt changes the status of one pending transaction, and no more.     *)
LEMMA MineStep ==
    ASSUME LaunchInv, NEW x \in DOMAIN chain, Mine(x)
    PROVE  LaunchInv'
  <1>1. /\ chain[x].status = "pending" /\ UNCHANGED <<storage, page, calls>>
        /\ \/ chain' = [chain EXCEPT ![x].status = "success"]
           \/ chain' = [chain EXCEPT ![x].status = "reverted"]
    BY DEF Mine, Succeed, Revert
  <1>2. PICK status \in {"success", "reverted"} : chain' = [chain EXCEPT ![x].status = status]
    BY <1>1
  <1>3. /\ chain \in Seq(Tx) /\ Len(chain) <= MaxTxs /\ ResumedOnlyAfterReverts(chain)
        /\ \A y \in DOMAIN chain : chain[y] \in Tx
    BY DEF LaunchInv, ChainTypes
  <1> DEFINE new == [chain[x] EXCEPT !.status = status]
  <1>4. new \in Tx /\ new.stage = chain[x].stage /\ new.after = chain[x].after
        /\ new.status = status
    <2>1. \A tx \in Tx : /\ [tx EXCEPT !.status = status] \in Tx
                         /\ [tx EXCEPT !.status = status].stage = tx.stage
                         /\ [tx EXCEPT !.status = status].after = tx.after
                         /\ [tx EXCEPT !.status = status].status = status
      BY DEF Tx
    <2> QED
      BY <1>3, <2>1
  <1>5. chain' = [chain EXCEPT ![x] = new]
    BY <1>2
  <1> HIDE DEF new
  <1>6. /\ chain' \in Seq(Tx) /\ Len(chain') = Len(chain) /\ DOMAIN chain' = DOMAIN chain
        /\ chain'[x] = new /\ \A y \in DOMAIN chain \ {x} : chain'[y] = chain[y]
    BY <1>3, <1>4, <1>5
  <1>7. Extends(chain, chain')
    BY <1>1, <1>4, <1>6 DEF Extends
  <1>8. \A y \in DOMAIN chain' : /\ chain'[y].stage = chain[y].stage
                                 /\ chain'[y].after = chain[y].after
    BY <1>4, <1>6
  <1>9. \A y : Reverted(y, chain) => Reverted(y, chain')
    BY <1>7 DEF Reverted, Extends
  <1>10. ResumedOnlyAfterReverts(chain')
    BY <1>3, <1>6, <1>8, <1>9 DEF ResumedOnlyAfterReverts
  <1>11. PageTypes'
    BY <1>1 DEF LaunchInv, PageTypes, page
  <1>12. ASSUME NEW c \in Calls, calls'[c].pc # "none"
         PROVE  CallIsSound(calls'[c], chain')
    <2>1. calls'[c] = calls[c] /\ InFlight(c)
      BY <1>1, <1>12 DEF InFlight
    <2>2. calls[c] \in CallRecord /\ CallIsSound(calls[c], chain)
      BY <2>1, CallInFlight DEF LaunchInv, CallsAreSound
    <2> QED
      BY <1>7, <2>1, <2>2, CallLater
  <1>13. ChainTypes'
    BY <1>3, <1>6 DEF ChainTypes
  <1>14. ResumedOnlyAfterReverts(chain)'
    BY <1>10 DEF ResumedOnlyAfterReverts, Reverted
  <1> QED
    BY <1>1, <1>7, <1>11, <1>12, <1>13, <1>14, ChainGrown

(* The holder confirms a request: a creation follows only one that reverted. *)
LEMMA SignStep ==
    ASSUME LaunchInv, NEW c \in Calls, InFlight(c), Sign(c)
    PROVE  LaunchInv'
  <1> DEFINE call == calls[c]
             x == Len(chain) + 1
             create == call.session.cp.tx["create"]
             key == IF call.stage = "create" THEN x ELSE create
             after == IF call.stage = "create" THEN call.resumed
                      ELSE call.session.cp.tx["approve"]
             new == [stage |-> call.stage, from |-> call.account, status |-> "pending",
                     key |-> key, plan |-> call.session.plan, quantity |-> call.quantity,
                     after |-> after]
             sent == [call EXCEPT !.pc = "sent", !.tx = x]
  <1>1. /\ call.pc = "wallet" /\ Len(chain) < MaxTxs
        /\ chain' = Append(chain, new)
        /\ calls' = [calls EXCEPT ![c].pc = "sent", ![c].tx = x]
        /\ UNCHANGED <<storage, page>>
    BY DEF Sign
  <1>2. /\ chain \in Seq(Tx) /\ ResumedOnlyAfterReverts(chain) /\ PageTypes
        /\ calls \in [Calls -> CallRecord \cup {NoCall}]
    BY DEF LaunchInv, ChainTypes, PageTypes
  <1>3. call \in CallRecord /\ CallIsSound(call, chain)
    BY <1>2, CallInFlight DEF LaunchInv, CallsAreSound
  <1>4. call.session \in Session /\ call.session.cp \in Checkpoint
    BY <1>3 DEF CallRecord, CallIsSound, TrueIn
  <1>5. \A s \in Stages : call.session.cp.tx[s] \in {NoTx} \cup TxIds
    BY <1>4, CheckpointParts
  <1>6. /\ Len(chain) \in Nat /\ x \in TxIds /\ x \in Nat /\ x # NoTx
        /\ {NoTx} \cup TxIds \subseteq Nat
    BY <1>1, <1>2, LaunchAssumption DEF TxIds, NoTx
  <1>7. new \in Tx
    <2>1. key \in Nat /\ after \in {NoTx} \cup TxIds
      BY <1>3, <1>5, <1>6 DEF CallRecord, Stages
    <2>2. call.stage \in Stages /\ call.account \in Wallets /\ call.quantity \in Quantities
      BY <1>3 DEF CallRecord
    <2>3. call.session.plan \in Plans
      BY <1>4 DEF Session
    <2> HIDE DEF key, after, call
    <2> QED
      BY <2>1, <2>2, <2>3 DEF Tx
  <1>8. new.stage = call.stage /\ new.after = after /\ new.status = "pending"
    OBVIOUS
  <1> HIDE DEF new
  <1>9. /\ chain' \in Seq(Tx) /\ Len(chain') = Len(chain) + 1 /\ chain'[x] = new
        /\ DOMAIN chain' = (DOMAIN chain) \cup {x} /\ x \notin DOMAIN chain
        /\ \A y \in DOMAIN chain : chain'[y] = chain[y]
    BY <1>1, <1>2, <1>6, <1>7
  <1>10. Extends(chain, chain')
    BY <1>9 DEF Extends
  <1>11. \A y : Reverted(y, chain) => Reverted(y, chain')
    BY <1>10 DEF Reverted, Extends
  <1>12. ResumedOnlyAfterReverts(chain)'
    <2>1. ASSUME NEW y \in DOMAIN chain', chain'[y].stage = "create", chain'[y].after # NoTx
          PROVE  Reverted(chain'[y].after, chain')
      <3>1. CASE y \in DOMAIN chain
        BY <1>2, <1>9, <1>11, <2>1, <3>1 DEF ResumedOnlyAfterReverts
      <3>2. CASE y = x
        <4>1. call.stage = "create" /\ call.resumed # NoTx /\ chain'[y].after = call.resumed
          BY <1>8, <1>9, <2>1, <3>2
        <4>2. Reverted(call.resumed, chain)
          BY <1>1, <1>3, <4>1 DEF CallIsSound
        <4> QED
          BY <1>11, <4>1, <4>2
      <3> QED
        BY <1>9, <3>1, <3>2
    <2> QED
      BY <2>1 DEF ResumedOnlyAfterReverts, Reverted
  <1>13. /\ sent \in CallRecord /\ sent.pc = "sent" /\ sent.tx = x
         /\ sent.stage = call.stage /\ sent.session = call.session
         /\ sent.resumed = call.resumed
    <2>1. "sent" \in Waits
      BY DEF Waits
    <2> HIDE DEF x
    <2>2. \A d \in CallRecord :
             LET e == [d EXCEPT !.pc = "sent", !.tx = x] IN
             /\ e \in CallRecord /\ e.pc = "sent" /\ e.tx = x
             /\ e.stage = d.stage /\ e.session = d.session /\ e.resumed = d.resumed
      BY <1>6, <2>1 DEF CallRecord
    <2> QED
      BY <1>3, <2>2
  <1>14. calls' = [calls EXCEPT ![c] = sent]
    BY <1>1, <1>2
  <1> HIDE DEF sent
  <1>15. /\ calls' \in [Calls -> CallRecord \cup {NoCall}]
         /\ calls'[c] = sent /\ \A d \in Calls \ {c} : calls'[d] = calls[d]
    BY <1>2, <1>13, <1>14
  <1>16. PageTypes'
    BY <1>1, <1>2, <1>15 DEF PageTypes, page
  <1>17. CallIsSound(sent, chain')
    <2>1. TrueIn(sent.session.cp, chain')
      BY <1>3, <1>10, <1>13, TrueLater DEF CallIsSound
    <2>2. sent.tx \in DOMAIN chain' /\ chain'[sent.tx].stage = sent.stage
      BY <1>8, <1>9, <1>13
    <2>3. sent.stage = "create" /\ sent.resumed # NoTx => Reverted(sent.resumed, chain')
      BY <1>1, <1>3, <1>11, <1>13 DEF CallIsSound
    <2>4. LET cp == sent.session.cp IN
          /\ ~cp.ok[sent.stage]
          /\ sent.stage # "create" => cp.ok["create"]
          /\ sent.stage = "list" => cp.ok["approve"]
      BY <1>3, <1>13 DEF CallIsSound
    <2> QED
      BY <1>13, <2>1, <2>2, <2>3, <2>4 DEF CallIsSound
  <1>18. ASSUME NEW d \in Calls, calls'[d].pc # "none"
         PROVE  CallIsSound(calls'[d], chain')
    <2>1. CASE d = c
      BY <1>15, <1>17, <2>1
    <2>2. CASE d # c
      <3>1. calls'[d] = calls[d] /\ InFlight(d)
        BY <1>15, <1>18, <2>2 DEF InFlight
      <3>2. calls[d] \in CallRecord /\ CallIsSound(calls[d], chain)
        BY <1>2, <3>1, CallInFlight DEF LaunchInv, CallsAreSound
      <3> QED
        BY <1>10, <3>1, <3>2, CallLater
    <2> QED
      BY <2>1, <2>2
  <1>19. ChainTypes'
    BY <1>1, <1>6, <1>9, LaunchAssumption DEF ChainTypes
  <1> QED
    BY <1>1, <1>10, <1>12, <1>16, <1>18, <1>19, ChainGrown

------------------------------------------------------------------------------
(* The steps of the page.                                                    *)

\* Calls that lose their component, or end, and otherwise stay as they are.
CallsLeft ==
    /\ calls' \in [Calls -> CallRecord \cup {NoCall}]
    /\ \A c \in Calls :
          \/ calls'[c] = NoCall
          \/ /\ InFlight(c)
             /\ \/ calls'[c] = calls[c]
                \/ calls'[c] = Detached(c)
                \/ calls'[c] = [calls[c] EXCEPT !.busy = FALSE]

(* Whether its component still stands does not matter to a call's soundness. *)
LEMMA LeftCallsAreSound ==
    ASSUME LaunchInv, CallsLeft, chain' = chain
    PROVE  CallsAreSound(chain)'
  <1>1. ASSUME NEW c \in Calls, calls'[c].pc # "none"
        PROVE  CallIsSound(calls'[c], chain)
    <2>1. calls'[c] # NoCall /\ InFlight(c)
      BY <1>1 DEF CallsLeft, NoCall
    <2>2. calls[c] \in CallRecord /\ CallIsSound(calls[c], chain)
      BY <2>1, CallInFlight DEF LaunchInv, CallsAreSound
    <2>3. /\ calls'[c].session = calls[c].session /\ calls'[c].stage = calls[c].stage
          /\ calls'[c].pc = calls[c].pc /\ calls'[c].tx = calls[c].tx
          /\ calls'[c].resumed = calls[c].resumed
      <3>1. \A d \in CallRecord :
                /\ [d EXCEPT !.busy = FALSE].session = d.session
                /\ [d EXCEPT !.busy = FALSE].stage = d.stage
                /\ [d EXCEPT !.busy = FALSE].pc = d.pc
                /\ [d EXCEPT !.busy = FALSE].tx = d.tx
                /\ [d EXCEPT !.busy = FALSE].resumed = d.resumed
        BY DEF CallRecord
      <3>2. \A d \in CallRecord :
                LET e == [d EXCEPT !.mounted = FALSE, !.busy = FALSE] IN
                /\ e.session = d.session /\ e.stage = d.stage /\ e.pc = d.pc /\ e.tx = d.tx
                /\ e.resumed = d.resumed
        BY DEF CallRecord
      <3>3. CASE calls'[c] = calls[c]
        BY <3>3
      <3>4. CASE calls'[c] = Detached(c)
        BY <2>2, <3>2, <3>4 DEF Detached
      <3>5. CASE calls'[c] = [calls[c] EXCEPT !.busy = FALSE]
        BY <2>2, <3>1, <3>5
      <3> QED
        BY <2>1, <3>3, <3>4, <3>5 DEF CallsLeft
    <2> QED
      BY <2>2, <2>3 DEF CallIsSound
  <1> QED
    BY <1>1 DEF CallsAreSound, InFlight

(* A call that ends, and one that goes on, among calls that stay.            *)
LEMMA CallReplaced ==
    ASSUME LaunchInv, chain' = chain, NEW c \in Calls, NEW new \in CallRecord \cup {NoCall},
           new # NoCall => CallIsSound(new, chain),
           calls' = [calls EXCEPT ![c] = new]
    PROVE  calls' \in [Calls -> CallRecord \cup {NoCall}] /\ CallsAreSound(chain)'
  <1>1. calls \in [Calls -> CallRecord \cup {NoCall}]
    BY DEF LaunchInv, PageTypes
  <1>2. /\ calls' \in [Calls -> CallRecord \cup {NoCall}]
        /\ calls'[c] = new /\ \A d \in Calls \ {c} : calls'[d] = calls[d]
    BY <1>1
  <1>3. ASSUME NEW d \in Calls, calls'[d].pc # "none"
        PROVE  CallIsSound(calls'[d], chain)
    <2>1. CASE d = c
      BY <1>2, <1>3, <2>1 DEF NoCall
    <2>2. CASE d # c
      BY <1>2, <1>3, <2>2 DEF LaunchInv, CallsAreSound, InFlight
    <2> QED
      BY <2>1, <2>2
  <1> QED
    BY <1>2, <1>3 DEF CallsAreSound, InFlight

\* What CenterClosed, Remount and Reload do to the calls.
LEMMA ClosedCalls ==
    ASSUME LaunchInv, NEW t \in Tabs,
           \/ calls' = CenterClosed(t)
           \/ calls' = [c \in Calls |-> IF Of(c, t) THEN Detached(c) ELSE calls[c]]
           \/ calls' = [c \in Calls |-> IF Of(c, t) THEN NoCall ELSE calls[c]]
           \/ calls' = calls
    PROVE  CallsLeft
  <1>1. PageTypes
    BY DEF LaunchInv
  <1>2. calls \in [Calls -> CallRecord \cup {NoCall}]
    BY <1>1 DEF PageTypes
  <1>3. \A d \in CallRecord : /\ [d EXCEPT !.busy = FALSE] \in CallRecord
                              /\ [d EXCEPT !.mounted = FALSE, !.busy = FALSE] \in CallRecord
    BY DEF CallRecord
  <1>4. \A c \in Calls : /\ InFlight(c) => calls[c] \in CallRecord
                         /\ ~InFlight(c) => calls[c] = NoCall
                         /\ InFlight(c) => Detached(c) \in CallRecord
    BY <1>1, <1>3, CallInFlight DEF Detached
  <1>5. DOMAIN calls' = Calls /\ calls' = [c \in Calls |-> calls'[c]]
    BY <1>2 DEF CenterClosed
  <1>6. ASSUME NEW c \in Calls
        PROVE  /\ calls'[c] \in CallRecord \cup {NoCall}
               /\ \/ calls'[c] = NoCall
                  \/ /\ InFlight(c)
                     /\ \/ calls'[c] = calls[c]
                        \/ calls'[c] = Detached(c)
                        \/ calls'[c] = [calls[c] EXCEPT !.busy = FALSE]
    <2>1. \/ calls'[c] = calls[c]
          \/ InFlight(c) /\ calls'[c] = [calls[c] EXCEPT !.busy = FALSE]
          \/ InFlight(c) /\ calls'[c] = Detached(c)
          \/ calls'[c] = NoCall
      BY DEF CenterClosed, Of
    <2> QED
      BY <1>2, <1>3, <1>4, <2>1
  <1> QED
    BY <1>5, <1>6 DEF CallsLeft

(* Whatever happens to a page, what it and the storage hold stays true.      *)
LEMMA PageStepIsSound ==
    ASSUME LaunchInv, NEW t \in Tabs, PageStep(t)
    PROVE  LaunchInv'
  <1>0. /\ PageTypes /\ SessionsAreTrue(chain)
        /\ wallet \in [Tabs -> Wallets \cup {NoWallet}] /\ plan \in [Tabs -> Plans]
        /\ quantity \in [Tabs -> Quantities]
        /\ session \in [Tabs -> Session \cup {NoSession}]
        /\ storage \in [Wallets -> Session \cup {NoSession}]
        /\ calls \in [Calls -> CallRecord \cup {NoCall}]
        /\ \A w \in Wallets : TrueIn(storage[w].cp, chain)
        /\ \A o \in Tabs : TrueIn(session[o].cp, chain)
    BY DEF LaunchInv, PageTypes, SessionsAreTrue
  <1>1. TrueIn(NoSession.cp, chain) /\ NoSession \in Session \cup {NoSession}
    BY BlankIsTrue DEF NoSession
  <1>2. ASSUME chain' = chain, CallsLeft,
               wallet' \in [Tabs -> Wallets \cup {NoWallet}],
               plan' \in [Tabs -> Plans], quantity' \in [Tabs -> Quantities],
               session' \in [Tabs -> Session \cup {NoSession}],
               storage' \in [Wallets -> Session \cup {NoSession}],
               \A w \in Wallets : TrueIn(storage'[w].cp, chain),
               \A o \in Tabs : TrueIn(session'[o].cp, chain)
        PROVE  LaunchInv'
    <2>1. CallsAreSound(chain)'
      BY <1>2, LeftCallsAreSound
    <2>2. PageTypes'
      BY <1>2 DEF PageTypes, CallsLeft
    <2>3. SessionsAreTrue(chain)'
      BY <1>2 DEF SessionsAreTrue
    <2> QED
      BY <1>2, <2>1, <2>2, <2>3, ChainKept
  <1>3. CASE Connect(t)
    <2>1. /\ wallet' = [wallet EXCEPT ![t] = NoWallet]
          /\ session' = [session EXCEPT ![t] = NoSession]
          /\ calls' = CenterClosed(t)
          /\ chain' = chain /\ storage' = storage /\ plan' = plan /\ quantity' = quantity
      BY <1>3 DEF Connect, ledger
    <2>2. /\ wallet' \in [Tabs -> Wallets \cup {NoWallet}]
          /\ session' \in [Tabs -> Session \cup {NoSession}]
          /\ \A o \in Tabs : session'[o] = session[o] \/ session'[o] = NoSession
      BY <1>0, <2>1
    <2>3. \A o \in Tabs : TrueIn(session'[o].cp, chain)
      BY <1>0, <1>1, <2>2
    <2>4. CallsLeft
      BY <2>1, ClosedCalls
    <2> QED
      BY <1>0, <1>2, <2>1, <2>2, <2>3, <2>4
  <1>4. ASSUME NEW w \in Wallets, Connected(t, w)
        PROVE  LaunchInv'
    <2>1. /\ wallet' = [wallet EXCEPT ![t] = w]
          /\ Show(t, readLaunchSession(w), FALSE)
          /\ chain' = chain /\ storage' = storage /\ calls' = calls
      BY <1>4 DEF Connected, ledger
    <2>2. /\ readLaunchSession(w) \in Session \cup {NoSession}
          /\ TrueIn(readLaunchSession(w).cp, chain)
      BY ReadIsTrue
    <2>3. /\ session' \in [Tabs -> Session \cup {NoSession}]
          /\ \A o \in Tabs : TrueIn(session'[o].cp, chain)
          /\ plan' \in [Tabs -> Plans] /\ quantity' \in [Tabs -> Quantities]
      BY <2>1, <2>2, ShownIsTrue
    <2>4. wallet' \in [Tabs -> Wallets \cup {NoWallet}]
      BY <1>0, <2>1
    <2>5. CallsLeft
      BY <2>1, ClosedCalls
    <2> QED
      BY <1>0, <1>2, <2>1, <2>3, <2>4, <2>5
  <1>5. CASE AccessRead(t) \/ ToReview(t) \/ ToForm(t)
    <2>1. UNCHANGED <<chain, storage, wallet, plan, session, quantity, calls>>
      BY <1>5 DEF AccessRead, ToReview, ToForm, ledger
    <2>2. CallsLeft
      BY <2>1, ClosedCalls
    <2> QED
      BY <1>0, <1>2, <2>1, <2>2
  <1>6. CASE Remount(t)
    <2>1. /\ wallet[t] \in Wallets
          /\ Show(t, readLaunchSession(wallet[t]), TRUE)
          /\ chain' = chain /\ storage' = storage /\ wallet' = wallet
          /\ calls' = [c \in Calls |-> IF Of(c, t) THEN Detached(c) ELSE calls[c]]
      BY <1>0, <1>6 DEF Remount, ledger
    <2>2. /\ readLaunchSession(wallet[t]) \in Session \cup {NoSession}
          /\ TrueIn(readLaunchSession(wallet[t]).cp, chain)
      BY <2>1, ReadIsTrue
    <2>3. /\ session' \in [Tabs -> Session \cup {NoSession}]
          /\ \A o \in Tabs : TrueIn(session'[o].cp, chain)
          /\ plan' \in [Tabs -> Plans] /\ quantity' \in [Tabs -> Quantities]
      BY <2>1, <2>2, ShownIsTrue
    <2>4. CallsLeft
      BY <2>1, ClosedCalls
    <2> QED
      BY <1>0, <1>2, <2>1, <2>3, <2>4
  <1>7. CASE Reload(t)
    <2>1. /\ wallet' = [wallet EXCEPT ![t] = NoWallet]
          /\ Show(t, NoSession, TRUE)
          /\ chain' = chain /\ storage' = storage
          /\ calls' = [c \in Calls |-> IF Of(c, t) THEN NoCall ELSE calls[c]]
      BY <1>7 DEF Reload, ledger
    <2>2. /\ session' \in [Tabs -> Session \cup {NoSession}]
          /\ \A o \in Tabs : TrueIn(session'[o].cp, chain)
          /\ plan' \in [Tabs -> Plans] /\ quantity' \in [Tabs -> Quantities]
      BY <1>1, <2>1, ShownIsTrue
    <2>3. wallet' \in [Tabs -> Wallets \cup {NoWallet}]
      BY <1>0, <2>1
    <2>4. CallsLeft
      BY <2>1, ClosedCalls
    <2> QED
      BY <1>0, <1>2, <2>1, <2>2, <2>3, <2>4
  <1>8. ASSUME NEW p \in Plans, EditPlan(t, p)
        PROVE  LaunchInv'
    <2>1. /\ UNCHANGED <<chain, storage, wallet, session, quantity, calls>>
          /\ plan' = [plan EXCEPT ![t] = p]
      BY <1>8 DEF EditPlan, ledger
    <2>2. CallsLeft
      BY <2>1, ClosedCalls
    <2>3. plan' \in [Tabs -> Plans]
      BY <1>0, <2>1
    <2> QED
      BY <1>0, <1>2, <2>1, <2>2, <2>3
  <1>9. ASSUME NEW q \in Quantities, EditQuantity(t, q)
        PROVE  LaunchInv'
    <2>1. /\ UNCHANGED <<chain, storage, wallet, session, plan, calls>>
          /\ quantity' = [quantity EXCEPT ![t] = q]
      BY <1>9 DEF EditQuantity, ledger
    <2>2. CallsLeft
      BY <2>1, ClosedCalls
    <2>3. quantity' \in [Tabs -> Quantities]
      BY <1>0, <2>1
    <2> QED
      BY <1>0, <1>2, <2>1, <2>2, <2>3
  <1>10. CASE resetLaunch(t)
    <2>1. /\ storage' = [storage EXCEPT ![wallet[t]] = NoSession]
          /\ Show(t, NoSession, TRUE)
          /\ calls' = CenterClosed(t)
          /\ chain' = chain /\ wallet' = wallet
      BY <1>10 DEF resetLaunch, clearLaunchSession, ledger
    <2>2. /\ session' \in [Tabs -> Session \cup {NoSession}]
          /\ \A o \in Tabs : TrueIn(session'[o].cp, chain)
          /\ plan' \in [Tabs -> Plans] /\ quantity' \in [Tabs -> Quantities]
      BY <1>1, <2>1, ShownIsTrue
    <2>3. /\ storage' \in [Wallets -> Session \cup {NoSession}]
          /\ \A w \in Wallets : storage'[w] = storage[w] \/ storage'[w] = NoSession
      BY <1>0, <2>1
    <2>4. \A w \in Wallets : TrueIn(storage'[w].cp, chain)
      BY <1>0, <1>1, <2>3
    <2>5. CallsLeft
      BY <2>1, ClosedCalls
    <2> QED
      BY <1>0, <1>2, <2>1, <2>2, <2>3, <2>4, <2>5
  <1>11. CASE deploy(t)
    <2> DEFINE cp == session[t].cp
               started == launchHasStarted(cp)
               s == IF session[t] # NoSession THEN session[t]
                    ELSE [wallet |-> wallet[t], plan |-> plan[t],
                          quantity |-> DefaultQuantity, cp |-> Blank]
    <2>1. /\ wallet[t] # NoWallet /\ ~launchResult(cp)
          /\ Start(t, "launch", "create", Opening(started), s, DefaultQuantity)
          /\ UNCHANGED <<ledger, storage, page>>
      BY <1>11 DEF deploy
    <2>2. Blank \in Checkpoint /\ DefaultQuantity \in Quantities
      BY BlankIsTrue, LaunchAssumption DEF TrueIn, DefaultQuantity
    <2>3. s \in Session /\ s.cp = cp
      <3>1. CASE session[t] # NoSession
        BY <1>0, <3>1
      <3>2. CASE session[t] = NoSession
        BY <1>0, <2>1, <2>2, <3>2 DEF Session, NoSession
      <3> QED
        BY <3>1, <3>2
    <2>4. TrueIn(cp, chain)
      BY <1>0
    <2>5. cp.tx["create"] \in {NoTx} \cup TxIds
      BY <2>4, CheckpointParts DEF TrueIn, Stages
    <2> HIDE DEF s, cp, started
    <2>6. PICK c \in Calls :
            calls' = [calls EXCEPT ![c] =
                [pc |-> Opening(started), stage |-> "create", tab |-> t, kind |-> "launch",
                 mounted |-> TRUE, busy |-> TRUE, account |-> wallet[t],
                 session |-> s, quantity |-> DefaultQuantity,
                 resumed |-> s.cp.tx["create"], tx |-> NoTx]]
      BY <2>1 DEF Start
    <2> DEFINE new == [pc |-> Opening(started), stage |-> "create", tab |-> t, kind |-> "launch",
                       mounted |-> TRUE, busy |-> TRUE, account |-> wallet[t],
                       session |-> s, quantity |-> DefaultQuantity,
                       resumed |-> s.cp.tx["create"], tx |-> NoTx]
    <2>7. Opening(started) = (IF started THEN "settle" ELSE "access")
          /\ Opening(started) \in Waits
      BY DEF Opening, Waits
    <2>8. new \in CallRecord
      BY <1>0, <2>1, <2>2, <2>3, <2>5, <2>7 DEF CallRecord, Stages
    <2>9. CallIsSound(new, chain)
      <3>1. ~cp.ok["create"]
        BY <2>1, <2>4 DEF launchResult, TrueIn, checkpointIsConsistent, Stages
      <3>2. started <=> cp.tx["create"] # NoTx
        BY DEF started, launchHasStarted, cp
      <3>3. /\ new.session = s /\ new.stage = "create" /\ new.pc = Opening(started)
            /\ new.resumed = cp.tx["create"]
        BY <2>3
      <3> HIDE DEF new
      <3> QED
        BY <2>3, <2>4, <2>7, <3>1, <3>2, <3>3 DEF CallIsSound
    <2> HIDE DEF new
    <2>10. chain' = chain /\ calls' = [calls EXCEPT ![c] = new]
      BY <2>1, <2>6 DEF ledger, new
    <2>11. calls' \in [Calls -> CallRecord \cup {NoCall}] /\ CallsAreSound(chain)'
      BY <2>8, <2>9, <2>10, CallReplaced
    <2>12. PageTypes' /\ SessionsAreTrue(chain)'
      BY <1>0, <2>1, <2>11 DEF PageTypes, SessionsAreTrue, page, ledger
    <2> QED
      BY <2>10, <2>11, <2>12, ChainKept
  <1>12. CASE openKeyMarket(t)
    <2> DEFINE s == [session[t] EXCEPT !.quantity = quantity[t]]
               stage == IF s.cp.ok["approve"] THEN "list" ELSE "approve"
    <2>1. /\ wallet[t] # NoWallet /\ launchResult(s.cp) /\ ~keyMarketOpen(s.cp)
          /\ saveLaunchSession(s)
          /\ session' = [session EXCEPT ![t] = s]
          /\ Start(t, "market", stage, Entry(s.cp, stage), s, quantity[t])
          /\ UNCHANGED <<ledger, wallet, plan, quantity>>
      BY <1>12 DEF openKeyMarket
    <2>2. session[t] \in Session
      <3>1. CASE session[t] = NoSession
        <4>1. s.cp = Blank
          BY <3>1 DEF NoSession
        <4>2. ~Blank.ok["create"]
          BY DEF Blank, Stages
        <4> QED
          BY <2>1, <4>1, <4>2 DEF launchResult
      <3> QED
        BY <1>0, <3>1
    <2>3. s \in Session /\ s.cp = session[t].cp /\ s.wallet \in Wallets
      <3>1. \A x \in Session : \A q \in Quantities :
                /\ [x EXCEPT !.quantity = q] \in Session
                /\ [x EXCEPT !.quantity = q].cp = x.cp
                /\ [x EXCEPT !.quantity = q].wallet \in Wallets
        BY DEF Session
      <3> QED
        BY <1>0, <2>2, <3>1
    <2> HIDE DEF s
    <2>4. TrueIn(s.cp, chain)
      BY <1>0, <2>3
    <2>5. s.cp.tx \in [Stages -> {NoTx} \cup TxIds] /\ s.cp.ok \in [Stages -> BOOLEAN]
      BY <2>4, CheckpointParts DEF TrueIn
    <2> DEFINE new == [pc |-> Entry(s.cp, stage), stage |-> stage, tab |-> t, kind |-> "market",
                       mounted |-> TRUE, busy |-> TRUE, account |-> wallet[t],
                       session |-> s, quantity |-> quantity[t],
                       resumed |-> s.cp.tx["create"], tx |-> NoTx]
    <2>6. PICK c \in Calls : calls' = [calls EXCEPT ![c] = new]
      BY <2>1 DEF Start
    <2>7. /\ stage \in Stages /\ stage # "create" /\ s.cp.ok["create"] /\ ~s.cp.ok[stage]
          /\ stage = "list" => s.cp.ok["approve"]
      <3>1. CASE s.cp.ok["approve"]
        <4>1. ~s.cp.ok["list"]
          BY <2>1, <2>4 DEF keyMarketOpen, TrueIn, checkpointIsConsistent, Stages
        <4> QED
          BY <2>1, <3>1, <4>1 DEF launchResult, Stages
      <3>2. CASE ~s.cp.ok["approve"]
        BY <2>1, <3>2 DEF launchResult, Stages
      <3> QED
        BY <3>1, <3>2
    <2> HIDE DEF stage
    <2>8. /\ Entry(s.cp, stage) \in Waits /\ Entry(s.cp, stage) \in {"settle", "wallet"}
          /\ Entry(s.cp, stage) = "settle" => s.cp.tx[stage] # NoTx
      BY <2>7 DEF Entry, Waits
    <2>9. new \in CallRecord
      BY <1>0, <2>1, <2>3, <2>5, <2>7, <2>8 DEF CallRecord, Stages
    <2>10. CallIsSound(new, chain)
      <3>1. new.session = s /\ new.stage = stage /\ new.pc = Entry(s.cp, stage)
        OBVIOUS
      <3> HIDE DEF new
      <3> QED
        BY <2>4, <2>7, <2>8, <3>1 DEF CallIsSound
    <2> HIDE DEF new
    <2>11. chain' = chain
      BY <2>1 DEF ledger
    <2>12. calls' \in [Calls -> CallRecord \cup {NoCall}] /\ CallsAreSound(chain)'
      BY <2>6, <2>9, <2>10, <2>11, CallReplaced
    <2>13. storage' = [storage EXCEPT ![s.wallet] = s]
      BY <2>1 DEF saveLaunchSession
    <2>14. /\ storage' \in [Wallets -> Session \cup {NoSession}]
           /\ session' \in [Tabs -> Session \cup {NoSession}]
           /\ \A w \in Wallets : storage'[w] = s \/ storage'[w] = storage[w]
           /\ \A o \in Tabs : session'[o] = s \/ session'[o] = session[o]
      BY <1>0, <2>1, <2>3, <2>13
    <2>15. PageTypes'
      BY <1>0, <2>1, <2>12, <2>14 DEF PageTypes
    <2>16. SessionsAreTrue(chain)'
      BY <1>0, <2>4, <2>11, <2>14 DEF SessionsAreTrue
    <2> QED
      BY <2>11, <2>12, <2>15, <2>16, ChainKept
  <1> QED
    BY <1>3, <1>4, <1>5, <1>6, <1>7, <1>8, <1>9, <1>10, <1>11, <1>12 DEF PageStep

------------------------------------------------------------------------------
(* The steps of a call.                                                      *)

\* A call like another, at another stage of another record.
MovedTo(e, call, cp, stage, pc) ==
    /\ e \in CallRecord /\ e.session.cp = cp /\ e.stage = stage /\ e.pc = pc
    /\ e.resumed = call.resumed

(* What the steps of a call write into its record.                           *)
LEMMA CallFields ==
    ASSUME NEW d \in CallRecord, NEW cp \in Checkpoint, NEW pc \in Waits
    PROVE  /\ MovedTo([d EXCEPT !.pc = pc], d, d.session.cp, d.stage, pc)
           /\ MovedTo([d EXCEPT !.session.cp = cp, !.pc = pc], d, cp, d.stage, pc)
           /\ MovedTo([d EXCEPT !.session.cp = cp, !.pc = pc, !.tx = NoTx], d, cp, d.stage, pc)
           /\ MovedTo([d EXCEPT !.session.cp = cp, !.stage = "list", !.pc = pc], d, cp, "list", pc)
  <1> DEFINE s == [d.session EXCEPT !.cp = cp]
             moved == [d EXCEPT !.session = s]
  <1>1. s \in Session /\ s.cp = cp
    <2>1. \A x \in Session : [x EXCEPT !.cp = cp] \in Session /\ [x EXCEPT !.cp = cp].cp = cp
      BY DEF Session
    <2> QED
      BY <2>1 DEF CallRecord
  <1>2. [d EXCEPT !.session.cp = cp] = moved
    OBVIOUS
  <1> HIDE DEF s
  <1>3. /\ moved \in CallRecord /\ moved.session = s /\ moved.stage = d.stage
        /\ moved.resumed = d.resumed
    BY <1>1 DEF CallRecord
  <1> HIDE DEF moved
  <1>4. \A x \in CallRecord : LET e == [x EXCEPT !.pc = pc] IN
              /\ e \in CallRecord /\ e.pc = pc /\ e.session = x.session
              /\ e.stage = x.stage /\ e.resumed = x.resumed
    BY DEF CallRecord
  <1>5. \A x \in CallRecord : LET e == [x EXCEPT !.pc = pc, !.tx = NoTx] IN
              /\ e \in CallRecord /\ e.pc = pc /\ e.session = x.session
              /\ e.stage = x.stage /\ e.resumed = x.resumed
    BY DEF CallRecord
  <1>6. \A x \in CallRecord : LET e == [x EXCEPT !.stage = "list", !.pc = pc] IN
              /\ e \in CallRecord /\ e.pc = pc /\ e.session = x.session
              /\ e.stage = "list" /\ e.resumed = x.resumed
    BY DEF CallRecord, Stages
  <1>7. LET e == [d EXCEPT !.session.cp = cp, !.pc = pc] IN
              /\ e \in CallRecord /\ e.pc = pc /\ e.session.cp = cp
              /\ e.stage = d.stage /\ e.resumed = d.resumed
    <2>1. [d EXCEPT !.session.cp = cp, !.pc = pc] = [moved EXCEPT !.pc = pc]
      BY <1>2
    <2> QED
      BY <1>1, <1>3, <1>4, <2>1
  <1>8. LET e == [d EXCEPT !.session.cp = cp, !.pc = pc, !.tx = NoTx] IN
              /\ e \in CallRecord /\ e.pc = pc /\ e.session.cp = cp
              /\ e.stage = d.stage /\ e.resumed = d.resumed
    <2>1. [d EXCEPT !.session.cp = cp, !.pc = pc, !.tx = NoTx]
            = [moved EXCEPT !.pc = pc, !.tx = NoTx]
      BY <1>2
    <2> QED
      BY <1>1, <1>3, <1>5, <2>1
  <1>9. LET e == [d EXCEPT !.session.cp = cp, !.stage = "list", !.pc = pc] IN
              /\ e \in CallRecord /\ e.pc = pc /\ e.session.cp = cp
              /\ e.stage = "list" /\ e.resumed = d.resumed
    <2>1. [d EXCEPT !.session.cp = cp, !.stage = "list", !.pc = pc]
            = [moved EXCEPT !.stage = "list", !.pc = pc]
      BY <1>2
    <2> QED
      BY <1>1, <1>3, <1>6, <2>1
  <1>10. LET e == [d EXCEPT !.pc = pc] IN
              /\ e \in CallRecord /\ e.pc = pc /\ e.session.cp = d.session.cp
              /\ e.stage = d.stage /\ e.resumed = d.resumed
    BY <1>4
  <1> QED
    BY <1>7, <1>8, <1>9, <1>10 DEF MovedTo

(* A call's step leaves the chain alone, replaces the call by a sound one or *)
(* ends it, and saves a true record or none.                                 *)
LEMMA CallMoved ==
    ASSUME LaunchInv, NEW c \in Calls, InFlight(c),
           NEW new \in CallRecord \cup {NoCall}, new # NoCall => CallIsSound(new, chain),
           calls' = [calls EXCEPT ![c] = new],
           UNCHANGED <<chain, wallet, plan>>,
           \/ UNCHANGED <<storage, session, quantity>>
           \/ \E cp : TrueIn(cp, chain) /\ Persist(c, cp)
    PROVE  LaunchInv'
  <1>1. /\ PageTypes
        /\ wallet \in [Tabs -> Wallets \cup {NoWallet}] /\ plan \in [Tabs -> Plans]
        /\ quantity \in [Tabs -> Quantities]
        /\ session \in [Tabs -> Session \cup {NoSession}]
        /\ storage \in [Wallets -> Session \cup {NoSession}]
        /\ \A w \in Wallets : TrueIn(storage[w].cp, chain)
        /\ \A o \in Tabs : TrueIn(session[o].cp, chain)
    BY DEF LaunchInv, PageTypes, SessionsAreTrue
  <1>2. calls[c] \in CallRecord
    BY <1>1, CallInFlight
  <1>3. calls' \in [Calls -> CallRecord \cup {NoCall}] /\ CallsAreSound(chain)'
    BY CallReplaced
  <1>4. /\ session' \in [Tabs -> Session \cup {NoSession}]
        /\ storage' \in [Wallets -> Session \cup {NoSession}]
        /\ quantity' \in [Tabs -> Quantities]
        /\ \A o \in Tabs : TrueIn(session'[o].cp, chain)
        /\ \A w \in Wallets : TrueIn(storage'[w].cp, chain)
    <2>1. CASE UNCHANGED <<storage, session, quantity>>
      BY <1>1, <2>1
    <2>2. CASE \E cp : TrueIn(cp, chain) /\ Persist(c, cp)
      BY <1>2, <2>2, PersistedIsTrue
    <2> QED
      BY <2>1, <2>2
  <1>5. PageTypes'
    BY <1>1, <1>3, <1>4 DEF PageTypes
  <1>6. SessionsAreTrue(chain)'
    BY <1>4 DEF SessionsAreTrue
  <1> QED
    BY <1>3, <1>5, <1>6, ChainKept

(* A call that ends has nothing left to keep.                                *)
LEMMA CallEnded ==
    ASSUME LaunchInv, NEW c \in Calls, InFlight(c), Ended(c),
           UNCHANGED <<chain, wallet, plan>>,
           \/ UNCHANGED <<storage, session, quantity>>
           \/ \E cp : TrueIn(cp, chain) /\ Persist(c, cp)
    PROVE  LaunchInv'
  BY CallMoved DEF Ended

(* A confirmed stage is recorded, and an approval goes on to the listing.    *)
LEMMA ConfirmedStep ==
    ASSUME LaunchInv, NEW c \in Calls, InFlight(c), Confirmed(c),
           calls[c].pc \in {"settle", "receipt"},
           chain[calls[c].session.cp.tx[calls[c].stage]].status = "success",
           UNCHANGED <<chain, wallet, plan>>
    PROVE  LaunchInv'
  <1> DEFINE call == calls[c]
             old == call.session.cp
             x == old.tx[call.stage]
             cp == Recorded(old, call.stage, x, TRUE)
  <1>1. call \in CallRecord /\ CallIsSound(call, chain)
    BY CallInFlight DEF LaunchInv, CallsAreSound
  <1>2. /\ call.stage \in Stages /\ TrueIn(old, chain) /\ ~old.ok[call.stage]
        /\ call.stage # "create" => old.ok["create"]
        /\ call.stage = "list" => old.ok["approve"]
        /\ x # NoTx
    BY <1>1 DEF CallRecord, CallIsSound
  <1>3. x \in TxIds /\ x \in DOMAIN chain /\ chain[x].stage = call.stage
    BY <1>2, CheckpointParts DEF TrueIn
  <1>4. TrueIn(cp, chain) /\ DiffersIn(cp, old, call.stage, x, TRUE)
    <2>1. chain[x].status = "success" /\ IsNext(old, chain, call.stage, x)
      BY <1>2, <1>3 DEF IsNext
    <2> HIDE DEF x, call, old
    <2> QED
      BY <2>1, RecordedIsTrue
  <1>5. Persist(c, cp)
    BY DEF Confirmed
  <1>6. CASE call.stage = "approve" /\ ~cp.ok["list"]
    <2>1. calls' = [calls EXCEPT ![c].session.cp = cp, ![c].stage = "list",
                                 ![c].pc = Entry(cp, "list")]
      BY <1>6 DEF Confirmed
    <2> DEFINE new == [call EXCEPT !.session.cp = cp, !.stage = "list", !.pc = Entry(cp, "list")]
    <2>2. calls \in [Calls -> CallRecord \cup {NoCall}]
      BY DEF LaunchInv, PageTypes
    <2> HIDE DEF cp
    <2>3. calls' = [calls EXCEPT ![c] = new]
      BY <2>1, <2>2
    <2>4. /\ Entry(cp, "list") \in Waits
          /\ Entry(cp, "list") = "settle" => cp.tx["list"] # NoTx
          /\ Entry(cp, "list") \in {"settle", "wallet"}
      BY DEF Entry, Waits
    <2>5. cp \in Checkpoint
      BY <1>4 DEF TrueIn
    <2>6. MovedTo(new, call, cp, "list", Entry(cp, "list"))
      <3> HIDE DEF call
      <3> QED
        BY <1>1, <2>4, <2>5, CallFields, Zenon
    <2>7. cp.ok["create"] /\ cp.ok["approve"]
      BY <1>2, <1>4, <1>6 DEF Stages, DiffersIn
    <2> HIDE DEF new, call
    <2>8. CallIsSound(new, chain)
      BY <1>4, <1>6, <2>4, <2>6, <2>7 DEF CallIsSound, MovedTo
    <2>9. new \in CallRecord
      BY <2>6 DEF MovedTo
    <2> QED
      BY <1>4, <1>5, <2>3, <2>8, <2>9, CallMoved
  <1>7. CASE ~(call.stage = "approve" /\ ~cp.ok["list"])
    <2>1. Ended(c)
      BY <1>7 DEF Confirmed
    <2> HIDE DEF cp
    <2> QED
      BY <1>4, <1>5, <2>1, CallEnded
  <1> QED
    BY <1>6, <1>7

(* The slot checks, before anything is sent: a call that had a creation      *)
(* recorded, and waits at a check, has seen it revert.                       *)
LEMMA ChecksStep ==
    ASSUME LaunchInv, NEW c \in Calls, InFlight(c), SlotsChecked(c) \/ GateRead(c)
    PROVE  LaunchInv'
  <1> DEFINE call == calls[c]
  <1>1. call \in CallRecord /\ CallIsSound(call, chain)
    BY CallInFlight DEF LaunchInv, CallsAreSound
  <1>2. UNCHANGED <<chain, wallet, plan, storage, session, quantity>>
    BY DEF SlotsChecked, GateRead, ledger, page
  <1>3. PICK pc \in {"gate", "wallet"} : Ended(c) \/ GoesOn(c, pc)
    BY DEF SlotsChecked, GateRead
  <1>4. call.pc \in {"access", "gate"}
    BY DEF SlotsChecked, GateRead
  <1>5. CASE Ended(c)
    BY <1>2, <1>5, CallEnded
  <1>6. CASE GoesOn(c, pc)
    <2> DEFINE new == [call EXCEPT !.pc = pc]
    <2>1. pc \in Waits /\ call.session.cp \in Checkpoint
      BY <1>1 DEF Waits, CallIsSound, TrueIn
    <2>2. MovedTo(new, call, call.session.cp, call.stage, pc)
      <3> HIDE DEF call
      <3> QED
        BY <1>1, <2>1, CallFields, Zenon
    <2>3. calls \in [Calls -> CallRecord \cup {NoCall}]
      BY DEF LaunchInv, PageTypes
    <2>4. calls' = [calls EXCEPT ![c] = new]
      BY <1>6, <2>3 DEF GoesOn
    <2> HIDE DEF new, call
    <2>5. CallIsSound(new, chain)
      BY <1>1, <1>4, <2>2 DEF CallIsSound, MovedTo
    <2>6. new \in CallRecord
      BY <2>2 DEF MovedTo
    <2> QED
      BY <1>2, <2>4, <2>5, <2>6, CallMoved
  <1> QED
    BY <1>3, <1>5, <1>6

(* The hash of a broadcast transaction is recorded.                          *)
LEMMA SubmittedStep ==
    ASSUME LaunchInv, NEW c \in Calls, InFlight(c), Submitted(c)
    PROVE  LaunchInv'
  <1> DEFINE call == calls[c]
             old == call.session.cp
             cp == Recorded(old, call.stage, call.tx, FALSE)
             new == [call EXCEPT !.session.cp = cp, !.pc = "receipt", !.tx = NoTx]
  <1>1. call \in CallRecord /\ CallIsSound(call, chain)
    BY CallInFlight DEF LaunchInv, CallsAreSound
  <1>2. call.pc = "sent" /\ Persist(c, cp) /\ UNCHANGED <<chain, wallet, plan>>
        /\ calls' = [calls EXCEPT ![c].session.cp = cp, ![c].pc = "receipt", ![c].tx = NoTx]
    BY DEF Submitted, ledger
  <1>3. /\ call.stage \in Stages /\ TrueIn(old, chain) /\ ~old.ok[call.stage]
        /\ call.stage # "create" => old.ok["create"]
        /\ call.stage = "list" => old.ok["approve"]
        /\ call.tx \in {NoTx} \cup TxIds /\ call.tx \in DOMAIN chain
        /\ chain[call.tx].stage = call.stage
    BY <1>1, <1>2 DEF CallRecord, CallIsSound
  <1>4. call.tx \in TxIds /\ call.tx # NoTx
    BY <1>3 DEF LaunchInv, ChainTypes, NoTx
  <1>5. TrueIn(cp, chain) /\ DiffersIn(cp, old, call.stage, call.tx, FALSE)
    <2>1. IsNext(old, chain, call.stage, call.tx)
      BY <1>3, <1>4 DEF IsNext
    <2> HIDE DEF call, old
    <2> QED
      BY <2>1, RecordedIsTrue
  <1>6. calls \in [Calls -> CallRecord \cup {NoCall}]
    BY DEF LaunchInv, PageTypes
  <1> HIDE DEF cp
  <1>7. calls' = [calls EXCEPT ![c] = new]
    BY <1>2, <1>6
  <1>8. "receipt" \in Waits /\ cp \in Checkpoint
    BY <1>5 DEF Waits, TrueIn
  <1>9. MovedTo(new, call, cp, call.stage, "receipt")
    <2> HIDE DEF call
    <2> QED
      BY <1>1, <1>8, CallFields, Zenon
  <1> HIDE DEF new, call
  <1>10. /\ new.stage # "create" => cp.ok["create"]
         /\ new.stage = "list" => cp.ok["approve"]
    BY <1>3, <1>5, <1>9 DEF Stages, MovedTo, DiffersIn
  <1>11. CallIsSound(new, chain)
    BY <1>4, <1>5, <1>9, <1>10 DEF CallIsSound, MovedTo, DiffersIn
  <1>12. new \in CallRecord
    BY <1>9 DEF MovedTo
  <1> QED
    BY <1>2, <1>5, <1>7, <1>11, <1>12, CallMoved

(* A recorded receipt: after a success the stage is confirmed, after a       *)
(* revert the record is cleared and the transaction is sent anew.            *)
LEMMA SettledStep ==
    ASSUME LaunchInv, NEW c \in Calls, InFlight(c), Settled(c)
    PROVE  LaunchInv'
  <1> DEFINE call == calls[c]
             old == call.session.cp
             x == old.tx[call.stage]
             cp == Cleared(old, call.stage)
             pc == Entry(cp, call.stage)
             new == [call EXCEPT !.session.cp = cp, !.pc = pc]
  <1>1. call \in CallRecord /\ CallIsSound(call, chain)
    BY CallInFlight DEF LaunchInv, CallsAreSound
  <1>2. call.pc = "settle" /\ chain[x].status # "pending" /\ UNCHANGED <<chain, wallet, plan>>
    BY DEF Settled, ledger
  <1>3. CASE chain[x].status = "success"
    <2>1. Confirmed(c)
      BY <1>3 DEF Settled
    <2> QED
      BY <1>2, <1>3, <2>1, ConfirmedStep
  <1>4. CASE chain[x].status # "success"
    <2>1. Persist(c, cp)
          /\ calls' = [calls EXCEPT ![c].session.cp = cp, ![c].pc = pc]
      BY <1>4 DEF Settled
    <2>2. /\ call.stage \in Stages /\ TrueIn(old, chain) /\ x # NoTx
          /\ call.stage # "create" => old.ok["create"]
          /\ call.stage = "list" => old.ok["approve"]
          /\ call.stage = "create" /\ call.resumed # NoTx => x = call.resumed
      BY <1>1, <1>2 DEF CallRecord, CallIsSound
    <2>3. x \in DOMAIN chain /\ chain[x].status = "reverted"
      <3>1. x \in DOMAIN chain
        BY <2>2 DEF TrueIn
      <3>2. chain[x] \in Tx
        BY <3>1 DEF LaunchInv, ChainTypes
      <3> QED
        BY <1>2, <1>4, <3>1, <3>2 DEF Tx
    <2>4. /\ TrueIn(cp, chain)
          /\ cp.tx[call.stage] = NoTx /\ ~cp.ok[call.stage]
          /\ call.stage # "create" /\ old.ok["create"] => cp.ok["create"]
          /\ call.stage = "list" /\ old.ok["approve"] => cp.ok["approve"]
      <3> HIDE DEF old, x, call
      <3> QED
        BY <2>2, ClearedIsTrue
    <2>5. calls \in [Calls -> CallRecord \cup {NoCall}]
      BY DEF LaunchInv, PageTypes
    <2> HIDE DEF cp
    <2>6. pc \in Waits /\ pc \in {"gate", "wallet"}
      BY <2>4 DEF Entry, Waits
    <2> HIDE DEF pc
    <2>7. calls' = [calls EXCEPT ![c] = new]
      BY <2>1, <2>5
    <2>8. MovedTo(new, call, cp, call.stage, pc)
      <3>1. cp \in Checkpoint
        BY <2>4 DEF TrueIn
      <3> HIDE DEF call
      <3> QED
        BY <1>1, <2>6, <3>1, CallFields, Zenon
    <2> HIDE DEF new, call, old, x
    <2>9. CallIsSound(new, chain)
      BY <2>2, <2>3, <2>4, <2>6, <2>8 DEF CallIsSound, MovedTo, Reverted
    <2>10. new \in CallRecord
      BY <2>8 DEF MovedTo
    <2> QED
      BY <1>2, <2>1, <2>4, <2>7, <2>9, <2>10, CallMoved
  <1> QED
    BY <1>3, <1>4

(* The receipt of a call's own transaction.                                  *)
LEMMA ReceiptStep ==
    ASSUME LaunchInv, NEW c \in Calls, InFlight(c), ReceiptRead(c)
    PROVE  LaunchInv'
  <1> DEFINE x == calls[c].session.cp.tx[calls[c].stage]
  <1>1. calls[c].pc = "receipt" /\ UNCHANGED <<chain, wallet, plan>>
    BY DEF ReceiptRead, ledger
  <1>2. CASE chain[x].status = "success"
    <2>1. Confirmed(c)
      BY <1>2 DEF ReceiptRead
    <2> QED
      BY <1>1, <1>2, <2>1, ConfirmedStep
  <1>3. CASE chain[x].status # "success"
    <2>1. Ended(c) /\ UNCHANGED <<storage, session, quantity>>
      BY <1>3 DEF ReceiptRead
    <2> QED
      BY <1>1, <2>1, CallEnded
  <1> QED
    BY <1>2, <1>3

(* A call that is declined, or whose answer does not come back.              *)
LEMMA GivenUpStep ==
    ASSUME LaunchInv, NEW c \in Calls, InFlight(c), Decline(c) \/ Unreadable(c)
    PROVE  LaunchInv'
  <1>1. Ended(c) /\ UNCHANGED <<chain, wallet, plan, storage, session, quantity>>
    BY DEF Decline, Unreadable, ledger, page
  <1> QED
    BY <1>1, CallEnded

------------------------------------------------------------------------------
(* The theorems.                                                             *)

(* Before the first transaction nothing is recorded.                         *)
LEMMA LaunchStarts ==
    ASSUME Init
    PROVE  LaunchInv
  <1>1. ChainTypes /\ chain = <<>>
    <2>1. chain = <<>> /\ Len(chain) = 0
      BY DEF Init
    <2>2. chain \in Seq(Tx)
      BY <2>1
    <2>3. MaxTxs \in Nat
      BY LaunchAssumption
    <2> QED
      BY <2>1, <2>2, <2>3 DEF ChainTypes
  <1>2. /\ wallet = [t \in Tabs |-> NoWallet] /\ plan = [t \in Tabs |-> DefaultPlan]
        /\ session = [t \in Tabs |-> NoSession] /\ storage = [w \in Wallets |-> NoSession]
        /\ quantity = [t \in Tabs |-> DefaultQuantity] /\ calls = [c \in Calls |-> NoCall]
    BY DEF Init
  <1>3. DefaultPlan \in Plans /\ DefaultQuantity \in Quantities
    BY LaunchAssumption DEF DefaultPlan, DefaultQuantity
  <1>4. PageTypes
    BY <1>2, <1>3 DEF PageTypes
  <1>5. TrueIn(NoSession.cp, chain)
    BY BlankIsTrue DEF NoSession
  <1>6. SessionsAreTrue(chain)
    BY <1>2, <1>5 DEF SessionsAreTrue
  <1>7. CallsAreSound(chain)
    BY <1>2 DEF CallsAreSound, InFlight, NoCall
  <1>8. ResumedOnlyAfterReverts(chain)
    BY <1>1 DEF ResumedOnlyAfterReverts
  <1> QED
    BY <1>1, <1>4, <1>6, <1>7, <1>8 DEF LaunchInv

(* No step of the chain, of a page or of a call breaks the invariant.        *)
LEMMA LaunchGoesOn ==
    ASSUME LaunchInv, [Next]_vars
    PROVE  LaunchInv'
  <1>1. ASSUME NEW x \in DOMAIN chain, Mine(x)
        PROVE  LaunchInv'
    BY <1>1, MineStep
  <1>2. ASSUME NEW t \in Tabs, PageStep(t)
        PROVE  LaunchInv'
    BY <1>2, PageStepIsSound
  <1>3. ASSUME NEW c \in Calls, InFlight(c), CallStep(c) \/ Unreadable(c)
        PROVE  LaunchInv'
    BY <1>3, ChecksStep, SettledStep, SignStep, SubmittedStep, ReceiptStep, GivenUpStep
       DEF CallStep
  <1>4. CASE UNCHANGED vars
    <2>1. UNCHANGED <<chain, storage, wallet, plan, session, quantity, calls>>
      BY <1>4 DEF vars, ledger, page
    <2>2. PageTypes' /\ SessionsAreTrue(chain)' /\ CallsAreSound(chain)'
      BY <2>1 DEF LaunchInv, PageTypes, SessionsAreTrue, CallsAreSound, InFlight
    <2> QED
      BY <2>1, <2>2, ChainKept
  <1> QED
    BY <1>1, <1>2, <1>3, <1>4 DEF Next

(* What the storage, every page and every call in flight know of the chain   *)
(* is true, whatever tabs, reloads, reconnections and receipts come between. *)
THEOREM LaunchCorrect == Spec => []LaunchInv
  <1>1. Init => LaunchInv
    BY LaunchStarts
  <1>2. LaunchInv /\ [Next]_vars => LaunchInv'
    BY LaunchGoesOn
  <1> QED
    BY <1>1, <1>2, PTL DEF Spec

(* Reading a saved record back never discards it; what its trackers call     *)
(* submitted was sent, and what they call confirmed was executed.            *)
THEOREM RecordsTrue == Spec => []StoredRecordsAreTrue
  <1>1. LaunchInv => StoredRecordsAreTrue
    <2> SUFFICES ASSUME LaunchInv
                 PROVE  StoredRecordsAreTrue
      OBVIOUS
    <2>1. RecordsAreTrue
      BY DEF LaunchInv, SessionsAreTrue, TrueIn, RecordsAreTrue
    <2>2. ASSUME NEW cp, TrueIn(cp, chain), NEW s \in Stages
          PROVE  /\ StageShown(cp, s) = "submitted" => chain[cp.tx[s]].stage = s
                 /\ StageShown(cp, s) = "confirmed" => chain[cp.tx[s]].status = "success"
      <3>1. CASE cp.ok[s]
        BY <2>2, <3>1 DEF TrueIn, StageShown
      <3>2. CASE ~cp.ok[s] /\ cp.tx[s] # NoTx
        BY <2>2, <3>2 DEF TrueIn, StageShown
      <3>3. CASE ~cp.ok[s] /\ cp.tx[s] = NoTx
        BY <3>3 DEF StageShown
      <3> QED
        BY <3>1, <3>2, <3>3
    <2>3. ASSUME NEW cp, TrueIn(cp, chain)
          PROVE  TrackersAreTrue(cp)
      <3>1. {"create"} \subseteq Stages /\ {"approve", "list"} \subseteq Stages
        BY DEF Stages
      <3>2. ASSUME NEW shown \in {LaunchReceiptTracker(cp), KeyMarketReceiptTracker(cp)},
                   NEW s \in DOMAIN shown
            PROVE  s \in Stages /\ shown[s] = StageShown(cp, s)
        BY <3>1 DEF LaunchReceiptTracker, KeyMarketReceiptTracker
      <3> QED
        BY <2>2, <2>3, <3>2 DEF TrackersAreTrue
    <2>4. \A t \in Tabs : TrackersAreTrue(session[t].cp)
      BY <2>3 DEF LaunchInv, SessionsAreTrue
    <2> QED
      BY <2>1, <2>4 DEF StoredRecordsAreTrue
  <1> QED
    BY <1>1, LaunchCorrect, PTL

(* Resume never sends a second creation while the first may still succeed.   *)
THEOREM NeverDuplicates == Spec => []ResumeNeverDuplicates
  <1>1. LaunchInv => ResumeNeverDuplicates
    BY DEF LaunchInv, ResumedOnlyAfterReverts, ResumeNeverDuplicates, Reverted
  <1> QED
    BY <1>1, LaunchCorrect, PTL
=============================================================================
