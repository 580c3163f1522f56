----------------------- MODULE AlgorandDeposit_proofs -----------------------
(***************************************************************************)
(* For any number of processes, tokens, amounts, calls and rounds: what    *)
(* the application receives it credits, and calls that return have each    *)
(* made a deposit of their own.                                            *)
(***************************************************************************)
EXTENDS AlgorandDeposit, TLAPS

Deposits == [token : Tokens, amount : Amounts, first : 0 .. MaxRounds]

Transfer(d) == [kind |-> "transfer", group |-> d]
Call(d)     == [kind |-> "call", group |-> d]

\* What is pending are whole groups, and what is confirmed came in whole groups.
WholeGroups ==
    /\ \A g \in pool : \E d \in Deposits : g = {Transfer(d), Call(d)}
    /\ \A d \in Deposits : Transfer(d) \in ledger <=> Call(d) \in ledger

(***************************************************************************)
(* What a waiting call has sent is still somewhere, and nobody else has    *)
(* sent it or returned with it, unless it was dropped.                     *)
(***************************************************************************)
WaitingOwn ==
    \A p \in Processes : Waits(p) =>
        /\ \/ Pending(asset_transfer_txn(p))
           \/ asset_transfer_txn(p) \in ledger
           \/ asset_transfer_txn(p) \in dropped
        /\ asset_transfer_txn(p) \notin dropped =>
               /\ \A q \in Processes \ {p} :
                     Waits(q) => asset_transfer_txn(q) # asset_transfer_txn(p)
               /\ \A r \in returned : r.sent # asset_transfer_txn(p)

AlgoInv == AlgoTypeOK /\ WholeGroups /\ WaitingOwn /\ ReturnedDepositedItsOwn

-----------------------------------------------------------------------------
LEMMA CallFacts ==
    ASSUME AlgoTypeOK, NEW p \in Processes
    PROVE  /\ call[p] \in {Idle} \cup Underway
           /\ call[p].pc # "idle" =>
                 /\ call[p] \in Underway
                 /\ Contents(p) \in Deposits
                 /\ asset_transfer_txn(p) = Transfer(Contents(p))
                 /\ app_call_txn(p) = Call(Contents(p))
                 /\ asset_transfer_txn(p) \in Txns /\ app_call_txn(p) \in Txns
           /\ Waits(p) => call[p].pc # "idle"
<1>1. call[p] \in {Idle} \cup Underway
  BY DEF AlgoTypeOK
<1>2. ASSUME call[p].pc # "idle"
      PROVE  call[p] \in Underway /\ Contents(p) \in Deposits
  BY <1>1, <1>2 DEF Idle, Underway, Contents, Deposits
<1> QED
  BY <1>1, <1>2 DEF Waits, asset_transfer_txn, app_call_txn, Transfer, Call, Txns, Deposits

LEMMA TxnFacts ==
    ASSUME NEW d, NEW e
    PROVE  /\ Transfer(d) = Transfer(e) <=> d = e
           /\ Call(d) = Call(e) <=> d = e
           /\ Transfer(d) # Call(e)
  BY DEF Transfer, Call

-----------------------------------------------------------------------------
LEMMA TypeInit == AlgoInit => AlgoTypeOK
  BY AlgoAssumption DEF AlgoInit, AlgoTypeOK

LEMMA TypeStep == AlgoTypeOK /\ [AlgoNext]_vars => AlgoTypeOK'
<1> SUFFICES ASSUME AlgoTypeOK, [AlgoNext]_vars
             PROVE  AlgoTypeOK'
  OBVIOUS
<1> USE AlgoAssumption
<1>1. ASSUME NEW g \in pool, Confirm(g) \/ Drop(g)
      PROVE  AlgoTypeOK'
  BY <1>1 DEF AlgoTypeOK, Confirm, Drop
<1>2. ASSUME EndRound
      PROVE  AlgoTypeOK'
  <2>1. ASSUME NEW p \in Processes
        PROVE  call'[p] \in {Idle} \cup Underway
    <3>1. call[p] \in {Idle} \cup Underway
      BY DEF AlgoTypeOK
    <3>2. CASE Waits(p) /\ call[p].waited < WaitRounds
      <4>1. call[p] \in Underway
        BY <3>1, <3>2 DEF Waits, Idle
      <4>2. call'[p] = [call[p] EXCEPT !.waited = @ + 1]
        BY <1>2, <3>2 DEF EndRound
      <4> QED
        BY <3>2, <4>1, <4>2 DEF Underway, WaitRounds
    <3>3. CASE ~(Waits(p) /\ call[p].waited < WaitRounds)
      BY <1>2, <3>1, <3>3 DEF EndRound
    <3> QED
      BY <3>2, <3>3
  <2>2. call' \in [Processes -> {Idle} \cup Underway]
    BY <1>2, <2>1 DEF EndRound
  <2> QED
    BY <1>2, <2>2 DEF AlgoTypeOK, EndRound
<1>3. ASSUME NEW p \in Processes, NEW token \in Tokens, NEW amount \in Amounts,
             suggested_params(p, token, amount)
      PROVE  AlgoTypeOK'
  <2>1. calls' \in Ids /\ round \in 0 .. MaxRounds
    BY <1>3 DEF AlgoTypeOK, suggested_params, Ids
  <2>2. [pc |-> "send", id |-> calls', token |-> token, amount |-> amount,
         first |-> round, waited |-> 0] \in Underway
    BY <2>1 DEF Underway, WaitRounds
  <2> QED
    BY <1>3, <2>1, <2>2 DEF AlgoTypeOK, suggested_params, nodeVars, Ids
<1>4. ASSUME NEW p \in Processes, Raises(p)
      PROVE  /\ call' \in [Processes -> {Idle} \cup Underway]
             /\ calls' \in 0 .. MaxCalls
             /\ returned' \subseteq [id : Ids, sent : Txns, value : Txns \cup {None}]
  BY <1>4 DEF AlgoTypeOK, Raises
<1>5. ASSUME NEW p \in Processes, Accepts(p)
      PROVE  /\ round' \in 0 .. MaxRounds
             /\ \A g \in pool' : g \subseteq Txns
             /\ ledger' \subseteq Txns
             /\ dropped' \subseteq Txns
             /\ calls' \in 0 .. MaxCalls
             /\ returned' \subseteq [id : Ids, sent : Txns, value : Txns \cup {None}]
  <2>1. asset_transfer_txn(p) \in Txns /\ app_call_txn(p) \in Txns
    BY <1>5, CallFacts DEF Accepts
  <2> QED
    BY <1>5, <2>1 DEF AlgoTypeOK, Accepts, Groups
<1>6. ASSUME NEW p \in Processes, send_transactions(p)
      PROVE  AlgoTypeOK'
  <2>1. [call[p] EXCEPT !.pc = "wait"] \in Underway
    BY <1>6, CallFacts DEF send_transactions, Accepts, Underway
  <2>2. call' \in [Processes -> {Idle} \cup Underway]
    BY <1>6, <2>1 DEF send_transactions, AlgoTypeOK
  <2>3. Accepts(p)
    BY <1>6 DEF send_transactions
  <2> QED
    BY <1>5, <2>2, <2>3 DEF AlgoTypeOK
<1>7. ASSUME NEW p \in Processes, send_transactions_unanswered(p)
      PROVE  AlgoTypeOK'
  BY <1>4, <1>5, <1>7 DEF send_transactions_unanswered, AlgoTypeOK
<1>8. ASSUME NEW p \in Processes,
             send_transactions_raises(p) \/ rejected(p) \/ times_out(p) \/ wait_raises(p)
      PROVE  AlgoTypeOK'
  <2>1. Raises(p) /\ UNCHANGED nodeVars
    BY <1>8 DEF send_transactions_raises, rejected, times_out, wait_raises
  <2> QED
    BY <1>4, <2>1 DEF AlgoTypeOK, nodeVars
<1>9. ASSUME NEW p \in Processes, confirmed(p)
      PROVE  AlgoTypeOK'
  <2>1. call[p].id \in Ids /\ asset_transfer_txn(p) \in Txns
    BY <1>9, CallFacts DEF confirmed, Underway
  <2> QED
    BY <1>9, <2>1 DEF AlgoTypeOK, confirmed, nodeVars
<1>10. CASE UNCHANGED vars
  BY <1>10 DEF AlgoTypeOK, vars, nodeVars
<1> QED
  BY <1>1, <1>2, <1>3, <1>6, <1>7, <1>8, <1>9, <1>10 DEF AlgoNext, Step

-----------------------------------------------------------------------------
LEMMA WholeStep == AlgoTypeOK /\ WholeGroups /\ [AlgoNext]_vars => WholeGroups'
<1> SUFFICES ASSUME AlgoTypeOK, WholeGroups, [AlgoNext]_vars
             PROVE  WholeGroups'
  OBVIOUS
<1>1. ASSUME NEW g \in pool, Confirm(g)
      PROVE  WholeGroups'
  <2>1. PICK d \in Deposits : g = {Transfer(d), Call(d)}
    BY DEF WholeGroups
  <2>2. ledger' = ledger \cup {Transfer(d), Call(d)} /\ pool' \subseteq pool
    BY <1>1, <2>1 DEF Confirm
  <2>3. ASSUME NEW e \in Deposits
        PROVE  Transfer(e) \in ledger' <=> Call(e) \in ledger'
    <3>1. Transfer(e) \in ledger <=> Call(e) \in ledger
      BY DEF WholeGroups
    <3> QED
      BY <2>2, <3>1, TxnFacts
  <2> QED
    BY <2>2, <2>3 DEF WholeGroups
<1>2. ASSUME NEW g \in pool, Drop(g)
      PROVE  WholeGroups'
  BY <1>2 DEF WholeGroups, Drop
<1>3. ASSUME NEW p \in Processes, Accepts(p)
      PROVE  WholeGroups'
  <2>1. /\ Contents(p) \in Deposits
        /\ asset_transfer_txn(p) = Transfer(Contents(p))
        /\ app_call_txn(p) = Call(Contents(p))
    BY <1>3, CallFacts DEF Accepts
  <2>2. pool' = pool \cup {{Transfer(Contents(p)), Call(Contents(p))}} /\ ledger' = ledger
    BY <1>3, <2>1 DEF Accepts, Groups
  <2> QED
    BY <2>1, <2>2 DEF WholeGroups
<1>4. ASSUME UNCHANGED <<pool, ledger>>
      PROVE  WholeGroups'
  BY <1>4 DEF WholeGroups
<1> QED
  BY <1>1, <1>2, <1>3, <1>4 DEF AlgoNext, Step, EndRound, suggested_params, send_transactions,
        send_transactions_unanswered, send_transactions_raises, confirmed, rejected, times_out,
        wait_raises, nodeVars, vars

-----------------------------------------------------------------------------
\* A step after which fewer or the same calls wait, for what they waited for.
NoNewWaits ==
    \A p \in Processes : Waits(p)' => Waits(p) /\ asset_transfer_txn(p)' = asset_transfer_txn(p)

LEMMA OnlyRaises ==
    ASSUME AlgoTypeOK, NEW p \in Processes,
           call' = [call EXCEPT ![p] = Idle]
    PROVE  NoNewWaits
<1>1. ASSUME NEW q \in Processes, Waits(q)'
      PROVE  Waits(q) /\ asset_transfer_txn(q)' = asset_transfer_txn(q)
  <2>1. q # p
    BY <1>1 DEF AlgoTypeOK, Waits, Idle
  <2>2. call'[q] = call[q]
    BY <2>1 DEF AlgoTypeOK
  <2> QED
    BY <1>1, <2>2 DEF Waits, asset_transfer_txn, Contents
<1> QED
  BY <1>1 DEF NoNewWaits

LEMMA NobodyMoves ==
    ASSUME call' = call
    PROVE  NoNewWaits
  BY DEF NoNewWaits, Waits, asset_transfer_txn, Contents

LEMMA RoundsEndWaits ==
    ASSUME AlgoTypeOK, EndRound
    PROVE  NoNewWaits
<1>1. ASSUME NEW p \in Processes, Waits(p)'
      PROVE  Waits(p) /\ asset_transfer_txn(p)' = asset_transfer_txn(p)
  <2>1. CASE Waits(p) /\ call[p].waited < WaitRounds
    <3>1. call[p] \in Underway
      BY <2>1, CallFacts
    <3>2. call'[p] = [call[p] EXCEPT !.waited = @ + 1]
      BY <2>1 DEF EndRound
    <3>3. /\ call'[p].token = call[p].token /\ call'[p].amount = call[p].amount
          /\ call'[p].first = call[p].first
      BY <3>1, <3>2 DEF Underway
    <3> QED
      BY <2>1, <3>3 DEF asset_transfer_txn, Contents
  <2>2. CASE ~(Waits(p) /\ call[p].waited < WaitRounds)
    <3>1. call'[p] = call[p]
      BY <2>2 DEF EndRound
    <3> QED
      BY <1>1, <3>1 DEF Waits, asset_transfer_txn, Contents
  <2> QED
    BY <2>1, <2>2
<1> QED
  BY <1>1 DEF NoNewWaits

\* Such a step keeps the invariant unless a transaction disappears or a call returns.
LEMMA QuietStep ==
    ASSUME WaitingOwn, ReturnedDepositedItsOwn, NoNewWaits, returned' = returned,
           \A t : Pending(t) \/ t \in ledger \/ t \in dropped
                      => Pending(t)' \/ t \in ledger' \/ t \in dropped',
           ledger \subseteq ledger', dropped \subseteq dropped'
    PROVE  WaitingOwn' /\ ReturnedDepositedItsOwn'
<1>1. WaitingOwn'
  BY DEF WaitingOwn, NoNewWaits
<1>2. ReturnedDepositedItsOwn'
  BY DEF ReturnedDepositedItsOwn
<1> QED
  BY <1>1, <1>2

LEMMA OwnStep == AlgoInv /\ [AlgoNext]_vars => WaitingOwn' /\ ReturnedDepositedItsOwn'
<1> SUFFICES ASSUME AlgoInv, [AlgoNext]_vars
             PROVE  WaitingOwn' /\ ReturnedDepositedItsOwn'
  OBVIOUS
<1> USE DEF AlgoInv
<1>1. ASSUME NEW g \in pool, Confirm(g) \/ Drop(g)
      PROVE  WaitingOwn' /\ ReturnedDepositedItsOwn'
  <2>1. \A t : Pending(t) \/ t \in ledger \/ t \in dropped
                   => Pending(t)' \/ t \in ledger' \/ t \in dropped'
    BY <1>1 DEF Confirm, Drop, Pending
  <2>2. /\ call' = call /\ returned' = returned
        /\ ledger \subseteq ledger' /\ dropped \subseteq dropped'
    BY <1>1 DEF Confirm, Drop
  <2> QED
    BY <2>1, <2>2, NobodyMoves, QuietStep
<1>2. ASSUME EndRound
      PROVE  WaitingOwn' /\ ReturnedDepositedItsOwn'
  BY <1>2, RoundsEndWaits, QuietStep DEF EndRound, Pending
<1>3. ASSUME NEW p \in Processes, NEW token \in Tokens, NEW amount \in Amounts,
             suggested_params(p, token, amount)
      PROVE  WaitingOwn' /\ ReturnedDepositedItsOwn'
  <2>1. NoNewWaits
    <3>1. ASSUME NEW q \in Processes, Waits(q)'
          PROVE  Waits(q) /\ asset_transfer_txn(q)' = asset_transfer_txn(q)
      <4>1. call'[q] = call[q]
        BY <1>3, <3>1 DEF suggested_params, Waits, AlgoTypeOK
      <4> QED
        BY <3>1, <4>1 DEF Waits, asset_transfer_txn, Contents
    <3> QED
      BY <3>1 DEF NoNewWaits
  <2> QED
    BY <1>3, <2>1, QuietStep DEF suggested_params, nodeVars, Pending
<1>4. ASSUME NEW p \in Processes, send_transactions(p)
      PROVE  WaitingOwn' /\ ReturnedDepositedItsOwn'
  <2> DEFINE sent == asset_transfer_txn(p)
  <2>1. Accepts(p) /\ call[p].pc = "send" /\ ~Waits(p)
    BY <1>4 DEF send_transactions, Accepts, Waits
  <2>2. ~Pending(sent) /\ sent \notin ledger /\ \E g \in pool' : sent \in g
    <3> DEFINE group == {sent, app_call_txn(p)}
    <3>1. Groups(p) = {group}
      BY DEF Groups
    <3>2. sent \in group
      OBVIOUS
    <3> HIDE DEF sent, group
    <3> QED
      BY <2>1, <3>1, <3>2 DEF Accepts
  <2>3. /\ \A t : Pending(t) => Pending(t)'
        /\ ledger' = ledger /\ dropped' = dropped /\ returned' = returned
    BY <2>1 DEF Accepts, Pending
  <2>4. asset_transfer_txn(p)' = sent
    <3>1. call[p] \in Underway /\ call'[p] = [call[p] EXCEPT !.pc = "wait"]
      BY <1>4, <2>1, CallFacts DEF send_transactions, AlgoTypeOK
    <3> QED
      BY <3>1 DEF asset_transfer_txn, Contents, Underway
  <2>5. ASSUME NEW q \in Processes \ {p}
        PROVE  (Waits(q)' <=> Waits(q)) /\ asset_transfer_txn(q)' = asset_transfer_txn(q)
    <3>1. call'[q] = call[q]
      BY <1>4, <2>5 DEF send_transactions, AlgoTypeOK
    <3> QED
      BY <3>1 DEF Waits, asset_transfer_txn, Contents
  <2>6. ASSUME sent \notin dropped
        PROVE  /\ \A q \in Processes \ {p} : Waits(q) => asset_transfer_txn(q) # sent
               /\ \A r \in returned : r.sent # sent
    BY <2>2, <2>6 DEF WaitingOwn, ReturnedDepositedItsOwn
  <2> HIDE DEF sent
  <2>7. WaitingOwn'
    <3>1. /\ \/ Pending(asset_transfer_txn(p))'
             \/ (asset_transfer_txn(p) \in ledger)'
             \/ (asset_transfer_txn(p) \in dropped)'
          /\ (asset_transfer_txn(p) \notin dropped)' =>
                /\ \A q \in Processes \ {p} :
                      Waits(q)' => asset_transfer_txn(q)' # asset_transfer_txn(p)'
                /\ \A r \in returned' : r.sent # asset_transfer_txn(p)'
      BY <2>2, <2>3, <2>4, <2>5, <2>6 DEF Pending
    <3>2. ASSUME NEW q \in Processes \ {p}, Waits(q)'
          PROVE  /\ \/ Pending(asset_transfer_txn(q))'
                    \/ (asset_transfer_txn(q) \in ledger)'
                    \/ (asset_transfer_txn(q) \in dropped)'
                 /\ (asset_transfer_txn(q) \notin dropped)' =>
                       /\ \A o \in Processes \ {q} :
                             Waits(o)' => asset_transfer_txn(o)' # asset_transfer_txn(q)'
                       /\ \A r \in returned' : r.sent # asset_transfer_txn(q)'
      <4>1. Waits(q) /\ asset_transfer_txn(q)' = asset_transfer_txn(q)
        BY <2>5, <3>2
      <4>2. \/ Pending(asset_transfer_txn(q)) \/ asset_transfer_txn(q) \in ledger
            \/ asset_transfer_txn(q) \in dropped
        BY <4>1 DEF WaitingOwn
      <4>3. ASSUME asset_transfer_txn(q) \notin dropped
            PROVE  /\ \A o \in Processes \ {q} : Waits(o) =>
                          asset_transfer_txn(o) # asset_transfer_txn(q)
                   /\ \A r \in returned : r.sent # asset_transfer_txn(q)
                   /\ sent # asset_transfer_txn(q)
        BY <2>6, <4>1, <4>3 DEF WaitingOwn
      <4>4. \/ Pending(asset_transfer_txn(q))'
            \/ (asset_transfer_txn(q) \in ledger)'
            \/ (asset_transfer_txn(q) \in dropped)'
        BY <2>3, <4>1, <4>2 DEF Pending
      <4> QED
        BY <2>3, <2>4, <2>5, <4>1, <4>3, <4>4
    <3> QED
      BY <3>1, <3>2 DEF WaitingOwn
  <2>8. ReturnedDepositedItsOwn'
    BY <2>3 DEF ReturnedDepositedItsOwn
  <2> QED
    BY <2>7, <2>8
<1>5. ASSUME NEW p \in Processes, send_transactions_unanswered(p)
      PROVE  WaitingOwn' /\ ReturnedDepositedItsOwn'
  <2>1. NoNewWaits
    BY <1>5, OnlyRaises DEF send_transactions_unanswered, Raises
  <2> QED
    BY <1>5, <2>1, QuietStep DEF send_transactions_unanswered, Accepts, Pending
<1>6. ASSUME NEW p \in Processes,
             send_transactions_raises(p) \/ rejected(p) \/ times_out(p) \/ wait_raises(p)
      PROVE  WaitingOwn' /\ ReturnedDepositedItsOwn'
  <2>1. Raises(p) /\ UNCHANGED nodeVars
    BY <1>6 DEF send_transactions_raises, rejected, times_out, wait_raises
  <2>2. NoNewWaits
    BY <2>1, OnlyRaises DEF Raises
  <2> QED
    BY <2>1, <2>2, QuietStep DEF Raises, nodeVars, Pending
<1>7. ASSUME NEW p \in Processes, confirmed(p)
      PROVE  WaitingOwn' /\ ReturnedDepositedItsOwn'
  <2> DEFINE sent == asset_transfer_txn(p)
             new  == [id |-> call[p].id, sent |-> sent, value |-> None]
  <2>1. /\ Waits(p) /\ sent \in ledger /\ returned' = returned \cup {new}
        /\ UNCHANGED <<pool, ledger, dropped>>
    BY <1>7 DEF confirmed, nodeVars
  <2>2. NoNewWaits
    BY <1>7, OnlyRaises DEF confirmed
  <2>3. ~Waits(p)'
    BY <1>7 DEF confirmed, Waits, AlgoTypeOK, Idle
  <2>4. ASSUME sent \notin dropped
        PROVE  /\ \A q \in Processes \ {p} : Waits(q) => asset_transfer_txn(q) # sent
               /\ \A r \in returned : r.sent # sent
    BY <2>1, <2>4 DEF WaitingOwn
  <2>5. new.sent = sent
    OBVIOUS
  <2> HIDE DEF sent, new
  <2>6. WaitingOwn'
    <3> SUFFICES ASSUME NEW q \in Processes, Waits(q)'
                 PROVE  /\ \/ Pending(asset_transfer_txn(q))'
                           \/ (asset_transfer_txn(q) \in ledger)'
                           \/ (asset_transfer_txn(q) \in dropped)'
                        /\ (asset_transfer_txn(q) \notin dropped)' =>
                              /\ \A o \in Processes \ {q} : Waits(o)' =>
                                    asset_transfer_txn(o)' # asset_transfer_txn(q)'
                              /\ \A r \in returned' : r.sent # asset_transfer_txn(q)'
      BY DEF WaitingOwn
    <3>1. q # p /\ Waits(q) /\ asset_transfer_txn(q)' = asset_transfer_txn(q)
      BY <2>2, <2>3 DEF NoNewWaits
    <3>2. \/ Pending(asset_transfer_txn(q))' \/ asset_transfer_txn(q) \in ledger
          \/ asset_transfer_txn(q) \in dropped
      BY <2>1, <3>1 DEF WaitingOwn, Pending
    <3>3. ASSUME asset_transfer_txn(q) \notin dropped
          PROVE  /\ \A o \in Processes \ {q} : Waits(o)' =>
                       asset_transfer_txn(o)' # asset_transfer_txn(q)
                 /\ \A r \in returned : r.sent # asset_transfer_txn(q)
                 /\ sent # asset_transfer_txn(q)
      BY <2>1, <2>2, <2>4, <3>1, <3>3 DEF WaitingOwn, NoNewWaits
    <3> QED
      BY <2>1, <2>5, <3>1, <3>2, <3>3 DEF Pending
  <2>7. ReturnedDepositedItsOwn'
    BY <2>1, <2>4, <2>5 DEF ReturnedDepositedItsOwn
  <2> QED
    BY <2>6, <2>7
<1>8. CASE UNCHANGED vars
  BY <1>8, NobodyMoves, QuietStep DEF vars, nodeVars, Pending
<1> QED
  BY <1>1, <1>2, <1>3, <1>4, <1>5, <1>6, <1>7, <1>8 DEF AlgoNext, Step

LEMMA AlgoInvariant == AlgoSpec => []AlgoInv
<1>1. AlgoInit => AlgoInv
  <2> SUFFICES ASSUME AlgoInit
               PROVE  AlgoInv
    OBVIOUS
  <2>1. WholeGroups
    BY DEF AlgoInit, WholeGroups
  <2>2. WaitingOwn /\ ReturnedDepositedItsOwn
    BY DEF AlgoInit, WaitingOwn, Waits, Idle, ReturnedDepositedItsOwn
  <2> QED
    BY <2>1, <2>2, TypeInit DEF AlgoInv
<1>2. AlgoInv /\ [AlgoNext]_vars => AlgoInv'
  BY TypeStep, WholeStep, OwnStep DEF AlgoInv
<1> QED
  BY <1>1, <1>2, PTL DEF AlgoSpec

-----------------------------------------------------------------------------
(***************************************************************************)
(* Every variable of AlgorandSigner._deposit and of the node has its type. *)
(***************************************************************************)
THEOREM AlgoTypeCorrect == AlgoSpec => []AlgoTypeOK
  BY AlgoInvariant, PTL DEF AlgoInv

(***************************************************************************)
(* The group id makes transfer and call one: the application receives no   *)
(* transfer it does not credit, whatever any number of processes do.       *)
(***************************************************************************)
THEOREM ReceivedIsCredited == AlgoSpec => []CreditedIsReceived
<1>1. AlgoInv => CreditedIsReceived
  <2> SUFFICES ASSUME AlgoInv, NEW t \in ledger, NEW kind \in {"transfer", "call"}
               PROVE  [t EXCEPT !.kind = kind] \in ledger
    BY DEF CreditedIsReceived
  <2>1. t \in Txns /\ WholeGroups
    BY DEF AlgoInv, AlgoTypeOK
  <2>2. PICK d \in Deposits : t = Transfer(d) \/ t = Call(d)
    BY <2>1 DEF Txns, Deposits, Transfer, Call
  <2>3. [t EXCEPT !.kind = kind] \in {Transfer(d), Call(d)}
    BY <2>2 DEF Transfer, Call
  <2> QED
    BY <2>1, <2>2, <2>3 DEF WholeGroups
<1> QED
  BY <1>1, AlgoInvariant, PTL

(***************************************************************************)
(* _deposit returns in no two processes for the same deposit, unless its   *)
(* group was dropped and sent again.                                       *)
(***************************************************************************)
THEOREM ReturnsAreOwnDeposits == AlgoSpec => []ReturnedDepositedItsOwn
  BY AlgoInvariant, PTL DEF AlgoInv

=============================================================================
