-------------------------- MODULE EvmDeposit_proofs --------------------------
(***************************************************************************)
(* Proofs about EvmDeposit, for any processes, amounts, allowance and      *)
(* balance.                                                                *)
(***************************************************************************)
EXTENDS EvmDeposit, SequenceTheorems, TLAPS

-----------------------------------------------------------------------------
(***************************************************************************)
(* Type correctness.  The two subtractions stay in Nat because a deposit   *)
(* that exceeds allowance or balance reverts.                              *)
(***************************************************************************)
LEMMA InitType == DepositInit => DepositTypeOK
BY DepositAssumption DEF DepositInit, DepositTypeOK, Idle

LEMMA MineType ==
    ASSUME DepositTypeOK, NEW t \in pool, Mine(t)
    PROVE  DepositTypeOK'
<1>1. t \in [id : Ids, tx : Txs, amount : Amounts, nonce : Nat] /\ t.amount \in Nat
  BY DepositAssumption DEF DepositTypeOK
<1>2. allowance' \in Nat
  BY <1>1 DEF DepositTypeOK, Mine, Executes, Reverts, WouldSucceed
<1>3. balance' \in Nat
  BY <1>1 DEF DepositTypeOK, Mine, Executes, Reverts, WouldSucceed
<1>4. receipts' \subseteq [id : Ids, tx : Txs, status : Statuses]
  <2>1. PICK status \in Statuses : receipts' = receipts \cup {Receipt(t, status)}
    BY DEF Mine, Executes, Reverts, Statuses
  <2>2. Receipt(t, status) \in [id : Ids, tx : Txs, status : Statuses]
    BY <1>1 DEF Receipt
  <2> QED
    BY <2>1, <2>2 DEF DepositTypeOK
<1>5. count' \in Nat /\ pool' \subseteq pool
  BY DEF DepositTypeOK, Mine
<1>6. UNCHANGED <<call, calls, returned, asked>>
  BY DEF Mine
<1> QED
  BY <1>2, <1>3, <1>4, <1>5, <1>6 DEF DepositTypeOK

LEMMA CallUnderway ==
    ASSUME DepositTypeOK, NEW p \in Processes, call[p].pc # "idle"
    PROVE  call[p] \in Underway
BY DEF DepositTypeOK, Idle

\* A call goes on to c, or back to Idle; all else has its type as before.
LEMMA CallType ==
    ASSUME DepositTypeOK, NEW p \in Processes, NEW c \in {Idle} \cup Underway,
           call' = [call EXCEPT ![p] = c],
           UNCHANGED <<allowance, balance, count, receipts>>,
           pool' \subseteq [id : Ids, tx : Txs, amount : Amounts, nonce : Nat],
           calls' \in 0 .. MaxCalls, returned' \subseteq Ids,
           asked' \in Seq(Amounts), Len(asked') = calls'
    PROVE  DepositTypeOK'
BY DEF DepositTypeOK

LEMMA StepType ==
    ASSUME DepositTypeOK, NEW p \in Processes,
           \/ \E amount \in Amounts : check_allowance(p, amount)
           \/ get_transaction_count(p)
           \/ build_transaction(p)
           \/ send_raw_transaction(p)
           \/ approved(p)
           \/ deposited(p)
           \/ node_call_raises(p)
    PROVE  DepositTypeOK'
<1>a. /\ pool \subseteq [id : Ids, tx : Txs, amount : Amounts, nonce : Nat]
      /\ calls \in 0 .. MaxCalls /\ returned \subseteq Ids /\ count \in Nat
      /\ asked \in Seq(Amounts) /\ Len(asked) = calls
  BY DEF DepositTypeOK
<1>1. CASE \E amount \in Amounts : check_allowance(p, amount)
  <2>1. PICK amount \in Amounts : check_allowance(p, amount)
    BY <1>1
  <2>2. calls + 1 \in Ids /\ calls + 1 \in 0 .. MaxCalls
    BY <1>a, <2>1, DepositAssumption DEF check_allowance, Ids
  <2> DEFINE c == [pc |-> "count", id |-> calls + 1, amount |-> amount,
                   tx |-> IF allowance < amount THEN "approve" ELSE "deposit", nonce |-> 0]
  <2>3. c \in Underway
    BY <2>2 DEF Underway, Txs
  <2>4. /\ call' = [call EXCEPT ![p] = c] /\ calls' = calls + 1
        /\ UNCHANGED <<chainVars, returned>>
    BY <2>1 DEF check_allowance
  <2>5. asked' \in Seq(Amounts) /\ Len(asked') = calls'
    BY <1>a, <2>1, <2>4, AppendProperties DEF check_allowance
  <2> HIDE DEF c
  <2> QED
    BY <1>a, <2>2, <2>3, <2>4, <2>5, CallType DEF chainVars
<1>2. CASE get_transaction_count(p)
  <2> DEFINE c == [call[p] EXCEPT !.pc = "build", !.nonce = count]
  <2>1. c \in Underway
    BY <1>2, <1>a, CallUnderway DEF get_transaction_count, Underway
  <2>2. call' = [call EXCEPT ![p] = c] /\ UNCHANGED <<chainVars, calls, returned, asked>>
    BY <1>2 DEF get_transaction_count
  <2> HIDE DEF c
  <2> QED
    BY <1>a, <2>1, <2>2, CallType DEF chainVars
<1>3. CASE build_transaction(p)
  <2> DEFINE c == [call[p] EXCEPT !.pc = "send"]
  <2>1. c \in Underway
    BY <1>3, CallUnderway DEF build_transaction, Underway
  <2>2. call' = [call EXCEPT ![p] = c] /\ UNCHANGED <<chainVars, calls, returned, asked>>
    BY <1>3 DEF build_transaction
  <2> HIDE DEF c
  <2> QED
    BY <1>a, <2>1, <2>2, CallType DEF chainVars
<1>4. CASE send_raw_transaction(p)
  <2> DEFINE c == [call[p] EXCEPT !.pc = "wait"]
  <2>1. call[p] \in Underway
    BY <1>4, CallUnderway DEF send_raw_transaction
  <2>2. c \in Underway
    BY <2>1 DEF Underway
  <2>3. Transaction(p) \in [id : Ids, tx : Txs, amount : Amounts, nonce : Nat]
    BY <2>1 DEF Underway, Transaction
  <2>4. /\ call' = [call EXCEPT ![p] = c]
        /\ UNCHANGED <<allowance, balance, count, receipts, calls, returned, asked>>
        /\ pool' \subseteq pool \cup {Transaction(p)}
    BY <1>4 DEF send_raw_transaction
  <2> HIDE DEF c
  <2> QED
    BY <1>a, <2>2, <2>3, <2>4, CallType
<1>5. CASE node_call_raises(p)
  <2>1. call' = [call EXCEPT ![p] = Idle] /\ UNCHANGED <<chainVars, calls, returned, asked>>
    BY <1>5 DEF node_call_raises
  <2> QED
    BY <1>a, <2>1, CallType DEF chainVars
<1>6. CASE approved(p)
  <2> DEFINE c == [call[p] EXCEPT !.pc = "count", !.tx = "deposit"]
  <2>1. c \in Underway
    BY <1>6, CallUnderway DEF approved, Underway, Txs
  <2>2. call' = [call EXCEPT ![p] = c] /\ UNCHANGED <<chainVars, calls, returned, asked>>
    BY <1>6 DEF approved
  <2> HIDE DEF c
  <2> QED
    BY <1>a, <2>1, <2>2, CallType DEF chainVars
<1>7. CASE deposited(p)
  <2>1. call[p].id \in Ids
    BY <1>7, CallUnderway DEF deposited, Underway
  <2>2. /\ call' = [call EXCEPT ![p] = Idle] /\ UNCHANGED <<chainVars, calls, asked>>
        /\ returned' \subseteq Ids
    BY <1>7, <1>a, <2>1 DEF deposited
  <2> QED
    BY <1>a, <2>2, CallType DEF chainVars
<1> QED
  BY <1>1, <1>2, <1>3, <1>4, <1>5, <1>6, <1>7

LEMMA NextType == DepositTypeOK /\ [DepositNext]_vars => DepositTypeOK'
<1> SUFFICES ASSUME DepositTypeOK, [DepositNext]_vars PROVE DepositTypeOK'
  OBVIOUS
<1>1. CASE UNCHANGED vars
  BY <1>1 DEF DepositTypeOK, vars, chainVars
<1>2. CASE DepositNext
  BY <1>2, MineType, StepType DEF DepositNext
<1> QED
  BY <1>1, <1>2

(***************************************************************************)
(* Every variable of the wallet and its calls has its type: allowance and  *)
(* balance never fall below zero.                                          *)
(***************************************************************************)
THEOREM DepositTypeCorrect == DepositSpec => []DepositTypeOK
BY InitType, NextType, PTL DEF DepositSpec


-----------------------------------------------------------------------------
(***************************************************************************)
(* Nothing is outdated.  Every nonce was the count when it was read, so    *)
(* what is pending has the count as its nonce, and what was estimated      *)
(* under the present count was estimated in the present state.             *)
(***************************************************************************)
InPool(t) ==
    /\ t.nonce = count
    /\ WouldSucceed(t.tx, t.amount)

InCall(c) ==
    /\ c.pc \in {"build", "send", "wait"} => c.nonce <= count
    /\ c.pc = "send" /\ c.nonce = count => WouldSucceed(c.tx, c.amount)

NonceInv ==
    /\ DepositTypeOK
    /\ OneInFlight
    /\ \A t \in pool : InPool(t)
    /\ \A p \in Processes : InCall(call[p])
    /\ NothingOutdated

LEMMA InitNonce == DepositInit => NonceInv
BY InitType DEF DepositInit, NonceInv, OneInFlight, InCall, Idle, NothingOutdated

\* What is mined succeeds, or is refused by the chain and changes nothing.
LEMMA MineOutcome ==
    ASSUME NonceInv, NEW t \in pool, Mine(t)
    PROVE  /\ pool' = {}
           /\ UNCHANGED <<call, calls, returned, asked>>
           /\ \/ Executes(t)
              \/ /\ receipts' = receipts \cup {Receipt(t, "refused")}
                 /\ UNCHANGED <<allowance, balance>>
<1>1. WouldSucceed(t.tx, t.amount)
  BY DEF NonceInv, InPool
<1>2. pool' = {}
  <2>1. \A q \in pool : q.nonce = count
    BY DEF NonceInv, InPool
  <2> QED
    BY <2>1 DEF Mine, NonceInv, DepositTypeOK
<1> QED
  BY <1>1, <1>2 DEF Mine, Reverts

LEMMA MineNonce ==
    ASSUME NonceInv, NEW t \in pool, Mine(t)
    PROVE  NonceInv'
<1>1. DepositTypeOK'
  BY MineType DEF NonceInv
<1>3. pool' = {}
  BY MineOutcome
<1>4. OneInFlight' /\ \A q \in pool' : InPool(q)'
  BY <1>3 DEF OneInFlight
<1>5. \A p \in Processes : InCall(call[p])'
  <2> SUFFICES ASSUME NEW p \in Processes PROVE InCall(call[p])'
    OBVIOUS
  <2>1. call' = call /\ count' = count + 1 /\ count \in Nat
    BY DEF Mine, NonceInv, DepositTypeOK
  <2>2. call[p].pc \in {"build", "send", "wait"} => call[p].nonce \in Nat /\ call[p].nonce <= count
    BY CallUnderway DEF NonceInv, InCall, Underway
  <2> QED
    BY <2>1, <2>2 DEF InCall
<1>6. NothingOutdated'
  <2>1. PICK status \in {"succeeded", "refused"} : receipts' = receipts \cup {Receipt(t, status)}
    BY MineOutcome DEF Executes
  <2>2. Receipt(t, status).status # "outdated"
    BY DEF Receipt
  <2> QED
    BY <2>1, <2>2 DEF NonceInv, NothingOutdated
<1> QED
  BY <1>1, <1>4, <1>5, <1>6 DEF NonceInv

\* A call goes on to c, or back to Idle, and nothing is sent or mined.
LEMMA CallNonce ==
    ASSUME NonceInv, DepositTypeOK', NEW p \in Processes, NEW c,
           call' = [call EXCEPT ![p] = c], InCall(c),
           UNCHANGED <<chainVars, returned>>
    PROVE  NonceInv'
<1>1. \A q \in Processes : InCall(call[q])'
  <2> SUFFICES ASSUME NEW q \in Processes PROVE InCall(call[q])'
    OBVIOUS
  <2>1. call'[q] = IF q = p THEN c ELSE call[q]
    BY DEF NonceInv, DepositTypeOK
  <2>2. InCall(call'[q])
    BY <2>1 DEF NonceInv
  <2> QED
    BY <2>2 DEF InCall, WouldSucceed, chainVars
<1>2. \A t \in pool' : InPool(t)'
  BY DEF NonceInv, InPool, WouldSucceed, chainVars
<1> QED
  BY <1>1, <1>2 DEF NonceInv, OneInFlight, NothingOutdated, chainVars

LEMMA SendNonce ==
    ASSUME NonceInv, NEW p \in Processes, send_raw_transaction(p)
    PROVE  NonceInv' /\ pool' = {Transaction(p)}
<1>1. DepositTypeOK'
  BY StepType DEF NonceInv
<1>2. call[p] \in Underway
  BY CallUnderway DEF NonceInv, send_raw_transaction
<1>3. call[p].nonce = count /\ WouldSucceed(call[p].tx, call[p].amount)
  BY <1>2 DEF NonceInv, DepositTypeOK, InCall, send_raw_transaction, Underway
<1>4. pool' = {Transaction(p)}
  <2>1. \A t \in pool : t.nonce = count
    BY DEF NonceInv, InPool
  <2> QED
    BY <1>3, <2>1 DEF send_raw_transaction
<1>5. Transaction(p).nonce = count /\ WouldSucceed(Transaction(p).tx, Transaction(p).amount)
  BY <1>3 DEF Transaction
<1>6. UNCHANGED <<allowance, balance, count, receipts, returned>>
  BY DEF send_raw_transaction
<1>7. \A t \in pool' : InPool(t)'
  BY <1>4, <1>5, <1>6 DEF InPool, WouldSucceed
<1>8. \A q \in Processes : InCall(call[q])'
  <2> SUFFICES ASSUME NEW q \in Processes PROVE InCall(call[q])'
    OBVIOUS
  <2>1. call'[q] = IF q = p THEN [call[p] EXCEPT !.pc = "wait"] ELSE call[q]
    BY DEF NonceInv, DepositTypeOK, send_raw_transaction
  <2>2. InCall([call[p] EXCEPT !.pc = "wait"])
    BY <1>2, <1>3 DEF InCall, NonceInv, DepositTypeOK, Underway
  <2>3. InCall(call'[q])
    BY <2>1, <2>2 DEF NonceInv
  <2> QED
    BY <1>6, <2>3 DEF InCall, WouldSucceed
<1> QED
  BY <1>1, <1>4, <1>6, <1>7, <1>8
     DEF NonceInv, OneInFlight, NothingOutdated

LEMMA StepNonce ==
    ASSUME NonceInv, NEW p \in Processes,
           \/ \E amount \in Amounts : check_allowance(p, amount)
           \/ get_transaction_count(p)
           \/ build_transaction(p)
           \/ send_raw_transaction(p)
           \/ approved(p)
           \/ deposited(p)
           \/ node_call_raises(p)
    PROVE  NonceInv'
<1>a. DepositTypeOK'
  BY StepType DEF NonceInv
<1>b. InCall(Idle)
  BY DEF InCall, Idle
<1>1. CASE \E amount \in Amounts : check_allowance(p, amount)
  <2>1. PICK amount \in Amounts : check_allowance(p, amount)
    BY <1>1
  <2> DEFINE c == [pc |-> "count", id |-> calls', amount |-> amount,
                   tx |-> IF allowance < amount THEN "approve" ELSE "deposit", nonce |-> 0]
  <2>2. call' = [call EXCEPT ![p] = c] /\ UNCHANGED <<chainVars, returned>>
    BY <2>1 DEF check_allowance
  <2>3. InCall(c)
    BY DEF InCall
  <2> HIDE DEF c
  <2> QED
    BY <1>a, <2>2, <2>3, CallNonce
<1>2. CASE get_transaction_count(p)
  <2> DEFINE c == [call[p] EXCEPT !.pc = "build", !.nonce = count]
  <2>1. call' = [call EXCEPT ![p] = c] /\ UNCHANGED <<chainVars, returned>>
    BY <1>2 DEF get_transaction_count
  <2>2. call[p] \in Underway /\ count \in Nat
    BY <1>2, CallUnderway DEF get_transaction_count, NonceInv, DepositTypeOK
  <2>3. InCall(c)
    BY <2>2 DEF InCall, Underway
  <2> HIDE DEF c
  <2> QED
    BY <1>a, <2>1, <2>3, CallNonce
<1>3. CASE build_transaction(p)
  <2> DEFINE c == [call[p] EXCEPT !.pc = "send"]
  <2>1. call' = [call EXCEPT ![p] = c] /\ UNCHANGED <<chainVars, returned>>
    BY <1>3 DEF build_transaction
  <2>2. /\ call[p] \in Underway /\ call[p].nonce <= count
        /\ WouldSucceed(call[p].tx, call[p].amount)
    BY <1>3, CallUnderway DEF build_transaction, NonceInv, InCall
  <2>3. InCall(c)
    BY <2>2 DEF InCall, Underway
  <2> HIDE DEF c
  <2> QED
    BY <1>a, <2>1, <2>3, CallNonce
<1>4. CASE send_raw_transaction(p)
  BY <1>4, SendNonce
<1>5. CASE node_call_raises(p)
  <2>1. call' = [call EXCEPT ![p] = Idle] /\ UNCHANGED <<chainVars, returned>>
    BY <1>5 DEF node_call_raises
  <2> QED
    BY <1>a, <1>b, <2>1, CallNonce
<1>6. CASE approved(p)
  <2> DEFINE c == [call[p] EXCEPT !.pc = "count", !.tx = "deposit"]
  <2>1. call' = [call EXCEPT ![p] = c] /\ UNCHANGED <<chainVars, returned>>
    BY <1>6 DEF approved
  <2>2. call[p] \in Underway
    BY <1>6, CallUnderway DEF approved, NonceInv
  <2>3. InCall(c)
    BY <2>2 DEF InCall, Underway
  <2> HIDE DEF c
  <2> QED
    BY <1>a, <2>1, <2>3, CallNonce
<1>7. CASE deposited(p)
  <2>1. \A q \in Processes : InCall(call[q])'
    <3> SUFFICES ASSUME NEW q \in Processes PROVE InCall(call[q])'
      OBVIOUS
    <3>1. call'[q] = IF q = p THEN Idle ELSE call[q]
      BY <1>7 DEF NonceInv, DepositTypeOK, deposited
    <3>2. InCall(call'[q])
      BY <1>b, <3>1 DEF NonceInv
    <3> QED
      BY <1>7, <3>2 DEF InCall, WouldSucceed, deposited, chainVars
  <2>5. \A t \in pool' : InPool(t)'
    BY <1>7 DEF NonceInv, InPool, WouldSucceed, deposited, chainVars
  <2>6. UNCHANGED <<pool, receipts>>
    BY <1>7 DEF deposited, chainVars
  <2> QED
    BY <1>a, <2>1, <2>5, <2>6 DEF NonceInv, OneInFlight, NothingOutdated
<1> QED
  BY <1>1, <1>2, <1>3, <1>4, <1>5, <1>6, <1>7

LEMMA NextNonce == NonceInv /\ [DepositNext]_vars => NonceInv'
<1> SUFFICES ASSUME NonceInv, [DepositNext]_vars PROVE NonceInv'
  OBVIOUS
<1>1. CASE UNCHANGED vars
  <2>1. DepositTypeOK'
    BY NextType DEF NonceInv
  <2> QED
    BY <1>1, <2>1 DEF NonceInv, OneInFlight, InPool, InCall, WouldSucceed, NothingOutdated,
                      vars, chainVars
<1>2. CASE DepositNext
  BY <1>2, MineNonce, StepNonce DEF DepositNext
<1> QED
  BY <1>1, <1>2

(***************************************************************************)
(* Whatever other processes send from the wallet, none of its transactions *)
(* fails by an allowance or a balance that has changed since its estimate. *)
(***************************************************************************)
THEOREM EstimatesHold == DepositSpec => []NothingOutdated
<1>1. NonceInv => NothingOutdated
  BY DEF NonceInv
<1> QED
  BY <1>1, InitNonce, NextNonce, PTL DEF DepositSpec

(***************************************************************************)
(* The wallet never has two transactions in flight.                        *)
(***************************************************************************)
THEOREM AtMostOneInFlight == DepositSpec => []OneInFlight
<1>1. NonceInv => OneInFlight
  BY DEF NonceInv
<1> QED
  BY <1>1, InitNonce, NextNonce, PTL DEF DepositSpec

-----------------------------------------------------------------------------
(***************************************************************************)
(* Nothing is left approved.  Once something has been approved, the        *)
(* allowance is at most the amount of a call whose approval was mined and  *)
(* whose deposit has not taken effect: should it do so, nothing is left,   *)
(* and if it never does not every call has deposited.                      *)
(***************************************************************************)
Deposited(id) == \E r \in receipts : r.id = id /\ r.tx = "deposit"

\* Every id in use is that of a call, and no two processes work on the same.
IdsInUse ==
    /\ \A p \in Processes : call[p].pc # "idle" => call[p].id <= calls
    /\ \A p, q \in Processes :
          call[p].pc # "idle" /\ call[q].pc # "idle" /\ call[p].id = call[q].id => p = q
    /\ \A t \in pool : t.id <= calls
    /\ \A r \in receipts : r.id <= calls

\* A pending transaction is the one its call waits for, unless that timed out.
PoolIsAwaited ==
    \A t \in pool, p \in Processes :
        call[p].pc # "idle" /\ call[p].id = t.id =>
            call[p].pc = "wait" /\ call[p].tx = t.tx /\ call[p].amount = t.amount

\* The transaction tx of a call is not mined yet, nor is its deposit.
Unmined(id, tx) == \A r \in receipts : r.id = id => r.tx \notin {tx, "deposit"}

\* A call sends its transactions once each, the deposit last.
SentInOrder ==
    /\ \A t \in pool : Unmined(t.id, t.tx)
    /\ \A p \in Processes :
          /\ call[p].pc \in {"count", "build", "send"} => Unmined(call[p].id, call[p].tx)
          /\ call[p].pc = "wait" /\ call[p].tx = "approve" => ~Deposited(call[p].id)

Owes(id) ==
    /\ id \notin Made
    /\ \A p \in Processes : call[p].pc # "idle" /\ call[p].id = id => allowance <= call[p].amount
    /\ \A t \in pool : t.id = id => allowance <= t.amount

AllowanceOwed == allowance <= InitialAllowance \/ \E id \in 1 .. calls : Owes(id)

LedgerInv ==
    /\ NonceInv
    /\ IdsInUse
    /\ PoolIsAwaited
    /\ SentInOrder
    /\ AllowanceOwed

LEMMA InitLedger == DepositInit => LedgerInv
<1> SUFFICES ASSUME DepositInit PROVE LedgerInv
  OBVIOUS
<1>1. /\ pool = {} /\ receipts = {} /\ allowance = InitialAllowance
      /\ \A p \in Processes : call[p].pc = "idle"
  BY DEF DepositInit, Idle
<1> QED
  BY <1>1, InitNonce, DepositAssumption
     DEF LedgerInv, IdsInUse, PoolIsAwaited, SentInOrder, AllowanceOwed

\* What a receipt adds to the deposits mined, made and refused.
LEMMA ReceiptEffect ==
    ASSUME NEW t, NEW status, receipts' = receipts \cup {Receipt(t, status)}
    PROVE  /\ \A id : Deposited(id)' <=> Deposited(id) \/ (t.tx = "deposit" /\ id = t.id)
           /\ Made' = IF t.tx = "deposit" /\ status = "succeeded" THEN Made \cup {t.id} ELSE Made
           /\ Refused' = IF t.tx = "deposit" /\ status # "succeeded"
                         THEN Refused \cup {t.id} ELSE Refused
<1> DEFINE new == Receipt(t, status)
<1>1. new.id = t.id /\ new.tx = t.tx /\ new.status = status
  BY DEF Receipt
<1> HIDE DEF new
<1>2. receipts' = receipts \cup {new}
  BY DEF new
<1>3. \A id : Deposited(id)' <=> Deposited(id) \/ (t.tx = "deposit" /\ id = t.id)
  BY <1>1, <1>2 DEF Deposited
<1>4. Made' = IF t.tx = "deposit" /\ status = "succeeded" THEN Made \cup {t.id} ELSE Made
  BY <1>1, <1>2 DEF Made
<1>5. Refused' = IF t.tx = "deposit" /\ status # "succeeded"
                 THEN Refused \cup {t.id} ELSE Refused
  BY <1>1, <1>2 DEF Refused
<1> QED
  BY <1>3, <1>4, <1>5

\* Only a mined deposit has been made or refused.
LEMMA MadeIsMined ==
    /\ \A id \in Made \cup Refused : Deposited(id)
    /\ \A id : Deposited(id) => id \in Made \cup Refused
BY DEF Made, Refused, Deposited

LEMMA MineLedger ==
    ASSUME LedgerInv, NEW t \in pool, Mine(t)
    PROVE  LedgerInv'
<1>1. NonceInv'
  BY MineNonce DEF LedgerInv
<1>2. /\ pool' = {}
      /\ UNCHANGED <<call, calls>>
      /\ Executes(t) \/ (receipts' = receipts \cup {Receipt(t, "refused")}
                            /\ UNCHANGED <<allowance, balance>>)
  BY MineOutcome DEF LedgerInv
<1>3. PICK status \in {"succeeded", "refused"} :
         /\ receipts' = receipts \cup {Receipt(t, status)}
         /\ status = "succeeded" => Executes(t)
         /\ status = "refused" => UNCHANGED allowance
  BY <1>2 DEF Executes
<1>4. /\ t.id \in 1 .. calls /\ t.tx \in Txs /\ t.amount \in Nat
      /\ allowance \in Nat /\ InitialAllowance \in Nat
  <2>1. /\ t \in [id : Ids, tx : Txs, amount : Amounts, nonce : Nat]
        /\ allowance \in Nat /\ calls \in 0 .. MaxCalls
    BY DEF LedgerInv, NonceInv, DepositTypeOK
  <2>2. t.id \in 1 .. MaxCalls /\ t.tx \in Txs /\ t.amount \in Amounts
    BY <2>1 DEF Ids
  <2>3. t.id <= calls
    BY DEF LedgerInv, IdsInUse
  <2>4. MaxCalls \in Nat /\ Amounts \subseteq Nat /\ InitialAllowance \in Nat
    BY DepositAssumption
  <2>5. t.id \in 1 .. calls
    BY <2>1, <2>2, <2>3, <2>4
  <2>6. t.amount \in Nat
    BY <2>2, <2>4
  <2> QED
    BY <2>1, <2>2, <2>4, <2>5, <2>6
<1>5. IdsInUse'
  BY <1>2, <1>3, <1>4 DEF LedgerInv, IdsInUse, Receipt
<1>6. PoolIsAwaited'
  BY <1>2 DEF PoolIsAwaited
<1>7. \A id : Deposited(id)' <=> Deposited(id) \/ (t.tx = "deposit" /\ id = t.id)
  BY <1>3, ReceiptEffect
<1>8. SentInOrder'
  <2> SUFFICES ASSUME NEW p \in Processes
               PROVE  /\ call[p].pc \in {"count", "build", "send"}
                            => Unmined(call[p].id, call[p].tx)'
                      /\ call[p].pc = "wait" /\ call[p].tx = "approve"
                            => ~Deposited(call[p].id)'
    BY <1>2, <1>3 DEF SentInOrder, Unmined, Deposited
  <2>1. call[p].pc # "idle" /\ call[p].id = t.id => call[p].pc = "wait" /\ call[p].tx = t.tx
    BY DEF LedgerInv, PoolIsAwaited
  <2>2. /\ call[p].pc \in {"count", "build", "send"} => Unmined(call[p].id, call[p].tx)
        /\ call[p].pc = "wait" /\ call[p].tx = "approve" => ~Deposited(call[p].id)
    BY DEF LedgerInv, SentInOrder
  <2> QED
    BY <1>2, <1>3, <1>7, <2>1, <2>2 DEF Unmined, Receipt
<1>9. AllowanceOwed'
  <2>1. CASE status = "refused"
    <3>1. Made' = Made /\ allowance' = allowance
      BY <1>3, <2>1, ReceiptEffect
    <3>2. \A id : Owes(id) => Owes(id)'
      BY <1>2, <3>1 DEF Owes
    <3> QED
      BY <1>2, <3>1, <3>2 DEF LedgerInv, AllowanceOwed
  <2>2. CASE status = "succeeded" /\ t.tx = "approve"
    <3>1. allowance' = t.amount
      BY <1>3, <2>2 DEF Executes
    <3>2. t.id \notin Made'
      <4>1. t.id \notin Made
        BY MadeIsMined DEF LedgerInv, SentInOrder, Unmined, Deposited
      <4> QED
        BY <1>3, <2>2, <4>1, ReceiptEffect
    <3>3. \A p \in Processes : call[p].pc # "idle" /\ call[p].id = t.id => call[p].amount = t.amount
      BY DEF LedgerInv, PoolIsAwaited
    <3>4. Owes(t.id)'
      BY <1>2, <1>4, <3>1, <3>2, <3>3 DEF Owes
    <3> QED
      BY <1>2, <1>4, <3>4 DEF AllowanceOwed
  <2>3. CASE status = "succeeded" /\ t.tx = "deposit"
    <3>1. allowance' = allowance - t.amount /\ t.amount <= allowance
      BY <1>3, <2>3 DEF Executes, WouldSucceed
    <3>2. CASE allowance <= InitialAllowance
      BY <1>4, <3>1, <3>2 DEF AllowanceOwed
    <3>3. CASE \E id \in 1 .. calls : Owes(id)
      <4>1. PICK id \in 1 .. calls : Owes(id)
        BY <3>3
      <4>2. CASE id = t.id
        <5>1. allowance <= t.amount
          BY <4>1, <4>2 DEF Owes
        <5> QED
          BY <1>4, <3>1, <5>1 DEF AllowanceOwed
      <4>3. CASE id # t.id
        <5>1. id \notin Made'
          BY <1>3, <4>1, <4>3, ReceiptEffect DEF Owes
        <5>2. ASSUME NEW p \in Processes, call[p].pc # "idle", call[p].id = id
              PROVE  allowance' <= call[p].amount
          <6>1. allowance <= call[p].amount /\ call[p].amount \in Nat
            BY <4>1, <5>2, CallUnderway, DepositAssumption
               DEF Owes, LedgerInv, NonceInv, Underway
          <6> QED
            BY <1>4, <3>1, <6>1
        <5>3. Owes(id)'
          BY <1>2, <5>1, <5>2 DEF Owes
        <5> QED
          BY <1>2, <5>3 DEF AllowanceOwed
      <4> QED
        BY <4>2, <4>3
    <3> QED
      BY <3>2, <3>3 DEF LedgerInv, AllowanceOwed
  <2> QED
    BY <1>4, <2>1, <2>2, <2>3 DEF Txs
<1> QED
  BY <1>1, <1>5, <1>6, <1>8, <1>9 DEF LedgerInv

\* A call goes on to c, with the same id and amount, or ends; nothing is sent or mined.
LEMMA CallLedger ==
    ASSUME LedgerInv, NonceInv', NEW p \in Processes, NEW c,
           call' = [call EXCEPT ![p] = c],
           UNCHANGED <<chainVars, calls>>,
           \/ c.pc = "idle"
           \/ /\ call[p].pc # "idle"
              /\ c.id = call[p].id
              /\ c.amount = call[p].amount
              /\ c.pc \in {"count", "build", "send"}
              /\ Unmined(c.id, c.tx)
              /\ \A t \in pool : t.id # c.id
    PROVE  LedgerInv'
<1>1. \A q \in Processes : call'[q] = IF q = p THEN c ELSE call[q]
  BY DEF LedgerInv, NonceInv, DepositTypeOK
<1>2. UNCHANGED <<allowance, pool, receipts, calls>>
  BY DEF chainVars
<1>3. \A id : Deposited(id)' <=> Deposited(id)
  BY <1>2 DEF Deposited
<1>4. IdsInUse'
  BY <1>1, <1>2 DEF LedgerInv, IdsInUse
<1>5. PoolIsAwaited'
  BY <1>1, <1>2 DEF LedgerInv, PoolIsAwaited
<1>6. SentInOrder'
  BY <1>1, <1>2, <1>3 DEF LedgerInv, SentInOrder, Unmined
<1>7. \A id : Owes(id) => Owes(id)'
  BY <1>1, <1>2 DEF Owes, Made
<1>8. AllowanceOwed'
  BY <1>2, <1>7 DEF LedgerInv, AllowanceOwed
<1> QED
  BY <1>4, <1>5, <1>6, <1>8 DEF LedgerInv

\* A new call takes an id nothing else has.
LEMMA BeginLedger ==
    ASSUME LedgerInv, NonceInv', NEW p \in Processes, NEW amount \in Amounts,
           check_allowance(p, amount)
    PROVE  LedgerInv'
<1> DEFINE c == [pc |-> "count", id |-> calls', amount |-> amount,
                 tx |-> IF allowance < amount THEN "approve" ELSE "deposit", nonce |-> 0]
<1>1. c.pc = "count" /\ c.id = calls'
  OBVIOUS
<1>2. call' = [call EXCEPT ![p] = c]
  BY DEF check_allowance
<1> HIDE DEF c
<1>3. \A q \in Processes : call'[q] = IF q = p THEN c ELSE call[q]
  BY <1>2 DEF LedgerInv, NonceInv, DepositTypeOK
<1>4. UNCHANGED <<allowance, pool, receipts>>
  BY DEF check_allowance, chainVars
<1>5. calls \in Nat /\ calls' = calls + 1
  BY DepositAssumption DEF LedgerInv, NonceInv, DepositTypeOK, check_allowance
<1>6. /\ \A q \in Processes : call[q].pc # "idle" => call[q].id \in Nat /\ call[q].id <= calls
      /\ \A t \in pool : t.id \in Nat /\ t.id <= calls
      /\ \A r \in receipts : r.id \in Nat /\ r.id <= calls
  <2>1. /\ \A t \in pool : t.id \in Ids
        /\ \A r \in receipts : r.id \in Ids
        /\ \A q \in Processes : call[q].pc # "idle" => call[q].id \in Ids
    BY CallUnderway DEF LedgerInv, NonceInv, DepositTypeOK, Underway
  <2> QED
    BY <2>1 DEF LedgerInv, IdsInUse, Ids
<1>7. IdsInUse'
  BY <1>1, <1>3, <1>4, <1>5, <1>6 DEF LedgerInv, IdsInUse
<1>8. PoolIsAwaited'
  BY <1>1, <1>3, <1>4, <1>5, <1>6 DEF LedgerInv, PoolIsAwaited
<1>9. SentInOrder'
  BY <1>1, <1>3, <1>4, <1>5, <1>6 DEF LedgerInv, SentInOrder, Unmined, Deposited
<1>10. \A id \in 1 .. calls : Owes(id) => Owes(id)'
  BY <1>1, <1>3, <1>4, <1>5 DEF Owes, Made
<1>11. AllowanceOwed'
  BY <1>4, <1>5, <1>10 DEF LedgerInv, AllowanceOwed
<1> QED
  BY <1>7, <1>8, <1>9, <1>11 DEF LedgerInv

\* What is sent becomes the only transaction pending.
LEMMA SendLedger ==
    ASSUME LedgerInv, NonceInv', NEW p \in Processes, send_raw_transaction(p)
    PROVE  LedgerInv'
<1>1. call[p] \in Underway /\ call[p].pc = "send"
  BY CallUnderway DEF LedgerInv, NonceInv, send_raw_transaction
<1> DEFINE c == [call[p] EXCEPT !.pc = "wait"]
           t == Transaction(p)
<1>2. /\ c.pc = "wait" /\ c.id = call[p].id /\ c.amount = call[p].amount /\ c.tx = call[p].tx
      /\ t.id = call[p].id /\ t.amount = call[p].amount /\ t.tx = call[p].tx
  BY <1>1 DEF Underway, Transaction
<1>3. call' = [call EXCEPT ![p] = c]
  BY DEF send_raw_transaction
<1>4. pool' = {t}
  <2>1. t \in pool'
    BY DEF send_raw_transaction
  <2>2. \A u \in pool' : t = u
    BY <2>1 DEF NonceInv, OneInFlight
  <2> QED
    BY <2>1, <2>2
<1> HIDE DEF c, t
<1>5. \A q \in Processes : call'[q] = IF q = p THEN c ELSE call[q]
  BY <1>3 DEF LedgerInv, NonceInv, DepositTypeOK
<1>6. UNCHANGED <<allowance, receipts, calls>>
  BY DEF send_raw_transaction
<1>7. \A id : Deposited(id)' <=> Deposited(id)
  BY <1>6 DEF Deposited
<1>8. Unmined(call[p].id, call[p].tx)
  BY <1>1 DEF LedgerInv, SentInOrder
<1>9. IdsInUse'
  BY <1>1, <1>2, <1>4, <1>5, <1>6 DEF LedgerInv, IdsInUse
<1>10. PoolIsAwaited'
  BY <1>1, <1>2, <1>4, <1>5 DEF LedgerInv, IdsInUse, PoolIsAwaited
<1>11. ~Deposited(call[p].id)
  BY <1>8 DEF Unmined, Deposited
<1>12. SentInOrder'
  BY <1>2, <1>4, <1>5, <1>6, <1>7, <1>8, <1>11 DEF LedgerInv, SentInOrder, Unmined
<1>13. \A id : Owes(id) => Owes(id)'
  BY <1>1, <1>2, <1>4, <1>5, <1>6 DEF Owes, Made
<1>14. AllowanceOwed'
  BY <1>6, <1>13 DEF LedgerInv, AllowanceOwed
<1> QED
  BY <1>9, <1>10, <1>12, <1>14 DEF LedgerInv

LEMMA StepLedger ==
    ASSUME LedgerInv, NonceInv', NEW p \in Processes,
           \/ \E amount \in Amounts : check_allowance(p, amount)
           \/ get_transaction_count(p)
           \/ build_transaction(p)
           \/ send_raw_transaction(p)
           \/ approved(p)
           \/ deposited(p)
           \/ node_call_raises(p)
    PROVE  LedgerInv'
<1>1. CASE \E amount \in Amounts : check_allowance(p, amount)
  BY <1>1, BeginLedger
<1>2. CASE get_transaction_count(p)
  <2> DEFINE c == [call[p] EXCEPT !.pc = "build", !.nonce = count]
  <2>1. call' = [call EXCEPT ![p] = c] /\ UNCHANGED <<chainVars, calls>>
    BY <1>2 DEF get_transaction_count
  <2>2. call[p] \in Underway /\ call[p].pc = "count"
    BY <1>2, CallUnderway DEF get_transaction_count, LedgerInv, NonceInv
  <2>3. c.id = call[p].id /\ c.amount = call[p].amount /\ c.tx = call[p].tx /\ c.pc = "build"
    BY <2>2 DEF Underway
  <2>4. Unmined(call[p].id, call[p].tx) /\ \A t \in pool : t.id # call[p].id
    BY <2>2 DEF LedgerInv, SentInOrder, PoolIsAwaited
  <2> HIDE DEF c
  <2> QED
    BY <2>1, <2>2, <2>3, <2>4, CallLedger
<1>3. CASE build_transaction(p)
  <2> DEFINE c == [call[p] EXCEPT !.pc = "send"]
  <2>1. call' = [call EXCEPT ![p] = c] /\ UNCHANGED <<chainVars, calls>>
    BY <1>3 DEF build_transaction
  <2>2. call[p] \in Underway /\ call[p].pc = "build"
    BY <1>3, CallUnderway DEF build_transaction, LedgerInv, NonceInv
  <2>3. c.id = call[p].id /\ c.amount = call[p].amount /\ c.tx = call[p].tx /\ c.pc = "send"
    BY <2>2 DEF Underway
  <2>4. Unmined(call[p].id, call[p].tx) /\ \A t \in pool : t.id # call[p].id
    BY <2>2 DEF LedgerInv, SentInOrder, PoolIsAwaited
  <2> HIDE DEF c
  <2> QED
    BY <2>1, <2>2, <2>3, <2>4, CallLedger
<1>4. CASE send_raw_transaction(p)
  BY <1>4, SendLedger
<1>5. CASE node_call_raises(p) \/ deposited(p)
  <2>1. call' = [call EXCEPT ![p] = Idle] /\ UNCHANGED <<chainVars, calls>>
    BY <1>5 DEF node_call_raises, deposited
  <2>2. Idle.pc = "idle"
    BY DEF Idle
  <2> QED
    BY <2>1, <2>2, CallLedger
<1>6. CASE approved(p)
  <2> DEFINE c == [call[p] EXCEPT !.pc = "count", !.tx = "deposit"]
  <2>1. call' = [call EXCEPT ![p] = c] /\ UNCHANGED <<chainVars, calls>>
    BY <1>6 DEF approved
  <2>2. /\ call[p] \in Underway
        /\ call[p].pc = "wait" /\ call[p].tx = "approve"
        /\ \E r \in receipts : r.id = call[p].id /\ r.tx = "approve"
    BY <1>6, CallUnderway DEF approved, Mined, LedgerInv, NonceInv
  <2>3. c.id = call[p].id /\ c.amount = call[p].amount /\ c.tx = "deposit" /\ c.pc = "count"
    BY <2>2 DEF Underway
  <2>4. Unmined(call[p].id, "deposit")
    BY <2>2 DEF LedgerInv, SentInOrder, Unmined, Deposited
  <2>5. \A t \in pool : t.id # call[p].id
    BY <2>2 DEF LedgerInv, SentInOrder, PoolIsAwaited, Unmined
  <2> HIDE DEF c
  <2> QED
    BY <2>1, <2>2, <2>3, <2>4, <2>5, CallLedger
<1> QED
  BY <1>1, <1>2, <1>3, <1>4, <1>5, <1>6

LEMMA NextLedger == LedgerInv /\ [DepositNext]_vars => LedgerInv'
<1> SUFFICES ASSUME LedgerInv, [DepositNext]_vars PROVE LedgerInv'
  OBVIOUS
<1>1. NonceInv'
  BY NextNonce DEF LedgerInv
<1>2. CASE UNCHANGED vars
  BY <1>1, <1>2 DEF LedgerInv, IdsInUse, PoolIsAwaited, SentInOrder, Unmined, AllowanceOwed, Owes,
                    Made, Deposited, vars, chainVars
<1>3. CASE DepositNext
  BY <1>1, <1>3, MineLedger, StepLedger DEF DepositNext
<1> QED
  BY <1>2, <1>3

(***************************************************************************)
(* When every call has made its deposit, the contract may spend no more    *)
(* than before the first: a call that still owed the allowance would not   *)
(* have deposited.                                                         *)
(***************************************************************************)
THEOREM NothingStaysApproved == DepositSpec => []NothingLeftApproved
<1>1. LedgerInv => NothingLeftApproved
  BY DEF LedgerInv, AllowanceOwed, Owes, NothingLeftApproved
<1> QED
  BY <1>1, InitLedger, NextLedger, PTL DEF DepositSpec

-----------------------------------------------------------------------------
(***************************************************************************)
(* The refinement of Deposits.  What is signed is for the amount the call  *)
(* was asked to deposit; with the order of a call's transactions, and with *)
(* nothing outdated, a deposit that is mined is the abstract step Make or  *)
(* Refuse, and is mined once.                                              *)
(***************************************************************************)
AmountsAsked ==
    /\ \A p \in Processes : call[p].pc # "idle" => call[p].amount = asked[call[p].id]
    /\ \A t \in pool : t.amount = asked[t.id]

ExactInv == LedgerInv /\ AmountsAsked

LEMMA InitExact == DepositInit => ExactInv
BY InitLedger DEF DepositInit, ExactInv, AmountsAsked, Idle

LEMMA TypeOfExact ==
    ASSUME ExactInv
    PROVE  /\ DepositTypeOK
           /\ calls \in Nat
           /\ asked \in Seq(Amounts)
           /\ DOMAIN asked = 1 .. calls
           /\ \A p \in Processes : call[p].pc # "idle" => call[p].id \in 1 .. calls
           /\ \A t \in pool : t.id \in 1 .. calls
<1>1. DepositTypeOK /\ IdsInUse
  BY DEF ExactInv, LedgerInv, NonceInv
<1>2. calls \in Nat /\ asked \in Seq(Amounts) /\ Len(asked) = calls
  BY <1>1, DepositAssumption DEF DepositTypeOK
<1>3. /\ \A p \in Processes : call[p].pc # "idle" => call[p].id \in Ids
      /\ \A t \in pool : t.id \in Ids
  BY <1>1, CallUnderway DEF DepositTypeOK, Underway
<1>4. /\ \A p \in Processes : call[p].pc # "idle" => call[p].id \in 1 .. calls
      /\ \A t \in pool : t.id \in 1 .. calls
  BY <1>1, <1>2, <1>3 DEF IdsInUse, Ids
<1> QED
  BY <1>1, <1>2, <1>4

\* A call goes on to c with the same id and amount, or ends.
LEMMA CallAmounts ==
    ASSUME ExactInv, NEW p \in Processes, NEW c,
           call' = [call EXCEPT ![p] = c],
           c.pc = "idle" \/ (call[p].pc # "idle" /\ c.id = call[p].id /\ c.amount = call[p].amount),
           UNCHANGED <<pool, asked>>
    PROVE  AmountsAsked'
<1>1. \A q \in Processes : call'[q] = IF q = p THEN c ELSE call[q]
  BY TypeOfExact DEF DepositTypeOK
<1> QED
  BY <1>1 DEF ExactInv, AmountsAsked

LEMMA BeginAmounts ==
    ASSUME ExactInv, NEW p \in Processes, NEW amount \in Amounts, check_allowance(p, amount)
    PROVE  AmountsAsked'
<1> DEFINE c == [pc |-> "count", id |-> calls', amount |-> amount,
                 tx |-> IF allowance < amount THEN "approve" ELSE "deposit", nonce |-> 0]
<1>1. c.id = calls' /\ c.amount = amount
  OBVIOUS
<1>2. call' = [call EXCEPT ![p] = c]
  BY DEF check_allowance
<1> HIDE DEF c
<1>3. \A q \in Processes : call'[q] = IF q = p THEN c ELSE call[q]
  BY <1>2, TypeOfExact DEF DepositTypeOK
<1>4. calls' = calls + 1 /\ asked' = Append(asked, amount) /\ pool' = pool
  BY DEF check_allowance, chainVars
<1>5. Len(asked) = calls /\ asked \in Seq(Amounts)
  BY TypeOfExact DEF DepositTypeOK
<1>6. asked'[calls'] = amount /\ \A id \in 1 .. calls : asked'[id] = asked[id]
  BY <1>4, <1>5, AppendProperties
<1>7. \A q \in Processes : call'[q].pc # "idle" => call'[q].amount = asked'[call'[q].id]
  BY <1>1, <1>3, <1>6, TypeOfExact DEF ExactInv, AmountsAsked
<1>8. \A t \in pool' : t.amount = asked'[t.id]
  BY <1>4, <1>6, TypeOfExact DEF ExactInv, AmountsAsked
<1> QED
  BY <1>7, <1>8 DEF AmountsAsked

LEMMA StepAmounts ==
    ASSUME ExactInv, NEW p \in Processes,
           \/ get_transaction_count(p)
           \/ build_transaction(p)
           \/ send_raw_transaction(p)
           \/ approved(p)
           \/ deposited(p)
           \/ node_call_raises(p)
    PROVE  AmountsAsked'
<1>a. call[p].pc # "idle" => call[p] \in Underway
  BY TypeOfExact, CallUnderway
<1>1. CASE get_transaction_count(p)
  <2> DEFINE c == [call[p] EXCEPT !.pc = "build", !.nonce = count]
  <2>1. /\ call[p].pc # "idle" /\ call' = [call EXCEPT ![p] = c]
        /\ UNCHANGED <<pool, asked>>
    BY <1>1 DEF get_transaction_count, chainVars
  <2>2. c.id = call[p].id /\ c.amount = call[p].amount
    BY <1>a, <2>1 DEF Underway
  <2> HIDE DEF c
  <2> QED
    BY <2>1, <2>2, CallAmounts
<1>2. CASE build_transaction(p)
  <2> DEFINE c == [call[p] EXCEPT !.pc = "send"]
  <2>1. /\ call[p].pc # "idle" /\ call' = [call EXCEPT ![p] = c]
        /\ UNCHANGED <<pool, asked>>
    BY <1>2 DEF build_transaction, chainVars
  <2>2. c.id = call[p].id /\ c.amount = call[p].amount
    BY <1>a, <2>1 DEF Underway
  <2> HIDE DEF c
  <2> QED
    BY <2>1, <2>2, CallAmounts
<1>3. CASE send_raw_transaction(p)
  <2> DEFINE c == [call[p] EXCEPT !.pc = "wait"]
  <2>1. /\ call[p].pc # "idle" /\ call' = [call EXCEPT ![p] = c]
        /\ pool' \subseteq pool \cup {Transaction(p)} /\ asked' = asked
    BY <1>3 DEF send_raw_transaction
  <2>2. c.id = call[p].id /\ c.amount = call[p].amount
    BY <1>a, <2>1 DEF Underway
  <2>3. Transaction(p).id = call[p].id /\ Transaction(p).amount = call[p].amount
    BY DEF Transaction
  <2> HIDE DEF c
  <2>4. \A q \in Processes : call'[q] = IF q = p THEN c ELSE call[q]
    BY <2>1, TypeOfExact DEF DepositTypeOK
  <2> QED
    BY <2>1, <2>2, <2>3, <2>4 DEF ExactInv, AmountsAsked
<1>4. CASE approved(p)
  <2> DEFINE c == [call[p] EXCEPT !.pc = "count", !.tx = "deposit"]
  <2>1. /\ call[p].pc # "idle" /\ call' = [call EXCEPT ![p] = c]
        /\ UNCHANGED <<pool, asked>>
    BY <1>4 DEF approved, chainVars
  <2>2. c.id = call[p].id /\ c.amount = call[p].amount
    BY <1>a, <2>1 DEF Underway
  <2> HIDE DEF c
  <2> QED
    BY <2>1, <2>2, CallAmounts
<1>5. CASE deposited(p) \/ node_call_raises(p)
  <2>1. call' = [call EXCEPT ![p] = Idle] /\ UNCHANGED <<pool, asked>>
    BY <1>5 DEF deposited, node_call_raises, chainVars
  <2>2. Idle.pc = "idle"
    BY DEF Idle
  <2> QED
    BY <2>1, <2>2, CallAmounts
<1> QED
  BY <1>1, <1>2, <1>3, <1>4, <1>5

LEMMA NextExact == ExactInv /\ [DepositNext]_vars => ExactInv'
<1> SUFFICES ASSUME ExactInv, [DepositNext]_vars PROVE ExactInv'
  OBVIOUS
<1>1. LedgerInv'
  BY NextLedger DEF ExactInv
<1>2. CASE UNCHANGED vars
  BY <1>1, <1>2 DEF ExactInv, AmountsAsked, vars, chainVars
<1>3. ASSUME NEW t \in pool, Mine(t) PROVE AmountsAsked'
  <2>1. pool' \subseteq pool /\ UNCHANGED <<call, asked>>
    BY <1>3 DEF Mine
  <2> QED
    BY <2>1 DEF ExactInv, AmountsAsked
<1>4. CASE DepositNext
  BY <1>1, <1>3, <1>4, BeginAmounts, StepAmounts DEF DepositNext, ExactInv
<1> QED
  BY <1>2, <1>4

abstractVars == <<asked, balance, Made, Refused, returned>>

\* A deposit mined is the abstract deposit or its refusal; an approval is neither.
LEMMA MineMakes ==
    ASSUME ExactInv, NEW t \in pool, Mine(t)
    PROVE  D!Make(t.id) \/ D!Refuse(t.id) \/ UNCHANGED abstractVars
<1>1. UNCHANGED <<asked, returned>>
  BY DEF Mine
<1>2. PICK status \in {"succeeded", "refused"} :
         /\ receipts' = receipts \cup {Receipt(t, status)}
         /\ status = "succeeded" => Executes(t)
         /\ status = "refused" => UNCHANGED balance
  BY MineOutcome DEF ExactInv, LedgerInv, Executes
<1>3. CASE t.tx = "approve"
  <2>1. balance' = balance
    BY <1>2, <1>3 DEF Executes
  <2> QED
    BY <1>1, <1>2, <1>3, <2>1, ReceiptEffect DEF abstractVars
<1>4. CASE t.tx = "deposit"
  <2>1. t.id \notin Made \cup Refused
    BY <1>4, MadeIsMined DEF ExactInv, LedgerInv, SentInOrder, Unmined, Deposited
  <2>2. CASE status = "succeeded"
    <3>1. balance' = balance - t.amount /\ t.amount <= balance
      BY <1>2, <1>4, <2>2 DEF Executes, WouldSucceed
    <3>2. Made' = Made \cup {t.id} /\ Refused' = Refused
      BY <1>2, <1>4, <2>2, ReceiptEffect
    <3>3. t.amount = asked[t.id]
      BY DEF ExactInv, AmountsAsked
    <3> QED
      BY <1>1, <2>1, <3>1, <3>2, <3>3 DEF D!Make
  <2>3. CASE status = "refused"
    <3>1. Made' = Made /\ Refused' = Refused \cup {t.id}
      BY <1>2, <1>4, <2>3, ReceiptEffect
    <3> QED
      BY <1>1, <1>2, <2>1, <2>3, <3>1 DEF D!Refuse
  <2> QED
    BY <2>2, <2>3
<1>5. t.tx \in Txs
  BY TypeOfExact DEF DepositTypeOK
<1> QED
  BY <1>3, <1>4, <1>5 DEF Txs

\* A call's return is the abstract report of a deposit made or refused.
LEMMA DepositedReports ==
    ASSUME ExactInv, NEW p \in Processes, deposited(p)
    PROVE  D!Report(call[p].id)
<1>1. Deposited(call[p].id)
  BY DEF deposited, Mined, Deposited
<1>2. call[p].id \in Made \cup Refused
  BY <1>1, MadeIsMined
<1>3. Made' = Made /\ Refused' = Refused /\ UNCHANGED <<asked, balance>>
  BY DEF deposited, chainVars, Made, Refused
<1>4. returned' = returned \cup {call[p].id}
  BY DEF deposited
<1> QED
  BY <1>2, <1>3, <1>4 DEF D!Report

LEMMA StepRefines ==
    ASSUME ExactInv, [DepositNext]_vars
    PROVE  D!DepositsNext \/ UNCHANGED abstractVars
<1>1. ASSUME NEW t \in pool, Mine(t)
      PROVE  D!DepositsNext \/ UNCHANGED abstractVars
  <2>1. t.id \in DOMAIN asked
    BY TypeOfExact
  <2> QED
    BY <1>1, <2>1, MineMakes DEF D!DepositsNext
<1>2. ASSUME NEW p \in Processes, NEW amount \in Amounts, check_allowance(p, amount)
      PROVE  D!DepositsNext
  <2>1. D!Ask(amount)
    BY <1>2 DEF check_allowance, chainVars, Made, Refused, D!Ask
  <2> QED
    BY <2>1 DEF D!DepositsNext
<1>3. ASSUME NEW p \in Processes, deposited(p)
      PROVE  D!DepositsNext
  <2>1. call[p].id \in DOMAIN asked
    BY <1>3, TypeOfExact DEF deposited
  <2> QED
    BY <1>3, <2>1, DepositedReports DEF D!DepositsNext
<1>4. ASSUME NEW p \in Processes,
             \/ get_transaction_count(p)
             \/ build_transaction(p)
             \/ send_raw_transaction(p)
             \/ approved(p)
             \/ node_call_raises(p)
      PROVE  UNCHANGED abstractVars
  BY <1>4 DEF get_transaction_count, build_transaction, send_raw_transaction, approved,
              node_call_raises, chainVars, Made, Refused, abstractVars
<1>5. CASE UNCHANGED vars
  BY <1>5 DEF vars, chainVars, Made, Refused, abstractVars
<1>6. CASE DepositNext
  BY <1>1, <1>2, <1>3, <1>4, <1>6 DEF DepositNext
<1> QED
  BY <1>5, <1>6

(***************************************************************************)
(* _deposit keeps its promise: every call, in however many processes,      *)
(* deposits the amount it was asked to, once at most, nothing else leaves  *)
(* the wallet, and a call that returns has made its deposit or had it      *)
(* refused.                                                                *)
(***************************************************************************)
THEOREM DepositsAreExact == DepositSpec => ImplementsDeposits
<1>1. DepositInit => D!DepositsInit
  BY DEF DepositInit, D!DepositsInit, Made, Refused
<1>2. ExactInv /\ [DepositNext]_vars => [D!DepositsNext]_abstractVars
  BY StepRefines
<1> QED
  BY <1>1, <1>2, InitExact, NextExact, PTL DEF DepositSpec, ImplementsDeposits, D!DepositsSpec,
     abstractVars

=============================================================================
