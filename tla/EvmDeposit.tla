----------------------------- MODULE EvmDeposit -----------------------------
(***************************************************************************)
(* ultrade/signers/ethereum.py, EthereumSigner._deposit: read the          *)
(* allowance of the token manager contract, raise it if it is too small,   *)
(* deposit, and return the hash of the deposit's transaction.  Nothing in  *)
(* it awaits, so in one process deposits follow each other; but processes  *)
(* that hold the same private key share its wallet, and each call of the   *)
(* node is a step between which the others run.                            *)
(*                                                                         *)
(* External (the node and the contracts, modelled from their use in the    *)
(* code): one consistent node; get_transaction_count answers the number of *)
(* mined transactions; build_transaction raises if the transaction would   *)
(* revert in the latest block; send_raw_transaction raises on a nonce that *)
(* is used up, and on one that is pending it raises or, for a higher fee,  *)
(* replaces; approve sets the allowance, and a deposit spends it.  Only    *)
(* transactions of the wallet spend its tokens.  Beyond these conditions   *)
(* the chain may refuse any transaction, estimated or not: for want of     *)
(* gas, or because a contract was paused or limited meanwhile.             *)
(*                                                                         *)
(* The checks of lines 45-83 raise before anything of this is reached, and *)
(* the user credited is part of what is signed: both are left out.         *)
(***************************************************************************)
EXTENDS Integers, Sequences

CONSTANTS
    Processes,         \* the processes that deposit from the wallet, one call at a time
    Amounts,           \* the amounts a call may be asked to deposit
    InitialAllowance,  \* what the wallet has approved before
    InitialBalance,    \* what it holds
    StrictToken,       \* does the token refuse to change an allowance that is not 0?
    MaxCalls           \* bound: the number of calls of _deposit

ASSUME DepositAssumption ==
    /\ Amounts \subseteq Nat \ {0}
    /\ InitialAllowance \in Nat
    /\ InitialBalance \in Nat
    /\ StrictToken \in BOOLEAN
    /\ MaxCalls \in Nat

VARIABLES
    allowance,  \* of the contract, on the wallet's tokens
    balance,    \* of the wallet
    count,      \* the number of the wallet's transactions mined
    pool,       \* its transactions sent and not yet mined
    receipts,   \* one for each transaction mined, with its status
    call,       \* where each process is in its call
    calls,      \* the number of calls so far
    returned,   \* the calls that have returned a transaction hash
    asked       \* (history) the amount each call was asked to deposit

chainVars == <<allowance, balance, count, pool, receipts>>

vars == <<chainVars, call, calls, returned, asked>>

\* tx: the transaction in hand, the approval or the deposit.
Idle == [pc |-> "idle", id |-> 0, amount |-> 0, tx |-> "none", nonce |-> 0]

DepositInit ==
    /\ allowance = InitialAllowance
    /\ balance = InitialBalance
    /\ count = 0
    /\ pool = {}
    /\ receipts = {}
    /\ call = [p \in Processes |-> Idle]
    /\ calls = 0
    /\ returned = {}
    /\ asked = <<>>

-----------------------------------------------------------------------------
(***************************************************************************)
(* External: the chain.  WouldSucceed is what the wallet's own allowance   *)
(* and balance allow: a transaction that fails by it when it is mined has  *)
(* been outdated by others of the wallet.                                  *)
(***************************************************************************)
WouldSucceed(tx, amount) ==
    \/ tx = "approve" /\ (StrictToken => allowance = 0)
    \/ tx = "deposit" /\ amount <= allowance /\ amount <= balance

Receipt(t, status) == [id |-> t.id, tx |-> t.tx, status |-> status]

\* The transaction takes effect.
Executes(t) ==
    /\ WouldSucceed(t.tx, t.amount)
    /\ receipts' = receipts \cup {Receipt(t, "succeeded")}
    /\ allowance' = IF t.tx = "approve" THEN t.amount ELSE allowance - t.amount
    /\ balance' = IF t.tx = "deposit" THEN balance - t.amount ELSE balance

\* It reverts, which uses up its nonce and changes nothing else.
Reverts(t) ==
    /\ receipts' = receipts \cup
          {Receipt(t, IF WouldSucceed(t.tx, t.amount) THEN "refused" ELSE "outdated")}
    /\ UNCHANGED <<allowance, balance>>

Mine(t) ==
    /\ t.nonce = count
    /\ Executes(t) \/ Reverts(t)
    /\ count' = count + 1
    /\ pool' = {q \in pool : q.nonce > count}
    /\ UNCHANGED <<call, calls, returned, asked>>

-----------------------------------------------------------------------------
(***************************************************************************)
(* _deposit, one action for each call of the node.                         *)
(***************************************************************************)
\* Lines 90-91.
check_allowance(p, amount) ==
    /\ call[p] = Idle
    /\ calls < MaxCalls
    /\ calls' = calls + 1
    /\ asked' = Append(asked, amount)
    /\ call' = [call EXCEPT ![p] =
                   [pc |-> "count", id |-> calls', amount |-> amount,
                    tx |-> IF allowance < amount THEN "approve" ELSE "deposit", nonce |-> 0]]
    /\ UNCHANGED <<chainVars, returned>>

\* Mutant: get_transaction_count(self.address, "pending").
get_transaction_count_Pending(p) ==
    /\ call[p].pc = "count"
    /\ call' = [call EXCEPT ![p] = [@ EXCEPT
                   !.pc = "build",
                   !.nonce = IF \E t \in pool : t.nonce = count THEN count + 1 ELSE count]]
    /\ UNCHANGED <<chainVars, calls, returned, asked>>

\* Evaluated before the transaction is built (lines 97 and 114).
get_transaction_count(p) ==
    /\ call[p].pc = "count"
    /\ call' = [call EXCEPT ![p] = [@ EXCEPT !.pc = "build", !.nonce = count]]
    /\ UNCHANGED <<chainVars, calls, returned, asked>>

\* Lines 94 and 111: without a gas limit the node is asked to estimate it.
build_transaction(p) ==
    /\ call[p].pc = "build"
    /\ WouldSucceed(call[p].tx, call[p].amount)
    /\ call' = [call EXCEPT ![p] = [@ EXCEPT !.pc = "send"]]
    /\ UNCHANGED <<chainVars, calls, returned, asked>>

\* Mutant: approve only what is missing.
Transaction_ApprovesShortfall(p) ==
    [id |-> call[p].id, tx |-> call[p].tx, nonce |-> call[p].nonce,
     amount |-> IF call[p].tx = "approve" THEN call[p].amount - allowance ELSE call[p].amount]

\* Mutant: approve for the next deposit, too.
Transaction_ApprovesTwice(p) ==
    [id |-> call[p].id, tx |-> call[p].tx, nonce |-> call[p].nonce,
     amount |-> IF call[p].tx = "approve" THEN 2 * call[p].amount ELSE call[p].amount]

\* What is signed (lines 92-101 and 106-119).
Transaction(p) ==
    [id |-> call[p].id, tx |-> call[p].tx, amount |-> call[p].amount, nonce |-> call[p].nonce]

\* Lines 103 and 121.  A pending transaction with the nonce is replaced.
send_raw_transaction(p) ==
    /\ call[p].pc = "send"
    /\ call[p].nonce >= count
    /\ pool' = {t \in pool : t.nonce # call[p].nonce} \cup {Transaction(p)}
    /\ call' = [call EXCEPT ![p] = [@ EXCEPT !.pc = "wait"]]
    /\ UNCHANGED <<allowance, balance, count, receipts, calls, returned, asked>>

Mined(p) == \E r \in receipts : r.id = call[p].id /\ r.tx = call[p].tx

\* Line 104: the approval is mined, whatever its receipt says.
approved(p) ==
    /\ call[p].pc = "wait"
    /\ call[p].tx = "approve"
    /\ Mined(p)
    /\ call' = [call EXCEPT ![p] = [@ EXCEPT !.pc = "count", !.tx = "deposit"]]
    /\ UNCHANGED <<chainVars, calls, returned, asked>>

\* Lines 122-124: the deposit is mined, whatever its receipt says.
deposited(p) ==
    /\ call[p].pc = "wait"
    /\ call[p].tx = "deposit"
    /\ Mined(p)
    /\ returned' = returned \cup {call[p].id}
    /\ call' = [call EXCEPT ![p] = Idle]
    /\ UNCHANGED <<chainVars, calls, asked>>

\* Mutant: a call that waits for its deposit and gets no answer tries it again.
node_call_raises_Retries(p) ==
    /\ call[p].pc # "idle"
    /\ call' = [call EXCEPT ![p] = IF @.pc = "wait" /\ @.tx = "deposit"
                                  THEN [@ EXCEPT !.pc = "count"] ELSE Idle]
    /\ UNCHANGED <<chainVars, calls, returned, asked>>

\* A call of the node raises: the estimate reverts, the nonce is used up or
\* pending, no receipt arrives in time, no answer arrives.  What has been sent
\* stays where it is; a send whose answer is lost is a send and then this.
node_call_raises(p) ==
    /\ call[p].pc # "idle"
    /\ call' = [call EXCEPT ![p] = Idle]
    /\ UNCHANGED <<chainVars, calls, returned, asked>>

-----------------------------------------------------------------------------
DepositNext ==
    \/ \E t \in pool : Mine(t)
    \/ \E p \in Processes :
          \/ \E amount \in Amounts : check_allowance(p, amount)
          \/ get_transaction_count(p)
          \/ build_transaction(p)
          \/ send_raw_transaction(p)
          \/ approved(p)
          \/ deposited(p)
          \/ node_call_raises(p)

DepositSpec == DepositInit /\ [][DepositNext]_vars

-----------------------------------------------------------------------------
Ids == 1 .. MaxCalls

Txs == {"approve", "deposit"}

Statuses == {"succeeded", "refused", "outdated"}

Underway ==
    [pc : {"count", "build", "send", "wait"}, id : Ids, amount : Amounts, tx : Txs, nonce : Nat]

(***************************************************************************)
(* Every variable has its type; an approval, like a deposit, is for an     *)
(* amount some call was asked to deposit.                                  *)
(***************************************************************************)
DepositTypeOK ==
    /\ allowance \in Nat
    /\ balance \in Nat
    /\ count \in Nat
    /\ pool \subseteq [id : Ids, tx : Txs, amount : Amounts, nonce : Nat]
    /\ receipts \subseteq [id : Ids, tx : Txs, status : Statuses]
    /\ call \in [Processes -> {Idle} \cup Underway]
    /\ calls \in 0 .. MaxCalls
    /\ returned \subseteq Ids
    /\ asked \in Seq(Amounts) /\ Len(asked) = calls

(***************************************************************************)
(* No transaction fails because others of the wallet, of this process or   *)
(* another, have changed its allowance or balance since it was estimated.  *)
(* It rests on the nonce: it is read before the gas is estimated, so       *)
(* whatever is mined after the estimate makes the node refuse what is then *)
(* sent.                                                                   *)
(***************************************************************************)
NothingOutdated == \A r \in receipts : r.status # "outdated"

(***************************************************************************)
(* The wallet never has two transactions in flight, so that no deposit is  *)
(* repeated by a call that begins while it is pending, after a timeout or  *)
(* in another process.                                                     *)
(***************************************************************************)
OneInFlight == \A t, u \in pool : t = u

\* The calls whose deposit was mined: those it took effect for, and the others.
Made == {r.id : r \in {q \in receipts : q.tx = "deposit" /\ q.status = "succeeded"}}

Refused == {r.id : r \in {q \in receipts : q.tx = "deposit" /\ q.status # "succeeded"}}

(***************************************************************************)
(* When every call so far has made its deposit, the contract may spend no  *)
(* more than before the first: what was approved for a deposit has gone    *)
(* into it, however the calls overlapped.                                  *)
(***************************************************************************)
NothingLeftApproved ==
    Made = 1 .. calls => allowance <= InitialAllowance

(***************************************************************************)
(* ethereum.py:39, "Deposit the amount of tokens to the Token Manager      *)
(* Contract": a call that returns a hash, and has not raised, has done so. *)
(***************************************************************************)
ReturnedIsDeposited == returned \subseteq Made

-----------------------------------------------------------------------------
D == INSTANCE Deposits WITH made <- Made, refused <- Refused, reported <- returned

(***************************************************************************)
(* Through approvals, replaced and refused transactions, timeouts, lost    *)
(* answers and other processes' deposits: each call deposits the amount it *)
(* was asked to, once at most, though it may be mined long after the call  *)
(* has raised; nothing else is taken from the wallet; and a call returns   *)
(* only when its own deposit is decided, for good or ill.                  *)
(***************************************************************************)
ImplementsDeposits == D!DepositsSpec

=============================================================================
