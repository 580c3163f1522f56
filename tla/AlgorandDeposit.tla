--------------------------- MODULE AlgorandDeposit ---------------------------
(***************************************************************************)
(* ultrade/signers/algorand.py, AlgorandSigner._deposit: a transfer to the *)
(* application's address and a call of its method depositToCodex, sent as  *)
(* one group, and a wait of four rounds for their confirmation.  As in     *)
(* EvmDeposit nothing awaits, and processes that hold the same mnemonic    *)
(* share the wallet.                                                       *)
(*                                                                         *)
(* External (algod and the contract, modelled from their use in the code): *)
(* one node.  suggested_params answers with the current round, which is    *)
(* all that tells two deposits of the same token and amount apart: they    *)
(* are the same transactions if they are built in the same round.  The     *)
(* node refuses transactions it has pending or confirmed, and may refuse   *)
(* any other (the wallet has no funds, the contract would reject); what it *)
(* has accepted is confirmed, a group as a whole, or dropped.              *)
(* wait_for_confirmation returns once the transfer is confirmed, and       *)
(* raises if the group is dropped, enough rounds have passed, or the node  *)
(* can not be reached.                                                     *)
(*                                                                         *)
(* The checks of lines 45-59 raise before anything of this is reached, and *)
(* the user credited is part of what is signed: both are left out.         *)
(***************************************************************************)
EXTENDS Integers

CONSTANTS
    Processes,  \* the processes that deposit from the wallet, one call at a time
    Tokens,     \* token addresses, 0 for Algo
    Amounts,    \* amounts to deposit
    MaxCalls,   \* bound: the number of calls of _deposit
    MaxRounds   \* bound: the rounds told apart; later ones count as the last

ASSUME AlgoAssumption ==
    /\ Amounts \subseteq Nat \ {0}
    /\ MaxCalls \in Nat
    /\ MaxRounds \in Nat

VARIABLES
    round,     \* the node's last round
    pool,      \* the groups pending, each a set of transactions
    ledger,    \* the transactions confirmed
    dropped,   \* the transactions that were dropped (history)
    call,      \* where each process is in its call
    calls,     \* the number of calls so far
    returned   \* the calls that have returned: what they sent, and the value

nodeVars == <<round, pool, ledger, dropped>>

vars == <<nodeVars, call, calls, returned>>

Idle == [pc |-> "idle"]

AlgoInit ==
    /\ round = 0
    /\ pool = {}
    /\ ledger = {}
    /\ dropped = {}
    /\ call = [p \in Processes |-> Idle]
    /\ calls = 0
    /\ returned = {}

Raises(p) ==
    /\ call' = [call EXCEPT ![p] = Idle]
    /\ UNCHANGED <<calls, returned>>

Waits(p) == call[p].pc = "wait"

\* What a call returns that ends without a return statement.  A transaction
\* stands for its id, a hash of it.
None == [kind |-> "none"]

\* Line 117.
WaitRounds == 4

-----------------------------------------------------------------------------
(***************************************************************************)
(* External: the node.                                                     *)
(***************************************************************************)
Confirm(g) ==
    /\ pool' = pool \ {g}
    /\ ledger' = ledger \cup g
    /\ UNCHANGED <<round, dropped, call, calls, returned>>

\* It has expired, or is valid no longer.
Drop(g) ==
    /\ pool' = pool \ {g}
    /\ dropped' = dropped \cup g
    /\ UNCHANGED <<round, ledger, call, calls, returned>>

EndRound ==
    /\ round' = IF round < MaxRounds THEN round + 1 ELSE round
    /\ call' = [p \in Processes |->
                   IF Waits(p) /\ call[p].waited < WaitRounds
                   THEN [call[p] EXCEPT !.waited = @ + 1]
                   ELSE call[p]]
    /\ UNCHANGED <<pool, ledger, dropped, calls, returned>>

Pending(t) == \E g \in pool : t \in g

-----------------------------------------------------------------------------
(***************************************************************************)
(* _deposit, one action for each call of the node.                         *)
(***************************************************************************)
\* Mutant: the fee is paid out of the amount.
Contents_FeeDeducted(p) ==
    [token |-> call[p].token, amount |-> call[p].amount - 1, first |-> call[p].first]

\* All that distinguishes one deposit of the wallet from another.
Contents(p) == [token |-> call[p].token, amount |-> call[p].amount, first |-> call[p].first]

\* Lines 84-98; the id of the group is part of each transaction.
asset_transfer_txn(p) == [kind |-> "transfer", group |-> Contents(p)]

\* Lines 100-107.
app_call_txn(p) == [kind |-> "call", group |-> Contents(p)]

\* Mutant: without line 109 each transaction stands for itself.
Groups_Unassigned(p) == {{asset_transfer_txn(p)}, {app_call_txn(p)}}

\* What send_transactions submits (lines 109-116).
Groups(p) == {{asset_transfer_txn(p), app_call_txn(p)}}

\* Line 63.
suggested_params(p, token, amount) ==
    /\ call[p].pc = "idle"
    /\ calls < MaxCalls
    /\ round < MaxRounds
    /\ calls' = calls + 1
    /\ call' = [call EXCEPT ![p] =
                   [pc |-> "send", id |-> calls', token |-> token, amount |-> amount,
                    first |-> round, waited |-> 0]]
    /\ UNCHANGED <<nodeVars, returned>>

Accepts(p) ==
    /\ call[p].pc = "send"
    /\ \A g \in Groups(p) : \A t \in g : ~Pending(t) /\ t \notin ledger
    /\ pool' = pool \cup Groups(p)
    /\ UNCHANGED <<round, ledger, dropped, calls, returned>>

\* Line 111.
send_transactions(p) ==
    /\ Accepts(p)
    /\ call' = [call EXCEPT ![p].pc = "wait"]

\* The node has accepted the group, but its answer does not arrive.
send_transactions_unanswered(p) ==
    /\ Accepts(p)
    /\ Raises(p)

\* Mutant: the error is caught, the group being known already.
send_transactions_raises_WaitsAnyway(p) ==
    /\ call[p].pc = "send"
    /\ call' = [call EXCEPT ![p].pc = "wait"]
    /\ UNCHANGED <<nodeVars, calls, returned>>

send_transactions_raises(p) ==
    /\ call[p].pc = "send"
    /\ Raises(p)
    /\ UNCHANGED nodeVars

\* Lines 117-119: the result is never empty, and is not returned.
confirmed(p) ==
    /\ Waits(p)
    /\ asset_transfer_txn(p) \in ledger
    /\ returned' = returned \cup
           {[id |-> call[p].id, sent |-> asset_transfer_txn(p), value |-> None]}
    /\ call' = [call EXCEPT ![p] = Idle]
    /\ UNCHANGED <<nodeVars, calls>>

rejected(p) ==
    /\ Waits(p)
    /\ asset_transfer_txn(p) \in dropped
    /\ Raises(p)
    /\ UNCHANGED nodeVars

\* Mutant: wait for four rounds more.
times_out_WaitsAgain(p) ==
    /\ Waits(p)
    /\ call[p].waited = WaitRounds
    /\ call' = [call EXCEPT ![p].waited = 0]
    /\ UNCHANGED <<nodeVars, calls, returned>>

\* The group stays where it is.
times_out(p) ==
    /\ Waits(p)
    /\ call[p].waited = WaitRounds
    /\ Raises(p)
    /\ UNCHANGED nodeVars

\* The node can not be reached.
wait_raises(p) ==
    /\ Waits(p)
    /\ Raises(p)
    /\ UNCHANGED nodeVars

-----------------------------------------------------------------------------
Step(p) ==
    \/ send_transactions(p)
    \/ send_transactions_unanswered(p)
    \/ send_transactions_raises(p)
    \/ confirmed(p)
    \/ rejected(p)
    \/ times_out(p)

AlgoNext ==
    \/ \E g \in pool : Confirm(g) \/ Drop(g)
    \/ EndRound
    \/ \E p \in Processes :
          \/ \E token \in Tokens, amount \in Amounts : suggested_params(p, token, amount)
          \/ Step(p)
          \/ wait_raises(p)

AlgoSpec == AlgoInit /\ [][AlgoNext]_vars

\* The node goes on producing rounds and answers, or the request times out.
\* It need not confirm or drop what it has accepted, nor be unreachable.
AlgoFairSpec ==
    /\ AlgoSpec
    /\ WF_vars(EndRound)
    /\ \A p \in Processes : WF_vars(Step(p))

-----------------------------------------------------------------------------
Ids == 1 .. MaxCalls

Txns ==
    [kind : {"transfer", "call"},
     group : [token : Tokens, amount : Amounts, first : 0 .. MaxRounds]]

Underway ==
    [pc : {"send", "wait"}, id : Ids, token : Tokens, amount : Amounts,
     first : 0 .. MaxRounds, waited : 0 .. WaitRounds]

(***************************************************************************)
(* Every variable has its type; a transaction carries an amount some call  *)
(* was asked to deposit.                                                   *)
(***************************************************************************)
AlgoTypeOK ==
    /\ round \in 0 .. MaxRounds
    /\ \A g \in pool : g \subseteq Txns
    /\ ledger \subseteq Txns
    /\ dropped \subseteq Txns
    /\ call \in [Processes -> {Idle} \cup Underway]
    /\ calls \in 0 .. MaxCalls
    /\ returned \subseteq [id : Ids, sent : Txns, value : Txns \cup {None}]

(***************************************************************************)
(* The application receives no transfer without the call that credits it,  *)
(* and credits nothing it has not received, whatever is dropped, repeated  *)
(* or given up.                                                            *)
(***************************************************************************)
CreditedIsReceived ==
    \A t \in ledger : {[t EXCEPT !.kind = kind] : kind \in {"transfer", "call"}} \subseteq ledger

(***************************************************************************)
(* Calls that return have each made a deposit of their own, although equal *)
(* deposits of one round are the same transactions: the node refuses the   *)
(* second and its call raises.  Only a group that was dropped may be sent  *)
(* again while the first call still waits for it.                          *)
(***************************************************************************)
ReturnedDepositedItsOwn ==
    \A r \in returned :
        /\ r.sent \in ledger
        /\ r.sent \notin dropped => \A s \in returned : s.sent = r.sent => s = r

(***************************************************************************)
(* A call ends, also if its group is never confirmed.                      *)
(***************************************************************************)
DepositsEnd == \A p \in Processes : call[p].pc # "idle" ~> call[p].pc = "idle"

=============================================================================
