------------------------------ MODULE Deposits ------------------------------
(***************************************************************************)
(* What EthereumSigner._deposit promises whoever calls it, without the     *)
(* node, the approvals, the nonces and the processes: each call deposits   *)
(* what it was asked to, once or not at all, and nothing else leaves the   *)
(* wallet.  A call that fails may still deposit, at any later time.  One   *)
(* that reports has made its deposit, or the chain has refused it.         *)
(***************************************************************************)
EXTENDS Integers, Sequences

CONSTANTS Amounts, InitialBalance

VARIABLES
    asked,    \* the amount each call was asked to deposit, in the order of the calls
    balance,  \* of the wallet
    made,     \* the calls whose deposit has been made
    refused,  \* those whose deposit the chain has turned down, for good
    reported  \* the calls that have returned

DepositsInit ==
    /\ asked = <<>>
    /\ balance = InitialBalance
    /\ made = {}
    /\ refused = {}
    /\ reported = {}

Ask(amount) ==
    /\ asked' = Append(asked, amount)
    /\ UNCHANGED <<balance, made, refused, reported>>

Make(c) ==
    /\ c \notin made \cup refused
    /\ asked[c] <= balance
    /\ balance' = balance - asked[c]
    /\ made' = made \cup {c}
    /\ UNCHANGED <<asked, refused, reported>>

Refuse(c) ==
    /\ c \notin made \cup refused
    /\ refused' = refused \cup {c}
    /\ UNCHANGED <<asked, balance, made, reported>>

Report(c) ==
    /\ c \in made \cup refused
    /\ reported' = reported \cup {c}
    /\ UNCHANGED <<asked, balance, made, refused>>

DepositsNext ==
    \/ \E amount \in Amounts : Ask(amount)
    \/ \E c \in DOMAIN asked : Make(c) \/ Refuse(c) \/ Report(c)

DepositsSpec ==
    DepositsInit /\ [][DepositsNext]_<<asked, balance, made, refused, reported>>

=============================================================================
