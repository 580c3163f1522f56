---------------------------- MODULE MCEvmDeposit ----------------------------
(* Small instances of EvmDeposit for TLC. *)
EXTENDS EvmDeposit

CONSTANTS p1, p2

=============================================================================
