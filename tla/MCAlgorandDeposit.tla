-------------------------- MODULE MCAlgorandDeposit --------------------------
(***************************************************************************)
(* Instances of AlgorandDeposit for TLC.                                   *)
(***************************************************************************)
EXTENDS AlgorandDeposit

CONSTANTS p1, p2
=============================================================================
