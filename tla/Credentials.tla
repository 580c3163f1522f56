---------------------------- MODULE Credentials ----------------------------
(***************************************************************************)
(* What the rest of the client relies on of its credentials: at first it   *)
(* has none, and from then on it always has some, which change at any time *)
(* between two awaits.  ClientAuth implements this; UltradeClient, which   *)
(* fills in subscriptions with whatever they are by then, builds on it.    *)
(***************************************************************************)

\* method: what _check_auth_method answers; by: what speaks for the client under it.
CONSTANT Auths

NoAuth == [method |-> "NONE"]

VARIABLE auth

CredentialsInit == auth = NoAuth

Authenticate == auth' \in Auths

CredentialsSpec == CredentialsInit /\ [][Authenticate]_auth

=============================================================================
