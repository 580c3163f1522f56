---------------------------- MODULE MCClientAuth ----------------------------
(* Small instances of ClientAuth for TLC. *)
EXTENDS ClientAuth, TLC

CONSTANTS t1, t2, alice, bob, key1, key2

\* Each user holds a trading key.
MCKeyAddress == (key1 :> alice) @@ (key2 :> bob)

\* The tasks are alike, and so are the two users with their keys.
MCSymmetry ==
    {tasks @@ owners :
        tasks \in Permutations({t1, t2}),
        owners \in {[v \in {alice, bob, key1, key2} |-> v],
                    (alice :> bob) @@ (bob :> alice) @@ (key1 :> key2) @@ (key2 :> key1)}}

=============================================================================
