-------------------------- MODULE MCEventDispatch --------------------------
(* Small instances of EventDispatch for TLC. *)
EXTENDS EventDispatch

\* Part of constants.py:45-59, in its order: LAST_CANDLESTICK (4) has no event.
MCEventList ==
    << <<"order", 5>>, <<"lastTrade", 6>>, <<"userTrade", 6>>, <<"maintenance", 7>> >>

MCStreams == 4 .. 7

\* A pair of streams, the one with two events and the one with none, and one named twice.
MCOptions ==
    {[streams |-> s] : s \in { <<6, 7>>, <<4, 5>>, <<7, 5, 7>>, <<5, 6, 7>> }}

=============================================================================
