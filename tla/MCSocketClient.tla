--------------------------- MODULE MCSocketClient ---------------------------
(* Small instances of SocketClient for TLC. *)
EXTENDS SocketClient

\* Part of constants.py:45-59: streams with one event, and the one with two.
MCEventList ==
    << <<"order", 5>>, <<"lastTrade", 6>>, <<"userTrade", 6>>, <<"maintenance", 7>> >>

\* LAST_CANDLESTICK (4) has no event.
MCStreams == 4 .. 7

Subscription(symbol, streams) == [symbol |-> symbol, streams |-> streams]

\* Overlapping lists: of streams with one event, with TRADES (6), and with a repetition.
MCOptions ==
    {Subscription("p", <<5, 7>>), Subscription("p", <<6, 7>>), Subscription("p", <<7, 5, 7>>)}

\* Lists that name each stream once, streams with one event, and another pair.
MCPlainOptions == {Subscription("p", <<5, 7>>), Subscription("p", <<7>>), Subscription("q", <<7>>)}

=============================================================================
