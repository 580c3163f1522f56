-------------------------- MODULE MCUltradeClient --------------------------
(* Small instances of UltradeClient for TLC. *)
EXTENDS UltradeClient

\* Part of constants.py:45-59: streams with one event, and the one with two.
MCEventList ==
    << <<"error", 0>>, <<"lastTrade", 6>>, <<"userTrade", 6>>, <<"maintenance", 7>> >>

MCStreams == {0, 6, 7}

Subscription(symbol, streams) == [symbol |-> symbol, streams |-> streams]

\* TRADES, none, and none for another pair.
MCDicts == {Subscription("p", <<6>>), Subscription("p", <<>>), Subscription("q", <<>>)}

MCOptions == {completed(d) : d \in MCDicts}

MCAuths == {[method |-> "LOGIN", by |-> "alice"], [method |-> "TRADING_KEY", by |-> "key"]}

=============================================================================
