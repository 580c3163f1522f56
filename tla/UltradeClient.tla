--------------------------- MODULE UltradeClient ---------------------------
(***************************************************************************)
(* ultrade/sdk_client.py, Client.subscribe and Client.unsubscribe: the     *)
(* composition of the client's credentials (Credentials, which ClientAuth  *)
(* implements) with its websocket (SocketClient).                          *)
(*                                                                         *)
(* subscribe completes the dictionary it is given in place: it writes the  *)
(* credentials of the moment into its "options", and appends two streams.  *)
(* SocketClient keeps the dictionary that opened the connection, not a     *)
(* copy, and sends its "options" whenever it emits.  So what a connection  *)
(* presents depends on which dictionary opened it and on every call made   *)
(* with that dictionary since, under whatever credentials.                 *)
(*                                                                         *)
(* Abstractions.  A dictionary is named by its symbol and streams once     *)
(* they are complete: an element of Options.  Of its "options" only what   *)
(* subscribe writes is kept: the token, and the trading key, which stands  *)
(* for "message", "signature" and "tradingKey" written together.  The      *)
(* address that lines 677-682 write beside "options" is left out, since    *)
(* get_sub_options sends no such entry.                                    *)
(***************************************************************************)
EXTENDS SocketClient, Credentials

CONSTANT Dicts  \* the dictionaries the application subscribes with, as it made them

\* socket_options.py
ERROR == 0
MAINTENANCE == 7

\* Mutant: insert(0, s)
with_stream_Prepended(s, streams) ==
    IF s \in Range(streams) THEN streams ELSE <<s>> \o streams

with_stream(s, streams) ==
    IF s \in Range(streams) THEN streams ELSE Append(streams, s)

completed(d) ==
    [d EXCEPT !.streams = with_stream(ERROR, with_stream(MAINTENANCE, @))]

ASSUME UltradeAssumption ==
    /\ {ERROR, MAINTENANCE} \subseteq Streams
    /\ Options = {completed(d) : d \in Dicts}
    /\ \A d \in Dicts : /\ d = [symbol |-> d.symbol, streams |-> d.streams]
                        /\ d.streams \in Seq(Streams)
    /\ \A a \in Auths : /\ a.method \in {"LOGIN", "TRADING_KEY"}
                         /\ a = [method |-> a.method, by |-> a.by]

(***************************************************************************)
(* The two streams subscribe appends carry one event each in EVENT_LIST    *)
(* (constants.py:46 and 53).  NoticesSurvive relies on it.                 *)
(***************************************************************************)
ASSUME NoticesCarryOneEvent ==
    \A e, f \in Events :
        stream_value(e) = stream_value(f) /\ stream_value(e) \in {ERROR, MAINTENANCE} => e = f

Nobody == "nobody"

VARIABLES
    filled,     \* dictionary -> the credentials in its "options"
    presented,  \* the last emission: its socket, and the credentials in it
    opener,     \* (history) socket -> the dictionary it was opened for
    granted     \* (history) dictionary -> the credentials it was subscribed under

ultradeVars == <<vars, auth, filled, presented, opener, granted>>

NoCredentials == [token |-> Nobody, tradingKey |-> Nobody]

UltradeInit ==
    /\ ClientInit
    /\ CredentialsInit
    /\ filled = [o \in Options |-> NoCredentials]
    /\ presented = [on |-> None, credentials |-> NoCredentials]
    /\ opener = [c \in HandlerIds |-> NoSubscribeOptions]
    /\ granted = [o \in Options |-> {}]

-----------------------------------------------------------------------------
(***************************************************************************)
(* subscribe: raises unless there are credentials, fills in the dictionary *)
(* and hands it to the socket client, all in one step.  What an earlier    *)
(* call wrote under the other method stays where it is.                    *)
(***************************************************************************)
fill(o) ==
    [filled EXCEPT ![o] = IF auth.method = "LOGIN"
                          THEN [@ EXCEPT !.token = auth.by]
                          ELSE [@ EXCEPT !.tradingKey = auth.by]]

Grants(o) ==
    /\ auth # NoAuth
    /\ filled' = fill(o)
    /\ granted' = [granted EXCEPT ![o] = @ \cup {auth}]
    /\ UNCHANGED <<auth, presented>>

\* Mutant: the options of whoever subscribed last are kept for reconnecting.
subscribe_KeepsLatest(t, h, o) ==
    /\ Grants(o)
    /\ \/ SubscribeOpens(t, h, o) /\ opener' = [opener EXCEPT ![socket'] = o]
       \/ /\ task[t] = Idle /\ SamePair(o) /\ isConnectionExist
          /\ handle_subscribe(h, o)
          /\ known' = known \cup {h}
          /\ subscribe_options' = o
          /\ UNCHANGED <<isConnectionExist, socket, conns, task, faults, opener>>

subscribe(t, h, o) ==
    /\ Grants(o)
    /\ \/ SubscribeOpens(t, h, o) /\ opener' = [opener EXCEPT ![socket'] = o]
       \/ SubscribeShares(t, h, o) /\ UNCHANGED opener

\* The socket client refuses the symbol: the dictionary has been filled in.
subscribe_refused(t, o) ==
    /\ task[t] = Idle
    /\ ~SamePair(o)
    /\ Grants(o)
    /\ UNCHANGED <<vars, opener>>

\* get_sub_options: whatever is emitted carries "options" as they are by then.
emits ==
    /\ Emits
    /\ presented' = IF CanEmit
                    THEN [on |-> socket, credentials |-> filled[subscribe_options]]
                    ELSE presented
    /\ UNCHANGED <<auth, filled, opener, granted>>

-----------------------------------------------------------------------------
UltradeNext ==
    \/ Authenticate /\ UNCHANGED <<vars, filled, presented, opener, granted>>
    \/ \E t \in Tasks, o \in Options :
          subscribe_refused(t, o) \/ \E h \in HandlerIds : subscribe(t, h, o)
    \/ emits
    \/ Proceeds /\ UNCHANGED <<auth, filled, presented, opener, granted>>

UltradeSpec == UltradeInit /\ [][UltradeNext]_ultradeVars /\ ClientFairness

-----------------------------------------------------------------------------
Methods(credentials) ==
    {[method |-> "LOGIN", by |-> credentials.token],
     [method |-> "TRADING_KEY", by |-> credentials.tradingKey]}
        \ {[method |-> m, by |-> Nobody] : m \in {"LOGIN", "TRADING_KEY"}}

(***************************************************************************)
(* A connection presents only credentials under which subscribe was called *)
(* with the very dictionary that opened it, on every emission: however     *)
(* often it is lost, whoever shares it and whatever the client signs in as *)
(* meanwhile, and although an old connection's handler may run only when   *)
(* another connection is the current one.                                  *)
(***************************************************************************)
PresentsOpener ==
    presented.on # None =>
        Methods(presented.credentials) \subseteq granted[opener[presented.on]]

(***************************************************************************)
(* A subscription that leaves the maintenance and error streams to         *)
(* Client.subscribe keeps them for as long as it is in options_pool: no    *)
(* other subscription takes them along when it goes, and a call of         *)
(* unsubscribe that raises halfway raises before it gets to them, because  *)
(* they come last.                                                         *)
(***************************************************************************)
NoticesSurvive ==
    \A h \in DOMAIN options_pool, d \in Dicts :
        options_pool[h] = completed(d) /\ {MAINTENANCE, ERROR} \cap Range(d.streams) = {}
            => {MAINTENANCE, ERROR} \subseteq streams_pool

=============================================================================
