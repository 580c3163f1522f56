---------------------------- MODULE SocketClient ----------------------------
(***************************************************************************)
(* ultrade/socket_client.py, class SocketClient: the tasks of an           *)
(* application subscribe and unsubscribe over one shared websocket, which  *)
(* is opened for the first subscription and closed after the last.  The    *)
(* bookkeeping is SocketController's, which this module extends.           *)
(*                                                                         *)
(* A step is what one task or event handler does between two awaits.       *)
(* Every await on the socket is a point where others may run, whether or   *)
(* not the socketio version in use suspends there.                         *)
(*                                                                         *)
(* External (python-socketio and the server, modelled from their use in    *)
(* the code): a connection is established or refused, may be lost, and is  *)
(* then re-established by the library, which runs the connect handler each *)
(* time; emit raises unless its socket is connected; disconnect closes an  *)
(* established connection at once and returns later.  It does not stop a   *)
(* handshake or a reconnect task that is under way (shutdown would), so a  *)
(* socket that was lost when disconnect was called may still come back.    *)
(* The server remembers, for each connection, the streams subscribed and   *)
(* not unsubscribed, and forgets them with the connection.                 *)
(***************************************************************************)
EXTENDS SocketController

CONSTANTS
    Tasks,      \* the application's tasks; each makes one call at a time
    MaxFaults   \* bound: the number of refused and of lost connections

ASSUME ClientAssumption ==
    /\ \A o \in Options : o.symbol \in STRING
    /\ MaxFaults \in Nat

None == 0

\* The empty dictionary: .get("symbol") gives None, as falsy as the symbol "".
NoSubscribeOptions == [symbol |-> "", streams |-> <<>>]

VARIABLES
    isConnectionExist,
    socket,             \* the current AsyncClient: an index of conns, or None
    subscribe_options,  \* the options of the subscription that opened it
    conns,              \* every AsyncClient created so far, in order
    task,               \* where each task is in its call
    known,              \* the handler ids that calls have returned
    faults              \* the number of faults so far

clientVars ==
    <<isConnectionExist, socket, subscribe_options, conns, task, known, faults>>

vars == <<controllerVars, clientVars>>

\* state: of the connection; streams: subscribed at the server;
\* handler: is a call of connect_handler due?  stray: was it asked to disconnect
\* while it was not connected?
NewConnection ==
    [state |-> "connecting", streams |-> {}, handler |-> FALSE, stray |-> FALSE]

\* pc: the await the task is at; conn, id: the socket and handler id it holds there.
Idle == [pc |-> "idle", conn |-> None, id |-> 0]

ClientInit ==
    /\ ControllerInit
    /\ isConnectionExist = FALSE
    /\ socket = None
    /\ subscribe_options = NoSubscribeOptions
    /\ conns = <<>>
    /\ task = [t \in Tasks |-> Idle]
    /\ known = {}
    /\ faults = 0

Returns(t) == task' = [task EXCEPT ![t] = Idle]

-----------------------------------------------------------------------------
(***************************************************************************)
(* subscribe.  A call that SamePair refuses raises before it changes       *)
(* anything: it is a stuttering step.  An empty stored symbol is falsy, so *)
(* it refuses nothing.                                                     *)
(***************************************************************************)
SamePair(o) == subscribe_options.symbol \in {"", o.symbol}

\* No connection: create a socket and wait in connect (lines 39-46).
SubscribeOpens(t, h, o) ==
    /\ task[t] = Idle
    /\ SamePair(o)
    /\ ~isConnectionExist
    /\ handle_subscribe(h, o)
    /\ subscribe_options' = o
    /\ isConnectionExist' = TRUE
    /\ conns' = Append(conns, NewConnection)
    /\ socket' = Len(conns) + 1
    /\ task' = [task EXCEPT ![t] = [pc |-> "connect", conn |-> Len(conns) + 1, id |-> h]]
    /\ UNCHANGED <<known, faults>>

\* A connection exists: only register, and return the id (lines 50-52).
SubscribeShares(t, h, o) ==
    /\ task[t] = Idle
    /\ SamePair(o)
    /\ isConnectionExist
    /\ handle_subscribe(h, o)
    /\ known' = known \cup {h}
    /\ UNCHANGED <<isConnectionExist, socket, subscribe_options, conns, task, faults>>

\* Mutant: the call also waits until the server has been asked for a stream.
ConnectReturns_Subscribed(t) ==
    /\ task[t].pc = "connect"
    /\ conns[task[t].conn].streams # {}
    /\ known' = known \cup {task[t].id}
    /\ Returns(t)
    /\ UNCHANGED <<controllerVars, isConnectionExist, socket, subscribe_options, conns, faults>>

\* connect has succeeded: the id reaches the application (line 48).
ConnectReturns(t) ==
    /\ task[t].pc = "connect"
    /\ conns[task[t].conn].state # "connecting"
    /\ known' = known \cup {task[t].id}
    /\ Returns(t)
    /\ UNCHANGED <<controllerVars, isConnectionExist, socket, subscribe_options, conns, faults>>

\* Mutant: a refused connect is tried once more, on a socket of its own.
ConnectFails_Retries(t) ==
    /\ task[t].pc = "connect"
    /\ conns[task[t].conn].state = "connecting"
    /\ faults < MaxFaults
    /\ faults' = faults + 1
    /\ conns' = Append([conns EXCEPT ![task[t].conn].state = "closed"], NewConnection)
    /\ socket' = Len(conns) + 1
    /\ task' = [task EXCEPT ![t].conn = Len(conns) + 1]
    /\ UNCHANGED <<controllerVars, isConnectionExist, subscribe_options, known>>

\* connect raises: nothing undoes what subscribe has done, and the id is lost.
ConnectFails(t) ==
    /\ task[t].pc = "connect"
    /\ conns[task[t].conn].state = "connecting"
    /\ faults < MaxFaults
    /\ faults' = faults + 1
    /\ conns' = [conns EXCEPT ![task[t].conn].state = "closed"]
    /\ Returns(t)
    /\ UNCHANGED <<controllerVars, isConnectionExist, socket, subscribe_options, known>>

-----------------------------------------------------------------------------
(***************************************************************************)
(* The connections and their handlers.                                     *)
(***************************************************************************)
Established(c) ==
    /\ conns[c].state = "connecting"
    /\ conns' = [conns EXCEPT ![c].state = "connected", ![c].handler = TRUE]
    /\ UNCHANGED <<controllerVars, isConnectionExist, socket, subscribe_options, task, known, faults>>

Lost(c) ==
    /\ conns[c].state = "connected"
    /\ faults < MaxFaults
    /\ faults' = faults + 1
    /\ conns' = [conns EXCEPT ![c].state = "lost", ![c].streams = {}]
    /\ UNCHANGED <<controllerVars, isConnectionExist, socket, subscribe_options, task, known>>

Reconnected(c) ==
    /\ conns[c].state = "lost"
    /\ conns' = [conns EXCEPT ![c].state = "connected", ![c].handler = TRUE]
    /\ UNCHANGED <<controllerVars, isConnectionExist, socket, subscribe_options, task, known, faults>>

\* emit on self.socket goes through; otherwise it raises.
CanEmit == socket # None /\ conns[socket].state = "connected"

\* Mutant: subscribe only to the streams the connection was opened for.
connect_handler_OpenersStreams(c) ==
    /\ conns[c].handler
    /\ LET handled == [conns EXCEPT ![c].handler = FALSE]
       IN  conns' = IF CanEmit
                    THEN [handled EXCEPT ![socket].streams = @ \cup Range(subscribe_options.streams)]
                    ELSE handled
    /\ UNCHANGED <<controllerVars, isConnectionExist, socket, subscribe_options, task, known, faults>>

\* The handler of c emits on whichever socket is current by then.
connect_handler(c) ==
    /\ conns[c].handler
    /\ LET handled == [conns EXCEPT ![c].handler = FALSE]
       IN  conns' = IF CanEmit
                    THEN [handled EXCEPT ![socket].streams = @ \cup streams_pool]
                    ELSE handled
    /\ UNCHANGED <<controllerVars, isConnectionExist, socket, subscribe_options, task, known, faults>>

-----------------------------------------------------------------------------
(***************************************************************************)
(* unsubscribe.  The application passes any id it was ever returned.       *)
(***************************************************************************)

\* What AsyncClient.disconnect leaves of a connection.
Disconnected(conn) ==
    IF conn.state \in {"connecting", "lost"}
    THEN [conn EXCEPT !.stray = TRUE]
    ELSE [conn EXCEPT !.state = "closed", !.streams = {}]

\* Mutant: isConnectionExist is cleared but the socket is left open.
CloseIfUnused_LeavesOpen(t) ==
    /\ UNCHANGED <<socket, conns>>
    /\ isConnectionExist' = (isConnectionExist /\ streams_pool' # {})
    /\ Returns(t)

\* Lines 63-65: disconnect, and wait for it, if no stream is needed any more.
CloseIfUnused(t) ==
    \/ /\ streams_pool' # {}
       /\ Returns(t)
       /\ UNCHANGED <<isConnectionExist, socket, conns>>
    \/ /\ streams_pool' = {}
       /\ socket = None          \* None.disconnect() raises
       /\ isConnectionExist' = FALSE
       /\ Returns(t)
       /\ UNCHANGED <<socket, conns>>
    \/ /\ streams_pool' = {}
       /\ socket # None
       /\ isConnectionExist' = FALSE
       /\ conns' = [conns EXCEPT ![socket] = Disconnected(@)]
       /\ task' = [task EXCEPT ![t] = [pc |-> "disconnect", conn |-> socket, id |-> 0]]
       /\ UNCHANGED socket

\* The id is not in options_pool (any more): nothing to emit.
UnsubscribeUnknown(t, h) ==
    /\ task[t] = Idle
    /\ h \in known \ DOMAIN options_pool
    /\ UNCHANGED controllerVars
    /\ CloseIfUnused(t)
    /\ UNCHANGED <<subscribe_options, known, faults>>

\* Others still need all its streams: nothing to emit.
UnsubscribeQuietly(t, h) ==
    /\ task[t] = Idle
    /\ h \in known \cap DOMAIN options_pool
    /\ streams_to_delete(h) = {}
    /\ ~UnsubscribeRaises(h)
    /\ handle_unsubscribe(h)
    /\ CloseIfUnused(t)
    /\ UNCHANGED <<subscribe_options, known, faults>>

\* Tell the server which streams nobody needs, and wait in emit (lines 58-61).
UnsubscribeEmits(t, h) ==
    /\ task[t] = Idle
    /\ h \in known \cap DOMAIN options_pool
    /\ CanEmit
    /\ streams_to_delete(h) # {}
    /\ ~UnsubscribeRaises(h)
    /\ handle_unsubscribe(h)
    /\ conns' = [conns EXCEPT ![socket].streams = @ \ streams_to_delete(h)]
    /\ task' = [task EXCEPT ![t] = [pc |-> "emit", conn |-> socket, id |-> 0]]
    /\ UNCHANGED <<isConnectionExist, socket, subscribe_options, known, faults>>

\* handle_unsubscribe or emit raises: the call ends there.
UnsubscribeFails(t, h) ==
    /\ task[t] = Idle
    /\ h \in known \cap DOMAIN options_pool
    /\ \/ UnsubscribeRaises(h)
       \/ streams_to_delete(h) # {} /\ ~CanEmit
    /\ handle_unsubscribe(h)
    /\ UNCHANGED clientVars

\* Mutant: without line 63, what was unsubscribed last is taken to be all.
UnsubscribeResumes_WithoutLook(t) ==
    /\ task[t].pc = "emit"
    /\ UNCHANGED controllerVars
    /\ isConnectionExist' = FALSE
    /\ conns' = [conns EXCEPT ![task[t].conn] = Disconnected(@)]
    /\ task' = [task EXCEPT ![t].pc = "disconnect"]
    /\ UNCHANGED <<socket, subscribe_options, known, faults>>

\* emit has returned: the pool is read now, not before the await.
UnsubscribeResumes(t) ==
    /\ task[t].pc = "emit"
    /\ UNCHANGED controllerVars
    /\ CloseIfUnused(t)
    /\ UNCHANGED <<subscribe_options, known, faults>>

\* disconnect has returned (line 66): the current socket is dropped.
DisconnectReturns(t) ==
    /\ task[t].pc = "disconnect"
    /\ socket' = None
    /\ Returns(t)
    /\ UNCHANGED <<controllerVars, isConnectionExist, subscribe_options, conns, known, faults>>

-----------------------------------------------------------------------------
Subscribes ==
    \E t \in Tasks, h \in HandlerIds, o \in Options :
        SubscribeOpens(t, h, o) \/ SubscribeShares(t, h, o)

\* The steps that emit on the current socket, if anything is emitted at all.
Emits ==
    \/ \E t \in Tasks, h \in HandlerIds : UnsubscribeEmits(t, h)
    \/ \E c \in DOMAIN conns : connect_handler(c)

Proceeds ==
    \/ \E t \in Tasks :
          \/ \E h \in HandlerIds :
                \/ UnsubscribeUnknown(t, h)
                \/ UnsubscribeQuietly(t, h)
                \/ UnsubscribeFails(t, h)
          \/ ConnectReturns(t)
          \/ ConnectFails(t)
          \/ UnsubscribeResumes(t)
          \/ DisconnectReturns(t)
    \/ \E c \in DOMAIN conns : Established(c) \/ Lost(c) \/ Reconnected(c)

ClientNext == Subscribes \/ Emits \/ Proceeds

(***************************************************************************)
(* Fairness: the event loop runs every task and handler that can run, a    *)
(* connection attempt ends one way or the other (connect has a timeout)    *)
(* and the library goes on trying to re-establish a lost connection.  The  *)
(* application owes nothing.                                               *)
(***************************************************************************)
ClientFairness ==
    /\ \A t \in Tasks :
          WF_vars(ConnectReturns(t) \/ UnsubscribeResumes(t) \/ DisconnectReturns(t))
    /\ \A c \in HandlerIds :
          /\ WF_vars(c \in DOMAIN conns /\ (Established(c) \/ Reconnected(c)))
          /\ WF_vars(c \in DOMAIN conns /\ connect_handler(c))

ClientSpec == ClientInit /\ [][ClientNext]_vars /\ ClientFairness

-----------------------------------------------------------------------------
Connection ==
    [state   : {"connecting", "connected", "lost", "closed"},
     streams : SUBSET Streams,
     handler : BOOLEAN,
     stray   : BOOLEAN]

TaskState ==
    [pc : {"idle"}, conn : {None}, id : {0}]
        \cup [pc : {"connect"}, conn : DOMAIN conns, id : HandlerIds]
        \cup [pc : {"emit", "disconnect"}, conn : DOMAIN conns, id : {0}]

(***************************************************************************)
(* Every variable has the type the class gives it, and a call that waits   *)
(* holds a socket (and, in connect, the id it is to return).  No call      *)
(* creates more than one socket.                                           *)
(***************************************************************************)
ClientTypeOK ==
    /\ ControllerTypeOK
    /\ isConnectionExist \in BOOLEAN
    /\ socket \in {None} \cup DOMAIN conns
    /\ subscribe_options \in Options \cup {NoSubscribeOptions}
    /\ conns \in Seq(Connection)
    /\ Len(conns) <= calls
    /\ task \in [Tasks -> TaskState]
    /\ known \subseteq HandlerIds
    /\ faults \in 0 .. MaxFaults

(***************************************************************************)
(* Whenever the flag says there is no connection, so that the next         *)
(* subscribe opens one, no stream is left in the pool: whatever tasks do   *)
(* while others wait in emit or disconnect, an existing subscription is    *)
(* never taken for none.                                                   *)
(***************************************************************************)
NoConnectionNoStreams == ~isConnectionExist => streams_pool = {}

GivenUp(conn) == conn.state = "closed" \/ conn.stray

(***************************************************************************)
(* unsubscribe disconnects a socket, or gives up one it finds lost, only   *)
(* when no callback of any task is registered for any event, although      *)
(* other tasks may have subscribed while it waited in emit.                *)
(***************************************************************************)
NeverClosesInUse ==
    [][\A c \in DOMAIN conns :
          faults' = faults /\ ~GivenUp(conns[c]) /\ GivenUp(conns'[c]) =>
              \A e \in Events, h \in HandlerIds : callbacks_pool'[e][h] = 0]_vars

(***************************************************************************)
(* Every call of subscribe and unsubscribe ends.                           *)
(***************************************************************************)
CallsReturn == \A t \in Tasks : task[t] # Idle ~> task[t] = Idle

\* The streams that the subscriptions in options_pool name.
Wanted == UNION {Range(options_pool[h].streams) : h \in DOMAIN options_pool}

(***************************************************************************)
(* On the current socket the server never holds a stream that no           *)
(* subscription in options_pool names: through losses, reconnects, other   *)
(* tasks' calls, handlers of old sockets that run late, and calls of       *)
(* unsubscribe that raise before they tell the server.  It is meant for    *)
(* ids that do not collide and streams that carry events: LAST_CANDLESTICK *)
(* has none, and stays in the pool when its last subscription goes.        *)
(***************************************************************************)
CurrentSendsOnlyWanted == socket # None => conns[socket].streams \subseteq Wanted

(***************************************************************************)
(* For one task, the same of every connection there has ever been.         *)
(***************************************************************************)
ServerSendsOnlyWanted ==
    \A c \in DOMAIN conns : conns[c].streams \subseteq Wanted

(***************************************************************************)
(* For one task: at most one connection is open that no unsubscribe has    *)
(* asked to disconnect, however often one is refused, lost, re-established *)
(* and given up.  Those that disconnect found lost are beyond the client's *)
(* reach: UnsubscribeDisconnects.                                          *)
(***************************************************************************)
OneConnection ==
    \A c, d \in DOMAIN conns : ~GivenUp(conns[c]) /\ ~GivenUp(conns[d]) => c = d

(***************************************************************************)
(* For one task: once the library has re-established a lost connection,    *)
(* the connect handler asks the server again for every stream of the pool, *)
(* those of later subscribers included; unless unsubscribe drops its       *)
(* socket first.                                                           *)
(***************************************************************************)
LostConnectionRecovers ==
    \A c \in HandlerIds, s \in Streams :
        c = socket /\ conns[c].state = "lost" /\ s \in streams_pool
            ~> \/ s \notin streams_pool
               \/ socket # c
               \/ s \in conns[c].streams

(***************************************************************************)
(* For one task: while nothing fails, the connection is closed when the    *)
(* last stream has been unsubscribed, unless a new subscription comes.     *)
(***************************************************************************)
UnusedConnectionCloses ==
    streams_pool = {} /\ faults = 0
        ~> \/ \A c \in DOMAIN conns : conns[c].state = "closed"
           \/ streams_pool # {}
           \/ faults > 0

(***************************************************************************)
(* sdk_client.py:657, "Subscribe the client to websocket streams for the   *)
(* specified options": the server is eventually asked for every stream of  *)
(* a subscription, unless it is dropped first.                             *)
(***************************************************************************)
SubscriptionsReachServer ==
    \A h \in HandlerIds :
        h \in known /\ h \in DOMAIN options_pool
            ~> \/ h \notin DOMAIN options_pool
               \/ /\ socket # None
                  /\ Range(options_pool[h].streams) \subseteq conns[socket].streams

(***************************************************************************)
(* sdk_client.py:670, "The ID of the established connection": when no call *)
(* is under way, the subscription of every returned id has a socket.       *)
(***************************************************************************)
IdHasConnection ==
    (\A t \in Tasks : task[t] = Idle)
        => \A h \in known \cap DOMAIN options_pool :
              socket # None /\ conns[socket].state # "closed"

(***************************************************************************)
(* README.md:970, "The `unsubscribe` method is used to disconnect the      *)
(* client": when no call is under way and the client has taken its flag    *)
(* down, it holds no established connection.                               *)
(***************************************************************************)
UnsubscribeDisconnects ==
    (\A t \in Tasks : task[t] = Idle) /\ ~isConnectionExist
        => \A c \in DOMAIN conns : conns[c].state # "connected"

=============================================================================
