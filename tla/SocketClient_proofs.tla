------------------------- MODULE SocketClient_proofs -------------------------
(***************************************************************************)
(* Theorems about SocketClient, for any number of tasks, connections and   *)
(* faults.                                                                 *)
(***************************************************************************)
EXTENDS SocketClient, SocketController_proofs

-----------------------------------------------------------------------------
(***************************************************************************)
(* The client drives its controller only through the controller's methods. *)
(***************************************************************************)
LEMMA ClientStepIsControllerStep ==
    ASSUME [ClientNext]_vars
    PROVE  [ControllerNext]_controllerVars
<1>1. CASE UNCHANGED vars
  BY <1>1 DEF vars
<1>2. ASSUME NEW t \in Tasks, NEW h \in HandlerIds, NEW o \in Options,
             SubscribeOpens(t, h, o) \/ SubscribeShares(t, h, o)
      PROVE  Subscribe
  BY <1>2 DEF SubscribeOpens, SubscribeShares, Subscribe
<1>3. ASSUME NEW t \in Tasks, NEW h \in HandlerIds,
             UnsubscribeQuietly(t, h) \/ UnsubscribeEmits(t, h) \/ UnsubscribeFails(t, h)
      PROVE  Unsubscribe
  BY <1>3 DEF UnsubscribeQuietly, UnsubscribeEmits, UnsubscribeFails, Unsubscribe
<1>4. ASSUME NEW t \in Tasks, NEW h \in HandlerIds, UnsubscribeUnknown(t, h)
      PROVE  UNCHANGED controllerVars
  BY <1>4 DEF UnsubscribeUnknown
<1>5. ASSUME NEW t \in Tasks,
             \/ ConnectReturns(t) \/ ConnectFails(t)
             \/ UnsubscribeResumes(t) \/ DisconnectReturns(t)
      PROVE  UNCHANGED controllerVars
  BY <1>5 DEF ConnectReturns, ConnectFails, UnsubscribeResumes, DisconnectReturns
<1>6. ASSUME NEW c \in DOMAIN conns,
             Established(c) \/ Lost(c) \/ Reconnected(c) \/ connect_handler(c)
      PROVE  UNCHANGED controllerVars
  BY <1>6 DEF Established, Lost, Reconnected, connect_handler
<1> QED
  BY <1>1, <1>2, <1>3, <1>4, <1>5, <1>6 DEF ClientNext, Subscribes, Emits, Proceeds, ControllerNext

(***************************************************************************)
(* Whatever the interleaving of tasks, handlers and faults, the pools of a *)
(* client behave as SocketController does on its own.                      *)
(***************************************************************************)
THEOREM ClientImplementsController == ClientSpec => ControllerSpec
<1>1. ClientInit => ControllerInit
  BY DEF ClientInit
<1> QED
  BY <1>1, ClientStepIsControllerStep, PTL DEF ClientSpec, ControllerSpec

(***************************************************************************)
(* A shared connection serves each subscription apart: no task can cost    *)
(* another task's handler a stream or a callback.                          *)
(***************************************************************************)
THEOREM ClientIsolation == ClientSpec => OthersUndisturbed
BY ClientImplementsController, SubscriptionsAreIsolated

(***************************************************************************)
(* Concurrent tasks that connect, lose connections and raise still take    *)
(* and release whole streams, one registry step at a time.                 *)
(***************************************************************************)
THEOREM ClientImplementsRegistry == ClientSpec => ImplementsRegistry
BY ClientImplementsController, ControllerImplementsRegistry

-----------------------------------------------------------------------------
(***************************************************************************)
(* Effects of the actions on the state that the invariants read.           *)
(***************************************************************************)
LEMMA UnsubscribeShrinksPool ==
    ASSUME NEW t \in Tasks, NEW h \in HandlerIds,
           \/ UnsubscribeUnknown(t, h) \/ UnsubscribeQuietly(t, h)
           \/ UnsubscribeEmits(t, h)   \/ UnsubscribeFails(t, h)
    PROVE  streams_pool' \subseteq streams_pool
BY DEF UnsubscribeUnknown, UnsubscribeQuietly, UnsubscribeEmits, UnsubscribeFails,
       handle_unsubscribe, controllerVars

LEMMA CloseNeedsEmptyPool ==
    ASSUME NEW t \in Tasks, CloseIfUnused(t)
    PROVE  isConnectionExist' = isConnectionExist \/ streams_pool' = {}
BY DEF CloseIfUnused

LEMMA NextFlagInv ==
    ASSUME NoConnectionNoStreams, [ClientNext]_vars
    PROVE  NoConnectionNoStreams'
<1>1. CASE UNCHANGED vars
  BY <1>1 DEF vars, controllerVars, clientVars, NoConnectionNoStreams
<1>2. ASSUME NEW t \in Tasks, NEW h \in HandlerIds, NEW o \in Options,
             SubscribeOpens(t, h, o) \/ SubscribeShares(t, h, o)
      PROVE  NoConnectionNoStreams'
  BY <1>2 DEF SubscribeOpens, SubscribeShares, NoConnectionNoStreams
<1>3. ASSUME NEW t \in Tasks, NEW h \in HandlerIds,
             \/ UnsubscribeUnknown(t, h) \/ UnsubscribeQuietly(t, h)
             \/ UnsubscribeEmits(t, h)   \/ UnsubscribeFails(t, h)
      PROVE  NoConnectionNoStreams'
  <2>1. streams_pool' \subseteq streams_pool
    BY <1>3, UnsubscribeShrinksPool
  <2>2. isConnectionExist' = isConnectionExist \/ streams_pool' = {}
    BY <1>3, CloseNeedsEmptyPool
       DEF UnsubscribeUnknown, UnsubscribeQuietly, UnsubscribeEmits, UnsubscribeFails, clientVars
  <2> QED
    BY <2>1, <2>2 DEF NoConnectionNoStreams
<1>4. ASSUME NEW t \in Tasks, UnsubscribeResumes(t)
      PROVE  NoConnectionNoStreams'
  BY <1>4, CloseNeedsEmptyPool
     DEF UnsubscribeResumes, controllerVars, NoConnectionNoStreams
<1>5. ASSUME NEW t \in Tasks, ConnectReturns(t) \/ ConnectFails(t) \/ DisconnectReturns(t)
      PROVE  NoConnectionNoStreams'
  BY <1>5 DEF ConnectReturns, ConnectFails, DisconnectReturns, controllerVars,
              NoConnectionNoStreams
<1>6. ASSUME NEW c \in DOMAIN conns,
             Established(c) \/ Lost(c) \/ Reconnected(c) \/ connect_handler(c)
      PROVE  NoConnectionNoStreams'
  BY <1>6 DEF Established, Lost, Reconnected, connect_handler, controllerVars,
              NoConnectionNoStreams
<1> QED
  BY <1>1, <1>2, <1>3, <1>4, <1>5, <1>6 DEF ClientNext, Subscribes, Emits, Proceeds

(***************************************************************************)
(* isConnectionExist is false only while no stream is in the pool, so no   *)
(* subscription is ever left behind by a subscribe that opens a second     *)
(* connection.                                                             *)
(***************************************************************************)
THEOREM FlagCoversPool == ClientSpec => []NoConnectionNoStreams
<1>1. ClientInit => NoConnectionNoStreams
  BY DEF ClientInit, ControllerInit, NoConnectionNoStreams
<1> QED
  BY <1>1, NextFlagInv, PTL DEF ClientSpec

-----------------------------------------------------------------------------
(***************************************************************************)
(* Type correctness of the client.                                         *)
(***************************************************************************)
LEMMA ClosedType ==
    ASSUME NEW r \in Connection
    PROVE  [r EXCEPT !.state = "closed"] \in Connection
BY DEF Connection

(***************************************************************************)
(* What disconnect does to a connection: it is given up, and loses its     *)
(* streams unless it was not connected.                                    *)
(***************************************************************************)
LEMMA DisconnectedFacts ==
    ASSUME NEW r \in Connection
    PROVE  /\ Disconnected(r) \in Connection
           /\ GivenUp(Disconnected(r))
           /\ Disconnected(r).state # "connected"
           /\ \/ Disconnected(r).streams = {}
              \/ Disconnected(r).streams = r.streams /\ r.state # "connected"
<1>1. CASE r.state \in {"connecting", "lost"}
  BY <1>1 DEF Disconnected, GivenUp, Connection
<1>2. CASE r.state \notin {"connecting", "lost"}
  BY <1>2 DEF Disconnected, GivenUp, Connection
<1> QED
  BY <1>1, <1>2

LEMMA StreamsUpdateType ==
    ASSUME NEW r \in Connection, NEW sent \in SUBSET Streams
    PROVE  [r EXCEPT !.streams = sent] \in Connection
BY DEF Connection

(***************************************************************************)
(* An action of a connection or handler changes conns entry by entry.      *)
(***************************************************************************)
LEMMA ConnsTypeOK ==
    ASSUME ClientTypeOK, NEW c \in DOMAIN conns,
           Established(c) \/ Lost(c) \/ Reconnected(c) \/ connect_handler(c)
    PROVE  conns' \in Seq(Connection) /\ DOMAIN conns' = DOMAIN conns
<1>1. /\ conns \in Seq(Connection) /\ streams_pool \in SUBSET Streams
      /\ \A i \in DOMAIN conns : conns[i] \in Connection
  BY DEF ClientTypeOK, ControllerTypeOK
<1>2. CASE Established(c)
  BY <1>1, <1>2 DEF Established, Connection
<1>3. CASE Lost(c)
  BY <1>1, <1>3 DEF Lost, Connection
<1>4. CASE Reconnected(c)
  BY <1>1, <1>4 DEF Reconnected, Connection
<1>5. CASE connect_handler(c)
  <2> DEFINE handled == [conns EXCEPT ![c].handler = FALSE]
  <2>1. handled \in Seq(Connection) /\ DOMAIN handled = DOMAIN conns
    <3>1. [conns[c] EXCEPT !.handler = FALSE] \in Connection
      BY <1>1 DEF Connection
    <3> QED
      BY <1>1, <3>1
  <2>2. CASE ~CanEmit
    BY <1>5, <2>1, <2>2 DEF connect_handler
  <2>3. CASE CanEmit
    <3>1. conns' = [handled EXCEPT ![socket].streams = @ \cup streams_pool]
      BY <1>5, <2>3 DEF connect_handler
    <3>2. socket \in DOMAIN handled
      BY <2>1, <2>3 DEF CanEmit, ClientTypeOK
    <3>3. handled[socket] \in Connection
      BY <2>1, <3>2
    <3> HIDE DEF handled
    <3>4. [handled[socket] EXCEPT !.streams = @ \cup streams_pool] \in Connection
      BY <1>1, <3>3 DEF Connection
    <3> QED
      BY <2>1, <3>1, <3>2, <3>4
  <2> QED
    BY <2>2, <2>3
<1> QED
  BY <1>2, <1>3, <1>4, <1>5

LEMMA ControllerTypeStep ==
    ASSUME ClientTypeOK, [ClientNext]_vars
    PROVE  ControllerTypeOK'
BY ClientStepIsControllerStep, NextTypeOK DEF ClientTypeOK

LEMMA SubscribeClientType ==
    ASSUME ClientTypeOK, ControllerTypeOK',
           NEW t \in Tasks, NEW h \in HandlerIds, NEW o \in Options,
           SubscribeOpens(t, h, o) \/ SubscribeShares(t, h, o)
    PROVE  ClientTypeOK'
<1>1. calls' = calls + 1 /\ calls \in Nat
  BY DEF SubscribeOpens, SubscribeShares, handle_subscribe, ClientTypeOK, ControllerTypeOK
<1>2. CASE SubscribeOpens(t, h, o)
  <2> DEFINE c == Len(conns) + 1
  <2>1. NewConnection \in Connection
    BY DEF NewConnection, Connection
  <2>2. conns' = Append(conns, NewConnection) /\ conns \in Seq(Connection)
    BY <1>2 DEF SubscribeOpens, ClientTypeOK
  <2>3. /\ conns' \in Seq(Connection)
        /\ Len(conns') = c
        /\ DOMAIN conns' = DOMAIN conns \cup {c}
    BY <2>1, <2>2
  <2>4. [pc |-> "connect", conn |-> c, id |-> h] \in TaskState'
    BY <2>3 DEF TaskState
  <2>5. task' \in [Tasks -> TaskState']
    BY <1>2, <2>3, <2>4 DEF SubscribeOpens, ClientTypeOK, TaskState
  <2>6. Len(conns') <= calls'
    BY <1>1, <2>2, <2>3 DEF ClientTypeOK
  <2> QED
    BY <1>2, <2>3, <2>5, <2>6 DEF SubscribeOpens, ClientTypeOK
<1>3. CASE SubscribeShares(t, h, o)
  BY <1>1, <1>3 DEF SubscribeShares, ClientTypeOK, TaskState
<1> QED
  BY <1>2, <1>3

LEMMA CloseClientType ==
    ASSUME ClientTypeOK, NEW t \in Tasks, CloseIfUnused(t)
    PROVE  /\ isConnectionExist' \in BOOLEAN
           /\ socket' \in {None} \cup DOMAIN conns'
           /\ conns' \in Seq(Connection)
           /\ Len(conns') = Len(conns)
           /\ task' \in [Tasks -> TaskState']
<1>1. CASE Returns(t) /\ UNCHANGED <<socket, conns>>
  <2>1. isConnectionExist' \in BOOLEAN
    BY DEF CloseIfUnused, ClientTypeOK
  <2>2. task' \in [Tasks -> TaskState']
    BY <1>1 DEF Returns, Idle, TaskState, ClientTypeOK
  <2> QED
    BY <1>1, <2>1, <2>2 DEF ClientTypeOK
<1>2. CASE /\ socket # None
           /\ isConnectionExist' = FALSE
           /\ conns' = [conns EXCEPT ![socket] = Disconnected(@)]
           /\ task' = [task EXCEPT ![t] = [pc |-> "disconnect", conn |-> socket, id |-> 0]]
           /\ UNCHANGED socket
  <2>1. socket \in DOMAIN conns /\ conns \in Seq(Connection)
    BY <1>2 DEF ClientTypeOK
  <2>2. Disconnected(conns[socket]) \in Connection
    <3>1. conns[socket] \in Connection
      BY <2>1
    <3> QED
      BY <3>1, DisconnectedFacts
  <2>3. /\ conns' \in Seq(Connection)
        /\ Len(conns') = Len(conns)
        /\ DOMAIN conns' = DOMAIN conns
    BY <1>2, <2>1, <2>2
  <2>4. task' \in [Tasks -> TaskState']
    BY <1>2, <2>1, <2>3 DEF TaskState, ClientTypeOK
  <2> QED
    BY <1>2, <2>1, <2>3, <2>4
<1> QED
  BY <1>1, <1>2 DEF CloseIfUnused

LEMMA UnsubscribeClientType ==
    ASSUME ClientTypeOK, ControllerTypeOK', NEW t \in Tasks,
           \/ UnsubscribeResumes(t)
           \/ \E h \in HandlerIds :
                 \/ UnsubscribeUnknown(t, h) \/ UnsubscribeQuietly(t, h)
                 \/ UnsubscribeEmits(t, h)   \/ UnsubscribeFails(t, h)
    PROVE  ClientTypeOK'
<1>1. calls' = calls
  BY DEF UnsubscribeResumes, UnsubscribeUnknown, UnsubscribeQuietly, UnsubscribeEmits,
         UnsubscribeFails, handle_unsubscribe, controllerVars
<1>2. CASE CloseIfUnused(t) /\ UNCHANGED <<subscribe_options, known, faults>>
  BY <1>1, <1>2, CloseClientType DEF ClientTypeOK
<1>3. ASSUME NEW h \in HandlerIds, UnsubscribeEmits(t, h)
      PROVE  ClientTypeOK'
  <2>1. /\ socket \in DOMAIN conns
        /\ conns \in Seq(Connection)
        /\ conns' = [conns EXCEPT ![socket].streams = @ \ streams_to_delete(h)]
    BY <1>3 DEF UnsubscribeEmits, CanEmit, ClientTypeOK
  <2>2. [conns[socket] EXCEPT !.streams = @ \ streams_to_delete(h)] \in Connection
    <3>1. conns[socket] \in Connection
      BY <2>1
    <3>2. conns[socket].streams \ streams_to_delete(h) \in SUBSET Streams
      BY <3>1 DEF Connection
    <3> QED
      BY <3>1, <3>2, StreamsUpdateType
  <2>3. /\ conns' \in Seq(Connection)
        /\ Len(conns') = Len(conns)
        /\ DOMAIN conns' = DOMAIN conns
    BY <2>1, <2>2
  <2>4. task' \in [Tasks -> TaskState']
    BY <1>3, <2>1, <2>3 DEF UnsubscribeEmits, TaskState, ClientTypeOK
  <2> QED
    BY <1>1, <1>3, <2>1, <2>3, <2>4 DEF UnsubscribeEmits, ClientTypeOK
<1>4. ASSUME NEW h \in HandlerIds, UnsubscribeFails(t, h)
      PROVE  ClientTypeOK'
  BY <1>1, <1>4 DEF UnsubscribeFails, clientVars, ClientTypeOK, TaskState
<1> QED
  BY <1>2, <1>3, <1>4 DEF UnsubscribeResumes, UnsubscribeUnknown, UnsubscribeQuietly

LEMMA ReturnClientType ==
    ASSUME ClientTypeOK, NEW t \in Tasks,
           ConnectReturns(t) \/ ConnectFails(t) \/ DisconnectReturns(t)
    PROVE  ClientTypeOK'
<1>1. UNCHANGED controllerVars
  BY DEF ConnectReturns, ConnectFails, DisconnectReturns
<1>2. ControllerTypeOK' /\ calls' = calls
  BY <1>1 DEF controllerVars, ClientTypeOK, ControllerTypeOK
<1>3. /\ conns' \in Seq(Connection)
      /\ Len(conns') = Len(conns)
      /\ DOMAIN conns' = DOMAIN conns
  <2>1. CASE ConnectFails(t)
    <3>1. /\ task[t].conn \in DOMAIN conns
          /\ conns \in Seq(Connection)
          /\ conns' = [conns EXCEPT ![task[t].conn].state = "closed"]
      BY <2>1 DEF ConnectFails, ClientTypeOK, TaskState
    <3>2. [conns[task[t].conn] EXCEPT !.state = "closed"] \in Connection
      <4>1. conns[task[t].conn] \in Connection
        BY <3>1
      <4> QED
        BY <4>1, ClosedType
    <3> QED
      BY <3>1, <3>2
  <2>2. CASE ConnectReturns(t) \/ DisconnectReturns(t)
    BY <2>2 DEF ConnectReturns, DisconnectReturns, ClientTypeOK
  <2> QED
    BY <2>1, <2>2
<1>4. task' \in [Tasks -> TaskState']
  BY <1>3 DEF ConnectReturns, ConnectFails, DisconnectReturns, Returns, Idle,
              TaskState, ClientTypeOK
<1>5. known' \subseteq HandlerIds
  BY DEF ConnectReturns, ConnectFails, DisconnectReturns, TaskState, ClientTypeOK
<1>6. faults' \in 0 .. MaxFaults
  BY ClientAssumption DEF ConnectReturns, ConnectFails, DisconnectReturns, ClientTypeOK
<1>7. /\ isConnectionExist' \in BOOLEAN
      /\ socket' \in {None} \cup DOMAIN conns'
      /\ subscribe_options' \in Options \cup {NoSubscribeOptions}
  BY <1>3 DEF ConnectReturns, ConnectFails, DisconnectReturns, ClientTypeOK
<1> QED
  BY <1>2, <1>3, <1>4, <1>5, <1>6, <1>7 DEF ClientTypeOK

LEMMA ConnectionClientType ==
    ASSUME ClientTypeOK, NEW c \in DOMAIN conns,
           Established(c) \/ Lost(c) \/ Reconnected(c) \/ connect_handler(c)
    PROVE  ClientTypeOK'
<1>1. /\ conns' \in Seq(Connection)
      /\ DOMAIN conns' = DOMAIN conns
  BY ConnsTypeOK
<1>2. Len(conns') = Len(conns)
  BY <1>1 DEF ClientTypeOK
<1>3. /\ UNCHANGED <<controllerVars, isConnectionExist, socket, subscribe_options, task, known>>
      /\ faults' \in 0 .. MaxFaults
  BY ClientAssumption DEF Established, Lost, Reconnected, connect_handler, ClientTypeOK
<1>4. ControllerTypeOK' /\ calls' = calls
  BY <1>3 DEF controllerVars, ClientTypeOK, ControllerTypeOK
<1>5. TaskState' = TaskState
  BY <1>1 DEF TaskState
<1> QED
  BY <1>1, <1>2, <1>3, <1>4, <1>5 DEF ClientTypeOK

LEMMA NextClientType ==
    ASSUME ClientTypeOK, [ClientNext]_vars
    PROVE  ClientTypeOK'
<1>1. ControllerTypeOK'
  BY ControllerTypeStep
<1>2. CASE UNCHANGED vars
  BY <1>1, <1>2 DEF vars, controllerVars, clientVars, ClientTypeOK, TaskState
<1>3. CASE ClientNext
  BY <1>1, <1>3, SubscribeClientType, UnsubscribeClientType, ReturnClientType,
     ConnectionClientType
     DEF ClientNext, Subscribes, Emits, Proceeds
<1> QED
  BY <1>2, <1>3

LEMMA InitClientType == ClientInit => ClientTypeOK
<1> SUFFICES ASSUME ClientInit PROVE ClientTypeOK
  OBVIOUS
<1>1. ControllerTypeOK /\ Len(conns) = 0 /\ calls = 0
  BY InitTypeOK DEF ClientInit, ControllerInit
<1>2. task \in [Tasks -> TaskState]
  BY DEF ClientInit, Idle, TaskState
<1>3. conns \in Seq(Connection) /\ Len(conns) <= calls
  BY <1>1 DEF ClientInit
<1>4. faults \in 0 .. MaxFaults
  BY ClientAssumption DEF ClientInit
<1>5. known \subseteq HandlerIds
  BY DEF ClientInit
<1> QED
  BY <1>1, <1>2, <1>3, <1>4, <1>5 DEF ClientInit, ClientTypeOK

(***************************************************************************)
(* The variables of SocketClient keep their types, and every task that     *)
(* waits holds a socket that exists.                                       *)
(***************************************************************************)
THEOREM ClientTypeCorrect == ClientSpec => []ClientTypeOK
BY InitClientType, NextClientType, PTL DEF ClientSpec

-----------------------------------------------------------------------------
(***************************************************************************)
(* What a handler leaves, connection by connection.                        *)
(***************************************************************************)
LEMMA HandlerEffect ==
    ASSUME ClientTypeOK, NEW c \in DOMAIN conns, connect_handler(c)
    PROVE  /\ DOMAIN conns' = DOMAIN conns
           /\ \A d \in DOMAIN conns :
                 /\ conns'[d].state = conns[d].state
                 /\ conns'[d].stray = conns[d].stray
                 /\ conns'[d].streams = IF CanEmit /\ d = socket
                                        THEN conns[d].streams \cup streams_pool
                                        ELSE conns[d].streams
<1> DEFINE handled == [conns EXCEPT ![c].handler = FALSE]
<1>1. \A d \in DOMAIN conns : conns[d] \in Connection
  BY DEF ClientTypeOK
<1>2. /\ DOMAIN handled = DOMAIN conns
      /\ \A d \in DOMAIN conns : /\ handled[d] \in Connection
                                  /\ handled[d].state = conns[d].state
                                  /\ handled[d].stray = conns[d].stray
                                  /\ handled[d].streams = conns[d].streams
  BY <1>1 DEF Connection
<1>3. conns' = IF CanEmit THEN [handled EXCEPT ![socket].streams = @ \cup streams_pool]
                          ELSE handled
  BY DEF connect_handler
<1>4. CanEmit => socket \in DOMAIN conns
  BY DEF CanEmit, ClientTypeOK
<1> HIDE DEF handled
<1>5. CASE ~CanEmit
  BY <1>2, <1>3, <1>5
<1>6. CASE CanEmit
  BY <1>2, <1>3, <1>4, <1>6 DEF Connection
<1> QED
  BY <1>5, <1>6

-----------------------------------------------------------------------------
(***************************************************************************)
(* Closing.                                                                *)
(***************************************************************************)
LEMMA ClosesOnlyUnused ==
    ASSUME ClientTypeOK, [ClientNext]_vars, NEW c \in DOMAIN conns,
           ~GivenUp(conns[c]), GivenUp(conns'[c]), faults' = faults
    PROVE  streams_pool' = {}
<1> USE DEF ClientTypeOK
<1>1. conns \in Seq(Connection) /\ conns[c] \in Connection
  OBVIOUS
<1>2. conns' # conns
  OBVIOUS
<1>3. ASSUME NEW t \in Tasks, CloseIfUnused(t) PROVE streams_pool' = {}
  BY <1>2, <1>3 DEF CloseIfUnused
<1>4. ASSUME NEW t \in Tasks, NEW h \in HandlerIds, NEW o \in Options,
             SubscribeOpens(t, h, o) \/ SubscribeShares(t, h, o)
      PROVE  FALSE
  BY <1>1, <1>2, <1>4 DEF SubscribeOpens, SubscribeShares
<1>5. ASSUME NEW t \in Tasks, NEW h \in HandlerIds, UnsubscribeEmits(t, h)
      PROVE  FALSE
  BY <1>1, <1>5 DEF UnsubscribeEmits, Connection, GivenUp
<1>6. ASSUME NEW d \in DOMAIN conns,
             Established(d) \/ Lost(d) \/ Reconnected(d)
      PROVE  FALSE
  BY <1>1, <1>6 DEF Established, Lost, Reconnected, Connection, GivenUp
<1>7. ASSUME NEW d \in DOMAIN conns, connect_handler(d)
      PROVE  FALSE
  BY <1>7, HandlerEffect DEF GivenUp
<1>8. ASSUME NEW t \in Tasks, ConnectFails(t) PROVE FALSE
  BY <1>8 DEF ConnectFails
<1>9. ASSUME NEW t \in Tasks, NEW h \in HandlerIds,
             UnsubscribeUnknown(t, h) \/ UnsubscribeQuietly(t, h) \/ UnsubscribeFails(t, h)
      PROVE  streams_pool' = {}
  BY <1>2, <1>3, <1>9
     DEF UnsubscribeUnknown, UnsubscribeQuietly, UnsubscribeFails, clientVars
<1>10. ASSUME NEW t \in Tasks,
              ConnectReturns(t) \/ UnsubscribeResumes(t) \/ DisconnectReturns(t)
       PROVE  streams_pool' = {}
  BY <1>2, <1>3, <1>10 DEF ConnectReturns, UnsubscribeResumes, DisconnectReturns
<1>11. ClientNext
  BY <1>2 DEF vars, clientVars
<1> QED
  BY <1>4, <1>5, <1>6, <1>7, <1>8, <1>9, <1>10, <1>11 DEF ClientNext, Subscribes, Emits, Proceeds

(***************************************************************************)
(* No unsubscribe disconnects a socket, or gives up one it finds lost,     *)
(* while some task's callback needs it, however the calls interleave at    *)
(* their awaits.                                                           *)
(***************************************************************************)
THEOREM ClosingIsSafe == ClientSpec => NeverClosesInUse
<1> DEFINE Safe ==
             \A c \in DOMAIN conns :
                faults' = faults /\ ~GivenUp(conns[c]) /\ GivenUp(conns'[c]) =>
                   \A e \in Events, h \in HandlerIds : callbacks_pool'[e][h] = 0
<1>1. ASSUME ClientTypeOK, PoolMatchesCallbacks', ClientTypeOK', [ClientNext]_vars
      PROVE  Safe
  <2> SUFFICES ASSUME NEW c \in DOMAIN conns,
                      faults' = faults, ~GivenUp(conns[c]), GivenUp(conns'[c]),
                      NEW e \in Events, NEW h \in HandlerIds
               PROVE  callbacks_pool'[e][h] = 0
    OBVIOUS
  <2>1. streams_pool' = {}
    BY <1>1, ClosesOnlyUnused
  <2>2. ~(callbacks_pool'[e][h] > 0)
    BY <1>1, <2>1 DEF PoolMatchesCallbacks
  <2>3. callbacks_pool'[e][h] \in Nat
    BY <1>1 DEF ClientTypeOK, ControllerTypeOK
  <2> QED
    BY <2>2, <2>3
<1>2. ClientSpec => []PoolMatchesCallbacks
  BY ClientImplementsController, PoolCountsReferences
<1> QED
  BY <1>1, <1>2, ClientTypeCorrect, PTL DEF ClientSpec, NeverClosesInUse

-----------------------------------------------------------------------------
(***************************************************************************)
(* What the server sends.  The strengthening: a connection that is not up  *)
(* has nothing subscribed, and the pool holds streams with events only.    *)
(***************************************************************************)
AllCarryEvents ==
    \A o \in Options : \A s \in Range(o.streams) : \E e \in Events : stream_value(e) = s

PoolCarriesEvents == \A s \in streams_pool : \E e \in Events : stream_value(e) = s

OnlyConnectedServed ==
    \A c \in DOMAIN conns : conns[c].state # "connected" => conns[c].streams = {}

(***************************************************************************)
(* An unsubscription disconnects the current socket at most, and leaves    *)
(* every other connection alone.                                           *)
(***************************************************************************)
LEMMA CloseEffect ==
    ASSUME ClientTypeOK, NEW t \in Tasks, CloseIfUnused(t)
    PROVE  /\ DOMAIN conns' = DOMAIN conns
           /\ socket' = socket
           /\ \A d \in DOMAIN conns :
                 \/ conns'[d] = conns[d]
                 \/ d = socket /\ conns'[d] = Disconnected(conns[d]) /\ ~isConnectionExist'
<1>1. \A d \in DOMAIN conns : conns[d] \in Connection
  BY DEF ClientTypeOK
<1>2. CASE UNCHANGED <<socket, conns>>
  BY <1>2
<1>3. CASE /\ socket # None
           /\ isConnectionExist' = FALSE
           /\ conns' = [conns EXCEPT ![socket] = Disconnected(@)]
           /\ UNCHANGED socket
  BY <1>1, <1>3 DEF Connection, ClientTypeOK
<1> QED
  BY <1>2, <1>3 DEF CloseIfUnused

LEMMA NextServed ==
    ASSUME ClientTypeOK, OnlyConnectedServed, [ClientNext]_vars
    PROVE  OnlyConnectedServed'
<1>1. conns \in Seq(Connection) /\ \A d \in DOMAIN conns : conns[d] \in Connection
  BY DEF ClientTypeOK
<1>2. CASE UNCHANGED conns
  BY <1>2 DEF OnlyConnectedServed
<1>3. ASSUME NEW t \in Tasks, NEW h \in HandlerIds, NEW o \in Options, SubscribeOpens(t, h, o)
      PROVE  OnlyConnectedServed'
  BY <1>1, <1>3 DEF SubscribeOpens, NewConnection, OnlyConnectedServed
<1>4. ASSUME NEW t \in Tasks, CloseIfUnused(t)
      PROVE  OnlyConnectedServed'
  BY <1>1, <1>4, CloseEffect, DisconnectedFacts DEF OnlyConnectedServed
<1>5. ASSUME NEW t \in Tasks, NEW h \in HandlerIds, UnsubscribeEmits(t, h)
      PROVE  OnlyConnectedServed'
  <2>1. socket \in DOMAIN conns /\ conns[socket].state = "connected"
    BY <1>5 DEF UnsubscribeEmits, CanEmit, ClientTypeOK
  <2> QED
    BY <1>1, <1>5, <2>1 DEF UnsubscribeEmits, Connection, OnlyConnectedServed
<1>6. ASSUME NEW t \in Tasks, ConnectFails(t)
      PROVE  OnlyConnectedServed'
  <2>1. task[t].conn \in DOMAIN conns /\ conns[task[t].conn].streams = {}
    BY <1>6 DEF ConnectFails, ClientTypeOK, TaskState, OnlyConnectedServed
  <2> QED
    BY <1>1, <1>6, <2>1 DEF ConnectFails, Connection, OnlyConnectedServed
<1>7. ASSUME NEW c \in DOMAIN conns, Established(c) \/ Lost(c) \/ Reconnected(c)
      PROVE  OnlyConnectedServed'
  <2>1. CASE Established(c)
    BY <1>1, <2>1 DEF Established, Connection, OnlyConnectedServed
  <2>2. CASE Lost(c)
    BY <1>1, <2>2 DEF Lost, Connection, OnlyConnectedServed
  <2>3. CASE Reconnected(c)
    BY <1>1, <2>3 DEF Reconnected, Connection, OnlyConnectedServed
  <2> QED
    BY <1>7, <2>1, <2>2, <2>3
<1>8. ASSUME NEW c \in DOMAIN conns, connect_handler(c)
      PROVE  OnlyConnectedServed'
  BY <1>8, HandlerEffect DEF CanEmit, OnlyConnectedServed
<1>9. UNCHANGED vars => UNCHANGED conns
  BY DEF vars, clientVars
<1>10. ASSUME NEW t \in Tasks, NEW h \in HandlerIds,
              UnsubscribeUnknown(t, h) \/ UnsubscribeQuietly(t, h) \/ UnsubscribeFails(t, h)
       PROVE  UNCHANGED conns \/ CloseIfUnused(t)
  BY <1>10 DEF UnsubscribeUnknown, UnsubscribeQuietly, UnsubscribeFails, clientVars
<1>11. ASSUME NEW t \in Tasks, ConnectReturns(t) \/ UnsubscribeResumes(t) \/ DisconnectReturns(t)
       PROVE  UNCHANGED conns \/ CloseIfUnused(t)
  BY <1>11 DEF ConnectReturns, UnsubscribeResumes, DisconnectReturns
<1>12. ASSUME NEW t \in Tasks, NEW h \in HandlerIds, NEW o \in Options, SubscribeShares(t, h, o)
       PROVE  UNCHANGED conns
  BY <1>12 DEF SubscribeShares
<1> QED
  BY <1>2, <1>3, <1>4, <1>5, <1>6, <1>7, <1>8, <1>9, <1>10, <1>11, <1>12
     DEF ClientNext, Subscribes, Emits, Proceeds

LEMMA NextPoolCarries ==
    ASSUME AllCarryEvents, PoolCarriesEvents, [ControllerNext]_controllerVars
    PROVE  PoolCarriesEvents'
<1>1. ASSUME NEW h \in HandlerIds, NEW o \in Options, handle_subscribe(h, o)
      PROVE  PoolCarriesEvents'
  BY <1>1 DEF handle_subscribe, AllCarryEvents, PoolCarriesEvents
<1>2. ASSUME NEW h \in HandlerIds, handle_unsubscribe(h)
      PROVE  PoolCarriesEvents'
  BY <1>2 DEF handle_unsubscribe, PoolCarriesEvents
<1>3. CASE UNCHANGED controllerVars
  BY <1>3 DEF controllerVars, PoolCarriesEvents
<1> QED
  BY <1>1, <1>2, <1>3 DEF ControllerNext, Subscribe, Unsubscribe

(***************************************************************************)
(* What the pool asks for, some subscription names: by PoolMatchesCallbacks*)
(* it has a callback, and by NoOrphanCallbacks the callback has an owner.  *)
(***************************************************************************)
LEMMA PoolIsWanted ==
    ASSUME ~CoarseClock, PoolCarriesEvents, PoolMatchesCallbacks, NoOrphanCallbacks
    PROVE  streams_pool \subseteq Wanted
BY DEF PoolCarriesEvents, PoolMatchesCallbacks, NoOrphanCallbacks, Wanted

LEMMA SubscribeKeepsWanted ==
    ASSUME ~CoarseClock, OrphanInv,
           NEW h \in HandlerIds, NEW o \in Options, handle_subscribe(h, o)
    PROVE  Wanted \subseteq Wanted'
<1>1. h \notin DOMAIN options_pool
  BY NewIdIsUnused DEF handle_subscribe, OrphanInv
<1>2. \A g \in DOMAIN options_pool : g \in DOMAIN options_pool' /\ options_pool'[g] = options_pool[g]
  BY <1>1 DEF handle_subscribe
<1> QED
  BY <1>2 DEF Wanted

(***************************************************************************)
(* A stream the server is not told to stop is still wanted by another: the *)
(* converse of the loops' test.  A call that raises keeps its options.     *)
(***************************************************************************)
LEMMA UnsubscribeKeepsWanted ==
    ASSUME ~CoarseClock, AllCarryEvents, ControllerTypeOK, NoOrphanCallbacks,
           NEW h \in HandlerIds, handle_unsubscribe(h)
    PROVE  /\ Wanted \ streams_to_delete(h) \subseteq Wanted'
           /\ UnsubscribeRaises(h) => Wanted' = Wanted
<1> DEFINE streams == options_pool[h].streams
<1>1. UnsubscribeRaises(h) => Wanted' = Wanted
  BY DEF handle_unsubscribe, Wanted
<1>2. ASSUME ~UnsubscribeRaises(h)
      PROVE  /\ DOMAIN options_pool' = DOMAIN options_pool \ {h}
             /\ \A g \in DOMAIN options_pool' : options_pool'[g] = options_pool[g]
  BY <1>2 DEF handle_unsubscribe, Restrict
<1>3. ASSUME ~UnsubscribeRaises(h), NEW s \in Wanted, s \notin streams_to_delete(h)
      PROVE  s \in Wanted'
  <2>1. PICK g \in DOMAIN options_pool : s \in Range(options_pool[g].streams)
    BY DEF Wanted
  <2>2. CASE g # h
    BY <1>2, <1>3, <2>1, <2>2 DEF Wanted
  <2>3. CASE g = h
    <3>1. PICK i \in DOMAIN streams : streams[i] = s
      BY <2>1, <2>3 DEF Range
    <3>2. options_pool[h] \in Options
      BY DEF handle_unsubscribe, ControllerTypeOK
    <3>3. PICK e \in Events : stream_value(e) = s
      BY <2>1, <2>3, <3>2 DEF AllCarryEvents
    <3>4. <<i, e>> \in Visits(streams)
      BY <3>1, <3>3 DEF Visits
    <3>5. <<i, e>> \in Reached(h, streams)
      BY <1>3, <3>4 DEF Reached, UnsubscribeRaises
    <3>6. ~Lone(h, e)
      BY <1>3, <3>1, <3>5 DEF streams_to_delete
    <3>7. PICK k \in HandlerIds \ {h} : callbacks_pool[e][k] > 0
      BY <3>6 DEF Lone, ControllerTypeOK
    <3>8. k \in DOMAIN options_pool /\ s \in Range(options_pool[k].streams)
      BY <3>3, <3>7 DEF NoOrphanCallbacks
    <3> QED
      BY <1>2, <1>3, <3>7, <3>8 DEF Wanted
  <2> QED
    BY <2>2, <2>3
<1> QED
  BY <1>1, <1>3

SentInv ==
    /\ ClientTypeOK
    /\ PoolInv
    /\ OrphanInv
    /\ PoolCarriesEvents
    /\ OnlyConnectedServed
    /\ CurrentSendsOnlyWanted

LEMMA CloseKeepsCurrentWanted ==
    ASSUME ClientTypeOK, CurrentSendsOnlyWanted, Wanted \subseteq Wanted',
           NEW t \in Tasks, CloseIfUnused(t)
    PROVE  CurrentSendsOnlyWanted'
<1>1. CASE socket = None
  BY <1>1, CloseEffect DEF CurrentSendsOnlyWanted
<1>2. CASE socket # None
  <2>1. socket \in DOMAIN conns /\ conns[socket] \in Connection
    BY <1>2 DEF ClientTypeOK
  <2>2. conns'[socket].streams \subseteq conns[socket].streams
    BY <2>1, CloseEffect, DisconnectedFacts
  <2> QED
    BY <1>2, <2>2, CloseEffect DEF CurrentSendsOnlyWanted
<1> QED
  BY <1>1, <1>2

LEMMA NextCurrentWanted ==
    ASSUME ~CoarseClock, AllCarryEvents, SentInv, [ClientNext]_vars
    PROVE  CurrentSendsOnlyWanted'
<1>1. /\ conns \in Seq(Connection)
      /\ \A d \in DOMAIN conns : conns[d] \in Connection
      /\ socket # None => socket \in DOMAIN conns /\ conns[socket].streams \subseteq Wanted
  BY DEF SentInv, ClientTypeOK, CurrentSendsOnlyWanted
<1>2. ASSUME UNCHANGED <<conns, socket, options_pool>>
      PROVE  CurrentSendsOnlyWanted'
  BY <1>1, <1>2 DEF CurrentSendsOnlyWanted, Wanted
<1>3. ASSUME NEW t \in Tasks, NEW h \in HandlerIds, NEW o \in Options,
             SubscribeOpens(t, h, o) \/ SubscribeShares(t, h, o)
      PROVE  CurrentSendsOnlyWanted'
  <2>1. CASE SubscribeOpens(t, h, o)
    <3>1. conns' = Append(conns, NewConnection) /\ socket' = Len(conns) + 1
      BY <2>1 DEF SubscribeOpens
    <3>2. conns'[socket'].streams = {}
      BY <1>1, <3>1 DEF NewConnection
    <3> QED
      BY <3>2 DEF CurrentSendsOnlyWanted
  <2>2. CASE SubscribeShares(t, h, o)
    <3>1. Wanted \subseteq Wanted'
      BY <2>2, SubscribeKeepsWanted DEF SubscribeShares, SentInv
    <3> QED
      BY <1>1, <2>2, <3>1 DEF SubscribeShares, CurrentSendsOnlyWanted
  <2> QED
    BY <1>3, <2>1, <2>2
<1>4. ASSUME NEW t \in Tasks, NEW h \in HandlerIds, UnsubscribeEmits(t, h)
      PROVE  CurrentSendsOnlyWanted'
  <2>1. socket' = socket /\ socket # None
    BY <1>4 DEF UnsubscribeEmits, CanEmit
  <2>2. conns'[socket].streams = conns[socket].streams \ streams_to_delete(h)
    BY <1>1, <1>4, <2>1 DEF UnsubscribeEmits, Connection
  <2>3. Wanted \ streams_to_delete(h) \subseteq Wanted'
    BY <1>4, UnsubscribeKeepsWanted DEF UnsubscribeEmits, SentInv, OrphanInv
  <2> QED
    BY <1>1, <2>1, <2>2, <2>3 DEF CurrentSendsOnlyWanted
<1>5. ASSUME NEW t \in Tasks, NEW h \in HandlerIds, UnsubscribeFails(t, h)
      PROVE  CurrentSendsOnlyWanted'
  <2>1. UNCHANGED <<conns, socket>> /\ handle_unsubscribe(h)
    BY <1>5 DEF UnsubscribeFails, clientVars
  <2>2. CASE UnsubscribeRaises(h)
    <3>1. Wanted' = Wanted
      BY <2>1, <2>2, UnsubscribeKeepsWanted DEF SentInv, OrphanInv
    <3> QED
      BY <1>1, <2>1, <3>1 DEF CurrentSendsOnlyWanted
  <2>3. CASE ~CanEmit
    <3>1. socket # None => conns[socket].streams = {}
      BY <1>1, <2>3 DEF CanEmit, SentInv, OnlyConnectedServed
    <3> QED
      BY <2>1, <3>1 DEF CurrentSendsOnlyWanted
  <2> QED
    BY <1>5, <2>2, <2>3 DEF UnsubscribeFails
<1>6. ASSUME NEW t \in Tasks, NEW h \in HandlerIds, UnsubscribeQuietly(t, h)
      PROVE  CurrentSendsOnlyWanted'
  <2>1. Wanted \subseteq Wanted'
    BY <1>6, UnsubscribeKeepsWanted DEF UnsubscribeQuietly, SentInv, OrphanInv
  <2> QED
    BY <1>6, <2>1, CloseKeepsCurrentWanted DEF UnsubscribeQuietly, SentInv
<1>7. ASSUME NEW t \in Tasks,
             UnsubscribeResumes(t) \/ \E h \in HandlerIds : UnsubscribeUnknown(t, h)
      PROVE  CurrentSendsOnlyWanted'
  <2>1. UNCHANGED controllerVars /\ CloseIfUnused(t)
    BY <1>7 DEF UnsubscribeResumes, UnsubscribeUnknown
  <2>2. Wanted' = Wanted
    BY <2>1 DEF controllerVars, Wanted
  <2> QED
    BY <2>1, <2>2, CloseKeepsCurrentWanted DEF SentInv
<1>8. ASSUME NEW t \in Tasks, ConnectReturns(t) \/ ConnectFails(t) \/ DisconnectReturns(t)
      PROVE  CurrentSendsOnlyWanted'
  <2>1. Wanted' = Wanted
    BY <1>8 DEF ConnectReturns, ConnectFails, DisconnectReturns, controllerVars, Wanted
  <2>2. CASE DisconnectReturns(t)
    BY <2>2 DEF DisconnectReturns, CurrentSendsOnlyWanted
  <2>3. CASE ConnectReturns(t)
    BY <1>1, <2>1, <2>3 DEF ConnectReturns, CurrentSendsOnlyWanted
  <2>4. CASE ConnectFails(t)
    BY <1>1, <2>1, <2>4 DEF ConnectFails, Connection, CurrentSendsOnlyWanted
  <2> QED
    BY <1>8, <2>2, <2>3, <2>4
<1>9. ASSUME NEW c \in DOMAIN conns,
             Established(c) \/ Lost(c) \/ Reconnected(c) \/ connect_handler(c)
      PROVE  CurrentSendsOnlyWanted'
  <2>1. Wanted' = Wanted /\ socket' = socket
    BY <1>9 DEF Established, Lost, Reconnected, connect_handler, controllerVars, Wanted
  <2>2. CASE Established(c) \/ Lost(c) \/ Reconnected(c)
    BY <1>1, <2>1, <2>2 DEF Established, Lost, Reconnected, Connection, CurrentSendsOnlyWanted
  <2>3. CASE connect_handler(c)
    <3>1. streams_pool \subseteq Wanted
      BY PoolIsWanted DEF SentInv, PoolInv, OrphanInv
    <3> QED
      BY <1>1, <2>1, <2>3, <3>1, HandlerEffect DEF SentInv, CurrentSendsOnlyWanted
  <2> QED
    BY <1>9, <2>2, <2>3
<1>10. UNCHANGED vars => UNCHANGED <<conns, socket, options_pool>>
  BY DEF vars, clientVars, controllerVars
<1> QED
  BY <1>2, <1>3, <1>4, <1>5, <1>6, <1>7, <1>8, <1>9, <1>10
     DEF ClientNext, Subscribes, Emits, Proceeds

LEMMA InitSentInv == ClientInit => SentInv
<1> SUFFICES ASSUME ClientInit PROVE SentInv
  OBVIOUS
<1>1. ControllerInit /\ conns = <<>> /\ socket = None /\ streams_pool = {}
  BY DEF ClientInit, ControllerInit
<1>2. PoolCarriesEvents /\ OnlyConnectedServed /\ CurrentSendsOnlyWanted
  BY <1>1 DEF PoolCarriesEvents, OnlyConnectedServed, CurrentSendsOnlyWanted
<1> QED
  BY <1>1, <1>2, InitClientType, InitPoolInv, InitOrphanInv DEF SentInv

LEMMA NextSentInv ==
    ASSUME ~CoarseClock, AllCarryEvents, SentInv, [ClientNext]_vars
    PROVE  SentInv'
<1>1. [ControllerNext]_controllerVars
  BY ClientStepIsControllerStep
<1>2. PoolInv' /\ OrphanInv' /\ PoolCarriesEvents'
  BY <1>1, NextPoolInv, NextOrphanInv, NextPoolCarries DEF SentInv
<1> QED
  BY <1>2, NextClientType, NextServed, NextCurrentWanted DEF SentInv

(***************************************************************************)
(* Whatever tasks and faults do, the server sends on the current socket    *)
(* only what live subscriptions name, if ids are unique and every stream   *)
(* that is subscribed carries an event.                                    *)
(***************************************************************************)
THEOREM CurrentIsWanted ==
    ASSUME ~CoarseClock, AllCarryEvents
    PROVE  ClientSpec => []CurrentSendsOnlyWanted
<1>1. SentInv => CurrentSendsOnlyWanted
  BY DEF SentInv
<1>2. SentInv /\ [ClientNext]_vars => SentInv'
  BY NextSentInv
<1> QED
  BY <1>1, <1>2, InitSentInv, PTL DEF ClientSpec

-----------------------------------------------------------------------------
(***************************************************************************)
(* One task.  The strengthening: a connection that is not given up is the  *)
(* current socket, and the flag is up; so a task that waits in disconnect, *)
(* which has taken the flag down, leaves nothing that is not given up.  A  *)
(* second task breaks it: it may open a connection meanwhile, and the      *)
(* first then drops that.                                                  *)
(***************************************************************************)
OneTask == \E t \in Tasks : Tasks = {t}

OpenIsCurrent ==
    \A c \in DOMAIN conns : ~GivenUp(conns[c]) => c = socket /\ isConnectionExist

DisconnectsUnflagged ==
    \A t \in Tasks : task[t].pc = "disconnect" => ~isConnectionExist

OneInv == ClientTypeOK /\ OpenIsCurrent /\ DisconnectsUnflagged

LEMMA CloseOneInv ==
    ASSUME OneTask, OneInv, NEW t \in Tasks, task[t].pc # "disconnect", CloseIfUnused(t)
    PROVE  OpenIsCurrent' /\ DisconnectsUnflagged'
<1>1. \A u \in Tasks : u = t
  BY DEF OneTask
<1>2. task' = [task EXCEPT ![t] = task'[t]] /\ DOMAIN task = Tasks
  BY DEF CloseIfUnused, Returns, OneInv, ClientTypeOK
<1>3. CASE Returns(t) /\ UNCHANGED <<isConnectionExist, socket, conns>>
  BY <1>1, <1>3 DEF Returns, Idle, OneInv, ClientTypeOK, OpenIsCurrent, DisconnectsUnflagged
<1>4. CASE socket = None /\ isConnectionExist' = FALSE /\ UNCHANGED <<socket, conns>>
  <2>1. None \notin DOMAIN conns
    BY DEF None, OneInv, ClientTypeOK
  <2> QED
    BY <1>4, <2>1 DEF OneInv, OpenIsCurrent, DisconnectsUnflagged
<1>5. CASE /\ isConnectionExist' = FALSE
           /\ socket # None
           /\ conns' = [conns EXCEPT ![socket] = Disconnected(@)]
  <2>1. /\ socket \in DOMAIN conns
        /\ \A d \in DOMAIN conns : conns[d] \in Connection
    BY <1>5 DEF OneInv, ClientTypeOK
  <2>2. \A d \in DOMAIN conns' : GivenUp(conns'[d])
    BY <1>5, <2>1, DisconnectedFacts DEF OneInv, OpenIsCurrent
  <2> QED
    BY <1>5, <2>2 DEF OpenIsCurrent, DisconnectsUnflagged
<1> QED
  BY <1>3, <1>4, <1>5 DEF CloseIfUnused

LEMMA NextOneInv ==
    ASSUME OneTask, OneInv, [ClientNext]_vars
    PROVE  OneInv'
<1>1. /\ conns \in Seq(Connection)
      /\ \A d \in DOMAIN conns : conns[d] \in Connection
      /\ DOMAIN task = Tasks
  BY DEF OneInv, ClientTypeOK
<1>2. ClientTypeOK'
  BY NextClientType DEF OneInv
<1>3. CASE UNCHANGED <<conns, socket, isConnectionExist, task>>
  BY <1>2, <1>3 DEF OneInv, OpenIsCurrent, DisconnectsUnflagged
<1>4. ASSUME NEW t \in Tasks, NEW h \in HandlerIds, NEW o \in Options, SubscribeOpens(t, h, o)
      PROVE  OneInv'
  <2>1. \A d \in DOMAIN conns : GivenUp(conns[d])
    BY <1>4 DEF SubscribeOpens, OneInv, OpenIsCurrent
  <2>2. /\ conns' = Append(conns, NewConnection)
        /\ socket' = Len(conns) + 1 /\ isConnectionExist' = TRUE
    BY <1>4 DEF SubscribeOpens
  <2>3. OpenIsCurrent'
    BY <1>1, <2>1, <2>2 DEF OpenIsCurrent
  <2>4. \A u \in Tasks : task'[u].pc # "disconnect"
    BY <1>1, <1>4 DEF SubscribeOpens, OneTask
  <2> QED
    BY <1>2, <2>3, <2>4 DEF OneInv, DisconnectsUnflagged
<1>5. ASSUME NEW t \in Tasks, CloseIfUnused(t), task[t].pc # "disconnect"
      PROVE  OneInv'
  BY <1>2, <1>5, CloseOneInv DEF OneInv
<1>6. ASSUME NEW t \in Tasks, NEW h \in HandlerIds, UnsubscribeEmits(t, h)
      PROVE  OneInv'
  <2>1. OpenIsCurrent'
    BY <1>1, <1>6 DEF UnsubscribeEmits, CanEmit, Connection, GivenUp, OneInv, OpenIsCurrent
  <2>2. DisconnectsUnflagged'
    BY <1>1, <1>6 DEF UnsubscribeEmits, OneInv, DisconnectsUnflagged
  <2> QED
    BY <1>2, <2>1, <2>2 DEF OneInv
<1>7. ASSUME NEW t \in Tasks, ConnectReturns(t) \/ ConnectFails(t) \/ DisconnectReturns(t)
      PROVE  OneInv'
  <2>1. DisconnectsUnflagged'
    BY <1>1, <1>7
       DEF ConnectReturns, ConnectFails, DisconnectReturns, Returns, Idle, OneInv,
           DisconnectsUnflagged
  <2>2. CASE ConnectReturns(t)
    BY <1>2, <2>1, <2>2 DEF ConnectReturns, OneInv, OpenIsCurrent
  <2>3. CASE ConnectFails(t)
    BY <1>1, <1>2, <2>1, <2>3 DEF ConnectFails, Connection, GivenUp, OneInv, OpenIsCurrent
  <2>4. CASE DisconnectReturns(t)
    BY <1>2, <2>1, <2>4 DEF DisconnectReturns, OneInv, OpenIsCurrent, DisconnectsUnflagged
  <2> QED
    BY <1>7, <2>2, <2>3, <2>4
<1>8. ASSUME NEW c \in DOMAIN conns,
             Established(c) \/ Lost(c) \/ Reconnected(c) \/ connect_handler(c)
      PROVE  OneInv'
  <2>1. UNCHANGED <<socket, isConnectionExist, task>>
    BY <1>8 DEF Established, Lost, Reconnected, connect_handler
  <2>2. /\ DOMAIN conns' = DOMAIN conns
        /\ \A d \in DOMAIN conns : GivenUp(conns[d]) => GivenUp(conns'[d])
    <3>1. CASE Established(c)
      BY <1>1, <3>1 DEF Established, Connection, GivenUp
    <3>2. CASE Lost(c)
      BY <1>1, <3>2 DEF Lost, Connection, GivenUp
    <3>3. CASE Reconnected(c)
      BY <1>1, <3>3 DEF Reconnected, Connection, GivenUp
    <3>4. CASE connect_handler(c)
      BY <3>4, HandlerEffect DEF GivenUp, OneInv
    <3> QED
      BY <1>8, <3>1, <3>2, <3>3, <3>4
  <2> QED
    BY <1>2, <2>1, <2>2 DEF OneInv, OpenIsCurrent, DisconnectsUnflagged
<1>9. UNCHANGED vars => UNCHANGED <<conns, socket, isConnectionExist, task>>
  BY DEF vars, clientVars
<1>10. ASSUME NEW t \in Tasks, NEW h \in HandlerIds,
              UnsubscribeUnknown(t, h) \/ UnsubscribeQuietly(t, h) \/ UnsubscribeFails(t, h)
       PROVE  \/ UNCHANGED <<conns, socket, isConnectionExist, task>>
              \/ CloseIfUnused(t) /\ task[t].pc # "disconnect"
  BY <1>10 DEF UnsubscribeUnknown, UnsubscribeQuietly, UnsubscribeFails, clientVars, Idle
<1>11. ASSUME NEW t \in Tasks, UnsubscribeResumes(t)
       PROVE  CloseIfUnused(t) /\ task[t].pc # "disconnect"
  BY <1>11 DEF UnsubscribeResumes
<1>12. ASSUME NEW t \in Tasks, NEW h \in HandlerIds, NEW o \in Options, SubscribeShares(t, h, o)
       PROVE  UNCHANGED <<conns, socket, isConnectionExist, task>>
  BY <1>12 DEF SubscribeShares
<1> QED
  BY <1>3, <1>4, <1>5, <1>6, <1>7, <1>8, <1>9, <1>10, <1>11, <1>12
     DEF ClientNext, Subscribes, Emits, Proceeds

LEMMA InitOneInv == ClientInit => OneInv
<1> SUFFICES ASSUME ClientInit PROVE OneInv
  OBVIOUS
<1>1. conns = <<>> /\ isConnectionExist = FALSE
  BY DEF ClientInit
<1> QED
  BY <1>1, InitClientType DEF OneInv, OpenIsCurrent, DisconnectsUnflagged

LEMMA OneInvAlways == ASSUME OneTask PROVE ClientSpec => []OneInv
<1>1. OneInv /\ [ClientNext]_vars => OneInv'
  BY NextOneInv
<1> QED
  BY <1>1, InitOneInv, PTL DEF ClientSpec

(***************************************************************************)
(* An application with one task never leaks a connection it has not asked  *)
(* to disconnect, however many times it subscribes, fails to connect,      *)
(* loses the connection and unsubscribes.                                  *)
(***************************************************************************)
THEOREM OneTaskOneConnection == ASSUME OneTask PROVE ClientSpec => []OneConnection
<1>1. OneInv => OneConnection
  BY DEF OneInv, OpenIsCurrent, OneConnection
<1> QED
  BY <1>1, OneInvAlways, PTL

(***************************************************************************)
(* A socket that disconnect did not stop is subscribed to nothing: while   *)
(* it is still current the flag is down, so the pool is empty.             *)
(***************************************************************************)
StrayIdle ==
    \A c \in DOMAIN conns :
        conns[c].stray => conns[c].streams = {} /\ (c = socket => ~isConnectionExist)

LEMMA NextStrayIdle ==
    ASSUME ClientTypeOK, OnlyConnectedServed, NoConnectionNoStreams, StrayIdle, [ClientNext]_vars
    PROVE  StrayIdle'
<1>1. /\ conns \in Seq(Connection)
      /\ \A d \in DOMAIN conns : conns[d] \in Connection
      /\ None \notin DOMAIN conns
  BY DEF ClientTypeOK, None
<1>2. CASE UNCHANGED <<conns, socket, isConnectionExist>>
  BY <1>2 DEF StrayIdle
<1>3. ASSUME NEW t \in Tasks, NEW h \in HandlerIds, NEW o \in Options, SubscribeOpens(t, h, o)
      PROVE  StrayIdle'
  BY <1>1, <1>3 DEF SubscribeOpens, NewConnection, StrayIdle
<1>4. ASSUME NEW t \in Tasks, CloseIfUnused(t)
      PROVE  StrayIdle'
  <2>1. isConnectionExist' => isConnectionExist
    BY <1>4 DEF CloseIfUnused
  <2> SUFFICES ASSUME NEW d \in DOMAIN conns, conns'[d].stray
               PROVE  conns'[d].streams = {} /\ (d = socket => ~isConnectionExist')
    BY <1>4, CloseEffect DEF StrayIdle
  <2>2. CASE conns'[d] = conns[d]
    BY <2>1, <2>2 DEF StrayIdle
  <2>3. CASE conns'[d] = Disconnected(conns[d]) /\ ~isConnectionExist'
    BY <1>1, <2>3, DisconnectedFacts DEF OnlyConnectedServed
  <2> QED
    BY <1>4, <2>2, <2>3, CloseEffect
<1>5. ASSUME NEW t \in Tasks, NEW h \in HandlerIds, UnsubscribeEmits(t, h)
      PROVE  StrayIdle'
  BY <1>1, <1>5 DEF UnsubscribeEmits, Connection, StrayIdle
<1>6. ASSUME NEW t \in Tasks, ConnectFails(t)
      PROVE  StrayIdle'
  BY <1>1, <1>6 DEF ConnectFails, Connection, StrayIdle
<1>7. ASSUME NEW t \in Tasks, DisconnectReturns(t)
      PROVE  StrayIdle'
  BY <1>1, <1>7 DEF DisconnectReturns, StrayIdle
<1>8. ASSUME NEW c \in DOMAIN conns, Established(c) \/ Lost(c) \/ Reconnected(c)
      PROVE  StrayIdle'
  <2>1. CASE Established(c)
    BY <1>1, <2>1 DEF Established, Connection, StrayIdle
  <2>2. CASE Lost(c)
    BY <1>1, <2>2 DEF Lost, Connection, StrayIdle
  <2>3. CASE Reconnected(c)
    BY <1>1, <2>3 DEF Reconnected, Connection, StrayIdle
  <2> QED
    BY <1>8, <2>1, <2>2, <2>3
<1>9. ASSUME NEW c \in DOMAIN conns, connect_handler(c)
      PROVE  StrayIdle'
  <2>1. UNCHANGED <<socket, isConnectionExist>>
    BY <1>9 DEF connect_handler
  <2> QED
    BY <1>9, <2>1, HandlerEffect DEF NoConnectionNoStreams, StrayIdle
<1>10. ASSUME NEW t \in Tasks, NEW h \in HandlerIds,
              UnsubscribeUnknown(t, h) \/ UnsubscribeQuietly(t, h) \/ UnsubscribeFails(t, h)
       PROVE  UNCHANGED <<conns, socket, isConnectionExist>> \/ CloseIfUnused(t)
  BY <1>10 DEF UnsubscribeUnknown, UnsubscribeQuietly, UnsubscribeFails, clientVars
<1>11. ASSUME NEW t \in Tasks, ConnectReturns(t) \/ UnsubscribeResumes(t)
       PROVE  UNCHANGED <<conns, socket, isConnectionExist>> \/ CloseIfUnused(t)
  BY <1>11 DEF ConnectReturns, UnsubscribeResumes
<1>12. ASSUME NEW t \in Tasks, NEW h \in HandlerIds, NEW o \in Options, SubscribeShares(t, h, o)
       PROVE  UNCHANGED <<conns, socket, isConnectionExist>>
  BY <1>12 DEF SubscribeShares
<1>13. UNCHANGED vars => UNCHANGED <<conns, socket, isConnectionExist>>
  BY DEF vars, clientVars
<1> QED
  BY <1>2, <1>3, <1>4, <1>5, <1>6, <1>7, <1>8, <1>9, <1>10, <1>11, <1>12, <1>13
     DEF ClientNext, Subscribes, Emits, Proceeds

LEMMA InitStrayIdle == ClientInit => StrayIdle
BY DEF ClientInit, StrayIdle

(***************************************************************************)
(* With one task, no connection there ever was is sent what nobody wants:  *)
(* all but the current one are closed, or stray and subscribed to nothing. *)
(***************************************************************************)
THEOREM OneTaskIsWanted ==
    ASSUME OneTask, ~CoarseClock, AllCarryEvents
    PROVE  ClientSpec => []ServerSendsOnlyWanted
<1>1. ASSUME OneInv, SentInv, StrayIdle PROVE ServerSendsOnlyWanted
  <2> SUFFICES ASSUME NEW c \in DOMAIN conns
               PROVE  conns[c].streams \subseteq Wanted
    BY DEF ServerSendsOnlyWanted
  <2>1. CASE GivenUp(conns[c])
    BY <1>1, <2>1 DEF GivenUp, SentInv, OnlyConnectedServed, StrayIdle
  <2>2. CASE ~GivenUp(conns[c])
    <3>1. c = socket /\ c # None
      BY <1>1, <2>2 DEF OneInv, OpenIsCurrent, ClientTypeOK, None
    <3> QED
      BY <1>1, <3>1 DEF SentInv, CurrentSendsOnlyWanted
  <2> QED
    BY <2>1, <2>2
<1>2. SentInv /\ [ClientNext]_vars => SentInv'
  BY NextSentInv
<1>3. SentInv /\ NoConnectionNoStreams /\ StrayIdle /\ [ClientNext]_vars => StrayIdle'
  BY NextStrayIdle DEF SentInv
<1> QED
  BY <1>1, <1>2, <1>3, InitSentInv, InitStrayIdle, OneInvAlways, FlagCoversPool, PTL
     DEF ClientSpec

=============================================================================
