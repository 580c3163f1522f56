------------------------ MODULE UltradeClient_proofs ------------------------
(***************************************************************************)
(* Client.subscribe drives the socket client as its specification says, so *)
(* every theorem about SocketClient holds of the composition; and what a   *)
(* connection presents, for any number of tasks, connections and faults.   *)
(***************************************************************************)
EXTENDS UltradeClient, SocketClient_proofs

(***************************************************************************)
(* Credentials and dictionaries are added to the socket client without     *)
(* changing what it does.                                                  *)
(***************************************************************************)
LEMMA UltradeStepIsClientStep ==
    ASSUME [UltradeNext]_ultradeVars
    PROVE  [ClientNext]_vars
<1>1. ASSUME NEW t \in Tasks, NEW h \in HandlerIds, NEW o \in Options, subscribe(t, h, o)
      PROVE  ClientNext
  BY <1>1 DEF subscribe, ClientNext, Subscribes
<1>2. ASSUME NEW t \in Tasks, NEW o \in Options, subscribe_refused(t, o)
      PROVE  UNCHANGED vars
  BY <1>2 DEF subscribe_refused
<1>3. CASE UNCHANGED ultradeVars
  BY <1>3 DEF ultradeVars
<1> QED
  BY <1>1, <1>2, <1>3 DEF UltradeNext, emits, ClientNext

THEOREM UltradeImplementsClient == UltradeSpec => ClientSpec
<1>1. UltradeInit => ClientInit
  BY DEF UltradeInit
<1> QED
  BY <1>1, UltradeStepIsClientStep, PTL DEF UltradeSpec, ClientSpec

-----------------------------------------------------------------------------
(***************************************************************************)
(* Why a connection presents what it may: a dictionary holds credentials   *)
(* it was subscribed under, and the current socket belongs to the          *)
(* dictionary that is kept for reconnecting.                               *)
(***************************************************************************)
FilledTypeOK ==
    /\ auth \in {NoAuth} \cup Auths
    /\ \A o \in Options : filled[o] = [token |-> filled[o].token, tradingKey |-> filled[o].tradingKey]
    /\ DOMAIN filled = Options
    /\ DOMAIN granted = Options
    /\ DOMAIN opener = HandlerIds

FilledAsGranted == \A o \in Options : Methods(filled[o]) \subseteq granted[o]

KeptIsOpeners ==
    socket # None => subscribe_options \in Options /\ opener[socket] = subscribe_options

PresentedByOpener ==
    presented.on # None =>
        /\ presented.on \in DOMAIN conns
        /\ opener[presented.on] \in Options
        /\ Methods(presented.credentials) \subseteq granted[opener[presented.on]]

PresentsInv == FilledTypeOK /\ FilledAsGranted /\ KeptIsOpeners /\ PresentedByOpener

LEMMA MethodsOfNone == Methods(NoCredentials) = {}
  BY DEF Methods, NoCredentials

LEMMA PresentsInit == UltradeInit => PresentsInv
<1> SUFFICES ASSUME UltradeInit
             PROVE  PresentsInv
  OBVIOUS
<1>1. FilledTypeOK
  BY DEF UltradeInit, CredentialsInit, FilledTypeOK, NoCredentials
<1>2. FilledAsGranted
  BY MethodsOfNone DEF UltradeInit, FilledAsGranted
<1>3. KeptIsOpeners /\ PresentedByOpener
  BY DEF UltradeInit, ClientInit, KeptIsOpeners, PresentedByOpener
<1> QED
  BY <1>1, <1>2, <1>3 DEF PresentsInv

\* Writing one method's credentials adds at most them to what a dictionary has.
LEMMA FillAddsAuth ==
    ASSUME FilledTypeOK, auth # NoAuth, NEW o \in Options, Grants(o)
    PROVE  /\ FilledTypeOK' <=> DOMAIN opener' = HandlerIds
           /\ \A p \in Options : granted[p] \subseteq granted'[p]
           /\ Methods(filled'[o]) \subseteq Methods(filled[o]) \cup {auth}
           /\ auth \in granted'[o]
           /\ \A p \in Options \ {o} : filled'[p] = filled[p]
<1>1. auth = [method |-> auth.method, by |-> auth.by] /\ auth.method \in {"LOGIN", "TRADING_KEY"}
  BY UltradeAssumption DEF FilledTypeOK
<1>2. /\ filled' = fill(o)
      /\ granted' = [granted EXCEPT ![o] = @ \cup {auth}]
      /\ auth' = auth
  BY DEF Grants
<1>3. filled'[o] = IF auth.method = "LOGIN"
                   THEN [token |-> auth.by, tradingKey |-> filled[o].tradingKey]
                   ELSE [token |-> filled[o].token, tradingKey |-> auth.by]
  BY <1>2 DEF fill, FilledTypeOK
<1>4. Methods(filled'[o]) \subseteq Methods(filled[o]) \cup {auth}
  BY <1>1, <1>3 DEF Methods
<1>5. \A p \in Options \ {o} : filled'[p] = filled[p]
  BY <1>2 DEF fill, FilledTypeOK
<1>6. /\ \A p \in Options : granted[p] \subseteq granted'[p]
      /\ auth \in granted'[o]
      /\ DOMAIN granted' = Options /\ DOMAIN filled' = Options
  BY <1>2 DEF fill, FilledTypeOK
<1>7. \A p \in Options :
          filled'[p] = [token |-> filled'[p].token, tradingKey |-> filled'[p].tradingKey]
  BY <1>3, <1>5 DEF FilledTypeOK
<1> QED
  BY <1>2, <1>4, <1>5, <1>6, <1>7 DEF FilledTypeOK

LEMMA GrantsKeepFilled ==
    ASSUME PresentsInv, NEW o \in Options, Grants(o), DOMAIN opener' = HandlerIds
    PROVE  FilledTypeOK' /\ FilledAsGranted'
<1>1. auth # NoAuth
  BY DEF Grants
<1>2. ASSUME NEW p \in Options
      PROVE  Methods(filled'[p]) \subseteq granted'[p]
  <2>1. Methods(filled[p]) \subseteq granted[p]
    BY DEF PresentsInv, FilledAsGranted
  <2>2. p # o => filled'[p] = filled[p]
    BY <1>1, FillAddsAuth DEF PresentsInv
  <2>3. granted[p] \subseteq granted'[p]
    BY <1>1, FillAddsAuth DEF PresentsInv
  <2>4. p = o => Methods(filled'[p]) \subseteq Methods(filled[p]) \cup {auth} /\ auth \in granted'[p]
    BY <1>1, FillAddsAuth DEF PresentsInv
  <2> QED
    BY <2>1, <2>2, <2>3, <2>4
<1>3. FilledAsGranted'
  BY <1>2 DEF FilledAsGranted, Methods
<1> QED
  BY <1>1, <1>3, FillAddsAuth DEF PresentsInv

\* Only a subscription that opens a connection makes another socket current.
LEMMA SocketIsKept ==
    ASSUME Emits \/ Proceeds
    PROVE  /\ socket' \in {socket, None}
           /\ subscribe_options' = subscribe_options
<1>1. ASSUME NEW t \in Tasks, CloseIfUnused(t)
      PROVE  socket' = socket
  BY <1>1 DEF CloseIfUnused
<1> QED
  BY <1>1 DEF Emits, Proceeds, UnsubscribeEmits, connect_handler, UnsubscribeUnknown,
        UnsubscribeQuietly, UnsubscribeFails, ConnectReturns, ConnectFails, UnsubscribeResumes,
        DisconnectReturns, Established, Lost, Reconnected, clientVars

LEMMA ConnectionsStay ==
    ASSUME ClientTypeOK, Emits \/ Proceeds
    PROVE  DOMAIN conns \subseteq DOMAIN conns'
<1>1. ASSUME NEW t \in Tasks, CloseIfUnused(t)
      PROVE  DOMAIN conns \subseteq DOMAIN conns'
  BY <1>1 DEF CloseIfUnused, ClientTypeOK
<1>2. ASSUME NEW c \in DOMAIN conns, Established(c) \/ Lost(c) \/ Reconnected(c)
      PROVE  DOMAIN conns \subseteq DOMAIN conns'
  BY <1>2 DEF Established, Lost, Reconnected
<1>3. ASSUME NEW c \in DOMAIN conns, connect_handler(c)
      PROVE  DOMAIN conns \subseteq DOMAIN conns'
  BY <1>3 DEF connect_handler
<1>4. ASSUME NEW t \in Tasks, NEW h \in HandlerIds,
             \/ UnsubscribeUnknown(t, h) \/ UnsubscribeQuietly(t, h)
             \/ UnsubscribeFails(t, h) \/ UnsubscribeEmits(t, h)
      PROVE  DOMAIN conns \subseteq DOMAIN conns'
  BY <1>1, <1>4 DEF UnsubscribeUnknown, UnsubscribeQuietly, UnsubscribeFails,
        UnsubscribeEmits, clientVars
<1>5. ASSUME NEW t \in Tasks,
             ConnectReturns(t) \/ ConnectFails(t) \/ UnsubscribeResumes(t) \/ DisconnectReturns(t)
      PROVE  DOMAIN conns \subseteq DOMAIN conns'
  BY <1>1, <1>5 DEF ConnectReturns, ConnectFails, UnsubscribeResumes, DisconnectReturns
<1> QED
  BY <1>2, <1>3, <1>4, <1>5 DEF Emits, Proceeds

LEMMA CurrentSocketExists ==
    ASSUME ClientTypeOK
    PROVE  /\ socket # None => socket \in DOMAIN conns
           /\ None \notin DOMAIN conns
           /\ DOMAIN conns \subseteq HandlerIds
<1>1. DOMAIN conns = 1 .. Len(conns) /\ Len(conns) \in Nat
  BY DEF ClientTypeOK
<1>2. Len(conns) <= calls /\ calls \in 0 .. MaxCalls /\ MaxCalls \in Nat
  BY ControllerAssumption DEF ClientTypeOK, ControllerTypeOK
<1>3. socket # None => socket \in DOMAIN conns
  BY DEF ClientTypeOK
<1> QED
  BY <1>1, <1>2, <1>3 DEF HandlerIds, None

-----------------------------------------------------------------------------
LEMMA SubscribeStep ==
    ASSUME ClientTypeOK, ClientTypeOK', PresentsInv,
           NEW t \in Tasks, NEW h \in HandlerIds, NEW o \in Options, subscribe(t, h, o)
    PROVE  PresentsInv'
<1>1. Grants(o) /\ presented' = presented /\ \A p \in Options : granted[p] \subseteq granted'[p]
  BY FillAddsAuth DEF subscribe, Grants, PresentsInv
<1>2. CASE SubscribeOpens(t, h, o) /\ opener' = [opener EXCEPT ![socket'] = o]
  <2>1. /\ subscribe_options' = o /\ socket' = Len(conns) + 1
        /\ conns' = Append(conns, NewConnection)
    BY <1>2 DEF SubscribeOpens
  <2>2. /\ DOMAIN conns' = 1 .. Len(conns) + 1 /\ DOMAIN conns = 1 .. Len(conns)
        /\ Len(conns) \in Nat
    BY <2>1 DEF ClientTypeOK
  <2>3. socket' \in HandlerIds /\ socket' \notin DOMAIN conns /\ DOMAIN conns \subseteq DOMAIN conns'
    <3>1. Len(conns') = Len(conns) + 1
      BY <2>1 DEF ClientTypeOK
    <3>2. Len(conns') <= calls' /\ calls' \in 0 .. MaxCalls /\ MaxCalls \in Nat
      BY ControllerAssumption DEF ClientTypeOK, ControllerTypeOK
    <3> QED
      BY <2>1, <2>2, <3>1, <3>2 DEF HandlerIds
  <2>4. DOMAIN opener' = HandlerIds /\ opener'[socket'] = o
            /\ \A c \in DOMAIN conns : opener'[c] = opener[c]
    BY <1>2, <2>3, CurrentSocketExists DEF PresentsInv, FilledTypeOK
  <2>5. FilledTypeOK' /\ FilledAsGranted'
    BY <1>1, <2>4, GrantsKeepFilled
  <2>6. KeptIsOpeners'
    BY <2>1, <2>4 DEF KeptIsOpeners
  <2>7. PresentedByOpener'
    BY <1>1, <2>3, <2>4 DEF PresentsInv, PresentedByOpener, Methods
  <2> QED
    BY <2>5, <2>6, <2>7 DEF PresentsInv
<1>3. CASE SubscribeShares(t, h, o) /\ UNCHANGED opener
  <2>1. UNCHANGED <<socket, subscribe_options, conns, opener>>
    BY <1>3 DEF SubscribeShares
  <2>2. FilledTypeOK' /\ FilledAsGranted'
    BY <1>1, <2>1, GrantsKeepFilled DEF PresentsInv, FilledTypeOK
  <2>3. KeptIsOpeners'
    BY <2>1 DEF PresentsInv, KeptIsOpeners
  <2>4. PresentedByOpener'
    BY <1>1, <2>1 DEF PresentsInv, PresentedByOpener, Methods
  <2> QED
    BY <2>2, <2>3, <2>4 DEF PresentsInv
<1> QED
  BY <1>2, <1>3 DEF subscribe

LEMMA RefusedStep ==
    ASSUME PresentsInv, NEW t \in Tasks, NEW o \in Options, subscribe_refused(t, o)
    PROVE  PresentsInv'
<1>1. /\ Grants(o) /\ presented' = presented
      /\ UNCHANGED <<socket, subscribe_options, conns, opener>>
  BY DEF subscribe_refused, Grants, vars, clientVars
<1>2. \A p \in Options : granted[p] \subseteq granted'[p]
  BY <1>1, FillAddsAuth DEF Grants, PresentsInv
<1>3. FilledTypeOK' /\ FilledAsGranted'
  BY <1>1, GrantsKeepFilled DEF PresentsInv, FilledTypeOK
<1>4. KeptIsOpeners'
  BY <1>1 DEF PresentsInv, KeptIsOpeners
<1>5. PresentedByOpener'
  BY <1>1, <1>2 DEF PresentsInv, PresentedByOpener, Methods
<1> QED
  BY <1>3, <1>4, <1>5 DEF PresentsInv

\* Every other step leaves dictionaries and openers as they are.
LEMMA OtherStep ==
    ASSUME ClientTypeOK, PresentsInv, Emits \/ Proceeds,
           UNCHANGED <<auth, filled, opener, granted>>,
           \/ presented' = presented
           \/ /\ socket # None
              /\ presented' = [on |-> socket, credentials |-> filled[subscribe_options]]
    PROVE  PresentsInv'
<1>1. FilledTypeOK' /\ FilledAsGranted'
  BY DEF PresentsInv, FilledTypeOK, FilledAsGranted, Methods
<1>2. KeptIsOpeners'
  BY SocketIsKept DEF PresentsInv, KeptIsOpeners
<1>3. PresentedByOpener'
  <2>1. CASE presented' = presented
    BY <2>1, ConnectionsStay DEF PresentsInv, PresentedByOpener, Methods
  <2>2. CASE socket # None /\ presented' = [on |-> socket, credentials |-> filled[subscribe_options]]
    <3>1. socket \in DOMAIN conns'
      BY <2>2, ConnectionsStay, CurrentSocketExists
    <3>2. opener[socket] \in Options
              /\ Methods(filled[subscribe_options]) \subseteq granted[opener[socket]]
      BY <2>2 DEF PresentsInv, KeptIsOpeners, FilledAsGranted
    <3>3. presented'.on = socket /\ presented'.credentials = filled[subscribe_options]
      BY <2>2
    <3> QED
      BY <3>1, <3>2, <3>3 DEF PresentedByOpener, Methods
  <2> QED
    BY <2>1, <2>2
<1> QED
  BY <1>1, <1>2, <1>3 DEF PresentsInv

LEMMA PresentsStep ==
    ClientTypeOK /\ PresentsInv /\ [UltradeNext]_ultradeVars => PresentsInv'
<1> SUFFICES ASSUME ClientTypeOK, PresentsInv, [UltradeNext]_ultradeVars
             PROVE  PresentsInv'
  OBVIOUS
<1>1. ClientTypeOK'
  BY UltradeStepIsClientStep, NextClientType
<1>2. ASSUME Authenticate, UNCHANGED <<vars, filled, presented, opener, granted>>
      PROVE  PresentsInv'
  BY <1>2 DEF Authenticate, vars, clientVars, PresentsInv, FilledTypeOK, FilledAsGranted,
        KeptIsOpeners, PresentedByOpener, Methods
<1>3. ASSUME emits
      PROVE  PresentsInv'
  BY <1>3, OtherStep DEF emits, CanEmit
<1>4. ASSUME Proceeds, UNCHANGED <<auth, filled, presented, opener, granted>>
      PROVE  PresentsInv'
  BY <1>4, OtherStep
<1>5. CASE UNCHANGED ultradeVars
  BY <1>5 DEF ultradeVars, vars, clientVars, PresentsInv, FilledTypeOK, FilledAsGranted,
        KeptIsOpeners, PresentedByOpener, Methods
<1> QED
  BY <1>1, <1>2, <1>3, <1>4, <1>5, SubscribeStep, RefusedStep DEF UltradeNext

(***************************************************************************)
(* get_sub_options sends whatever the kept dictionary holds by then: for   *)
(* any tasks, faults and changes of the login it is what subscribe was     *)
(* called with for the dictionary that opened the connection.              *)
(***************************************************************************)
THEOREM OpenersArePresented == UltradeSpec => []PresentsOpener
<1>1. UltradeInit => PresentsInv
  BY PresentsInit
<1>2. UltradeSpec => []ClientTypeOK
  BY UltradeImplementsClient, ClientTypeCorrect, PTL
<1>3. PresentsInv => PresentsOpener
  BY DEF PresentsInv, PresentedByOpener, PresentsOpener
<1> QED
  BY <1>1, <1>2, <1>3, PresentsStep, PTL DEF UltradeSpec

(***************************************************************************)
(* The credentials Client.subscribe reads change as ClientAuth lets them.  *)
(***************************************************************************)
THEOREM UltradeUsesCredentials == UltradeSpec => CredentialsSpec
<1>1. UltradeInit => CredentialsInit
  BY DEF UltradeInit
<1>2. [UltradeNext]_ultradeVars => [Authenticate]_auth
  BY DEF UltradeNext, subscribe_refused, subscribe, Grants, emits, ultradeVars
<1> QED
  BY <1>1, <1>2, PTL DEF UltradeSpec, CredentialsSpec

-----------------------------------------------------------------------------
(***************************************************************************)
(* Why the notices survive.  A list that ends with the two notices and     *)
(* names neither before keeps both registered: whatever raises in a call   *)
(* of unsubscribe with it raises at an earlier position, because a notice  *)
(* is named once and has one event, so it is in the pool when it is        *)
(* visited.                                                                *)
(***************************************************************************)
Notices == {MAINTENANCE, ERROR}

EndsWithNotices(streams) ==
    \E n \in Nat :
        /\ DOMAIN streams = 1 .. n + 2
        /\ streams[n + 1] = MAINTENANCE
        /\ streams[n + 2] = ERROR
        /\ \A i \in 1 .. n : streams[i] \notin Notices

Noticed(h) ==
    \A s \in Notices :
        /\ s \in streams_pool
        /\ \A e \in Events : stream_value(e) = s => callbacks_pool[e][h] > 0

NoticesKept ==
    \A h \in DOMAIN options_pool : EndsWithNotices(options_pool[h].streams) => Noticed(h)

NoticeInv == ControllerTypeOK /\ NoticesKept

LEMMA CompletedEndsWithNotices ==
    ASSUME NEW d \in Dicts, Notices \cap Range(d.streams) = {}
    PROVE  EndsWithNotices(completed(d).streams)
<1> DEFINE given == d.streams
           once == Append(given, MAINTENANCE)
           twice == Append(once, ERROR)
<1>1. given \in Seq(Streams) /\ d = [symbol |-> d.symbol, streams |-> given]
  BY UltradeAssumption
<1>2. ERROR \in Streams /\ MAINTENANCE \in Streams /\ ERROR # MAINTENANCE
  BY UltradeAssumption DEF ERROR, MAINTENANCE
<1>3. once \in Seq(Streams) /\ twice \in Seq(Streams)
  BY <1>1, <1>2
<1>4. with_stream(MAINTENANCE, given) = once
  BY DEF with_stream, Notices
<1>5. ERROR \notin Range(once)
  <2>1. \A i \in DOMAIN given : given[i] # ERROR
    BY DEF Notices, Range
  <2>2. \A i \in DOMAIN once : once[i] # ERROR
    BY <1>1, <1>2, <2>1
  <2> QED
    BY <2>2 DEF Range
<1>6. with_stream(ERROR, once) = twice
  BY <1>5 DEF with_stream
<1>7. completed(d).streams = twice
  <2>1. completed(d).streams = with_stream(ERROR, with_stream(MAINTENANCE, d.streams))
    BY <1>1 DEF completed
  <2> QED
    BY <2>1, <1>4, <1>6
<1>8. /\ Len(given) \in Nat
      /\ DOMAIN twice = 1 .. Len(given) + 2
      /\ twice[Len(given) + 1] = MAINTENANCE
      /\ twice[Len(given) + 2] = ERROR
      /\ \A i \in 1 .. Len(given) : twice[i] = given[i]
  BY <1>1, <1>2, <1>3
<1>9. \A i \in 1 .. Len(given) : given[i] \notin Notices
  <2>1. \A i \in DOMAIN given : given[i] \notin Notices
    BY DEF Range
  <2> QED
    BY <1>1, <2>1
<1> HIDE DEF twice
<1> QED
  BY <1>7, <1>8, <1>9 DEF EndsWithNotices

\* handle_unsubscribe(h) never raises at a notice of such a list.
LEMMA NoticeVisitsDoNotRaise ==
    ASSUME NEW h \in DOMAIN options_pool, ControllerTypeOK, Noticed(h),
           EndsWithNotices(options_pool[h].streams),
           NEW p \in Visits(options_pool[h].streams),
           options_pool[h].streams[p[1]] \in Notices
    PROVE  ~Raises(h, options_pool[h].streams, p)
<1> DEFINE streams == options_pool[h].streams
<1>1. PICK n \in Nat :
        /\ DOMAIN streams = 1 .. n + 2
        /\ streams[n + 1] = MAINTENANCE
        /\ streams[n + 2] = ERROR
        /\ \A i \in 1 .. n : streams[i] \notin Notices
  BY DEF EndsWithNotices
<1>2. \A i, j \in DOMAIN streams :
        streams[i] = streams[j] /\ streams[i] \in Notices => i = j
  BY <1>1 DEF ERROR, MAINTENANCE, Notices
<1>3. streams[p[1]] \in streams_pool
  BY DEF Noticed
<1>4. ASSUME NEW q \in Visits(streams), Precedes(q, p), streams[q[1]] = streams[p[1]]
      PROVE  FALSE
  <2>1. /\ q[1] \in DOMAIN streams /\ q[2] \in Events /\ stream_value(q[2]) = streams[q[1]]
        /\ p[1] \in DOMAIN streams /\ p[2] \in Events /\ stream_value(p[2]) = streams[p[1]]
    BY DEF Visits
  <2>2. q[1] = p[1]
    BY <1>2, <1>4, <2>1
  <2>3. q[2] = p[2]
    BY <1>4, <2>1, NoticesCarryOneEvent DEF Notices
  <2>4. p[1] \in Int
    BY <1>1, <2>1
  <2>5. \A e \in Events : e \in Int
    BY EventFacts
  <2> QED
    BY <1>4, <2>1, <2>2, <2>3, <2>4, <2>5 DEF Precedes
<1> QED
  BY <1>3, <1>4 DEF Raises

\* So if it raises, it raises before it reaches a notice.
LEMMA RaisingStopsBeforeNotices ==
    ASSUME NEW h \in DOMAIN options_pool, ControllerTypeOK, Noticed(h),
           EndsWithNotices(options_pool[h].streams), UnsubscribeRaises(h),
           NEW p \in Reached(h, options_pool[h].streams)
    PROVE  options_pool[h].streams[p[1]] \notin Notices
<1> DEFINE streams == options_pool[h].streams
<1>1. SUFFICES ASSUME streams[p[1]] \in Notices PROVE FALSE
  OBVIOUS
<1>2. PICK r \in Visits(streams) : Raises(h, streams, r)
  BY DEF UnsubscribeRaises
<1>3. streams[r[1]] \notin Notices
  BY <1>2, NoticeVisitsDoNotRaise
<1>4. PICK n \in Nat :
        /\ DOMAIN streams = 1 .. n + 2
        /\ streams[n + 1] = MAINTENANCE
        /\ streams[n + 2] = ERROR
        /\ \A i \in 1 .. n : streams[i] \notin Notices
  BY DEF EndsWithNotices
<1>5. p \in Visits(streams) /\ \A q \in Visits(streams) : Precedes(q, p) => ~Raises(h, streams, q)
  BY DEF Reached
<1>6. r[1] \in 1 .. n + 2 /\ p[1] \in 1 .. n + 2
  BY <1>4, <1>5 DEF Visits
<1>7. r[1] # n + 1 /\ r[1] # n + 2
  BY <1>3, <1>4 DEF Notices
<1>8. r[1] < p[1]
  <2>1. ~(p[1] \in 1 .. n)
    BY <1>1, <1>4
  <2> QED
    BY <1>6, <1>7, <2>1
<1> QED
  BY <1>2, <1>5, <1>8 DEF Precedes

LEMMA SubscribeKeepsNotices ==
    ASSUME NoticeInv, NEW h \in HandlerIds, NEW o \in Options, handle_subscribe(h, o)
    PROVE  NoticesKept'
<1> SUFFICES ASSUME NEW g \in DOMAIN options_pool', EndsWithNotices(options_pool'[g].streams),
                    NEW s \in Notices
             PROVE  /\ s \in streams_pool'
                    /\ \A e \in Events : stream_value(e) = s => callbacks_pool'[e][g] > 0
  BY DEF NoticesKept, Noticed, EndsWithNotices
<1>1. /\ streams_pool' = streams_pool \cup Range(o.streams)
      /\ options_pool'[g] = IF g = h THEN o ELSE options_pool[g]
      /\ g = h \/ g \in DOMAIN options_pool
  BY DEF handle_subscribe
<1>2. g \in HandlerIds
  BY <1>1 DEF NoticeInv, ControllerTypeOK
<1>3. \A e \in Events :
        /\ Occurrences(stream_value(e), o.streams) \in Nat
        /\ Occurrences(stream_value(e), o.streams) > 0 <=> stream_value(e) \in Range(o.streams)
        /\ callbacks_pool[e][g] \in Nat
        /\ callbacks_pool'[e][g] =
              IF g = h THEN callbacks_pool[e][g] + Occurrences(stream_value(e), o.streams)
              ELSE callbacks_pool[e][g]
  BY <1>2, EventFacts, OccurrencesNamed DEF handle_subscribe, NoticeInv, ControllerTypeOK
<1>4. CASE g = h
  <2>1. s \in Range(o.streams)
    <3>1. PICK n \in Nat :
            /\ DOMAIN o.streams = 1 .. n + 2
            /\ o.streams[n + 1] = MAINTENANCE
            /\ o.streams[n + 2] = ERROR
      BY <1>1, <1>4 DEF EndsWithNotices
    <3> QED
      BY <3>1 DEF Notices, Range
  <2> QED
    BY <1>1, <1>3, <1>4, <2>1
<1>5. CASE g # h
  BY <1>1, <1>3, <1>5 DEF NoticeInv, NoticesKept, Noticed
<1> QED
  BY <1>4, <1>5

LEMMA UnsubscribeKeepsNotices ==
    ASSUME NoticeInv, NEW h \in HandlerIds, handle_unsubscribe(h)
    PROVE  NoticesKept'
<1> DEFINE streams == options_pool[h].streams
           reached == Reached(h, streams)
<1> SUFFICES ASSUME NEW g \in DOMAIN options_pool', EndsWithNotices(options_pool'[g].streams),
                    NEW s \in Notices
             PROVE  /\ s \in streams_pool'
                    /\ \A e \in Events : stream_value(e) = s => callbacks_pool'[e][g] > 0
  BY DEF NoticesKept, Noticed, EndsWithNotices
<1>1. /\ h \in DOMAIN options_pool
      /\ g \in DOMAIN options_pool
      /\ options_pool'[g] = options_pool[g]
      /\ g = h => UnsubscribeRaises(h)
      /\ streams_pool' = streams_pool \ streams_to_delete(h)
  BY DEF handle_unsubscribe, Restrict
<1>2. g \in HandlerIds /\ EndsWithNotices(options_pool[g].streams) /\ Noticed(g)
  BY <1>1 DEF NoticeInv, NoticesKept, ControllerTypeOK
<1>3. ASSUME NEW p \in reached, streams[p[1]] = s
      PROVE  /\ g # h
             /\ ~Lone(h, p[2])
  <2>1. p[2] \in Events /\ stream_value(p[2]) = s
    BY <1>3 DEF Reached, Visits
  <2>2. g # h
    BY <1>1, <1>2, <1>3, RaisingStopsBeforeNotices DEF NoticeInv
  <2>3. callbacks_pool[p[2]][g] > 0
    BY <1>2, <2>1 DEF Noticed
  <2> QED
    BY <1>2, <2>2, <2>3 DEF Lone
<1>4. s \in streams_pool'
  BY <1>1, <1>2, <1>3 DEF Noticed, streams_to_delete
<1>5. ASSUME NEW e \in Events, stream_value(e) = s
      PROVE  callbacks_pool'[e][g] > 0
  <2>1. ~(g = h /\ \E p \in reached : p[2] = e)
    BY <1>3, <1>5 DEF Reached, Visits
  <2>2. callbacks_pool'[e][g] = callbacks_pool[e][g]
    BY <1>2, <2>1, UnsubscribeCallbacks DEF NoticeInv
  <2> QED
    BY <1>2, <1>5, <2>2 DEF Noticed
<1> QED
  BY <1>4, <1>5

LEMMA NextNotices ==
    NoticeInv /\ [ControllerNext]_controllerVars => NoticeInv'
<1> SUFFICES ASSUME NoticeInv, [ControllerNext]_controllerVars
             PROVE  NoticeInv'
  OBVIOUS
<1>1. ControllerTypeOK'
  BY NextTypeOK DEF NoticeInv
<1>2. ASSUME UNCHANGED controllerVars
      PROVE  NoticesKept'
  BY <1>2 DEF controllerVars, NoticeInv, NoticesKept, Noticed, EndsWithNotices
<1>3. ASSUME ControllerNext
      PROVE  NoticesKept'
  BY <1>3, SubscribeKeepsNotices, UnsubscribeKeepsNotices DEF ControllerNext, Subscribe, Unsubscribe
<1> QED
  BY <1>1, <1>2, <1>3 DEF NoticeInv

(***************************************************************************)
(* A subscription that leaves the maintenance and error streams to         *)
(* Client.subscribe is sent them for as long as it is in options_pool, for *)
(* every list of streams, any number of tasks and faults, on a coarse      *)
(* clock as well, and however often an unsubscribe of it raises halfway.   *)
(***************************************************************************)
THEOREM NoticesAreKept == UltradeSpec => []NoticesSurvive
<1>1. ControllerInit => NoticeInv
  BY InitTypeOK DEF NoticeInv, NoticesKept, ControllerInit
<1>2. ControllerSpec => []NoticeInv
  BY <1>1, NextNotices, PTL DEF ControllerSpec
<1>3. NoticeInv => NoticesSurvive
  <2> SUFFICES ASSUME NoticeInv, NEW h \in DOMAIN options_pool, NEW d \in Dicts,
                      options_pool[h] = completed(d), Notices \cap Range(d.streams) = {}
               PROVE  Notices \subseteq streams_pool
    BY DEF NoticesSurvive, Notices
  <2>1. EndsWithNotices(options_pool[h].streams)
    BY CompletedEndsWithNotices
  <2> QED
    BY <2>1 DEF NoticeInv, NoticesKept, Noticed
<1> QED
  BY <1>2, <1>3, UltradeImplementsClient, ClientImplementsController, PTL

=============================================================================
