-------------------------- MODULE SocketController --------------------------
(***************************************************************************)
(* ultrade/socket_client.py, class SocketController: the bookkeeping of a  *)
(* websocket client.  It keeps the live subscriptions (options_pool), the  *)
(* callbacks each event fans out to (callbacks_pool) and the streams that  *)
(* some subscription needs (streams_pool), which is what the client asks   *)
(* the server for.                                                         *)
(*                                                                         *)
(* Neither method awaits, so each call is one step of the event loop.      *)
(*                                                                         *)
(* Abstractions.  A list of callbacks is a bag, a count for each handler:  *)
(* an event starts all its callbacks together, so their order says         *)
(* nothing.  The entry every list is created with (constants.EVENT_LIST's  *)
(* stream value, which no handler id equals) is left out, so the code's    *)
(* "fewer than 2 entries" is "no entry" here.  streams_pool is a set: the  *)
(* code tests membership before it appends.                                *)
(***************************************************************************)
EXTENDS Integers, Sequences, FiniteSets, Functions

CONSTANTS
    EVENT_LIST,   \* constants.EVENT_LIST: a sequence of <<event, stream>>
    Streams,      \* the streams a subscriber may name
    Options,      \* the options a subscriber passes: records with .streams
    CoarseClock,  \* may two readings of the clock return the same time?
    MaxCalls      \* bound: the number of handle_subscribe calls

(***************************************************************************)
(* An event is its position in EVENT_LIST.  The names are distinct, so the *)
(* dictionary callbacks_pool has one entry for each, in this order.        *)
(***************************************************************************)
Events == DOMAIN EVENT_LIST

stream_value(e) == EVENT_LIST[e][2]

ASSUME ControllerAssumption ==
    /\ EVENT_LIST \in Seq(STRING \X Streams)
    /\ \A o \in Options : o.streams \in Seq(Streams)
    /\ CoarseClock \in BOOLEAN
    /\ MaxCalls \in Nat

(***************************************************************************)
(* No stream of EVENT_LIST carries more than two events (TRADES carries    *)
(* lastTrade and userTrade).  handle_unsubscribe relies on it: see         *)
(* PoolMatchesCallbacks.                                                   *)
(***************************************************************************)
ASSUME AtMostTwoEvents ==
    \A e, f, g \in Events :
        (stream_value(e) = stream_value(f) /\ stream_value(f) = stream_value(g))
            => e = f \/ f = g \/ e = g

HandlerIds == 1 .. MaxCalls

VARIABLES
    options_pool,    \* handler id -> the options it subscribed with
    callbacks_pool,  \* event -> handler id -> number of its entries
    streams_pool,    \* the streams asked of the server
    time_ns,         \* how many different readings of the clock were handler ids
    calls            \* the number of handle_subscribe calls so far

controllerVars == <<options_pool, callbacks_pool, streams_pool, time_ns, calls>>

ControllerInit ==
    /\ options_pool = [h \in {} |-> CHOOSE o \in Options : TRUE]
    /\ callbacks_pool = [e \in Events |-> [h \in HandlerIds |-> 0]]
    /\ streams_pool = {}
    /\ time_ns = 0
    /\ calls = 0

-----------------------------------------------------------------------------
(***************************************************************************)
(* handle_subscribe.  The loop over sub_options["streams"] appends one     *)
(* entry to each event of a stream every time the list names the stream,   *)
(* and adds the stream to the pool once.  The handler id is a reading of   *)
(* the clock: different readings are numbered in the order they come.  A   *)
(* coarse clock may repeat one, the last or, stepped back, an earlier one, *)
(* and options_pool then forgets the subscription that had the id.         *)
(***************************************************************************)
Occurrences(stream, streams) ==
    Cardinality({i \in DOMAIN streams : streams[i] = stream})

NewHandlerId(h) ==
    \/ h = time_ns + 1
    \/ CoarseClock /\ h \in 1 .. time_ns

handle_subscribe(h, o) ==
    /\ calls < MaxCalls
    /\ NewHandlerId(h)
    /\ time_ns' = IF h > time_ns THEN h ELSE time_ns
    /\ calls' = calls + 1
    /\ streams_pool' = streams_pool \cup Range(o.streams)
    /\ callbacks_pool' =
          [e \in Events |->
              [callbacks_pool[e] EXCEPT
                  ![h] = @ + Occurrences(stream_value(e), o.streams)]]
    /\ options_pool' =
          [g \in DOMAIN options_pool \cup {h} |->
              IF g = h THEN o ELSE options_pool[g]]

-----------------------------------------------------------------------------
(***************************************************************************)
(* handle_unsubscribe.  Its two nested loops visit the pairs               *)
(* <<position in sub_options["streams"], event of that stream>> in order.  *)
(* At each pair it drops the handler's entries for the event and, if the   *)
(* event then has no entry left, removes the stream from streams_pool.     *)
(* list.remove raises ValueError when the stream is not there, which ends  *)
(* the call with the pairs visited so far done and the rest not.           *)
(***************************************************************************)
\* Mutant: event_from_stream stops at the first event that matches.
VisitsFirstEventOnly(streams) ==
    {p \in (DOMAIN streams) \X Events :
        /\ stream_value(p[2]) = streams[p[1]]
        /\ \A e \in 1 .. p[2] - 1 : stream_value(e) # streams[p[1]]}

Visits(streams) ==
    {p \in (DOMAIN streams) \X Events : stream_value(p[2]) = streams[p[1]]}

Precedes(p, q) == p[1] < q[1] \/ (p[1] = q[1] /\ p[2] < q[2])

\* Mutant: len(callbacks_pool[e]) < 3.
LoneOffByOne(h, e) ==
    Cardinality({g \in HandlerIds \ {h} : callbacks_pool[e][g] > 0}) <= 1

\* No other handler has an entry for e: len(callbacks_pool[e]) < 2 once h's are gone.
Lone(h, e) == \A g \in HandlerIds \ {h} : callbacks_pool[e][g] = 0

\* Mutant: a second removal of the same stream is tolerated (set.discard).
RaisesOnlyIfNotPooled(h, streams, p) ==
    Lone(h, p[2]) /\ streams[p[1]] \notin streams_pool

\* The visit at which streams_pool.remove raises, if the loops get that far.
Raises(h, streams, p) ==
    /\ Lone(h, p[2])
    /\ \/ streams[p[1]] \notin streams_pool
       \/ \E q \in Visits(streams) :
             /\ Precedes(q, p)
             /\ streams[q[1]] = streams[p[1]]
             /\ Lone(h, q[2])

\* The visits made: all up to and including the first that raises.
Reached(h, streams) ==
    {p \in Visits(streams) :
        \A q \in Visits(streams) : Precedes(q, p) => ~Raises(h, streams, q)}

UnsubscribeRaises(h) ==
    \E p \in Visits(options_pool[h].streams) : Raises(h, options_pool[h].streams, p)

streams_to_delete(h) ==
    {options_pool[h].streams[p[1]] :
        p \in {q \in Reached(h, options_pool[h].streams) : Lone(h, q[2])}}

\* The effect on the pools of handle_unsubscribe(h) for a handler in options_pool.
handle_unsubscribe(h) ==
    /\ h \in DOMAIN options_pool
    /\ LET visited == {p[2] : p \in Reached(h, options_pool[h].streams)}
       IN  callbacks_pool' =
              [e \in Events |->
                  [g \in HandlerIds |->
                      IF g = h /\ e \in visited THEN 0 ELSE callbacks_pool[e][g]]]
    /\ streams_pool' = streams_pool \ streams_to_delete(h)
    /\ options_pool' = IF UnsubscribeRaises(h)
                       THEN options_pool
                       ELSE Restrict(options_pool, DOMAIN options_pool \ {h})
    /\ UNCHANGED <<time_ns, calls>>

-----------------------------------------------------------------------------
(***************************************************************************)
(* handle_unsubscribe once more, entry by entry, as the nested loops of    *)
(* the code run.  A point <<i, e>> of the loops is where position i of the *)
(* list has been compared with the first e events.                         *)
(***************************************************************************)
LoopPoints(streams) == (0 .. Len(streams)) \X (0 .. Len(EVENT_LIST))

Previous(p) == IF p[2] = 0 THEN <<p[1] - 1, Len(EVENT_LIST)>> ELSE <<p[1], p[2] - 1>>

\* A visit at p; once streams_pool.remove has raised, the visits left do nothing.
Visit(h, streams, before, p) ==
    LET kept == [before.callbacks EXCEPT ![p[2]][h] = 0]
        last == \A g \in HandlerIds : kept[p[2]][g] = 0
        opt  == streams[p[1]]
    IN  IF before.raised
        THEN before
        ELSE [callbacks |-> kept,
              pool      |-> IF last THEN before.pool \ {opt} ELSE before.pool,
              deleted   |-> IF last /\ opt \in before.pool THEN before.deleted \cup {opt}
                            ELSE before.deleted,
              raised    |-> last /\ opt \notin before.pool]

LoopStart ==
    [callbacks |-> callbacks_pool, pool |-> streams_pool, deleted |-> {}, raised |-> FALSE]

\* The state at p, given the states at earlier points.
LoopStep(h, streams, after, p) ==
    IF p[1] = 0 THEN LoopStart
    ELSE IF p[2] # 0 /\ stream_value(p[2]) = streams[p[1]]
         THEN Visit(h, streams, after[Previous(p)], p)
         ELSE after[Previous(p)]

LoopStates(h, streams) ==
    LET after[p \in LoopPoints(streams)] == LoopStep(h, streams, after, p)
    IN  after

UnsubscribeLoops(h) ==
    LoopStates(h, options_pool[h].streams)[Len(options_pool[h].streams), Len(EVENT_LIST)]

-----------------------------------------------------------------------------
(***************************************************************************)
(* The controller on its own, called in any order.  A call with an id that *)
(* is not in options_pool only prints a warning: it is a stuttering step.  *)
(***************************************************************************)
Subscribe == \E h \in HandlerIds, o \in Options : handle_subscribe(h, o)

Unsubscribe == \E h \in HandlerIds : handle_unsubscribe(h)

ControllerNext == Subscribe \/ Unsubscribe

ControllerSpec == ControllerInit /\ [][ControllerNext]_controllerVars

-----------------------------------------------------------------------------
(***************************************************************************)
(* Every variable has the type the class gives it.                         *)
(***************************************************************************)
ControllerTypeOK ==
    /\ DOMAIN options_pool \subseteq HandlerIds
    /\ options_pool \in [DOMAIN options_pool -> Options]
    /\ callbacks_pool \in [Events -> [HandlerIds -> Nat]]
    /\ streams_pool \subseteq Streams
    /\ calls \in 0 .. MaxCalls
    /\ time_ns \in 0 .. calls

(***************************************************************************)
(* The pool counts references exactly: a stream that carries events is     *)
(* asked of the server if and only if some callback is registered for      *)
(* each of its events.  It holds through calls to handle_unsubscribe that  *)
(* raise halfway, through lists that name a stream twice and through       *)
(* handler ids that collide, but only because no stream has three events.  *)
(***************************************************************************)
PoolMatchesCallbacks ==
    \A e \in Events :
        stream_value(e) \in streams_pool
            <=> \E h \in HandlerIds : callbacks_pool[e][h] > 0

(***************************************************************************)
(* While the clock gives every subscription an id of its own, no callback  *)
(* is registered without the options_pool entry that handle_unsubscribe    *)
(* needs to find it again.                                                 *)
(***************************************************************************)
NoOrphanCallbacks ==
    ~CoarseClock =>
        \A e \in Events, h \in HandlerIds :
            callbacks_pool[e][h] > 0 =>
                /\ h \in DOMAIN options_pool
                /\ stream_value(e) \in Range(options_pool[h].streams)

FullyRegistered(h) ==
    /\ Range(options_pool[h].streams) \subseteq streams_pool
    /\ \A e \in Events :
          stream_value(e) \in Range(options_pool[h].streams)
              => callbacks_pool[e][h] > 0

(***************************************************************************)
(* While ids are unique, a step can cut a subscription off from one of its *)
(* streams or callbacks only by unsubscribing that very handler, whatever  *)
(* the other subscriptions share with it.                                  *)
(***************************************************************************)
OthersUndisturbed ==
    [][~CoarseClock =>
          \A h \in DOMAIN options_pool :
              FullyRegistered(h) =>
                  \/ h \in DOMAIN options_pool' /\ FullyRegistered(h)'
                  \/ handle_unsubscribe(h)]_controllerVars

(***************************************************************************)
(* handle_unsubscribe leaves the pools exactly as the nested loops of      *)
(* socket_client.py:117-127 do, one entry after another, and returns the   *)
(* streams they have appended, whether or not streams_pool.remove raises   *)
(* on the way.                                                             *)
(***************************************************************************)
UnsubscribeIsTheLoops ==
    [][\A h \in HandlerIds :
          handle_unsubscribe(h) =>
              LET left == UnsubscribeLoops(h)
              IN  /\ callbacks_pool' = left.callbacks
                  /\ streams_pool' = left.pool
                  /\ h \in DOMAIN options_pool' <=> left.raised
                  /\ left.raised \/ streams_to_delete(h) = left.deleted]_controllerVars

-----------------------------------------------------------------------------
(***************************************************************************)
(* The pairs of a handler and an event with at least one callback.         *)
(***************************************************************************)
Registered == {p \in HandlerIds \X Events : callbacks_pool[p[2]][p[1]] > 0}

R == INSTANCE SubscriptionRegistry
        WITH Handlers <- HandlerIds, StreamOf <- [e \in Events |-> stream_value(e)],
             registered <- Registered, wanted <- streams_pool

(***************************************************************************)
(* The controller is a registry: whatever is subscribed and unsubscribed,  *)
(* with lists that repeat or share streams, ids that collide and calls     *)
(* that raise halfway, a handler lets go of whole streams, and a stream is *)
(* given back exactly when the last handler lets go of it.                 *)
(***************************************************************************)
ImplementsRegistry == R!RegistrySpec

=============================================================================
