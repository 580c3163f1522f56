--------------------------- MODULE EventDispatch ---------------------------
(***************************************************************************)
(* ultrade/socket_client.py, callback_handler and make_async: how an event *)
(* reaches the callbacks that SocketController keeps for it.  The handler  *)
(* takes the event's list as it is when the event arrives, and hands every *)
(* entry to the event loop's thread pool, which calls them in the order    *)
(* they were handed over, so many at a time, while subscriptions come and  *)
(* go.  A callback is the application's: it may take any time, raise, or   *)
(* return before one that started earlier.                                 *)
(*                                                                         *)
(* Abstractions.  Taking the list and submitting its entries is one step:  *)
(* nothing that is read in between can change.  The callbacks of one event *)
(* start in any order, as their list is a bag.  The entry every list is    *)
(* created with is left out: it returns at once.  An event that is not in  *)
(* EVENT_LIST changes nothing.                                             *)
(***************************************************************************)
EXTENDS SocketController

CONSTANTS
    Workers,   \* the threads of the default executor
    MaxEvents  \* bound: the number of events that arrive

ASSUME DispatchAssumption == Workers \in Nat \ {0} /\ MaxEvents \in Nat

(***************************************************************************)
(* A call to make: the event's number, the handler, and which of the       *)
(* handler's entries for the event it is.                                  *)
(***************************************************************************)
VARIABLES
    arrivals,  \* the number of events that have arrived
    queued,    \* the calls that wait for a thread
    running,   \* the calls that have one
    made,      \* the calls that have returned or raised
    asked,     \* (history) the calls that the subscriptions of the time asked for
    due,       \* (history) those of handlers nobody had asked to unsubscribe
    stopped    \* (history) the handlers handle_unsubscribe was called with

poolVars == <<queued, running, made>>

dispatchVars == <<controllerVars, arrivals, poolVars, asked, due, stopped>>

Calls(n, entries) ==
    UNION {{<<n, h, i>> : i \in 1 .. entries[h]} : h \in HandlerIds}

\* How often the subscriptions in options_pool name the stream of an event.
Named(e) ==
    [h \in HandlerIds |->
        IF h \in DOMAIN options_pool
        THEN Occurrences(stream_value(e), options_pool[h].streams)
        ELSE 0]

DispatchInit ==
    /\ ControllerInit
    /\ arrivals = 0
    /\ queued = {} /\ running = {} /\ made = {}
    /\ asked = {} /\ due = {}
    /\ stopped = {}

-----------------------------------------------------------------------------
\* An event arrives: its number, and what the subscriptions ask for it.
Arrives(e) ==
    /\ arrivals < MaxEvents
    /\ arrivals' = arrivals + 1
    /\ asked' = asked \cup Calls(arrivals', Named(e))
    /\ due' = due \cup {c \in Calls(arrivals', Named(e)) : c[2] \notin stopped}
    /\ UNCHANGED <<controllerVars, running, made, stopped>>

\* Mutant: a handler is called once, however often it is in the list.
callback_handler_Deduplicates(e) ==
    /\ Arrives(e)
    /\ queued' = queued \cup {<<arrivals', h, 1>> : h \in {g \in HandlerIds : callbacks_pool[e][g] > 0}}

callback_handler(e) ==
    /\ Arrives(e)
    /\ queued' = queued \cup Calls(arrivals', callbacks_pool[e])

\* The thread pool takes the calls of earlier events first.
thread_starts(c) ==
    /\ c \in queued
    /\ Cardinality(running) < Workers
    /\ \A d \in queued : c[1] <= d[1]
    /\ queued' = queued \ {c}
    /\ running' = running \cup {c}
    /\ UNCHANGED <<controllerVars, arrivals, made, asked, due, stopped>>

\* Mutant: make_async hands a call that raised to the thread pool once more.
callback_returns_Retries(c) ==
    /\ c \in running
    /\ running' = running \ {c}
    /\ made' = made \cup {c}
    /\ queued' = queued \cup {c}
    /\ UNCHANGED <<controllerVars, arrivals, asked, due, stopped>>

callback_returns(c) ==
    /\ c \in running
    /\ running' = running \ {c}
    /\ made' = made \cup {c}
    /\ UNCHANGED <<controllerVars, arrivals, queued, asked, due, stopped>>

Subscribes == Subscribe /\ UNCHANGED <<arrivals, poolVars, asked, due, stopped>>

Unsubscribes ==
    \E h \in HandlerIds :
        /\ handle_unsubscribe(h)
        /\ stopped' = stopped \cup {h}
        /\ UNCHANGED <<arrivals, poolVars, asked, due>>

-----------------------------------------------------------------------------
DispatchNext ==
    \/ Subscribes
    \/ Unsubscribes
    \/ \E e \in Events : callback_handler(e)
    \/ \E c \in queued : thread_starts(c)
    \/ \E c \in running : callback_returns(c)

(***************************************************************************)
(* A free thread takes the next call, and every callback ends.  The first  *)
(* is the executor's; the second is asked of the application, for one that *)
(* never returns keeps its thread.                                         *)
(***************************************************************************)
DispatchFairness ==
    /\ WF_dispatchVars(\E c \in queued : thread_starts(c))
    /\ WF_dispatchVars(\E c \in running : callback_returns(c))

DispatchSpec == DispatchInit /\ [][DispatchNext]_dispatchVars /\ DispatchFairness

-----------------------------------------------------------------------------
AllCalls == (1 .. MaxEvents) \X HandlerIds \X Nat

(***************************************************************************)
(* A call waits, runs or is done, and never two of these; no more run than *)
(* there are threads.                                                      *)
(***************************************************************************)
DispatchTypeOK ==
    /\ ControllerTypeOK
    /\ arrivals \in 0 .. MaxEvents
    /\ queued \cup running \cup made \cup asked \subseteq AllCalls
    /\ queued \cap running = {} /\ (queued \cup running) \cap made = {}
    /\ due \subseteq asked
    /\ stopped \subseteq HandlerIds

(***************************************************************************)
(* As long as handler ids have not collided, a callback is called for an   *)
(* event only if its subscription was there and named the event's stream   *)
(* when the event arrived, and then no more often than it named it: what   *)
(* is called after unsubscribe has returned was owed from before, and a    *)
(* call of handle_unsubscribe that raised halfway leaves no callback that  *)
(* no subscription accounts for.                                           *)
(***************************************************************************)
CallsAreAsked == time_ns = calls => queued \cup running \cup made \subseteq asked

(***************************************************************************)
(* No call that is due is ever lost: what the subscriptions nobody has     *)
(* asked to stop are owed for the events that have arrived waits, runs or  *)
(* is over, on a coarse clock too, where one id stands for two of them.    *)
(***************************************************************************)
DueCallsUnderway == due \subseteq queued \cup running \cup made

(***************************************************************************)
(* A subscription nobody has asked to stop gets every event of its streams *)
(* that arrives, once for each time its list names the stream, although    *)
(* others that share the stream come and go or raise, and although it may  *)
(* be unsubscribed itself, or its id reused, before its turn comes.        *)
(***************************************************************************)
EventsAreDelivered ==
    \A c \in (1 .. MaxEvents) \X HandlerIds \X (1 .. 2) : c \in due ~> c \in made

=============================================================================
