------------------------ MODULE SubscriptionRegistry ------------------------
(***************************************************************************)
(* What SocketController promises, without its lists: a registry of which  *)
(* handler listens to which event, and the streams asked of the server on  *)
(* their behalf.  A handler takes whole streams and lets go of whole       *)
(* streams, though perhaps not of all it took; a stream is given back to   *)
(* the server when, and only when, the last handler lets go of it.         *)
(***************************************************************************)
CONSTANTS
    Handlers,
    Events,
    Streams,
    StreamOf   \* event -> the stream that carries it

VARIABLES
    registered,  \* the pairs <<handler, event>> that have a callback
    wanted       \* the streams asked of the server

Carried(streams) == {e \in Events : StreamOf[e] \in streams}

\* The streams some callback is registered for.
InUse(pairs) == {StreamOf[p[2]] : p \in pairs}

RegistryInit ==
    /\ registered = {}
    /\ wanted = {}

Register(h, streams) ==
    /\ registered' = registered \cup {h} \X Carried(streams)
    /\ wanted' = wanted \cup streams

\* A stream that carries no event is never let go of.
Release(h, streams) ==
    /\ registered' = registered \ ({h} \X Carried(streams))
    /\ wanted' = wanted \ {s \in streams : Carried({s}) # {} /\ s \notin InUse(registered')}

RegistryNext ==
    \E h \in Handlers, streams \in SUBSET Streams : Register(h, streams) \/ Release(h, streams)

RegistrySpec == RegistryInit /\ [][RegistryNext]_<<registered, wanted>>

=============================================================================
