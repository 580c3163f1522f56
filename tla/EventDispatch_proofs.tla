------------------------ MODULE EventDispatch_proofs ------------------------
(***************************************************************************)
(* Theorems about EventDispatch, for any number of threads, events and     *)
(* subscriptions.                                                          *)
(***************************************************************************)
EXTENDS EventDispatch, SocketController_proofs

-----------------------------------------------------------------------------
(***************************************************************************)
(* The dispatch of events changes nothing of the controller.               *)
(***************************************************************************)
LEMMA DispatchStepIsControllerStep ==
    ASSUME [DispatchNext]_dispatchVars
    PROVE  [ControllerNext]_controllerVars
<1>1. CASE UNCHANGED dispatchVars
  BY <1>1 DEF dispatchVars, controllerVars
<1>2. CASE Subscribes
  BY <1>2 DEF Subscribes, ControllerNext
<1>3. CASE Unsubscribes
  BY <1>3 DEF Unsubscribes, ControllerNext, Unsubscribe
<1>4. ASSUME NEW e \in Events, callback_handler(e)
      PROVE  UNCHANGED controllerVars
  BY <1>4 DEF callback_handler, Arrives
<1>5. ASSUME NEW c, thread_starts(c) \/ callback_returns(c)
      PROVE  UNCHANGED controllerVars
  BY <1>5 DEF thread_starts, callback_returns
<1> QED
  BY <1>1, <1>2, <1>3, <1>4, <1>5 DEF DispatchNext

(***************************************************************************)
(* What is proved of the controller on its own holds while events arrive   *)
(* and callbacks run.                                                      *)
(***************************************************************************)
THEOREM DispatchImplementsController == DispatchSpec => ControllerSpec
<1>1. DispatchInit => ControllerInit
  BY DEF DispatchInit
<1> QED
  BY <1>1, DispatchStepIsControllerStep, PTL DEF DispatchSpec, ControllerSpec

-----------------------------------------------------------------------------
(***************************************************************************)
(* Type correctness.  A call's number is that of an event that has         *)
(* arrived, so the calls of the next event are new.                        *)
(***************************************************************************)
LEMMA CallsOfArrival ==
    ASSUME NEW n, NEW entries, NEW c
    PROVE  c \in Calls(n, entries)
             <=> \E h \in HandlerIds : \E i \in 1 .. entries[h] : c = <<n, h, i>>
BY DEF Calls

LEMMA CallsType ==
    ASSUME NEW n \in 1 .. MaxEvents, NEW entries \in [HandlerIds -> Nat]
    PROVE  /\ Calls(n, entries) \subseteq AllCalls
           /\ \A c \in Calls(n, entries) : c[1] = n
<1> SUFFICES ASSUME NEW c \in Calls(n, entries)
             PROVE  c \in AllCalls /\ c[1] = n
  OBVIOUS
<1>1. PICK h \in HandlerIds : \E i \in 1 .. entries[h] : c = <<n, h, i>>
  BY CallsOfArrival
<1>2. PICK i \in 1 .. entries[h] : c = <<n, h, i>>
  BY <1>1
<1>3. i \in Nat
  OBVIOUS
<1> QED
  BY <1>2, <1>3 DEF AllCalls

LEMMA NamedType ==
    ASSUME ControllerTypeOK, NEW e \in Events
    PROVE  Named(e) \in [HandlerIds -> Nat]
<1>1. ASSUME NEW h \in DOMAIN options_pool
      PROVE  Occurrences(stream_value(e), options_pool[h].streams) \in Nat
  BY <1>1, EventFacts, OccurrencesNamed DEF ControllerTypeOK
<1> QED
  BY <1>1 DEF Named

Numbered == \A c \in queued \cup running \cup made \cup asked : c[1] <= arrivals

DispatchInv == DispatchTypeOK /\ Numbered

LEMMA ArrivalInv ==
    ASSUME DispatchInv, NEW e \in Events, callback_handler(e)
    PROVE  DispatchInv'
<1> USE DEF DispatchInv, DispatchTypeOK
<1>1. /\ arrivals \in Nat /\ arrivals' = arrivals + 1
      /\ arrivals' \in 1 .. MaxEvents
  BY DispatchAssumption DEF callback_handler, Arrives
<1>2. UNCHANGED <<controllerVars, running, made, stopped>>
  BY DEF callback_handler, Arrives
<1>3. ControllerTypeOK'
  BY <1>2 DEF controllerVars, ControllerTypeOK
<1> DEFINE owed == Calls(arrivals', Named(e))
           started == Calls(arrivals', callbacks_pool[e])
<1>4. /\ asked' = asked \cup owed
      /\ due' = due \cup {c \in owed : c[2] \notin stopped}
      /\ queued' = queued \cup started
  BY DEF callback_handler, Arrives
<1>5. owed \subseteq AllCalls /\ \A c \in owed : c[1] = arrivals'
  BY <1>1, CallsType, NamedType
<1>6. started \subseteq AllCalls /\ \A c \in started : c[1] = arrivals'
  BY <1>1, CallsType DEF ControllerTypeOK
<1> HIDE DEF owed, started
<1>7. \A c \in queued \cup running \cup made \cup asked :
        c[1] \in Nat /\ c[1] <= arrivals
  BY DEF Numbered, AllCalls
<1>8. started \cap (running \cup made) = {}
  BY <1>1, <1>6, <1>7
<1>9. Numbered'
  <2>1. \A c \in queued \cup running \cup made \cup asked : c[1] <= arrivals'
    BY <1>1, <1>7
  <2> QED
    BY <1>1, <1>2, <1>4, <1>5, <1>6, <2>1 DEF Numbered
<1> QED
  BY <1>1, <1>2, <1>3, <1>4, <1>5, <1>6, <1>8, <1>9

LEMMA NextDispatchInv ==
    ASSUME DispatchInv, [DispatchNext]_dispatchVars
    PROVE  DispatchInv'
<1> USE DEF DispatchInv, DispatchTypeOK, Numbered
<1>1. ControllerTypeOK'
  BY DispatchStepIsControllerStep, NextTypeOK
<1>2. CASE UNCHANGED dispatchVars
  BY <1>1, <1>2 DEF dispatchVars, poolVars
<1>3. CASE Subscribes
  BY <1>1, <1>3 DEF Subscribes, poolVars
<1>4. CASE Unsubscribes
  BY <1>1, <1>4 DEF Unsubscribes, poolVars
<1>5. ASSUME NEW c \in queued, thread_starts(c) PROVE DispatchInv'
  BY <1>1, <1>5 DEF thread_starts
<1>6. ASSUME NEW c \in running, callback_returns(c) PROVE DispatchInv'
  BY <1>1, <1>6 DEF callback_returns
<1> QED
  BY <1>2, <1>3, <1>4, <1>5, <1>6, ArrivalInv DEF DispatchNext

LEMMA InitDispatchInv == DispatchInit => DispatchInv
BY InitTypeOK, DispatchAssumption
   DEF DispatchInit, DispatchInv, DispatchTypeOK, Numbered

(***************************************************************************)
(* A call to a callback waits, runs or is over, and never two of these.    *)
(***************************************************************************)
THEOREM DispatchTypeCorrect == DispatchSpec => []DispatchTypeOK
<1>1. DispatchInv => DispatchTypeOK
  BY DEF DispatchInv
<1> QED
  BY <1>1, InitDispatchInv, NextDispatchInv, PTL DEF DispatchSpec

-----------------------------------------------------------------------------
(***************************************************************************)
(* The entries of an event are those that the subscriptions in             *)
(* options_pool name, or fewer, as long as no two subscriptions were given *)
(* one id.                                                                 *)
(***************************************************************************)
EntriesAreNamed ==
    time_ns = calls =>
        \A e \in Events, h \in HandlerIds : callbacks_pool[e][h] <= Named(e)[h]

LEMMA UnusedIdHasNoEntries ==
    ASSUME ControllerTypeOK, EntriesAreNamed, time_ns = calls,
           NEW h \in HandlerIds, h \notin DOMAIN options_pool, NEW e \in Events
    PROVE  callbacks_pool[e][h] = 0
<1>1. callbacks_pool[e][h] \in Nat /\ callbacks_pool[e][h] <= Named(e)[h]
  BY DEF ControllerTypeOK, EntriesAreNamed
<1>2. Named(e)[h] = 0
  BY DEF Named
<1> QED
  BY <1>1, <1>2

\* Two readings of the clock are never the same again once they were not.
LEMMA FineStaysFine ==
    ASSUME ControllerTypeOK, [ControllerNext]_controllerVars, time_ns' = calls'
    PROVE  time_ns = calls
<1>1. time_ns \in Nat /\ calls \in Nat /\ time_ns <= calls
  BY ControllerAssumption DEF ControllerTypeOK
<1>2. ASSUME NEW h \in HandlerIds, NEW o \in Options, handle_subscribe(h, o)
      PROVE  time_ns = calls
  <2>1. NewHandlerId(h) /\ calls' = calls + 1
    BY <1>2 DEF handle_subscribe
  <2>2. time_ns' = h \/ time_ns' = time_ns
    BY <1>2 DEF handle_subscribe
  <2>3. h = time_ns + 1 \/ h <= time_ns
    BY <1>1, <2>1 DEF NewHandlerId
  <2>4. h \in Nat
    BY DEF HandlerIds
  <2> QED
    BY <1>1, <2>1, <2>2, <2>3, <2>4
<1>3. ASSUME NEW h \in HandlerIds, handle_unsubscribe(h)
      PROVE  time_ns = calls
  BY <1>3 DEF handle_unsubscribe
<1>4. CASE UNCHANGED controllerVars
  BY <1>4 DEF controllerVars
<1> QED
  BY <1>2, <1>3, <1>4 DEF ControllerNext, Subscribe, Unsubscribe

LEMMA SubscribeNamed ==
    ASSUME OrphanInv, EntriesAreNamed, NEW h \in HandlerIds, NEW o \in Options,
           handle_subscribe(h, o), time_ns' = calls',
           NEW e \in Events, NEW g \in HandlerIds
    PROVE  callbacks_pool'[e][g] <= Named(e)'[g]
<1> USE DEF OrphanInv
<1>1. time_ns = calls /\ h = time_ns + 1
  <2>1. time_ns = calls
    BY FineStaysFine DEF ControllerNext, Subscribe
  <2>2. NewHandlerId(h) /\ calls' = calls + 1 /\ time_ns \in Nat
    BY DEF handle_subscribe, ControllerTypeOK
  <2>3. time_ns' = h \/ time_ns' = time_ns
    BY DEF handle_subscribe
  <2>4. h = time_ns + 1 \/ h <= time_ns
    BY <2>2 DEF NewHandlerId
  <2>5. h \in Nat
    BY DEF HandlerIds
  <2> QED
    BY <2>1, <2>2, <2>3, <2>4, <2>5
<1>2. callbacks_pool'[e][g] =
        IF g = h THEN callbacks_pool[e][g] + Occurrences(stream_value(e), o.streams)
        ELSE callbacks_pool[e][g]
  BY DEF ControllerTypeOK, handle_subscribe
<1>3. CASE g = h
  <2>1. Named(e)'[g] = Occurrences(stream_value(e), o.streams)
    BY <1>3 DEF Named, handle_subscribe
  <2>2. callbacks_pool[e][h] = 0
    <3>1. h \notin DOMAIN options_pool
      BY <1>1 DEF IdsAreReadings, ControllerTypeOK
    <3> QED
      BY <1>1, <3>1, UnusedIdHasNoEntries
  <2>3. Occurrences(stream_value(e), o.streams) \in Nat
    BY EventFacts, OccurrencesNamed
  <2> QED
    BY <1>2, <1>3, <2>1, <2>2, <2>3
<1>4. CASE g # h
  <2>1. Named(e)'[g] = Named(e)[g]
    BY <1>4 DEF Named, handle_subscribe
  <2> QED
    BY <1>1, <1>2, <1>4, <2>1 DEF EntriesAreNamed
<1> QED
  BY <1>3, <1>4

LEMMA UnsubscribeNamed ==
    ASSUME ControllerTypeOK, EntriesAreNamed, NEW h \in HandlerIds,
           handle_unsubscribe(h), time_ns' = calls',
           NEW e \in Events, NEW g \in HandlerIds
    PROVE  callbacks_pool'[e][g] <= Named(e)'[g]
<1> DEFINE streams == options_pool[h].streams
<1>1. time_ns = calls /\ callbacks_pool[e][g] <= Named(e)[g]
  BY DEF handle_unsubscribe, EntriesAreNamed
<1>2. /\ Named(e)[g] \in Nat /\ callbacks_pool[e][g] \in Nat
      /\ callbacks_pool'[e][g] \in {0, callbacks_pool[e][g]}
  BY NamedType, UnsubscribeCallbacks DEF ControllerTypeOK
<1>3. CASE g # h \/ UnsubscribeRaises(h)
  <2>1. Named(e)'[g] = Named(e)[g]
    <3>1. /\ g \in DOMAIN options_pool' <=> g \in DOMAIN options_pool
          /\ g \in DOMAIN options_pool => options_pool'[g] = options_pool[g]
      BY <1>3 DEF handle_unsubscribe, Restrict
    <3> QED
      BY <3>1 DEF Named
  <2> QED
    BY <1>1, <1>2, <2>1
<1>4. CASE g = h /\ ~UnsubscribeRaises(h)
  <2>1. Named(e)'[g] = 0
    <3>1. g \notin DOMAIN options_pool'
      BY <1>4 DEF handle_unsubscribe, Restrict
    <3> QED
      BY <3>1 DEF Named
  <2>2. callbacks_pool'[e][g] = 0
    <3>1. CASE \E p \in Visits(streams) : p[2] = e
      <4>1. Reached(h, streams) = Visits(streams)
        BY <1>4 DEF Reached, UnsubscribeRaises
      <4> QED
        BY <1>4, <3>1, <4>1, UnsubscribeCallbacks
    <3>2. CASE ~\E p \in Visits(streams) : p[2] = e
      <4>1. streams \in Seq(Streams)
        BY EventFacts DEF ControllerTypeOK, handle_unsubscribe
      <4>2. stream_value(e) \notin Range(streams)
        <5>1. \A i \in DOMAIN streams : stream_value(e) # streams[i]
          <6>1. \A i \in DOMAIN streams : stream_value(e) = streams[i] => <<i, e>> \in Visits(streams)
            BY DEF Visits
          <6> QED
            BY <3>2, <6>1
        <5> QED
          BY <5>1 DEF Range
      <4>3. Named(e)[h] = Occurrences(stream_value(e), streams)
        BY DEF Named, handle_unsubscribe
      <4>4. Occurrences(stream_value(e), streams) = 0
        BY <4>1, <4>2, OccurrencesNamed
      <4> QED
        BY <1>1, <1>2, <1>4, <4>3, <4>4
    <3> QED
      BY <3>1, <3>2
  <2> QED
    BY <2>1, <2>2
<1> QED
  BY <1>3, <1>4

LEMMA NextNamed ==
    ASSUME OrphanInv, EntriesAreNamed, [DispatchNext]_dispatchVars
    PROVE  EntriesAreNamed'
<1>1. [ControllerNext]_controllerVars
  BY DispatchStepIsControllerStep
<1>2. CASE UNCHANGED controllerVars
  BY <1>2 DEF controllerVars, EntriesAreNamed, Named
<1>3. SUFFICES ASSUME time_ns' = calls', NEW e \in Events, NEW g \in HandlerIds
               PROVE  ControllerNext => callbacks_pool'[e][g] <= Named(e)'[g]
  BY <1>1, <1>2 DEF EntriesAreNamed
<1> QED
  BY <1>3, SubscribeNamed, UnsubscribeNamed DEF ControllerNext, Subscribe, Unsubscribe, OrphanInv

LEMMA NextAsked ==
    ASSUME DispatchInv, EntriesAreNamed, CallsAreAsked, [DispatchNext]_dispatchVars
    PROVE  CallsAreAsked'
<1> USE DEF CallsAreAsked
<1>1. time_ns' = calls' => time_ns = calls
  BY DispatchStepIsControllerStep, FineStaysFine DEF DispatchInv, DispatchTypeOK
<1>2. CASE UNCHANGED dispatchVars
  BY <1>1, <1>2 DEF dispatchVars, poolVars, controllerVars
<1>3. CASE Subscribes \/ Unsubscribes
  BY <1>1, <1>3 DEF Subscribes, Unsubscribes, poolVars
<1>4. ASSUME NEW e \in Events, callback_handler(e) PROVE CallsAreAsked'
  <2>1. /\ queued' = queued \cup Calls(arrivals', callbacks_pool[e])
        /\ asked' = asked \cup Calls(arrivals', Named(e))
        /\ UNCHANGED <<running, made>>
    BY <1>4 DEF callback_handler, Arrives
  <2>2. ASSUME time_ns = calls
        PROVE  Calls(arrivals', callbacks_pool[e]) \subseteq Calls(arrivals', Named(e))
    <3> SUFFICES ASSUME NEW h \in HandlerIds, NEW i \in 1 .. callbacks_pool[e][h]
                 PROVE  i \in 1 .. Named(e)[h]
      BY DEF Calls
    <3>1. callbacks_pool[e][h] \in Nat /\ callbacks_pool[e][h] <= Named(e)[h]
      BY <2>2 DEF EntriesAreNamed, DispatchInv, DispatchTypeOK, ControllerTypeOK
    <3>2. Named(e)[h] \in Nat
      BY NamedType DEF DispatchInv, DispatchTypeOK
    <3> QED
      BY <3>1, <3>2
  <2> QED
    BY <1>1, <2>1, <2>2
<1>5. ASSUME NEW c \in queued, thread_starts(c) PROVE CallsAreAsked'
  BY <1>5 DEF thread_starts, controllerVars
<1>6. ASSUME NEW c \in running, callback_returns(c) PROVE CallsAreAsked'
  BY <1>6 DEF callback_returns, controllerVars
<1> QED
  BY <1>2, <1>3, <1>4, <1>5, <1>6 DEF DispatchNext

(***************************************************************************)
(* While ids have not collided, a callback is called only for an event     *)
(* whose stream its subscription named when the event arrived, and no more *)
(* often than that, for any number of threads and events.                  *)
(***************************************************************************)
THEOREM OnlyAskedCallsAreMade == DispatchSpec => []CallsAreAsked
<1>1. DispatchInit => OrphanInv /\ DispatchInv /\ EntriesAreNamed /\ CallsAreAsked
  <2> SUFFICES ASSUME DispatchInit
               PROVE  OrphanInv /\ DispatchInv /\ EntriesAreNamed /\ CallsAreAsked
    OBVIOUS
  <2>0. OrphanInv
    BY InitOrphanInv DEF DispatchInit
  <2>1. DispatchInv
    BY InitDispatchInv
  <2>2. \A e \in Events, h \in HandlerIds : callbacks_pool[e][h] = 0 /\ Named(e)[h] = 0
    BY DEF DispatchInit, ControllerInit, Named
  <2> QED
    BY <2>0, <2>1, <2>2 DEF DispatchInit, EntriesAreNamed, CallsAreAsked
<1> QED
  BY <1>1, DispatchStepIsControllerStep, NextOrphanInv, NextDispatchInv, NextNamed, NextAsked, PTL
     DEF DispatchSpec

-----------------------------------------------------------------------------
(***************************************************************************)
(* While nobody has asked to stop a handler, no entry that its             *)
(* subscription names is missing; with ids that collide there may be more. *)
(***************************************************************************)
NamedAreEntries ==
    \A e \in Events, h \in HandlerIds \ stopped : Named(e)[h] <= callbacks_pool[e][h]

LEMMA SubscribeEnters ==
    ASSUME ControllerTypeOK, NamedAreEntries, NEW h \in HandlerIds, NEW o \in Options,
           handle_subscribe(h, o), NEW e \in Events, NEW g \in HandlerIds \ stopped
    PROVE  Named(e)'[g] <= callbacks_pool'[e][g]
<1>1. /\ callbacks_pool[e][g] \in Nat /\ Occurrences(stream_value(e), o.streams) \in Nat
      /\ callbacks_pool'[e][g] =
            IF g = h THEN callbacks_pool[e][g] + Occurrences(stream_value(e), o.streams)
            ELSE callbacks_pool[e][g]
  BY EventFacts, OccurrencesNamed DEF ControllerTypeOK, handle_subscribe
<1>2. Named(e)'[g] = IF g = h THEN Occurrences(stream_value(e), o.streams) ELSE Named(e)[g]
  BY DEF Named, handle_subscribe
<1> QED
  BY <1>1, <1>2 DEF NamedAreEntries

LEMMA UnsubscribeLeavesOthers ==
    ASSUME ControllerTypeOK, NamedAreEntries, NEW h \in HandlerIds, handle_unsubscribe(h),
           NEW e \in Events, NEW g \in HandlerIds \ stopped, g # h
    PROVE  Named(e)'[g] <= callbacks_pool'[e][g]
<1>1. callbacks_pool'[e][g] = callbacks_pool[e][g]
  BY UnsubscribeCallbacks
<1>2. /\ g \in DOMAIN options_pool' <=> g \in DOMAIN options_pool
      /\ g \in DOMAIN options_pool => options_pool'[g] = options_pool[g]
  BY DEF handle_unsubscribe, Restrict
<1>3. Named(e)'[g] = Named(e)[g]
  BY <1>2 DEF Named
<1> QED
  BY <1>1, <1>3 DEF NamedAreEntries

LEMMA NextEntered ==
    ASSUME ControllerTypeOK, NamedAreEntries, [DispatchNext]_dispatchVars
    PROVE  NamedAreEntries'
<1> SUFFICES ASSUME NEW e \in Events, NEW g \in HandlerIds \ stopped'
             PROVE  Named(e)'[g] <= callbacks_pool'[e][g]
  BY DEF NamedAreEntries
<1>1. stopped \subseteq stopped'
  BY DEF DispatchNext, dispatchVars, Subscribes, Unsubscribes, callback_handler, Arrives,
         thread_starts, callback_returns
<1>2. CASE UNCHANGED controllerVars
  BY <1>1, <1>2 DEF controllerVars, NamedAreEntries, Named
<1>3. CASE Subscribes
  BY <1>1, <1>3, SubscribeEnters DEF Subscribes, Subscribe
<1>4. CASE Unsubscribes
  BY <1>1, <1>4, UnsubscribeLeavesOthers DEF Unsubscribes
<1>5. UNCHANGED controllerVars \/ Subscribes \/ Unsubscribes
  BY DEF DispatchNext, dispatchVars, callback_handler, Arrives, thread_starts, callback_returns
<1> QED
  BY <1>2, <1>3, <1>4, <1>5

LEMMA NextUnderway ==
    ASSUME ControllerTypeOK, NamedAreEntries, DueCallsUnderway, [DispatchNext]_dispatchVars
    PROVE  DueCallsUnderway'
<1> USE DEF DueCallsUnderway
<1>1. CASE UNCHANGED dispatchVars
  BY <1>1 DEF dispatchVars, poolVars
<1>2. CASE Subscribes \/ Unsubscribes
  BY <1>2 DEF Subscribes, Unsubscribes, poolVars
<1>3. ASSUME NEW e \in Events, callback_handler(e) PROVE DueCallsUnderway'
  <2> DEFINE owed == {c \in Calls(arrivals', Named(e)) : c[2] \notin stopped}
  <2>1. /\ queued' = queued \cup Calls(arrivals', callbacks_pool[e])
        /\ due' = due \cup owed
        /\ UNCHANGED <<running, made>>
    BY <1>3 DEF callback_handler, Arrives
  <2>2. owed \subseteq Calls(arrivals', callbacks_pool[e])
    <3> SUFFICES ASSUME NEW c \in Calls(arrivals', Named(e)), c[2] \notin stopped
                 PROVE  c \in Calls(arrivals', callbacks_pool[e])
      OBVIOUS
    <3>1. PICK h \in HandlerIds : \E i \in 1 .. Named(e)[h] : c = <<arrivals', h, i>>
      BY CallsOfArrival
    <3>2. PICK i \in 1 .. Named(e)[h] : c = <<arrivals', h, i>>
      BY <3>1
    <3>3. /\ Named(e)[h] \in Nat /\ callbacks_pool[e][h] \in Nat
          /\ Named(e)[h] <= callbacks_pool[e][h]
      BY <3>2, NamedType DEF NamedAreEntries, ControllerTypeOK
    <3>4. i \in 1 .. callbacks_pool[e][h]
      BY <3>3
    <3> QED
      BY <3>2, <3>4, CallsOfArrival
  <2> HIDE DEF owed
  <2> QED
    BY <2>1, <2>2
<1>4. ASSUME NEW c \in queued, thread_starts(c) PROVE DueCallsUnderway'
  BY <1>4 DEF thread_starts
<1>5. ASSUME NEW c \in running, callback_returns(c) PROVE DueCallsUnderway'
  BY <1>5 DEF callback_returns
<1> QED
  BY <1>1, <1>2, <1>3, <1>4, <1>5 DEF DispatchNext

(***************************************************************************)
(* Every call that is due waits for a thread, has one, or is over, for any *)
(* number of threads, events and subscriptions, whatever the others do.    *)
(***************************************************************************)
THEOREM NoDueCallIsLost == DispatchSpec => []DueCallsUnderway
<1>1. DispatchInit => NamedAreEntries /\ DueCallsUnderway
  BY DEF DispatchInit, ControllerInit, NamedAreEntries, DueCallsUnderway, Named
<1>2. DispatchSpec => []ControllerTypeOK
  BY DispatchImplementsController, TypeCorrect, PTL
<1> QED
  BY <1>1, <1>2, NextEntered, NextUnderway, PTL DEF DispatchSpec

=============================================================================
