----------------------- MODULE SocketController_proofs -----------------------
(***************************************************************************)
(* Theorems about SocketController, for every event list, every set of     *)
(* options and any number of calls.                                        *)
(***************************************************************************)
EXTENDS SocketController, FiniteSetTheorems, WellFoundedInduction, TLAPS

-----------------------------------------------------------------------------
(***************************************************************************)
(* An event is a number, its stream is one of Streams, and the list of an  *)
(* option has positions 1, 2, ..., its length.                             *)
(***************************************************************************)
LEMMA EventFacts ==
    /\ Events \subseteq Nat
    /\ \A e \in Events : stream_value(e) \in Streams
    /\ \A o \in Options : o.streams \in Seq(Streams)
BY ControllerAssumption DEF Events, stream_value

(***************************************************************************)
(* handle_subscribe appends an entry to exactly the events whose stream    *)
(* the list names.                                                         *)
(***************************************************************************)
LEMMA OccurrencesNamed ==
    ASSUME NEW streams \in Seq(Streams), NEW s
    PROVE  /\ Occurrences(s, streams) \in Nat
           /\ Occurrences(s, streams) > 0 <=> s \in Range(streams)
<1> DEFINE Positions == {i \in DOMAIN streams : streams[i] = s}
<1>1. IsFiniteSet(DOMAIN streams)
  <2>1. DOMAIN streams = 1 .. Len(streams) /\ Len(streams) \in Int
    OBVIOUS
  <2> QED
    BY <2>1, FS_Interval
<1>2. IsFiniteSet(Positions)
  BY <1>1, FS_Subset
<1>3. Cardinality(Positions) \in Nat
  BY <1>2, FS_CardinalityType
<1>4. Cardinality(Positions) = 0 <=> Positions = {}
  BY <1>2, FS_EmptySet
<1>5. Positions # {} <=> s \in Range(streams)
  BY DEF Range
<1>6. Occurrences(s, streams) = Cardinality(Positions)
  BY DEF Occurrences
<1> HIDE DEF Positions
<1> QED
  BY <1>3, <1>4, <1>5, <1>6

-----------------------------------------------------------------------------
(***************************************************************************)
(* Type correctness.                                                       *)
(***************************************************************************)
LEMMA SubscribeTypeOK ==
    ASSUME ControllerTypeOK, NEW h \in HandlerIds, NEW o \in Options,
           handle_subscribe(h, o)
    PROVE  ControllerTypeOK'
<1>1. o.streams \in Seq(Streams)
  BY EventFacts
<1>2. Range(o.streams) \subseteq Streams
  BY <1>1 DEF Range
<1>3. /\ DOMAIN options_pool' \subseteq HandlerIds
      /\ options_pool' \in [DOMAIN options_pool' -> Options]
  BY DEF ControllerTypeOK, handle_subscribe
<1>4. callbacks_pool' \in [Events -> [HandlerIds -> Nat]]
  <2>1. \A e \in Events : Occurrences(stream_value(e), o.streams) \in Nat
    BY <1>1, OccurrencesNamed
  <2> QED
    BY <2>1 DEF ControllerTypeOK, handle_subscribe
<1>5. streams_pool' \subseteq Streams
  BY <1>2 DEF ControllerTypeOK, handle_subscribe
<1>6. calls' \in 0 .. MaxCalls /\ time_ns' \in 0 .. calls'
  BY ControllerAssumption
     DEF ControllerTypeOK, handle_subscribe, NewHandlerId, HandlerIds
<1> QED
  BY <1>3, <1>4, <1>5, <1>6 DEF ControllerTypeOK

LEMMA UnsubscribeTypeOK ==
    ASSUME ControllerTypeOK, NEW h \in HandlerIds, handle_unsubscribe(h)
    PROVE  ControllerTypeOK'
<1>1. /\ DOMAIN options_pool' \subseteq HandlerIds
      /\ options_pool' \in [DOMAIN options_pool' -> Options]
  <2>1. options_pool' \in {options_pool, Restrict(options_pool, DOMAIN options_pool \ {h})}
    BY DEF handle_unsubscribe
  <2> QED
    BY <2>1 DEF ControllerTypeOK, Restrict
<1>2. callbacks_pool' \in [Events -> [HandlerIds -> Nat]]
  <2> DEFINE visited == {p[2] : p \in Reached(h, options_pool[h].streams)}
  <2>1. callbacks_pool' =
          [e \in Events |->
              [g \in HandlerIds |->
                  IF g = h /\ e \in visited THEN 0 ELSE callbacks_pool[e][g]]]
    BY DEF handle_unsubscribe
  <2> HIDE DEF visited
  <2> QED
    BY <2>1 DEF ControllerTypeOK
<1>3. streams_pool' \subseteq Streams
  BY DEF ControllerTypeOK, handle_unsubscribe
<1>4. calls' \in 0 .. MaxCalls /\ time_ns' \in 0 .. calls'
  BY DEF ControllerTypeOK, handle_unsubscribe
<1> QED
  BY <1>1, <1>2, <1>3, <1>4 DEF ControllerTypeOK

LEMMA InitTypeOK == ControllerInit => ControllerTypeOK
BY ControllerAssumption DEF ControllerInit, ControllerTypeOK

LEMMA NextTypeOK ==
    ASSUME ControllerTypeOK, [ControllerNext]_controllerVars
    PROVE  ControllerTypeOK'
<1>1. CASE Subscribe
  BY <1>1, SubscribeTypeOK DEF Subscribe
<1>2. CASE Unsubscribe
  BY <1>2, UnsubscribeTypeOK DEF Unsubscribe
<1>3. CASE UNCHANGED controllerVars
  BY <1>3 DEF controllerVars, ControllerTypeOK
<1> QED
  BY <1>1, <1>2, <1>3 DEF ControllerNext

(***************************************************************************)
(* The variables of SocketController keep the types its constructor and    *)
(* methods give them.                                                      *)
(***************************************************************************)
THEOREM TypeCorrect == ControllerSpec => []ControllerTypeOK
BY InitTypeOK, NextTypeOK, PTL DEF ControllerSpec

-----------------------------------------------------------------------------
(***************************************************************************)
(* The reference count.  The strengthening: the events of a stream have    *)
(* the same callbacks.  handle_subscribe keeps it as it stands; a call to  *)
(* handle_unsubscribe that raises between the two events of a stream would *)
(* break it, if the entries it leaves behind were not gone already.        *)
(***************************************************************************)
SameStreamSameCallbacks ==
    \A e, f \in Events :
        stream_value(e) = stream_value(f) => callbacks_pool[e] = callbacks_pool[f]

PoolInv ==
    /\ ControllerTypeOK
    /\ SameStreamSameCallbacks
    /\ PoolMatchesCallbacks

(***************************************************************************)
(* What handle_unsubscribe leaves, by the events it visited.               *)
(***************************************************************************)
LEMMA UnsubscribeCallbacks ==
    ASSUME ControllerTypeOK, NEW h \in HandlerIds, handle_unsubscribe(h),
           NEW e \in Events, NEW g \in HandlerIds
    PROVE  callbacks_pool'[e][g] =
             IF g = h /\ \E p \in Reached(h, options_pool[h].streams) : p[2] = e
             THEN 0 ELSE callbacks_pool[e][g]
<1> DEFINE visited == {p[2] : p \in Reached(h, options_pool[h].streams)}
<1>1. callbacks_pool' =
        [x \in Events |->
            [y \in HandlerIds |->
                IF y = h /\ x \in visited THEN 0 ELSE callbacks_pool[x][y]]]
  BY DEF handle_unsubscribe
<1>2. e \in visited <=> \E p \in Reached(h, options_pool[h].streams) : p[2] = e
  OBVIOUS
<1> HIDE DEF visited
<1> QED
  BY <1>1, <1>2

(***************************************************************************)
(* If the call visits one event of a stream, it leaves the handler no      *)
(* entry for the other event of the stream, even when it raises between    *)
(* the two: it raises there only because the stream was out of the pool,   *)
(* or because an earlier position of the list named it too.  A third event *)
(* of the stream would defeat this.                                        *)
(***************************************************************************)
LEMMA VisitedTogether ==
    ASSUME PoolInv, NEW h \in HandlerIds, handle_unsubscribe(h),
           NEW p \in Reached(h, options_pool[h].streams),
           NEW f \in Events, stream_value(f) = stream_value(p[2])
    PROVE  callbacks_pool'[f][h] = 0
<1> DEFINE streams == options_pool[h].streams
           i == p[1]
           e == p[2]
<1>1. /\ streams \in Seq(Streams)
      /\ DOMAIN streams \subseteq Nat
      /\ Events \subseteq Nat
  BY EventFacts DEF PoolInv, ControllerTypeOK, handle_unsubscribe
<1>2. /\ p \in Visits(streams)
      /\ \A q \in Visits(streams) : Precedes(q, p) => ~Raises(h, streams, q)
  BY DEF Reached
<1>3. /\ p = <<i, e>>
      /\ i \in DOMAIN streams /\ e \in Events
      /\ stream_value(e) = streams[i]
  BY <1>2 DEF Visits
<1>4. <<i, f>> \in Visits(streams)
  BY <1>3 DEF Visits
<1>5. CASE <<i, f>> \in Reached(h, streams)
  BY <1>5, UnsubscribeCallbacks DEF PoolInv
<1>6. CASE <<i, f>> \notin Reached(h, streams)
  <2>1. PICK r \in Visits(streams) : Precedes(r, <<i, f>>) /\ Raises(h, streams, r)
    BY <1>4, <1>6 DEF Reached
  <2>2. /\ r = <<r[1], r[2]>>
        /\ r[1] \in DOMAIN streams /\ r[2] \in Events
        /\ stream_value(r[2]) = streams[r[1]]
    BY <2>1 DEF Visits
  <2>3. ~Precedes(r, p)
    BY <1>2, <2>1
  <2>4. r[1] = i /\ e <= r[2] /\ r[2] < f
    <3>1. /\ r[1] \in Nat /\ r[2] \in Nat
          /\ i \in Nat /\ e \in Nat /\ f \in Nat
      BY <1>1, <1>3, <2>2
    <3>2. r[1] < i \/ (r[1] = i /\ r[2] < f)
      BY <2>1 DEF Precedes
    <3>3. ~(r[1] < i) /\ ~(r[1] = i /\ r[2] < e)
      BY <2>3 DEF Precedes
    <3> QED
      BY <3>1, <3>2, <3>3
  <2>5. e \in Nat /\ f \in Nat /\ r[2] \in Nat
    BY <1>1, <1>3, <2>2
  <2>6. r[2] = e
    <3>1. stream_value(r[2]) = stream_value(e)
      BY <1>3, <2>2, <2>4
    <3>2. r[2] # f /\ e # f
      BY <2>4, <2>5
    <3> QED
      BY <1>3, <2>2, <3>1, <3>2, AtMostTwoEvents
  <2>7. r = p
    BY <1>3, <2>2, <2>4, <2>6
  <2>8. CASE streams[i] \notin streams_pool
    <3>1. callbacks_pool[f][h] \in Nat
      BY DEF PoolInv, ControllerTypeOK
    <3>2. ~(callbacks_pool[f][h] > 0)
      BY <1>3, <2>8 DEF PoolInv, PoolMatchesCallbacks
    <3>3. callbacks_pool[f][h] = 0
      BY <3>1, <3>2
    <3> QED
      BY <3>3, UnsubscribeCallbacks DEF PoolInv
  <2>9. CASE streams[i] \in streams_pool
    <3>1. PICK q \in Visits(streams) :
            Precedes(q, p) /\ streams[q[1]] = streams[i] /\ Lone(h, q[2])
      BY <2>1, <2>7, <2>9 DEF Raises
    <3>2. /\ q[1] \in DOMAIN streams /\ q[2] \in Events
          /\ stream_value(q[2]) = streams[q[1]]
      BY <3>1 DEF Visits
    <3>3. q[1] < i
      <4>1. q[1] \in Nat /\ q[2] \in Nat /\ i \in Nat
        BY <1>1, <1>3, <3>2
      <4>2. CASE q[1] = i
        <5>1. q[2] < e
          BY <3>1, <4>1, <4>2 DEF Precedes
        <5>2. q[2] # e /\ q[2] # f /\ e # f
          BY <2>4, <2>5, <4>1, <5>1
        <5> QED
          BY <1>3, <3>1, <3>2, <5>2, AtMostTwoEvents
      <4> QED
        BY <3>1, <4>1, <4>2 DEF Precedes
    <3>4. <<q[1], f>> \in Visits(streams)
      BY <1>3, <3>1, <3>2 DEF Visits
    <3>5. \A x \in Visits(streams) : Precedes(x, <<q[1], f>>) => Precedes(x, p)
      <4>1. SUFFICES ASSUME NEW x \in Visits(streams), Precedes(x, <<q[1], f>>)
                     PROVE  x[1] < i
        BY DEF Precedes
      <4>2. x[1] \in Nat /\ q[1] \in Nat /\ i \in Nat
        BY <1>1, <1>3, <3>2 DEF Visits
      <4>3. x[1] < q[1] \/ x[1] = q[1]
        BY <4>1 DEF Precedes
      <4> QED
        BY <3>3, <4>2, <4>3
    <3>6. <<q[1], f>> \in Reached(h, streams)
      BY <1>2, <3>4, <3>5 DEF Reached
    <3> QED
      BY <3>6, UnsubscribeCallbacks DEF PoolInv
  <2> QED
    BY <2>8, <2>9
<1> QED
  BY <1>5, <1>6

LEMMA SubscribePoolInv ==
    ASSUME PoolInv, NEW h \in HandlerIds, NEW o \in Options, handle_subscribe(h, o)
    PROVE  SameStreamSameCallbacks' /\ PoolMatchesCallbacks'
<1> DEFINE added(e) == Occurrences(stream_value(e), o.streams)
<1>1. o.streams \in Seq(Streams)
  BY EventFacts
<1>2. \A e \in Events :
        /\ added(e) \in Nat
        /\ added(e) > 0 <=> stream_value(e) \in Range(o.streams)
  BY <1>1, OccurrencesNamed
<1>3. callbacks_pool' =
        [e \in Events |-> [callbacks_pool[e] EXCEPT ![h] = @ + added(e)]]
  BY DEF handle_subscribe
<1>4. \A e \in Events, g \in HandlerIds :
        callbacks_pool'[e][g] =
          IF g = h THEN callbacks_pool[e][g] + added(e) ELSE callbacks_pool[e][g]
  BY <1>3 DEF PoolInv, ControllerTypeOK
<1>5. SameStreamSameCallbacks'
  <2>1. \A e, f \in Events :
          stream_value(e) = stream_value(f) => added(e) = added(f)
    OBVIOUS
  <2> HIDE DEF added
  <2> QED
    BY <1>3, <2>1 DEF PoolInv, SameStreamSameCallbacks
<1> HIDE DEF added
<1>6. PoolMatchesCallbacks'
  <2> SUFFICES ASSUME NEW e \in Events
               PROVE  stream_value(e) \in streams_pool'
                        <=> \E g \in HandlerIds : callbacks_pool'[e][g] > 0
    BY DEF PoolMatchesCallbacks
  <2>1. stream_value(e) \in streams_pool'
          <=> stream_value(e) \in streams_pool \/ added(e) > 0
    BY <1>2 DEF handle_subscribe
  <2>2. \A g \in HandlerIds : callbacks_pool[e][g] \in Nat
    BY DEF PoolInv, ControllerTypeOK
  <2>3. stream_value(e) \in streams_pool
          <=> \E g \in HandlerIds : callbacks_pool[e][g] > 0
    BY DEF PoolInv, PoolMatchesCallbacks
  <2>4. (\E g \in HandlerIds : callbacks_pool'[e][g] > 0)
          <=> added(e) > 0 \/ \E g \in HandlerIds : callbacks_pool[e][g] > 0
    <3>1. ASSUME added(e) > 0 PROVE callbacks_pool'[e][h] > 0
      BY <1>2, <1>4, <2>2, <3>1
    <3>2. ASSUME NEW g \in HandlerIds, callbacks_pool[e][g] > 0
          PROVE  callbacks_pool'[e][g] > 0
      BY <1>2, <1>4, <2>2, <3>2
    <3>3. ASSUME NEW g \in HandlerIds, callbacks_pool'[e][g] > 0, ~(added(e) > 0)
          PROVE  callbacks_pool[e][g] > 0
      BY <1>2, <1>4, <2>2, <3>3
    <3> QED
      BY <3>1, <3>2, <3>3
  <2> QED
    BY <2>1, <2>3, <2>4
<1> QED
  BY <1>5, <1>6

LEMMA UnsubscribePoolInv ==
    ASSUME PoolInv, NEW h \in HandlerIds, handle_unsubscribe(h)
    PROVE  SameStreamSameCallbacks' /\ PoolMatchesCallbacks'
<1> DEFINE streams == options_pool[h].streams
           reached == Reached(h, streams)
           Visited(e) == \E p \in reached : p[2] = e
<1>1. \A p \in reached :
        /\ p[2] \in Events
        /\ stream_value(p[2]) = streams[p[1]]
        /\ \A f \in Events :
              stream_value(f) = stream_value(p[2]) => callbacks_pool'[f][h] = 0
  BY VisitedTogether DEF Reached, Visits
<1>2. \A e \in Events, g \in HandlerIds :
        callbacks_pool'[e][g] =
          IF g = h /\ Visited(e) THEN 0 ELSE callbacks_pool[e][g]
  BY UnsubscribeCallbacks DEF PoolInv
<1>3. streams_to_delete(h) = {streams[p[1]] : p \in {q \in reached : Lone(h, q[2])}}
  BY DEF streams_to_delete
<1>4. callbacks_pool' \in [Events -> [HandlerIds -> Nat]]
  BY UnsubscribeTypeOK DEF PoolInv, ControllerTypeOK
<1>5. streams_pool' = streams_pool \ streams_to_delete(h)
  BY DEF handle_unsubscribe
<1> HIDE DEF reached
<1>6. SameStreamSameCallbacks'
  <2> SUFFICES ASSUME NEW e \in Events, NEW f \in Events,
                      stream_value(e) = stream_value(f)
               PROVE  callbacks_pool'[e] = callbacks_pool'[f]
    BY DEF SameStreamSameCallbacks
  <2>1. callbacks_pool[e] = callbacks_pool[f]
    BY DEF PoolInv, SameStreamSameCallbacks
  <2>2. \A g \in HandlerIds : callbacks_pool'[e][g] = callbacks_pool'[f][g]
    <3> TAKE g \in HandlerIds
    <3>1. CASE g # h \/ (~Visited(e) /\ ~Visited(f))
      BY <1>2, <2>1, <3>1
    <3>2. CASE g = h /\ (Visited(e) \/ Visited(f))
      BY <1>1, <3>2
    <3> QED
      BY <3>1, <3>2
  <2> QED
    BY <1>4, <2>2
<1>7. PoolMatchesCallbacks'
  <2> SUFFICES ASSUME NEW e \in Events
               PROVE  stream_value(e) \in streams_pool'
                        <=> \E g \in HandlerIds : callbacks_pool'[e][g] > 0
    BY DEF PoolMatchesCallbacks
  <2>1. stream_value(e) \in streams_pool
          <=> \E g \in HandlerIds : callbacks_pool[e][g] > 0
    BY DEF PoolInv, PoolMatchesCallbacks
  <2>2. CASE stream_value(e) \in streams_to_delete(h)
    <3>1. PICK p \in reached : Lone(h, p[2]) /\ stream_value(e) = streams[p[1]]
      BY <1>3, <2>2
    <3>2. callbacks_pool[e] = callbacks_pool[p[2]]
      BY <1>1, <3>1 DEF PoolInv, SameStreamSameCallbacks
    <3>3. \A g \in HandlerIds : callbacks_pool'[e][g] = 0
      <4>1. callbacks_pool'[e][h] = 0
        BY <1>1, <3>1
      <4>2. \A g \in HandlerIds \ {h} : callbacks_pool'[e][g] = 0
        BY <1>2, <3>1, <3>2 DEF Lone
      <4> QED
        BY <4>1, <4>2
    <3> QED
      BY <1>5, <2>2, <3>3
  <2>3. CASE stream_value(e) \notin streams_to_delete(h)
    <3>1. stream_value(e) \in streams_pool' <=> stream_value(e) \in streams_pool
      BY <1>5, <2>3
    <3>2. CASE ~Visited(e)
      BY <1>2, <2>1, <3>1, <3>2
    <3>3. CASE Visited(e)
      <4>1. PICK p \in reached : p[2] = e
        BY <3>3
      <4>2. ~Lone(h, e)
        BY <1>1, <1>3, <2>3, <4>1
      <4>3. PICK g \in HandlerIds \ {h} : callbacks_pool[e][g] # 0
        BY <4>2 DEF Lone
      <4>4. callbacks_pool[e][g] > 0 /\ callbacks_pool'[e][g] > 0
        BY <1>2, <4>3 DEF PoolInv, ControllerTypeOK
      <4> QED
        BY <2>1, <3>1, <4>4
    <3> QED
      BY <3>2, <3>3
  <2> QED
    BY <2>2, <2>3
<1> QED
  BY <1>6, <1>7

LEMMA InitPoolInv == ControllerInit => PoolInv
BY InitTypeOK DEF PoolInv, ControllerInit, SameStreamSameCallbacks, PoolMatchesCallbacks

LEMMA NextPoolInv ==
    ASSUME PoolInv, [ControllerNext]_controllerVars
    PROVE  PoolInv'
<1>1. ControllerTypeOK'
  BY NextTypeOK DEF PoolInv
<1>2. CASE Subscribe
  BY <1>1, <1>2, SubscribePoolInv DEF Subscribe, PoolInv
<1>3. CASE Unsubscribe
  BY <1>1, <1>3, UnsubscribePoolInv DEF Unsubscribe, PoolInv
<1>4. CASE UNCHANGED controllerVars
  BY <1>1, <1>4
     DEF controllerVars, PoolInv, SameStreamSameCallbacks, PoolMatchesCallbacks
<1> QED
  BY <1>2, <1>3, <1>4 DEF ControllerNext

(***************************************************************************)
(* The streams asked of the server are exactly those some callback is      *)
(* registered for, through every call of handle_subscribe and              *)
(* handle_unsubscribe, those that raise halfway included.                  *)
(***************************************************************************)
THEOREM PoolCountsReferences == ControllerSpec => []PoolMatchesCallbacks
<1>1. PoolInv => PoolMatchesCallbacks
  BY DEF PoolInv
<1> QED
  BY <1>1, InitPoolInv, NextPoolInv, PTL DEF ControllerSpec

-----------------------------------------------------------------------------
(***************************************************************************)
(* No orphan callbacks.  The strengthening: an id in use is a clock        *)
(* reading that has been, so the next one is new.                          *)
(***************************************************************************)
IdsAreReadings == \A h \in DOMAIN options_pool : h <= time_ns

OrphanInv ==
    /\ ControllerTypeOK
    /\ IdsAreReadings
    /\ NoOrphanCallbacks

(***************************************************************************)
(* A handler id given by a clock that never repeats itself is unused.      *)
(***************************************************************************)
LEMMA NewIdIsUnused ==
    ASSUME OrphanInv, ~CoarseClock, NEW h \in HandlerIds, NewHandlerId(h)
    PROVE  /\ h \notin DOMAIN options_pool
           /\ \A e \in Events : callbacks_pool[e][h] = 0
<1>1. h = time_ns + 1 /\ time_ns \in Int
  BY DEF NewHandlerId, OrphanInv, ControllerTypeOK
<1>2. h \notin DOMAIN options_pool
  BY <1>1 DEF OrphanInv, IdsAreReadings
<1>3. ASSUME NEW e \in Events PROVE callbacks_pool[e][h] = 0
  <2>1. callbacks_pool[e][h] \in Nat
    BY DEF OrphanInv, ControllerTypeOK
  <2>2. ~(callbacks_pool[e][h] > 0)
    BY <1>2 DEF OrphanInv, NoOrphanCallbacks
  <2> QED
    BY <2>1, <2>2
<1> QED
  BY <1>2, <1>3

LEMMA SubscribeOrphanInv ==
    ASSUME OrphanInv, NEW h \in HandlerIds, NEW o \in Options, handle_subscribe(h, o)
    PROVE  IdsAreReadings' /\ NoOrphanCallbacks'
<1>1. DOMAIN options_pool' = DOMAIN options_pool \cup {h} /\ options_pool'[h] = o
  BY DEF handle_subscribe
<1>2. \A g \in DOMAIN options_pool \ {h} : options_pool'[g] = options_pool[g]
  BY DEF handle_subscribe
<1>3. IdsAreReadings'
  <2>1. time_ns' >= h /\ time_ns' >= time_ns /\ time_ns \in Nat /\ time_ns' \in Nat /\ h \in Nat
    BY DEF OrphanInv, ControllerTypeOK, handle_subscribe, HandlerIds
  <2>2. \A g \in DOMAIN options_pool : g \in Nat /\ g <= time_ns
    BY DEF OrphanInv, IdsAreReadings, ControllerTypeOK, HandlerIds
  <2> QED
    BY <1>1, <2>1, <2>2 DEF IdsAreReadings
<1>4. NoOrphanCallbacks'
  <2> SUFFICES ASSUME ~CoarseClock, NEW e \in Events, NEW g \in HandlerIds,
                      callbacks_pool'[e][g] > 0
               PROVE  /\ g \in DOMAIN options_pool'
                      /\ stream_value(e) \in Range(options_pool'[g].streams)
    BY DEF NoOrphanCallbacks, Range
  <2>1. callbacks_pool'[e] =
          [callbacks_pool[e] EXCEPT ![h] = @ + Occurrences(stream_value(e), o.streams)]
    BY DEF handle_subscribe
  <2>2. callbacks_pool[e] \in [HandlerIds -> Nat]
    BY DEF OrphanInv, ControllerTypeOK
  <2>3. CASE g = h
    <3>1. callbacks_pool[e][h] = 0
      BY NewIdIsUnused DEF handle_subscribe
    <3>2. /\ Occurrences(stream_value(e), o.streams) \in Nat
          /\ Occurrences(stream_value(e), o.streams) > 0
               <=> stream_value(e) \in Range(o.streams)
      BY EventFacts, OccurrencesNamed
    <3> QED
      BY <1>1, <2>1, <2>2, <2>3, <3>1, <3>2
  <2>4. CASE g # h
    <3>1. callbacks_pool[e][g] > 0
      BY <2>1, <2>2, <2>4
    <3>2. g \in DOMAIN options_pool /\ stream_value(e) \in Range(options_pool[g].streams)
      BY <3>1 DEF OrphanInv, NoOrphanCallbacks
    <3> QED
      BY <1>1, <1>2, <2>4, <3>2
  <2> QED
    BY <2>3, <2>4
<1> QED
  BY <1>3, <1>4

LEMMA UnsubscribeOrphanInv ==
    ASSUME OrphanInv, NEW h \in HandlerIds, handle_unsubscribe(h)
    PROVE  IdsAreReadings' /\ NoOrphanCallbacks'
<1> DEFINE streams == options_pool[h].streams
<1>1. \/ UnsubscribeRaises(h) /\ options_pool' = options_pool
      \/ /\ ~UnsubscribeRaises(h)
         /\ DOMAIN options_pool' = DOMAIN options_pool \ {h}
         /\ \A g \in DOMAIN options_pool' : options_pool'[g] = options_pool[g]
  BY DEF handle_unsubscribe, Restrict
<1>2. IdsAreReadings'
  <2>1. DOMAIN options_pool' \subseteq DOMAIN options_pool /\ time_ns' = time_ns
    BY <1>1 DEF handle_unsubscribe
  <2> QED
    BY <2>1 DEF OrphanInv, IdsAreReadings
<1>3. NoOrphanCallbacks'
  <2> SUFFICES ASSUME ~CoarseClock, NEW e \in Events, NEW g \in HandlerIds,
                      callbacks_pool'[e][g] > 0
               PROVE  /\ g \in DOMAIN options_pool'
                      /\ stream_value(e) \in Range(options_pool'[g].streams)
    BY DEF NoOrphanCallbacks, Range
  <2>1. /\ callbacks_pool[e][g] > 0
        /\ ~(g = h /\ \E p \in Reached(h, streams) : p[2] = e)
    BY UnsubscribeCallbacks DEF OrphanInv
  <2>2. g \in DOMAIN options_pool /\ stream_value(e) \in Range(options_pool[g].streams)
    BY <2>1 DEF OrphanInv, NoOrphanCallbacks
  <2>3. CASE UnsubscribeRaises(h)
    BY <1>1, <2>2, <2>3
  <2>4. CASE ~UnsubscribeRaises(h)
    <3>1. g # h
      <4>1. SUFFICES ASSUME g = h PROVE FALSE
        OBVIOUS
      <4>2. PICK i \in DOMAIN streams : streams[i] = stream_value(e)
        BY <2>2, <4>1 DEF Range
      <4>3. <<i, e>> \in Visits(streams)
        BY <4>2 DEF Visits
      <4>4. <<i, e>> \in Reached(h, streams)
        BY <2>4, <4>3 DEF Reached, UnsubscribeRaises
      <4> QED
        BY <2>1, <4>1, <4>4
    <3>2. g \in DOMAIN options_pool' /\ options_pool'[g] = options_pool[g]
      BY <1>1, <2>2, <2>4, <3>1
    <3> QED
      BY <2>2, <3>2
  <2> QED
    BY <2>3, <2>4
<1> QED
  BY <1>2, <1>3

LEMMA InitOrphanInv == ControllerInit => OrphanInv
BY InitTypeOK DEF OrphanInv, ControllerInit, IdsAreReadings, NoOrphanCallbacks

LEMMA NextOrphanInv ==
    ASSUME OrphanInv, [ControllerNext]_controllerVars
    PROVE  OrphanInv'
<1>1. ControllerTypeOK'
  BY NextTypeOK DEF OrphanInv
<1>2. CASE Subscribe
  BY <1>1, <1>2, SubscribeOrphanInv DEF Subscribe, OrphanInv
<1>3. CASE Unsubscribe
  BY <1>1, <1>3, UnsubscribeOrphanInv DEF Unsubscribe, OrphanInv
<1>4. CASE UNCHANGED controllerVars
  BY <1>1, <1>4
     DEF controllerVars, OrphanInv, IdsAreReadings, NoOrphanCallbacks
<1> QED
  BY <1>2, <1>3, <1>4 DEF ControllerNext

(***************************************************************************)
(* With unique handler ids, every registered callback belongs to an entry  *)
(* of options_pool that names its stream, so handle_unsubscribe can always *)
(* find it: no exception on the way leaves one behind.                     *)
(***************************************************************************)
THEOREM CallbacksAreOwned == ControllerSpec => []NoOrphanCallbacks
<1>1. OrphanInv => NoOrphanCallbacks
  BY DEF OrphanInv
<1> QED
  BY <1>1, InitOrphanInv, NextOrphanInv, PTL DEF ControllerSpec

-----------------------------------------------------------------------------
(***************************************************************************)
(* Isolation.  A step keeps every subscription that is fully registered,   *)
(* save the one it unsubscribes.                                           *)
(***************************************************************************)
LEMMA SubscribeKeepsOthers ==
    ASSUME OrphanInv, ~CoarseClock, NEW h \in HandlerIds, NEW o \in Options,
           handle_subscribe(h, o), NEW g \in DOMAIN options_pool, FullyRegistered(g)
    PROVE  g \in DOMAIN options_pool' /\ FullyRegistered(g)'
<1>1. g # h
  BY NewIdIsUnused DEF handle_subscribe
<1>2. /\ g \in DOMAIN options_pool'
      /\ options_pool'[g] = options_pool[g]
      /\ streams_pool \subseteq streams_pool'
  BY <1>1 DEF handle_subscribe
<1>3. \A e \in Events : callbacks_pool'[e][g] = callbacks_pool[e][g]
  BY <1>1 DEF OrphanInv, ControllerTypeOK, handle_subscribe
<1> QED
  BY <1>2, <1>3 DEF FullyRegistered, Range

LEMMA UnsubscribeKeepsOthers ==
    ASSUME ControllerTypeOK, NEW h \in HandlerIds, handle_unsubscribe(h),
           NEW g \in DOMAIN options_pool, g # h, FullyRegistered(g)
    PROVE  g \in DOMAIN options_pool' /\ FullyRegistered(g)'
<1>1. g \in DOMAIN options_pool' /\ options_pool'[g] = options_pool[g]
  BY DEF handle_unsubscribe, Restrict
<1>2. g \in HandlerIds
  BY DEF ControllerTypeOK
<1>3. \A e \in Events : callbacks_pool'[e][g] = callbacks_pool[e][g]
  BY <1>2, UnsubscribeCallbacks
<1>4. ASSUME NEW s \in Range(options_pool[g].streams) PROVE s \in streams_pool'
  <2>1. s \in streams_pool
    BY DEF FullyRegistered
  <2>2. s \notin streams_to_delete(h)
    <3>1. SUFFICES ASSUME s \in streams_to_delete(h) PROVE FALSE
      OBVIOUS
    <3>2. PICK p \in Reached(h, options_pool[h].streams) :
            Lone(h, p[2]) /\ s = options_pool[h].streams[p[1]]
      BY <3>1 DEF streams_to_delete
    <3>3. p[2] \in Events /\ stream_value(p[2]) = s
      BY <3>2 DEF Reached, Visits
    <3>4. callbacks_pool[p[2]][g] > 0
      BY <3>3 DEF FullyRegistered
    <3>5. callbacks_pool[p[2]][g] = 0
      BY <1>2, <3>2 DEF Lone
    <3> QED
      BY <3>4, <3>5
  <2> QED
    BY <2>1, <2>2 DEF handle_unsubscribe
<1> QED
  BY <1>1, <1>3, <1>4 DEF FullyRegistered, Range

(***************************************************************************)
(* With unique handler ids, unsubscribing one handler never costs another  *)
(* handler a stream or a callback, however their streams overlap.          *)
(***************************************************************************)
THEOREM SubscriptionsAreIsolated == ControllerSpec => OthersUndisturbed
<1> DEFINE Isolated ==
             ~CoarseClock =>
                \A h \in DOMAIN options_pool :
                   FullyRegistered(h) =>
                      \/ h \in DOMAIN options_pool' /\ FullyRegistered(h)'
                      \/ handle_unsubscribe(h)
<1>1. ASSUME OrphanInv, [ControllerNext]_controllerVars
      PROVE  [Isolated]_controllerVars
  <2>1. CASE Subscribe
    BY <1>1, <2>1, SubscribeKeepsOthers DEF Subscribe
  <2>2. CASE Unsubscribe
    <3>1. PICK k \in HandlerIds : handle_unsubscribe(k)
      BY <2>2 DEF Unsubscribe
    <3>2. ControllerTypeOK
      BY <1>1 DEF OrphanInv
    <3>3. \A h \in DOMAIN options_pool :
            h # k /\ FullyRegistered(h) => h \in DOMAIN options_pool' /\ FullyRegistered(h)'
      BY <3>1, <3>2, UnsubscribeKeepsOthers
    <3> QED
      BY <3>1, <3>3
  <2>3. CASE UNCHANGED controllerVars
    BY <2>3
  <2> QED
    BY <1>1, <2>1, <2>2, <2>3 DEF ControllerNext
<1> QED
  BY <1>1, InitOrphanInv, NextOrphanInv, PTL DEF ControllerSpec, OthersUndisturbed

-----------------------------------------------------------------------------
(***************************************************************************)
(* The controller implements SubscriptionRegistry.                         *)
(***************************************************************************)
LEMMA CarriedEvents ==
    ASSUME NEW S, NEW e
    PROVE  e \in R!Carried(S) <=> e \in Events /\ stream_value(e) \in S
BY DEF R!Carried

LEMMA SubscribeRegisters ==
    ASSUME PoolInv, NEW h \in HandlerIds, NEW o \in Options, handle_subscribe(h, o)
    PROVE  R!Register(h, Range(o.streams))
<1> DEFINE added(e) == Occurrences(stream_value(e), o.streams)
<1>1. \A e \in Events :
        /\ added(e) \in Nat
        /\ added(e) > 0 <=> stream_value(e) \in Range(o.streams)
  BY EventFacts, OccurrencesNamed
<1>2. \A e \in Events, g \in HandlerIds :
        callbacks_pool'[e][g] =
          IF g = h THEN callbacks_pool[e][g] + added(e) ELSE callbacks_pool[e][g]
  BY DEF handle_subscribe, PoolInv, ControllerTypeOK
<1>3. \A e \in Events, g \in HandlerIds : callbacks_pool[e][g] \in Nat
  BY DEF PoolInv, ControllerTypeOK
<1> HIDE DEF added
<1>4. \A e \in Events, g \in HandlerIds :
        callbacks_pool'[e][g] > 0
          <=> callbacks_pool[e][g] > 0 \/ (g = h /\ stream_value(e) \in Range(o.streams))
  BY <1>1, <1>2, <1>3
<1>5. Registered' = Registered \cup {h} \X R!Carried(Range(o.streams))
  BY <1>4, CarriedEvents DEF Registered
<1> QED
  BY <1>5 DEF R!Register, handle_subscribe

LEMMA UnsubscribeReleases ==
    ASSUME PoolInv, NEW h \in HandlerIds, handle_unsubscribe(h)
    PROVE  \E S \in SUBSET Streams : R!Release(h, S)
<1> DEFINE streams == options_pool[h].streams
           reached == Reached(h, streams)
           S == {streams[p[1]] : p \in reached}
<1>1. \A p \in reached :
        /\ p[2] \in Events
        /\ stream_value(p[2]) = streams[p[1]]
        /\ \A f \in Events :
              stream_value(f) = stream_value(p[2]) => callbacks_pool'[f][h] = 0
  BY VisitedTogether DEF Reached, Visits
<1>2. \A e \in Events, g \in HandlerIds :
        callbacks_pool'[e][g] =
          IF g = h /\ \E p \in reached : p[2] = e THEN 0 ELSE callbacks_pool[e][g]
  BY UnsubscribeCallbacks DEF PoolInv
<1>3. streams_to_delete(h) = {streams[p[1]] : p \in {q \in reached : Lone(h, q[2])}}
  BY DEF streams_to_delete
<1>4. streams_pool' = streams_pool \ streams_to_delete(h)
  BY DEF handle_unsubscribe
<1>5. \A e \in Events, g \in HandlerIds : callbacks_pool[e][g] \in Nat
  BY DEF PoolInv, ControllerTypeOK
<1> HIDE DEF reached
<1>6. \A e \in Events, g \in HandlerIds :
        callbacks_pool'[e][g] > 0
          <=> callbacks_pool[e][g] > 0 /\ ~(g = h /\ stream_value(e) \in S)
  <2> TAKE e \in Events, g \in HandlerIds
  <2>1. CASE g = h /\ stream_value(e) \in S
    <3>1. callbacks_pool'[e][h] = 0
      BY <1>1, <2>1
    <3> QED
      BY <2>1, <3>1
  <2>2. CASE ~(g = h /\ stream_value(e) \in S)
    <3>1. ~(g = h /\ \E p \in reached : p[2] = e)
      BY <1>1, <2>2
    <3> QED
      BY <1>2, <2>2, <3>1
  <2> QED
    BY <2>1, <2>2
<1>7. S \subseteq Streams
  BY <1>1, EventFacts
<1>8. Registered' = Registered \ ({h} \X R!Carried(S))
  BY <1>6, CarriedEvents DEF Registered
<1>9. ASSUME NEW s \in S
      PROVE  s \in streams_to_delete(h) <=> s \notin R!InUse(Registered')
  <2>1. s \in R!InUse(Registered')
          <=> \E e \in Events, g \in HandlerIds :
                 stream_value(e) = s /\ callbacks_pool'[e][g] > 0
    <3>1. Registered' = {q \in HandlerIds \X Events : callbacks_pool'[q[2]][q[1]] > 0}
      BY DEF Registered
    <3>2. \A q \in HandlerIds \X Events :
            [e \in Events |-> stream_value(e)][q[2]] = stream_value(q[2])
      OBVIOUS
    <3>3. s \in R!InUse(Registered') <=> \E q \in Registered' : stream_value(q[2]) = s
      BY <3>1, <3>2 DEF R!InUse
    <3>4. ASSUME NEW e \in Events, NEW g \in HandlerIds
          PROVE  <<g, e>> \in Registered' <=> callbacks_pool'[e][g] > 0
      BY <3>1
    <3>5. \A q \in Registered' : \E g \in HandlerIds, e \in Events : q = <<g, e>>
      BY <3>1
    <3>6. ASSUME NEW q \in Registered', stream_value(q[2]) = s
          PROVE  \E e \in Events, g \in HandlerIds :
                    stream_value(e) = s /\ callbacks_pool'[e][g] > 0
      <4>1. PICK g \in HandlerIds, e \in Events : q = <<g, e>>
        BY <3>5
      <4>2. callbacks_pool'[e][g] > 0
        BY <3>4, <4>1
      <4>3. stream_value(e) = s
        BY <3>6, <4>1
      <4> QED
        BY <4>2, <4>3
    <3>7. ASSUME NEW e \in Events, NEW g \in HandlerIds,
                 stream_value(e) = s, callbacks_pool'[e][g] > 0
          PROVE  \E q \in Registered' : stream_value(q[2]) = s
      <4>1. <<g, e>> \in Registered'
        BY <3>4, <3>7
      <4>2. <<g, e>>[2] = e
        OBVIOUS
      <4> QED
        BY <3>7, <4>1, <4>2
    <3> QED
      BY <3>3, <3>6, <3>7
  <2>2. PICK p \in reached : streams[p[1]] = s
    OBVIOUS
  <2>3. p[2] \in Events /\ stream_value(p[2]) = s
    BY <1>1, <2>2
  <2>4. ASSUME NEW e \in Events, stream_value(e) = s, NEW g \in HandlerIds \ {h}
        PROVE  callbacks_pool'[e][g] = callbacks_pool[p[2]][g]
    BY <1>2, <2>3, <2>4 DEF PoolInv, SameStreamSameCallbacks
  <2>5. ASSUME NEW e \in Events, stream_value(e) = s
        PROVE  callbacks_pool'[e][h] = 0
    BY <1>1, <2>3, <2>5
  <2>6. s \in R!InUse(Registered') <=> ~Lone(h, p[2])
    <3>1. ASSUME NEW e \in Events, NEW g \in HandlerIds,
                 stream_value(e) = s, callbacks_pool'[e][g] > 0
          PROVE  ~Lone(h, p[2])
      <4>1. g # h
        BY <2>5, <3>1
      <4> QED
        BY <2>3, <2>4, <3>1, <4>1 DEF Lone
    <3>2. ASSUME ~Lone(h, p[2])
          PROVE  \E g \in HandlerIds : callbacks_pool'[p[2]][g] > 0
      <4>1. PICK g \in HandlerIds \ {h} : callbacks_pool[p[2]][g] # 0
        BY <3>2 DEF Lone
      <4> QED
        BY <1>5, <2>3, <2>4, <4>1
    <3> QED
      BY <2>1, <2>3, <3>1, <3>2
  <2>7. s \in streams_to_delete(h) <=> Lone(h, p[2])
    <3>1. ASSUME NEW q \in reached, Lone(h, q[2]), streams[q[1]] = s
          PROVE  Lone(h, p[2])
      <4>1. callbacks_pool[q[2]] = callbacks_pool[p[2]]
        BY <1>1, <2>3, <3>1 DEF PoolInv, SameStreamSameCallbacks
      <4> QED
        BY <3>1, <4>1 DEF Lone
    <3> QED
      BY <1>3, <2>2, <3>1
  <2> QED
    BY <2>6, <2>7
<1>10. \A s \in S : R!Carried({s}) # {}
  <2> TAKE s \in S
  <2>1. PICK p \in reached : streams[p[1]] = s
    OBVIOUS
  <2>2. p[2] \in R!Carried({s})
    BY <1>1, <2>1, CarriedEvents
  <2> QED
    BY <2>2
<1>11. streams_to_delete(h) \subseteq S
  BY <1>3
<1> HIDE DEF S
<1>12. streams_pool' =
         streams_pool
            \ {s \in S : R!Carried({s}) # {} /\ s \notin R!InUse(Registered')}
  BY <1>4, <1>9, <1>10, <1>11
<1> QED
  BY <1>7, <1>8, <1>12 DEF R!Release

(***************************************************************************)
(* Every handle_subscribe and handle_unsubscribe is a step of the registry *)
(* or none: a handler lets go of whole streams, and a stream is given back *)
(* exactly when its last handler lets go.                                  *)
(***************************************************************************)
THEOREM ControllerImplementsRegistry == ControllerSpec => ImplementsRegistry
<1>1. ControllerInit => R!RegistryInit
  BY DEF ControllerInit, R!RegistryInit, Registered
<1>2. ASSUME PoolInv, [ControllerNext]_controllerVars
      PROVE  [R!RegistryNext]_<<Registered, streams_pool>>
  <2>1. CASE UNCHANGED controllerVars
    BY <2>1 DEF controllerVars, Registered
  <2>2. ASSUME NEW h \in HandlerIds, NEW o \in Options, handle_subscribe(h, o)
        PROVE  R!RegistryNext
    <3>1. Range(o.streams) \in SUBSET Streams
      BY EventFacts DEF Range
    <3> QED
      BY <1>2, <2>2, <3>1, SubscribeRegisters DEF R!RegistryNext
  <2>3. ASSUME NEW h \in HandlerIds, handle_unsubscribe(h)
        PROVE  R!RegistryNext
    BY <1>2, <2>3, UnsubscribeReleases DEF R!RegistryNext
  <2> QED
    BY <1>2, <2>1, <2>2, <2>3 DEF ControllerNext, Subscribe, Unsubscribe
<1> QED
  BY <1>1, <1>2, InitPoolInv, NextPoolInv, PTL
     DEF ControllerSpec, ImplementsRegistry, R!RegistrySpec

-----------------------------------------------------------------------------
(***************************************************************************)
(* The loops.  A set of natural numbers has a least element: the intervals *)
(* from 1 to its elements are finite sets, and strict inclusion of finite  *)
(* sets is well founded.                                                   *)
(***************************************************************************)
LEMMA LeastNumber ==
    ASSUME NEW T \in SUBSET Nat, T # {}
    PROVE  \E n \in T : \A m \in T : n <= m
<1> DEFINE Below == {1 .. n : n \in T}
           Smaller == StrictSubsetOrdering(Nat)
<1>1. Below \subseteq FiniteSubsetsOf(Nat)
  BY FS_Interval DEF FiniteSubsetsOf
<1>2. IsWellFoundedOn(Smaller, FiniteSubsetsOf(Nat))
  BY FS_StrictSubsetOrderingWellFounded
<1>3. Below # {}
  OBVIOUS
<1>4. \E X \in Below : \A Y \in Below : <<Y, X>> \notin Smaller
  <2> HIDE DEF Below, Smaller
  <2> QED
    BY <1>1, <1>2, <1>3, WFMin, Zenon
<1>5. PICK n \in T : \A m \in T : <<1 .. m, 1 .. n>> \notin Smaller
  BY <1>4
<1>6. ASSUME NEW m \in T, m < n PROVE FALSE
  <2>1. 1 .. m \subseteq 1 .. n /\ 1 .. m \in SUBSET Nat /\ 1 .. n \in SUBSET Nat
    BY <1>6
  <2>2. n \in 1 .. n /\ n \notin 1 .. m
    BY <1>6
  <2>3. 1 .. m # 1 .. n
    BY <2>2
  <2>4. <<1 .. m, 1 .. n>> \in (SUBSET Nat) \X (SUBSET Nat)
    BY <2>1
  <2>5. <<1 .. m, 1 .. n>> \in Smaller
    BY <2>1, <2>3, <2>4, Zenon DEF StrictSubsetOrdering
  <2> QED
    BY <1>5, <2>5
<1> QED
  BY <1>6

\* A set of points has one that comes before all others.
LEMMA FirstPoint ==
    ASSUME NEW T \in SUBSET (Nat \X Nat), T # {}
    PROVE  \E p \in T : \A q \in T : ~Precedes(q, p)
<1>1. PICK i \in {p[1] : p \in T} : \A j \in {p[1] : p \in T} : i <= j
  <2>1. {p[1] : p \in T} \subseteq Nat /\ {p[1] : p \in T} # {}
    OBVIOUS
  <2> QED
    BY <2>1, LeastNumber
<1> DEFINE Row == {e \in Nat : <<i, e>> \in T}
<1>2. Row \subseteq Nat /\ Row # {}
  OBVIOUS
<1>3. PICK e \in Row : \A f \in Row : e <= f
  <2> HIDE DEF Row
  <2> QED
    BY <1>2, LeastNumber
<1>4. ASSUME NEW q \in T, Precedes(q, <<i, e>>) PROVE FALSE
  <2>1. q = <<q[1], q[2]>> /\ q[1] \in Nat /\ q[2] \in Nat /\ i \in Nat /\ e \in Nat
    OBVIOUS
  <2>2. i <= q[1]
    BY <1>1
  <2>3. q[1] = i /\ q[2] < e
    BY <1>4, <2>1, <2>2 DEF Precedes
  <2>4. q[2] \in Row
    BY <2>1, <2>3
  <2> QED
    BY <1>3, <2>1, <2>3, <2>4
<1> QED
  BY <1>4

(***************************************************************************)
(* What the loops have left when the visits in D are done.                 *)
(***************************************************************************)
DeletedBy(h, streams, D) ==
    {streams[q[1]] : q \in {r \in Reached(h, streams) \cap D :
                              Lone(h, r[2]) /\ ~Raises(h, streams, r)}}

LeftBy(h, streams, D) ==
    [callbacks |-> [e \in Events |->
                      [g \in HandlerIds |->
                          IF g = h /\ \E q \in Reached(h, streams) \cap D : q[2] = e
                          THEN 0 ELSE callbacks_pool[e][g]]],
     pool      |-> streams_pool \ DeletedBy(h, streams, D),
     deleted   |-> DeletedBy(h, streams, D),
     raised    |-> \E q \in D : Raises(h, streams, q)]

VisitsUpTo(streams, p) == {q \in Visits(streams) : q = p \/ Precedes(q, p)}

VisitsBefore(streams, p) == {q \in Visits(streams) : Precedes(q, p)}

\* Points and visits are pairs of numbers.
LEMMA PointFacts ==
    ASSUME NEW streams \in Seq(Streams)
    PROVE  /\ Len(streams) \in Nat /\ Len(EVENT_LIST) \in Nat
           /\ Events = 1 .. Len(EVENT_LIST) /\ DOMAIN streams = 1 .. Len(streams)
           /\ \A p \in LoopPoints(streams) :
                 p = <<p[1], p[2]>> /\ p[1] \in 0 .. Len(streams) /\ p[2] \in 0 .. Len(EVENT_LIST)
           /\ \A p \in Visits(streams) :
                 p = <<p[1], p[2]>> /\ p[1] \in 1 .. Len(streams) /\ p[2] \in 1 .. Len(EVENT_LIST)
<1>1. Len(streams) \in Nat /\ DOMAIN streams = 1 .. Len(streams)
  OBVIOUS
<1>2. Len(EVENT_LIST) \in Nat /\ Events = 1 .. Len(EVENT_LIST)
  BY ControllerAssumption DEF Events
<1> QED
  BY <1>1, <1>2 DEF LoopPoints, Visits

\* The point before p, and the visits done by then.
LEMMA PreviousFacts ==
    ASSUME NEW streams \in Seq(Streams), NEW p \in LoopPoints(streams), p[1] # 0
    PROVE  /\ Previous(p) \in LoopPoints(streams)
           /\ Precedes(Previous(p), p)
           /\ VisitsUpTo(streams, Previous(p)) = VisitsBefore(streams, p)
<1> DEFINE n == Len(streams)
           m == Len(EVENT_LIST)
<1>1. n \in Nat /\ m \in Nat /\ p = <<p[1], p[2]>> /\ p[1] \in 0 .. n /\ p[2] \in 0 .. m
  BY PointFacts
<1>2. p[1] \in 1 .. n
  BY <1>1
<1>3. Previous(p) \in LoopPoints(streams) /\ Precedes(Previous(p), p)
  BY <1>1, <1>2 DEF Previous, Precedes, LoopPoints
<1>4. ASSUME NEW q \in Visits(streams)
      PROVE  q = Previous(p) \/ Precedes(q, Previous(p)) <=> Precedes(q, p)
  <2>1. q = <<q[1], q[2]>> /\ q[1] \in 1 .. n /\ q[2] \in 1 .. m
    BY PointFacts
  <2>2. q = Previous(p) <=> q[1] = Previous(p)[1] /\ q[2] = Previous(p)[2]
    BY <2>1 DEF Previous
  <2>3. CASE p[2] = 0
    <3>1. Previous(p)[1] = p[1] - 1 /\ Previous(p)[2] = m
      BY <2>3 DEF Previous
    <3> QED
      BY <1>1, <1>2, <2>1, <2>2, <2>3, <3>1 DEF Precedes
  <2>4. CASE p[2] # 0
    <3>1. Previous(p)[1] = p[1] /\ Previous(p)[2] = p[2] - 1
      BY <2>4 DEF Previous
    <3> QED
      BY <1>1, <1>2, <2>1, <2>2, <2>4, <3>1 DEF Precedes
  <2> QED
    BY <2>3, <2>4
<1>5. VisitsUpTo(streams, Previous(p)) = VisitsBefore(streams, p)
  BY <1>4 DEF VisitsUpTo, VisitsBefore
<1> QED
  BY <1>3, <1>5

\* One visit.
LEMMA VisitAdvances ==
    ASSUME ControllerTypeOK, NEW h \in HandlerIds, NEW streams \in Seq(Streams),
           NEW p \in Visits(streams)
    PROVE  Visit(h, streams, LeftBy(h, streams, VisitsBefore(streams, p)), p)
             = LeftBy(h, streams, VisitsUpTo(streams, p))
<1> DEFINE D == VisitsBefore(streams, p)
           U == VisitsUpTo(streams, p)
           before == LeftBy(h, streams, D)
           opt == streams[p[1]]
           kept == [before.callbacks EXCEPT ![p[2]][h] = 0]
           last == \A g \in HandlerIds : kept[p[2]][g] = 0
           reached == Reached(h, streams)
<1>1. U = D \cup {p} /\ p \notin D /\ D \subseteq Visits(streams)
  BY PointFacts DEF VisitsUpTo, VisitsBefore, Precedes
<1>2. p[2] \in Events /\ stream_value(p[2]) = opt
  BY DEF Visits
<1>3. p \in reached <=> ~before.raised
  BY DEF Reached, LeftBy, VisitsBefore
<1>4. ASSUME NEW q \in reached, NEW r \in Visits(streams), Precedes(r, q)
      PROVE  r \in reached /\ ~Raises(h, streams, r)
  <2>1. ~Raises(h, streams, r)
    BY <1>4 DEF Reached
  <2>2. ASSUME NEW x \in Visits(streams), Precedes(x, r)
        PROVE  ~Raises(h, streams, x)
    <3>1. q \in Visits(streams)
      BY DEF Reached
    <3>2. Precedes(x, q)
      BY <1>4, <2>2, <3>1, PointFacts DEF Precedes
    <3> QED
      BY <3>2 DEF Reached
  <2> QED
    BY <2>1, <2>2 DEF Reached
<1>5. CASE before.raised
  <2>1. reached \cap U = reached \cap D
    BY <1>1, <1>3, <1>5
  <2>2. DeletedBy(h, streams, U) = DeletedBy(h, streams, D)
    BY <2>1 DEF DeletedBy
  <2>3. (\E q \in U : Raises(h, streams, q)) <=> (\E q \in D : Raises(h, streams, q))
    BY <1>1, <1>5 DEF LeftBy
  <2>4. LeftBy(h, streams, U) = before
    BY <2>1, <2>2, <2>3 DEF LeftBy
  <2>5. Visit(h, streams, before, p) = before
    BY <1>5 DEF Visit
  <2> QED
    BY <2>4, <2>5
<1>6. CASE ~before.raised
  <2>1. p \in reached /\ reached \cap U = (reached \cap D) \cup {p}
    BY <1>1, <1>3, <1>6
  <2>2. D \subseteq reached /\ \A q \in D : ~Raises(h, streams, q)
    BY <1>4, <2>1 DEF VisitsBefore
  <2>3. /\ before.callbacks =
             [e \in Events |->
                [g \in HandlerIds |->
                    IF g = h /\ \E q \in reached \cap D : q[2] = e
                    THEN 0 ELSE callbacks_pool[e][g]]]
        /\ before.pool = streams_pool \ DeletedBy(h, streams, D)
        /\ before.deleted = DeletedBy(h, streams, D)
    BY DEF LeftBy
  <2>4. kept = [e \in Events |->
                  [g \in HandlerIds |->
                      IF g = h /\ \E q \in reached \cap U : q[2] = e
                      THEN 0 ELSE callbacks_pool[e][g]]]
    <3>1. \A e \in Events : (\E q \in reached \cap U : q[2] = e)
                              <=> e = p[2] \/ \E q \in reached \cap D : q[2] = e
      BY <2>1
    <3>2. kept = [e \in Events |->
                    [g \in HandlerIds |->
                        IF e = p[2] /\ g = h THEN 0 ELSE before.callbacks[e][g]]]
      BY <1>2, <2>3
    <3> HIDE DEF kept, U, reached, D, before
    <3> QED
      BY <2>3, <3>1, <3>2
  <2>5. last <=> Lone(h, p[2])
    <3>1. \A g \in HandlerIds \ {h} : kept[p[2]][g] = callbacks_pool[p[2]][g]
      BY <1>2, <2>4
    <3>2. kept[p[2]][h] = 0
      BY <1>2, <2>1, <2>4
    <3> HIDE DEF kept
    <3> QED
      BY <3>1, <3>2 DEF Lone
  <2>6. Raises(h, streams, p) <=> last /\ opt \notin before.pool
    <3>1. opt \in DeletedBy(h, streams, D)
            <=> \E q \in D : streams[q[1]] = opt /\ Lone(h, q[2])
      BY <2>2 DEF DeletedBy
    <3>2. Raises(h, streams, p)
            <=> Lone(h, p[2]) /\ (opt \notin streams_pool \/ opt \in DeletedBy(h, streams, D))
      BY <3>1 DEF Raises, VisitsBefore
    <3> QED
      BY <2>3, <2>5, <3>2
  <2>7. DeletedBy(h, streams, U)
          = IF last /\ opt \in before.pool THEN before.deleted \cup {opt} ELSE before.deleted
    <3>1. DeletedBy(h, streams, U)
            = DeletedBy(h, streams, D)
                \cup {streams[q[1]] : q \in {r \in {p} : Lone(h, r[2]) /\ ~Raises(h, streams, r)}}
      BY <2>1 DEF DeletedBy
    <3>2. Lone(h, p[2]) /\ ~Raises(h, streams, p) <=> last /\ opt \in before.pool
      BY <2>5, <2>6
    <3> HIDE DEF last, U, D, before
    <3> QED
      BY <2>3, <3>1, <3>2
  <2>8. streams_pool \ DeletedBy(h, streams, U) = IF last THEN before.pool \ {opt} ELSE before.pool
    <3> HIDE DEF last, U, D, before
    <3> QED
      BY <2>3, <2>7
  <2>9. (\E q \in U : Raises(h, streams, q)) <=> last /\ opt \notin before.pool
    BY <1>1, <2>2, <2>6
  <2>10. Visit(h, streams, before, p) =
           [callbacks |-> kept,
            pool      |-> IF last THEN before.pool \ {opt} ELSE before.pool,
            deleted   |-> IF last /\ opt \in before.pool THEN before.deleted \cup {opt}
                          ELSE before.deleted,
            raised    |-> last /\ opt \notin before.pool]
    BY <1>6 DEF Visit
  <2>11. LeftBy(h, streams, U) =
           [callbacks |-> kept,
            pool      |-> streams_pool \ DeletedBy(h, streams, U),
            deleted   |-> DeletedBy(h, streams, U),
            raised    |-> \E q \in U : Raises(h, streams, q)]
    BY <2>4 DEF LeftBy
  <2> HIDE DEF last, U, D, before, kept
  <2>12. (\E q \in U : Raises(h, streams, q)) = (last /\ opt \notin before.pool)
    BY <2>9
  <2>13. Visit(h, streams, before, p) = LeftBy(h, streams, U)
    BY <2>7, <2>8, <2>10, <2>11, <2>12
  <2> QED
    BY <2>13 DEF before, D, U
<1> QED
  BY <1>5, <1>6

\* One step of the loops, from the state at the point before it.
LEMMA StepAdvances ==
    ASSUME ControllerTypeOK, NEW h \in HandlerIds, NEW streams \in Seq(Streams),
           NEW p \in LoopPoints(streams), NEW after,
           p[1] # 0 => after[Previous(p)] = LeftBy(h, streams, VisitsUpTo(streams, Previous(p)))
    PROVE  LoopStep(h, streams, after, p) = LeftBy(h, streams, VisitsUpTo(streams, p))
<1>1. CASE p[1] = 0
  <2>1. VisitsUpTo(streams, p) = {}
    BY <1>1, PointFacts DEF VisitsUpTo, Precedes
  <2>2. DeletedBy(h, streams, {}) = {}
    BY DEF DeletedBy
  <2>3. callbacks_pool = [e \in Events |-> [g \in HandlerIds |-> callbacks_pool[e][g]]]
    BY DEF ControllerTypeOK
  <2>4. LeftBy(h, streams, {}) = LoopStart
    BY <2>2, <2>3 DEF LeftBy, LoopStart
  <2> QED
    BY <1>1, <2>1, <2>4 DEF LoopStep
<1>2. CASE p[1] # 0 /\ p \in Visits(streams)
  <2>1. p[2] # 0 /\ stream_value(p[2]) = streams[p[1]]
    BY <1>2, PointFacts DEF Visits
  <2>2. LoopStep(h, streams, after, p) = Visit(h, streams, after[Previous(p)], p)
    BY <1>2, <2>1 DEF LoopStep
  <2> QED
    BY <1>2, <2>2, PreviousFacts, VisitAdvances
<1>3. CASE p[1] # 0 /\ p \notin Visits(streams)
  <2>1. ~(p[2] # 0 /\ stream_value(p[2]) = streams[p[1]])
    BY <1>3, PointFacts DEF Visits
  <2>2. LoopStep(h, streams, after, p) = after[Previous(p)]
    BY <1>3, <2>1 DEF LoopStep
  <2>3. VisitsUpTo(streams, p) = VisitsBefore(streams, p)
    BY <1>3 DEF VisitsUpTo, VisitsBefore
  <2> QED
    BY <1>3, <2>2, <2>3, PreviousFacts
<1> QED
  BY <1>1, <1>2, <1>3

\* The recursive function exists, so the loops have the states it says.
LEMMA LoopsUnfold ==
    ASSUME ControllerTypeOK, NEW h \in HandlerIds, NEW streams \in Seq(Streams)
    PROVE  LoopStates(h, streams) =
             [p \in LoopPoints(streams) |-> LoopStep(h, streams, LoopStates(h, streams), p)]
<1> DEFINE Unfolds(f) == f = [p \in LoopPoints(streams) |-> LoopStep(h, streams, f, p)]
           states == [p \in LoopPoints(streams) |-> LeftBy(h, streams, VisitsUpTo(streams, p))]
<1>1. LoopStates(h, streams) = CHOOSE f : Unfolds(f)
  BY DEF LoopStates
<1>2. ASSUME NEW p \in LoopPoints(streams)
      PROVE  LoopStep(h, streams, states, p) = LeftBy(h, streams, VisitsUpTo(streams, p))
  <2>1. p[1] # 0 => states[Previous(p)] = LeftBy(h, streams, VisitsUpTo(streams, Previous(p)))
    BY PreviousFacts
  <2> HIDE DEF states
  <2> QED
    BY <2>1, StepAdvances
<1>3. Unfolds(states)
  BY <1>2
<1>4. \E f : Unfolds(f)
  BY <1>3
<1>5. Unfolds(CHOOSE f : Unfolds(f))
  <2> HIDE DEF Unfolds
  <2> QED
    BY <1>4
<1> QED
  BY <1>1, <1>5

\* Induction on the points, as the absence of a first point that goes wrong.
LEMMA LoopsLeave ==
    ASSUME ControllerTypeOK, NEW h \in HandlerIds, NEW streams \in Seq(Streams),
           NEW p \in LoopPoints(streams)
    PROVE  LoopStates(h, streams)[p] = LeftBy(h, streams, VisitsUpTo(streams, p))
<1> DEFINE after == LoopStates(h, streams)
           Wrong == {q \in LoopPoints(streams) :
                       after[q] # LeftBy(h, streams, VisitsUpTo(streams, q))}
<1>1. SUFFICES ASSUME Wrong # {} PROVE FALSE
  OBVIOUS
<1>2. PICK q \in Wrong : \A r \in Wrong : ~Precedes(r, q)
  <2>1. Wrong \in SUBSET (Nat \X Nat)
    BY DEF LoopPoints
  <2> HIDE DEF Wrong
  <2> QED
    BY <1>1, <2>1, FirstPoint
<1>3. q[1] # 0 => after[Previous(q)] = LeftBy(h, streams, VisitsUpTo(streams, Previous(q)))
  BY <1>2, PreviousFacts
<1>4. after[q] = LoopStep(h, streams, after, q)
  <2>1. q \in LoopPoints(streams)
    BY <1>2
  <2> HIDE DEF Wrong
  <2> QED
    BY <2>1, LoopsUnfold
<1>5. LoopStep(h, streams, after, q) = LeftBy(h, streams, VisitsUpTo(streams, q))
  <2> HIDE DEF after
  <2> QED
    BY <1>2, <1>3, StepAdvances
<1> QED
  BY <1>2, <1>4, <1>5

LEMMA UnsubscribeMatchesLoops ==
    ASSUME ControllerTypeOK, NEW h \in HandlerIds, handle_unsubscribe(h)
    PROVE  /\ callbacks_pool' = UnsubscribeLoops(h).callbacks
           /\ streams_pool' = UnsubscribeLoops(h).pool
           /\ h \in DOMAIN options_pool' <=> UnsubscribeLoops(h).raised
           /\ UnsubscribeLoops(h).raised \/ streams_to_delete(h) = UnsubscribeLoops(h).deleted
<1> DEFINE streams == options_pool[h].streams
           end == <<Len(streams), Len(EVENT_LIST)>>
           reached == Reached(h, streams)
           all == Visits(streams)
<1>1. streams \in Seq(Streams) /\ h \in DOMAIN options_pool
  BY EventFacts DEF ControllerTypeOK, handle_unsubscribe
<1>2. end \in LoopPoints(streams) /\ VisitsUpTo(streams, end) = all
  <2>1. Len(streams) \in Nat /\ Len(EVENT_LIST) \in Nat
    BY <1>1, PointFacts
  <2>2. end \in LoopPoints(streams)
    BY <2>1 DEF LoopPoints
  <2>3. ASSUME NEW q \in all PROVE q = end \/ Precedes(q, end)
    <3>1. q = <<q[1], q[2]>> /\ q[1] \in 1 .. Len(streams) /\ q[2] \in 1 .. Len(EVENT_LIST)
      BY <1>1, PointFacts
    <3> QED
      BY <2>1, <3>1 DEF Precedes
  <2> QED
    BY <2>2, <2>3 DEF VisitsUpTo
<1>3. UnsubscribeLoops(h) = LeftBy(h, streams, all)
  <2>1. LoopStates(h, streams)[end] = LeftBy(h, streams, VisitsUpTo(streams, end))
    BY <1>1, <1>2, LoopsLeave
  <2> QED
    BY <1>2, <2>1 DEF UnsubscribeLoops
<1>4. reached \cap all = reached
  BY DEF Reached
<1>5. callbacks_pool' = LeftBy(h, streams, all).callbacks
  <2> DEFINE visited == {p[2] : p \in reached}
  <2>1. callbacks_pool' =
          [e \in Events |->
              [g \in HandlerIds |-> IF g = h /\ e \in visited THEN 0 ELSE callbacks_pool[e][g]]]
    BY DEF handle_unsubscribe
  <2>2. LeftBy(h, streams, all).callbacks =
          [e \in Events |->
              [g \in HandlerIds |->
                  IF g = h /\ \E q \in reached : q[2] = e THEN 0 ELSE callbacks_pool[e][g]]]
    BY <1>4 DEF LeftBy
  <2>3. \A e : e \in visited <=> \E q \in reached : q[2] = e
    OBVIOUS
  <2> HIDE DEF visited, reached, all
  <2> QED
    BY <2>1, <2>2, <2>3
<1>6. LeftBy(h, streams, all).raised <=> UnsubscribeRaises(h)
  BY DEF LeftBy, UnsubscribeRaises
<1>7. h \in DOMAIN options_pool' <=> UnsubscribeRaises(h)
  BY <1>1 DEF handle_unsubscribe, Restrict
<1>8. /\ LeftBy(h, streams, all).pool = streams_pool \ DeletedBy(h, streams, all)
      /\ LeftBy(h, streams, all).deleted = DeletedBy(h, streams, all)
  BY DEF LeftBy
<1>9. ~UnsubscribeRaises(h) => streams_to_delete(h) = DeletedBy(h, streams, all)
  BY <1>4 DEF streams_to_delete, DeletedBy, UnsubscribeRaises, Reached
<1>10. ASSUME NEW p \in reached, Lone(h, p[2]), streams[p[1]] \in streams_pool
       PROVE  streams[p[1]] \in DeletedBy(h, streams, all)
  <2>1. CASE ~Raises(h, streams, p)
    BY <1>4, <1>10, <2>1 DEF DeletedBy
  <2>2. CASE Raises(h, streams, p)
    <3>1. PICK q \in all : Precedes(q, p) /\ streams[q[1]] = streams[p[1]] /\ Lone(h, q[2])
      BY <1>10, <2>2 DEF Raises
    <3>2. p \in all /\ ~Raises(h, streams, q)
      BY <3>1 DEF Reached
    <3>3. \A x \in all : Precedes(x, q) => Precedes(x, p)
      BY <1>1, <3>1, <3>2, PointFacts DEF Precedes
    <3>4. q \in reached
      BY <3>3 DEF Reached
    <3> QED
      BY <1>4, <3>1, <3>2, <3>4 DEF DeletedBy
  <2> QED
    BY <2>1, <2>2
<1>11. streams_pool' = streams_pool \ DeletedBy(h, streams, all)
  <2>1. streams_pool' = streams_pool \ streams_to_delete(h)
    BY DEF handle_unsubscribe
  <2>2. DeletedBy(h, streams, all) \subseteq streams_to_delete(h)
    BY <1>4 DEF DeletedBy, streams_to_delete
  <2>3. streams_to_delete(h) \cap streams_pool \subseteq DeletedBy(h, streams, all)
    BY <1>10 DEF streams_to_delete
  <2> QED
    BY <2>1, <2>2, <2>3
<1> QED
  BY <1>3, <1>5, <1>6, <1>7, <1>8, <1>9, <1>11

(***************************************************************************)
(* For every list of events and of streams, whatever repeats or is shared  *)
(* and wherever the call raises: the pools handle_unsubscribe leaves, and  *)
(* what it returns, are those of the code's two nested loops.              *)
(***************************************************************************)
THEOREM LoopsAreModelled == ControllerSpec => UnsubscribeIsTheLoops
<1> DEFINE Matches ==
             \A h \in HandlerIds :
                handle_unsubscribe(h) =>
                   LET left == UnsubscribeLoops(h)
                   IN  /\ callbacks_pool' = left.callbacks
                       /\ streams_pool' = left.pool
                       /\ h \in DOMAIN options_pool' <=> left.raised
                       /\ left.raised \/ streams_to_delete(h) = left.deleted
<1>1. ControllerTypeOK => Matches
  BY UnsubscribeMatchesLoops
<1>2. ControllerTypeOK => [Matches]_controllerVars
  <2> HIDE DEF Matches
  <2> QED
    BY <1>1
<1> QED
  BY <1>2, TypeCorrect, PTL DEF UnsubscribeIsTheLoops

=============================================================================
