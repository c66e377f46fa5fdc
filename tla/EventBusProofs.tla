--------------------------- MODULE EventBusProofs ---------------------------
(* Proofs about EventBus, for any publishers, subscribers, types and bounds. *)
EXTENDS EventBus, SequenceTheorems, TLAPS

-----------------------------------------------------------------------------
(* Sequences of handlers. *)

(***************************************************************************)
(* The handlers still to be called are the next one and those behind it.   *)
(***************************************************************************)
LEMMA ToSetHeadTail ==
    ASSUME NEW S, NEW q \in Seq(S), q # <<>>
    PROVE  /\ Head(q) \in S /\ Tail(q) \in Seq(S)
           /\ ToSet(q) = {Head(q)} \cup ToSet(Tail(q))
  <1>1. /\ Head(q) \in S /\ Tail(q) \in Seq(S) /\ Len(q) \in Nat \ {0}
        /\ Len(Tail(q)) = Len(q) - 1 /\ Head(q) = q[1]
        /\ DOMAIN q = 1..Len(q) /\ DOMAIN Tail(q) = 1..Len(q) - 1
        /\ \A i \in 1..Len(q) - 1 : Tail(q)[i] = q[i + 1]
    BY EmptySeq
  <1>2. ToSet(q) \subseteq {Head(q)} \cup ToSet(Tail(q))
    <2> SUFFICES ASSUME NEW i \in 1..Len(q), i # 1
                 PROVE  q[i] \in ToSet(Tail(q))
      BY <1>1 DEF ToSet
    <2>1. i - 1 \in 1..Len(q) - 1 /\ Tail(q)[i - 1] = q[i]
      BY <1>1
    <2>2. QED
      BY <1>1, <2>1 DEF ToSet
  <1>3. \A i \in 1..Len(q) - 1 : i + 1 \in 1..Len(q)
    BY <1>1
  <1>4. 1 \in 1..Len(q)
    BY <1>1
  <1>5. {Head(q)} \cup ToSet(Tail(q)) \subseteq ToSet(q)
    BY <1>1, <1>3, <1>4 DEF ToSet
  <1>6. QED
    BY <1>1, <1>2, <1>5

LEMMA ToSetOfSeq ==
    ASSUME NEW S, NEW q \in Seq(S)
    PROVE  ToSet(q) \subseteq S /\ ToSet(<<>>) = {}
  BY DEF ToSet

-----------------------------------------------------------------------------
(* Type correctness. *)

\* Who is owed events: handlers, and durable consumers.
Receivers == Subscribers \cup Types

\* The values the variables of the bus take.
TypeOK ==
    /\ closed \in BOOLEAN
    /\ handlers \in [Types -> Seq(Subscribers)]
    /\ pc \in [Publishers -> {"idle", "deliver", "record", "done", "failed"}]
    /\ todo \in [Publishers -> Seq(Subscribers)]
    /\ reached \in [Publishers -> SUBSET Receivers]
    /\ stream \in [Types -> SUBSET Publishers]
    /\ audience \in [Publishers -> SUBSET Receivers]
    /\ consumers \in SUBSET Types /\ recorded \in SUBSET Publishers

LEMMA InterestedType ==
    ASSUME TypeOK, NEW p \in Publishers
    PROVE  Interested(p) \in Seq(Subscribers)
  BY DEF TypeOK, Interested, Types

LEMMA SubscriptionType ==
    ASSUME TypeOK, NEW s \in Subscribers, AddHandler(s)
    PROVE  handlers' \in [Types -> Seq(Subscribers)]
  <1>1. TypeOf[s] \in Types
    BY DEF Types
  <1>2. Append(handlers[TypeOf[s]], s) \in Seq(Subscribers)
    BY <1>1, AppendProperties DEF TypeOK
  <1>3. QED
    BY <1>1, <1>2 DEF AddHandler, TypeOK

-----------------------------------------------------------------------------
(* The inductive invariant. *)

\* A NATSBus that is closed owes nothing any more.
GivenUp == backend = "nats" /\ closed

\* What is owed to s of p's event has been handled or is kept by JetStream.
Settled(p) == GivenUp \/ \A s \in audience[p] : s \in reached[p] \/ (s \in Types /\ p \in stream[s])

\* A Publish that holds the read lock has a handler to call, and those it has
\* called or will call are all it owes the event to.
LoopInv == \A p \in Reading :
    todo[p] # <<>> /\ audience[p] \subseteq reached[p] \cup ToSet(todo[p])

\* An event is settled before it is recorded, and nobody publishes it again.
LogInv ==
    /\ \A p \in Publishers : pc[p] = "record" => Settled(p)
    /\ \A p \in recorded : pc[p] = "done" /\ Settled(p)

BusInv == TypeOK /\ LoopInv /\ LogInv /\ ClosedIsQuiet

LEMMA BusStart == BusInit => BusInv
  <1> <<>> \in Seq(Subscribers)
    OBVIOUS
  <1> QED
    BY DEF BusInit, BusInv, TypeOK, NoHandlers, LoopInv, LogInv, ClosedIsQuiet, Reading

(***************************************************************************)
(* Close and Subscribe wait for the calls that hold the read lock and      *)
(* leave what has been published alone; so does a crash.                   *)
(***************************************************************************)
LEMMA FrameStep ==
    ASSUME BusInv,
           \/ MemoryClose \/ Crash
           \/ \E s \in Subscribers : MemorySubscribe(s) \/ NATSSubscribe(s)
    PROVE  BusInv'
  <1>1. handlers' \in [Types -> Seq(Subscribers)]
    <2>1. NoHandlers \in [Types -> Seq(Subscribers)]
      BY DEF NoHandlers
    <2>2. CASE MemoryClose \/ Crash
      BY <2>1, <2>2 DEF MemoryClose, Crash
    <2>3. CASE \E s \in Subscribers : MemorySubscribe(s) \/ NATSSubscribe(s)
      BY <2>3, SubscriptionType DEF MemorySubscribe, NATSSubscribe, BusInv
    <2>4. QED
      BY <2>2, <2>3
  <1>2. /\ UNCHANGED <<pc, todo, reached, stream, audience, recorded, backend>>
        /\ closed' \in BOOLEAN /\ consumers' \in SUBSET Types
        /\ closed' # closed => backend = "memory" /\ Reading = {}
    BY DEF MemoryClose, Crash, MemorySubscribe, NATSSubscribe, delivery, BusInv, TypeOK, Types
  <1>3. TypeOK'
    BY <1>1, <1>2 DEF BusInv, TypeOK
  <1>4. Reading' = Reading
    BY <1>2 DEF Reading
  <1>5. LoopInv' /\ LogInv'
    BY <1>2, <1>4 DEF BusInv, LoopInv, LogInv, Settled, GivenUp
  <1>6. ClosedIsQuiet'
    BY <1>2, <1>4 DEF BusInv, ClosedIsQuiet
  <1>7. QED
    BY <1>3, <1>5, <1>6 DEF BusInv

(***************************************************************************)
(* Close of a NATSBus may delete what JetStream holds; the log promises    *)
(* nothing then.                                                           *)
(***************************************************************************)
LEMMA NATSCloseStep ==
    ASSUME BusInv, NATSClose
    PROVE  BusInv'
  <1>1. /\ backend = "nats" /\ closed' = TRUE /\ handlers' = NoHandlers
        /\ consumers' \in SUBSET consumers
        /\ stream' = [t \in Types |-> IF t \in consumers' THEN stream[t] ELSE {}]
        /\ UNCHANGED <<pc, todo, reached, audience, recorded, backend>>
    BY DEF NATSClose
  <1>2. handlers' \in [Types -> Seq(Subscribers)]
    BY <1>1 DEF NoHandlers
  <1>3. TypeOK'
    BY <1>1, <1>2 DEF BusInv, TypeOK
  <1>4. LoopInv'
    BY <1>1 DEF BusInv, LoopInv, Reading
  <1>5. \A p \in Publishers : Settled(p)'
    BY <1>1 DEF Settled, GivenUp
  <1>6. LogInv'
    BY <1>1, <1>5 DEF BusInv, LogInv, TypeOK
  <1>7. ClosedIsQuiet'
    BY <1>1 DEF ClosedIsQuiet
  <1>8. QED
    BY <1>3, <1>4, <1>6, <1>7 DEF BusInv

(***************************************************************************)
(* A Publish that finds the bus open takes the handlers of its type and    *)
(* owes the event to them; it has not owed anything before.                *)
(***************************************************************************)
LEMMA MemoryPublishStep ==
    ASSUME BusInv, NEW p \in Publishers, MemoryPublish(p)
    PROVE  BusInv'
  <1>0. TypeOK /\ LoopInv /\ LogInv /\ ClosedIsQuiet /\ pc[p] = "idle" /\ p \notin recorded
    BY DEF BusInv, LogInv, MemoryPublish
  <1>1. Interested(p) \in Seq(Subscribers) /\ ToSet(Interested(p)) \in SUBSET Receivers
        /\ (Interested(p) = <<>> => ToSet(Interested(p)) = {})
    BY <1>0, InterestedType, ToSetOfSeq DEF Receivers
  <1>2. CASE closed
    <2>1. /\ pc' = [pc EXCEPT ![p] = "failed"] /\ UNCHANGED <<todo, audience>>
          /\ UNCHANGED <<closed, handlers, reached, stream, consumers, recorded, backend>>
      BY <1>2 DEF MemoryPublish, Goto
    <2>2. TypeOK'
      BY <1>0, <2>1 DEF TypeOK
    <2>3. Reading' = Reading
      BY <1>0, <2>1 DEF Reading, TypeOK
    <2>4. LoopInv' /\ ClosedIsQuiet'
      BY <1>0, <2>1, <2>3 DEF LoopInv, ClosedIsQuiet
    <2>5. LogInv'
      BY <1>0, <2>1 DEF LogInv, Settled, GivenUp, TypeOK
    <2>6. QED
      BY <2>2, <2>4, <2>5 DEF BusInv
  <1>3. CASE ~closed
    <2> DEFINE place == IF Interested(p) = <<>> THEN "record" ELSE "deliver"
    <2>1. /\ pc' = [pc EXCEPT ![p] = place]
          /\ todo' = [todo EXCEPT ![p] = Interested(p)]
          /\ audience' = [audience EXCEPT ![p] = ToSet(Interested(p))]
          /\ UNCHANGED <<closed, handlers, reached, stream, consumers, recorded, backend>>
      BY <1>3 DEF MemoryPublish, Goto
    <2>2. /\ place \in {"record", "deliver"}
          /\ place = "record" => ToSet(Interested(p)) = {}
          /\ place = "deliver" => Interested(p) # <<>>
      BY <1>1
    <2> HIDE DEF place
    <2>3. TypeOK'
      BY <1>0, <1>1, <2>1, <2>2 DEF TypeOK
    <2>4. LoopInv'
      <3> SUFFICES ASSUME NEW q \in Publishers, pc'[q] = "deliver"
                   PROVE  todo'[q] # <<>> /\ audience'[q] \subseteq reached'[q] \cup ToSet(todo'[q])
        BY DEF LoopInv, Reading
      <3>1. CASE q = p
        BY <1>0, <2>1, <2>2, <3>1 DEF TypeOK
      <3>2. CASE q # p
        BY <1>0, <2>1, <3>2 DEF TypeOK, LoopInv, Reading
      <3>3. QED
        BY <3>1, <3>2
    <2>5. LogInv'
      BY <1>0, <2>1, <2>2 DEF LogInv, Settled, GivenUp, TypeOK
    <2>6. ClosedIsQuiet'
      BY <1>3, <2>1 DEF ClosedIsQuiet
    <2>7. QED
      BY <2>3, <2>4, <2>5, <2>6 DEF BusInv
  <1>4. QED
    BY <1>2, <1>3

(***************************************************************************)
(* The loop of MemoryBus.Publish calls its next handler; when it has       *)
(* called the last one, the event has reached everyone it was owed to.     *)
(***************************************************************************)
LEMMA CallHandlerStep ==
    ASSUME BusInv, NEW p \in Publishers, CallHandler(p)
    PROVE  BusInv'
  <1>0. /\ TypeOK /\ LoopInv /\ LogInv /\ ClosedIsQuiet /\ pc[p] = "deliver" /\ p \notin recorded
        /\ todo[p] \in Seq(Subscribers) /\ todo[p] # <<>>
        /\ audience[p] \subseteq reached[p] \cup ToSet(todo[p])
        /\ UNCHANGED <<closed, handlers, stream, consumers, audience, recorded, backend>>
    BY DEF BusInv, LogInv, CallHandler, LoopInv, Reading, TypeOK
  <1>1. /\ Head(todo[p]) \in Receivers /\ Tail(todo[p]) \in Seq(Subscribers)
        /\ ToSet(todo[p]) = {Head(todo[p])} \cup ToSet(Tail(todo[p]))
        /\ Tail(todo[p]) = <<>> => ToSet(Tail(todo[p])) = {}
    BY <1>0, ToSetHeadTail, ToSetOfSeq DEF Receivers
  <1>2. Reading' \subseteq Reading
    BY <1>0 DEF CallHandler, Goto, Reading, TypeOK
  <1>3. ClosedIsQuiet'
    BY <1>0, <1>2 DEF ClosedIsQuiet
  <1>4. CASE /\ reached' = [reached EXCEPT ![p] = @ \cup {Head(todo[p])}]
             /\ todo' = [todo EXCEPT ![p] = Tail(@)]
             /\ Goto(p, IF Tail(todo[p]) = <<>> THEN "record" ELSE "deliver")
    <2> DEFINE place == IF Tail(todo[p]) = <<>> THEN "record" ELSE "deliver"
    <2>1. /\ place \in {"record", "deliver"}
          /\ place = "record" => audience[p] \subseteq reached[p] \cup {Head(todo[p])}
          /\ place = "deliver" => Tail(todo[p]) # <<>>
          /\ audience[p] \subseteq (reached[p] \cup {Head(todo[p])}) \cup ToSet(Tail(todo[p]))
      BY <1>0, <1>1
    <2>2. pc' = [pc EXCEPT ![p] = place]
      BY <1>4 DEF Goto
    <2> HIDE DEF place
    <2>3. TypeOK'
      BY <1>0, <1>1, <1>4, <2>1, <2>2 DEF TypeOK
    <2>4. LoopInv'
      <3> SUFFICES ASSUME NEW q \in Publishers, pc'[q] = "deliver"
                   PROVE  todo'[q] # <<>> /\ audience'[q] \subseteq reached'[q] \cup ToSet(todo'[q])
        BY DEF LoopInv, Reading
      <3>1. CASE q = p
        BY <1>0, <1>4, <2>1, <2>2, <3>1 DEF TypeOK
      <3>2. CASE q # p
        BY <1>0, <1>4, <2>2, <3>2 DEF TypeOK, LoopInv, Reading
      <3>3. QED
        BY <3>1, <3>2
    <2>5. LogInv'
      BY <1>0, <1>4, <2>1, <2>2 DEF LogInv, Settled, GivenUp, TypeOK
    <2>6. QED
      BY <1>3, <2>3, <2>4, <2>5 DEF BusInv
  <1>5. CASE Goto(p, "failed") /\ UNCHANGED <<reached, todo>>
    <2>1. pc' = [pc EXCEPT ![p] = "failed"]
      BY <1>5 DEF Goto
    <2>2. TypeOK'
      BY <1>0, <1>5, <2>1 DEF TypeOK
    <2>3. LoopInv'
      BY <1>0, <1>2, <1>5 DEF LoopInv
    <2>4. LogInv'
      BY <1>0, <1>5, <2>1 DEF LogInv, Settled, GivenUp, TypeOK
    <2>5. QED
      BY <1>3, <2>2, <2>3, <2>4 DEF BusInv
  <1>6. QED
    BY <1>4, <1>5 DEF CallHandler

(***************************************************************************)
(* JetStream stores the event for exactly the consumers it is owed to, and *)
(* takes nothing away from anyone.                                         *)
(***************************************************************************)
LEMMA NATSPublishStep ==
    ASSUME BusInv, NEW p \in Publishers, NATSPublish(p)
    PROVE  BusInv'
  <1> DEFINE owed == consumers \cap {TypeOf[p]}
             stored == [t \in Types |-> IF t \in owed THEN stream[t] \cup {p} ELSE stream[t]]
  <1>0. /\ TypeOK /\ LoopInv /\ LogInv /\ ClosedIsQuiet /\ pc[p] = "idle" /\ p \notin recorded
        /\ audience' = [audience EXCEPT ![p] = owed]
        /\ UNCHANGED <<closed, handlers, todo, reached, consumers, recorded, backend>>
    BY DEF BusInv, LogInv, NATSPublish
  <1>1. /\ owed \in SUBSET Receivers /\ owed \subseteq Types
        /\ stored \in [Types -> SUBSET Publishers]
        /\ \A s \in Types : stream[s] \subseteq stored[s] /\ (s \in owed => p \in stored[s])
    BY <1>0 DEF TypeOK, Receivers
  <1>2. \/ stream' = stored /\ pc' = [pc EXCEPT ![p] = "record"]
        \/ stream' \in {stored, stream} /\ pc' = [pc EXCEPT ![p] = "failed"]
    BY DEF NATSPublish, Goto
  <1> HIDE DEF owed, stored
  <1>3. TypeOK'
    BY <1>0, <1>1, <1>2 DEF TypeOK
  <1>4. Reading' = Reading
    BY <1>0, <1>2 DEF Reading, TypeOK
  <1>5. LoopInv'
    BY <1>0, <1>4 DEF LoopInv, TypeOK, Reading
  <1>6. LogInv'
    <2>1. \A q \in Publishers : q # p /\ Settled(q) => Settled(q)'
      BY <1>0, <1>1, <1>2 DEF Settled, GivenUp, TypeOK
    <2>2. stream' = stored => Settled(p)'
      BY <1>0, <1>1 DEF Settled, GivenUp, TypeOK
    <2>3. QED
      BY <1>0, <1>2, <2>1, <2>2 DEF LogInv, TypeOK
  <1>7. ClosedIsQuiet'
    BY <1>0, <1>4 DEF ClosedIsQuiet
  <1>8. QED
    BY <1>3, <1>5, <1>6, <1>7 DEF BusInv

(***************************************************************************)
(* A message leaves the stream only once its handler has succeeded.        *)
(***************************************************************************)
LEMMA ConsumeStep ==
    ASSUME BusInv, NEW s \in Types, NEW p \in Publishers, Consume(s, p)
    PROVE  BusInv'
  <1> DEFINE more == [reached EXCEPT ![p] = @ \cup {s}]
  <1>0. /\ TypeOK /\ LoopInv /\ LogInv /\ ClosedIsQuiet
        /\ UNCHANGED <<closed, handlers, pc, todo, consumers, audience, recorded, backend>>
    BY DEF BusInv, Consume
  <1>1. /\ more \in [Publishers -> SUBSET Receivers] /\ s \in more[p]
        /\ \A q \in Publishers : reached[q] \subseteq more[q]
    BY <1>0 DEF TypeOK, Receivers
  <1>2. \/ reached' = more /\ stream' = [stream EXCEPT ![s] = @ \ {p}]
        \/ reached' \in {reached, more} /\ stream' = stream
    BY DEF Consume
  <1> HIDE DEF more
  <1>3. TypeOK'
    BY <1>0, <1>1, <1>2 DEF TypeOK
  <1>4. Reading' = Reading /\ \A q \in Publishers : reached[q] \subseteq reached'[q]
    BY <1>0, <1>1, <1>2 DEF Reading
  <1>5. LoopInv'
    BY <1>0, <1>4 DEF LoopInv, Reading
  <1>6. \A q \in Publishers : Settled(q) => Settled(q)'
    <2> SUFFICES ASSUME NEW q \in Publishers, Settled(q), ~GivenUp, NEW t \in audience[q]
                 PROVE  t \in reached'[q] \/ (t \in Types /\ q \in stream'[t])
      BY <1>0 DEF Settled, GivenUp
    <2>1. t \in reached[q] \/ (t \in Types /\ q \in stream[t])
      BY DEF Settled
    <2>2. CASE t = s /\ q = p
      BY <1>0, <1>1, <1>2, <2>1, <2>2
    <2>3. CASE ~(t = s /\ q = p)
      BY <1>0, <1>2, <1>4, <2>1, <2>3 DEF TypeOK
    <2>4. QED
      BY <2>2, <2>3
  <1>7. LogInv'
    BY <1>0, <1>6 DEF LogInv, TypeOK
  <1>8. ClosedIsQuiet'
    BY <1>0, <1>4 DEF ClosedIsQuiet
  <1>9. QED
    BY <1>3, <1>5, <1>7, <1>8 DEF BusInv

(***************************************************************************)
(* RecordingBus records an event that the bus underneath has taken.        *)
(***************************************************************************)
LEMMA RecordStep ==
    ASSUME BusInv, NEW p \in Publishers, Record(p)
    PROVE  BusInv'
  <1>0. /\ TypeOK /\ LoopInv /\ LogInv /\ ClosedIsQuiet /\ pc[p] = "record" /\ Settled(p)
        /\ UNCHANGED <<closed, handlers, todo, reached, stream, consumers, audience, backend>>
    BY DEF BusInv, Record, LogInv
  <1>1. \/ recorded' = recorded \cup {p} /\ pc' = [pc EXCEPT ![p] = "done"]
        \/ recorded' = recorded /\ pc' = [pc EXCEPT ![p] = "failed"]
    BY DEF Record, Goto
  <1>2. TypeOK'
    BY <1>0, <1>1 DEF TypeOK
  <1>3. Reading' = Reading
    BY <1>0, <1>1 DEF Reading, TypeOK
  <1>4. LoopInv' /\ ClosedIsQuiet'
    BY <1>0, <1>3 DEF LoopInv, ClosedIsQuiet
  <1>5. \A q \in Publishers : Settled(q) => Settled(q)'
    BY <1>0 DEF Settled, GivenUp
  <1>6. LogInv'
    BY <1>0, <1>1, <1>5 DEF LogInv, TypeOK
  <1>7. QED
    BY <1>2, <1>4, <1>6 DEF BusInv

-----------------------------------------------------------------------------

(***************************************************************************)
(* The invariant of the bus: types, the delivery loop under the read lock, *)
(* the event log, and silence after Close.                                 *)
(***************************************************************************)
THEOREM BusCorrect == BusSpec => []BusInv
  <1>1. BusInv /\ UNCHANGED busVars => BusInv'
    BY DEF BusInv, TypeOK, LoopInv, LogInv, Settled, GivenUp, ClosedIsQuiet, Reading, busVars
  <1>2. BusInv /\ BusNext => BusInv'
    BY FrameStep, NATSCloseStep, MemoryPublishStep, CallHandlerStep, NATSPublishStep, ConsumeStep, RecordStep
       DEF BusNext
  <1>3. QED
    BY BusStart, <1>1, <1>2, PTL DEF BusSpec

(***************************************************************************)
(* Once Close of a MemoryBus has returned, no Publish is calling a         *)
(* handler, for any number of concurrent calls.                            *)
(***************************************************************************)
THEOREM ClosedIsQuietHolds == BusSpec => []ClosedIsQuiet
  <1>1. BusInv => ClosedIsQuiet
    BY DEF BusInv
  <1>2. QED
    BY BusCorrect, <1>1, PTL

(***************************************************************************)
(* Nothing is in the event log that was lost: with either driver, with     *)
(* failing handlers, lost acknowledgements and crashes of the subscriber.  *)
(***************************************************************************)
THEOREM RecordedIsDeliveredHolds == BusSpec => []RecordedIsDelivered
  <1>1. BusInv => RecordedIsDelivered
    BY DEF BusInv, LogInv, Settled, GivenUp, RecordedIsDelivered
  <1>2. QED
    BY BusCorrect, <1>1, PTL

=============================================================================
