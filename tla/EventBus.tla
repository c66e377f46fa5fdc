------------------------------ MODULE EventBus ------------------------------
(***************************************************************************)
(* The event bus: MemoryBus or NATSBus behind RecordingBus.  A publisher   *)
(* is one call of Publish with one event; a subscriber is one handler.     *)
(* MemoryBus calls the handlers itself, under a read lock; NATSBus hands   *)
(* the event to JetStream (external), which keeps it for the durable       *)
(* consumer of its type until that acknowledges it.  A durable consumer is *)
(* named by its type, and has one subscription at a time.                  *)
(***************************************************************************)
EXTENDS Naturals, FiniteSets, Sequences, SequencesExt

CONSTANTS
    Publishers,     \* calls of Publish, each with an event of its own
    Subscribers,
    TypeOf,         \* TypeOf[p]: the type of p's event, or a subscriber's
    Backends,       \* the drivers checked: "memory", "nats" (NewBusFromConfig)
    MaxFailures,    \* bound on the calls that fail
    MaxCrashes      \* bound on how often the subscribing process dies

VARIABLES
    backend,        \* the configured driver
    closed,         \* MemoryBus.closed; for NATS, the connection is closed
    handlers,       \* handlers[t]: the subscribers to type t, in the order of Subscribe
    pc,             \* pc[p]: where Publish is
    todo,           \* todo[p]: the handlers MemoryBus.Publish has yet to call
    reached,        \* reached[p]: who has handled p's event
    stream,         \* stream[t]: the events JetStream holds for the durable consumer t
    consumers,      \* the durable consumers that exist
    audience,       \* audience[p]: who was owed p's event, handlers or a durable consumer
    recorded,       \* the events in the event log
    failures, crashes

busVars == <<backend, closed, handlers, pc, todo, reached, stream, consumers, audience, recorded,
          failures, crashes>>

delivery == <<pc, todo, reached, stream, consumers, audience, recorded>>

-----------------------------------------------------------------------------

Types == {TypeOf[x] : x \in Publishers \cup Subscribers}

NoHandlers == [t \in Types |-> <<>>]

AddHandler(s) == handlers' = [handlers EXCEPT ![TypeOf[s]] = Append(@, s)]

Interested(p) == handlers[TypeOf[p]]

Listening(s) == s \in ToSet(handlers[TypeOf[s]])

\* Publish holds the read lock of MemoryBus.
Reading == {p \in Publishers : pc[p] = "deliver"}

BusInit ==
    /\ backend \in Backends
    /\ closed = FALSE /\ handlers = NoHandlers
    /\ pc = [p \in Publishers |-> "idle"]
    /\ todo = [p \in Publishers |-> <<>>]
    /\ reached = [p \in Publishers |-> {}]
    /\ stream = [t \in Types |-> {}]
    /\ audience = [p \in Publishers |-> {}]
    /\ consumers = {} /\ recorded = {}
    /\ failures = 0 /\ crashes = 0

Goto(p, place) == pc' = [pc EXCEPT ![p] = place]

MayFail == failures < MaxFailures /\ failures' = failures + 1

-----------------------------------------------------------------------------
(* MemoryBus. *)

\* Faulty: the lock is released before the handlers run.
CloseUnlocked ==
    /\ backend = "memory" /\ ~closed
    /\ closed' = TRUE /\ handlers' = NoHandlers
    /\ UNCHANGED <<delivery, failures, crashes, backend>>

\* The write lock waits for every Publish that holds the read lock.
MemoryClose ==
    /\ backend = "memory" /\ ~closed /\ Reading = {}
    /\ closed' = TRUE /\ handlers' = NoHandlers
    /\ UNCHANGED <<delivery, failures, crashes, backend>>

MemorySubscribe(s) ==
    /\ backend = "memory" /\ ~closed /\ Reading = {}
    /\ ~Listening(s)
    /\ AddHandler(s)
    /\ UNCHANGED <<closed, delivery, failures, crashes, backend>>

MemoryPublish(p) ==
    /\ backend = "memory" /\ pc[p] = "idle"
    /\ IF closed
       THEN Goto(p, "failed") /\ UNCHANGED <<todo, audience>>
       ELSE /\ todo' = [todo EXCEPT ![p] = Interested(p)]
            /\ audience' = [audience EXCEPT ![p] = ToSet(Interested(p))]
            /\ Goto(p, IF Interested(p) = <<>> THEN "record" ELSE "deliver")
    /\ UNCHANGED <<closed, handlers, reached, stream, consumers, recorded, failures, crashes, backend>>

\* Faulty: an error of a handler does not end the call.
CallRegardless(p) ==
    /\ pc[p] = "deliver"
    /\ todo' = [todo EXCEPT ![p] = Tail(@)]
    /\ Goto(p, IF Tail(todo[p]) = <<>> THEN "record" ELSE "deliver")
    /\ \/ reached' = [reached EXCEPT ![p] = @ \cup {Head(todo[p])}] /\ UNCHANGED failures
       \/ MayFail /\ UNCHANGED reached
    /\ UNCHANGED <<closed, handlers, stream, consumers, audience, recorded, crashes, backend>>

\* The next handler succeeds, or its error ends the call.
CallHandler(p) ==
    /\ pc[p] = "deliver"
    /\ \/ /\ reached' = [reached EXCEPT ![p] = @ \cup {Head(todo[p])}]
          /\ todo' = [todo EXCEPT ![p] = Tail(@)]
          /\ Goto(p, IF Tail(todo[p]) = <<>> THEN "record" ELSE "deliver")
          /\ UNCHANGED failures
       \/ /\ MayFail
          /\ Goto(p, "failed")
          /\ UNCHANGED <<reached, todo>>
    /\ UNCHANGED <<closed, handlers, stream, consumers, audience, recorded, crashes, backend>>

-----------------------------------------------------------------------------
(* NATSBus. *)

\* Faulty: a durable consumer that exists cannot be bound again.
NATSSubscribeOnce(s) ==
    /\ backend = "nats" /\ ~closed /\ TypeOf[s] \notin consumers
    /\ AddHandler(s)
    /\ consumers' = consumers \cup {TypeOf[s]}
    /\ UNCHANGED <<closed, pc, todo, reached, stream, audience, recorded, failures, crashes, backend>>

\* A durable consumer that exists resumes where it was; a new one starts with
\* the events to come (DeliverNew).  While it is bound to another handler,
\* Subscribe returns an error and changes nothing.
NATSSubscribe(s) ==
    /\ backend = "nats" /\ ~closed /\ handlers[TypeOf[s]] = <<>>
    /\ AddHandler(s)
    /\ consumers' = consumers \cup {TypeOf[s]}
    /\ UNCHANGED <<closed, pc, todo, reached, stream, audience, recorded, failures, crashes, backend>>

\* JetStream stores the event for the consumer of its subject, or the call
\* fails; when the answer is lost the event is stored although it fails.
NATSPublish(p) ==
    LET owed == consumers \cap {TypeOf[p]}
        stored == [t \in Types |-> IF t \in owed THEN stream[t] \cup {p} ELSE stream[t]]
    IN
    /\ backend = "nats" /\ pc[p] = "idle"
    /\ \/ ~closed /\ stream' = stored /\ Goto(p, "record") /\ UNCHANGED failures
       \/ ~closed /\ MayFail /\ stream' \in {stored, stream} /\ Goto(p, "failed")
       \/ closed /\ Goto(p, "failed") /\ UNCHANGED <<stream, failures>>
    /\ audience' = [audience EXCEPT ![p] = owed]
    /\ UNCHANGED <<closed, handlers, todo, reached, consumers, recorded, crashes, backend>>

\* The callback of Subscribe: the message is acknowledged after the handler has
\* succeeded, else (Nak, or the acknowledgement is lost) delivered again, in
\* any order.
Consume(t, p) ==
    /\ backend = "nats" /\ handlers[t] # <<>> /\ p \in stream[t]
    /\ \/ /\ reached' = [reached EXCEPT ![p] = @ \cup {t}]
          /\ stream' = [stream EXCEPT ![t] = @ \ {p}]
          /\ UNCHANGED failures
       \/ /\ MayFail
          /\ reached' \in {reached, [reached EXCEPT ![p] = @ \cup {t}]}
          /\ UNCHANGED stream
    /\ UNCHANGED <<closed, handlers, pc, todo, consumers, audience, recorded, crashes, backend>>

\* Drain may delete the durable consumers, and with them what JetStream holds
\* for them.
NATSClose ==
    /\ backend = "nats" /\ ~closed
    /\ closed' = TRUE /\ handlers' = NoHandlers
    /\ consumers' \in SUBSET consumers
    /\ stream' = [t \in Types |-> IF t \in consumers' THEN stream[t] ELSE {}]
    /\ UNCHANGED <<pc, todo, reached, audience, recorded, failures, crashes, backend>>

\* The subscribing process dies; its durable consumers stay with JetStream and
\* the next process subscribes to them again.
Crash ==
    /\ backend = "nats" /\ handlers # NoHandlers
    /\ crashes < MaxCrashes /\ crashes' = crashes + 1
    /\ handlers' = NoHandlers
    /\ UNCHANGED <<closed, delivery, failures, backend>>

-----------------------------------------------------------------------------

\* RecordingBus.Publish: the event is saved once the bus has taken it.
Record(p) ==
    /\ pc[p] = "record"
    /\ \/ recorded' = recorded \cup {p} /\ Goto(p, "done") /\ UNCHANGED failures
       \/ MayFail /\ Goto(p, "failed") /\ UNCHANGED recorded
    /\ UNCHANGED <<closed, handlers, todo, reached, stream, consumers, audience, crashes, backend>>

BusNext ==
    \/ MemoryClose \/ NATSClose \/ Crash
    \/ \E s \in Subscribers : MemorySubscribe(s) \/ NATSSubscribe(s)
    \/ \E p \in Publishers : MemoryPublish(p) \/ CallHandler(p) \/ NATSPublish(p) \/ Record(p)
    \/ \E t \in Types, p \in Publishers : Consume(t, p)

BusSpec == BusInit /\ [][BusNext]_busVars

\* JetStream goes on delivering, and a process that died is started again and
\* subscribes first of all (App.Run of the control plane).
BusFairSpec ==
    /\ BusSpec
    /\ \A s \in Subscribers : WF_busVars(NATSSubscribe(s))
    /\ \A t \in Types, p \in Publishers : WF_busVars(Consume(t, p))

-----------------------------------------------------------------------------
(* Properties. *)

(***************************************************************************)
(* No handler runs once Close of a MemoryBus has returned, although calls  *)
(* of Publish are concurrent with it.                                      *)
(***************************************************************************)
ClosedIsQuiet == backend = "memory" /\ closed => Reading = {}

(***************************************************************************)
(* What is in the event log was not lost: a recorded event has reached     *)
(* every handler that was subscribed to its type when it was published, or *)
(* JetStream still keeps it for the durable consumer of its type.  (Close  *)
(* of a NATSBus may give up what JetStream keeps.)                         *)
(***************************************************************************)
RecordedIsDelivered ==
    ~(backend = "nats" /\ closed) =>
        \A p \in recorded : \A s \in audience[p] : s \in reached[p] \/ (s \in Types /\ p \in stream[s])

(***************************************************************************)
(* A durable consumer handles every event that JetStream took for it,      *)
(* whatever fails and however often its process dies, unless the bus is    *)
(* closed for good.                                                        *)
(***************************************************************************)
PublishedIsHandled ==
    \A t \in Types, p \in Publishers :
        (p \in stream[t]) ~> (t \in reached[p] \/ closed)

=============================================================================
