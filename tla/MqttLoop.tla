------------------------------ MODULE MqttLoop ------------------------------
(***************************************************************************)
(* The MQTT broker of src/src/brokers/mqtt.rs under the service loop of    *)
(* src/src/service.rs.  subscribe() and publish() only put a request into  *)
(* the bounded channel of the client and wait while it is full.  The event *)
(* loop, which alone takes requests out of it, is polled by the message    *)
(* stream of one service, hence only while that service waits in select!:  *)
(* not during startup, not while a handler runs, not in the shutdown hook. *)
(*                                                                         *)
(* Clones of the broker share client and event loop, so several services   *)
(* and other tasks of the application may use one channel.                 *)
(***************************************************************************)
EXTENDS Naturals, Sequences

CONSTANTS
  Services,      \* services started on clones of one broker
  NumTopics,     \* plain routes of each service
  Capacity,      \* capacity of the request channel ("inflight")
  MaxMessages,   \* bound: messages the server delivers
  MaxPublish,    \* bound: publishes awaited while one message is handled
  MaxApp,        \* bound: publishes of other tasks
  Held, Gone     \* the event loop is in the broker, or dropped

ASSUME MqttAssumption ==
  /\ NumTopics \in Nat \ {0} /\ Capacity \in Nat
  /\ MaxMessages \in Nat /\ MaxPublish \in Nat /\ MaxApp \in Nat
  /\ Held \notin Services /\ Gone \notin Services /\ Held # Gone

VARIABLES
  chan,       \* requests in the channel, oldest first
  loop,       \* who has the event loop: a service's stream, Held or Gone
  wire,       \* requests written to the connection, in order
  inbox,      \* messages read ahead: the service each belongs to
  arrived,    \* messages delivered so far
  pc,         \* control point of each service
  topics,     \* subscribe requests a service has issued
  todo,       \* publishes the handler in progress still has to make
  published,  \* publishes of a service's handlers so far
  app,        \* publishes of other tasks so far
  signal,     \* services whose shutdown signal has resolved
  accepted    \* requests whose call returned Ok

client  == <<chan, accepted>>
network == <<wire, inbox, arrived>>
calls   == <<topics, todo, published, app>>
vars    == <<client, loop, network, pc, calls, signal>>

Sub(s, i)   == <<"sub", s, i>>
Event(s, n) == <<"event", s, n>>
Last(s)     == <<"last", s, 1>>
App(n)      == <<"app", Held, n>>

Requests == {"sub", "event", "last", "app"} \X (Services \cup {Held}) \X Nat

Pcs == {"subscribe", "select", "handle", "hook", "return", "done", "failed"}

TypeOK ==
  /\ chan \in Seq(Requests) /\ Len(chan) <= Capacity
  /\ loop \in Services \cup {Held, Gone}
  /\ wire \in Seq(Requests)
  /\ inbox \in Seq(Services)
  /\ arrived \in Nat
  /\ pc \in [Services -> Pcs]
  /\ topics \in [Services -> 0..NumTopics]
  /\ todo \in [Services -> 0..MaxPublish]
  /\ published \in [Services -> Nat]
  /\ app \in Nat
  /\ signal \in SUBSET Services
  /\ accepted \in SUBSET Requests

In(r, q) == \E i \in DOMAIN q : q[i] = r

-----------------------------------------------------------------------------
(* The client of rumqttc *)

\* send_async: waits for room, fails once the event loop was dropped.
Accept(r) ==
  /\ loop # Gone
  /\ Len(chan) < Capacity
  /\ chan' = Append(chan, r)
  /\ accepted' = accepted \cup {r}

\* The server delivers a message to a subscribed topic.
Arrive ==
  /\ arrived < MaxMessages
  /\ loop # Gone
  /\ \E s \in Services :
       /\ \E i \in 1..NumTopics : In(Sub(s, i), wire)
       /\ inbox' = Append(inbox, s)
  /\ arrived' = arrived + 1
  /\ UNCHANGED <<client, loop, wire, pc, calls, signal>>

\* The service's stream polls the event loop, which writes the oldest request.
Send(s) ==
  /\ pc[s] = "select" /\ loop = s
  /\ chan # <<>>
  /\ wire' = Append(wire, Head(chan))
  /\ chan' = Tail(chan)
  /\ UNCHANGED <<accepted, loop, inbox, arrived, pc, calls, signal>>

\* Another task of the application publishes through a clone of the broker.
AppPublish ==
  /\ app < MaxApp
  /\ Accept(App(app + 1))
  /\ app' = app + 1
  /\ UNCHANGED <<loop, network, pc, topics, todo, published, signal>>

-----------------------------------------------------------------------------
(* Startup: Broker::subscribe *)

SubscribeNext(s) ==
  /\ pc[s] = "subscribe" /\ topics[s] < NumTopics
  /\ Accept(Sub(s, topics[s] + 1))
  /\ topics' = [topics EXCEPT ![s] = @ + 1]
  /\ UNCHANGED <<loop, network, pc, todo, published, app, signal>>

\* The event loop of an earlier service was dropped: subscribe() fails.
SubscribeFails(s) ==
  /\ pc[s] = "subscribe" /\ topics[s] < NumTopics
  /\ loop = Gone
  /\ pc' = [pc EXCEPT ![s] = "failed"]
  /\ UNCHANGED <<client, loop, network, calls, signal>>

\* Mutant of TakeLoop: the event loop is taken before anything is subscribed.
TakeLoopEarly(s) ==
  /\ pc[s] = "subscribe"
  /\ IF loop = Held
     THEN loop' = s /\ pc' = [pc EXCEPT ![s] = "select"]
     ELSE loop' = loop /\ pc' = [pc EXCEPT ![s] = "failed"]
  /\ UNCHANGED <<client, network, calls, signal>>

\* Mutant of TakeLoop: whoever subscribes last gets the event loop.
TakeLoopAlways(s) ==
  /\ pc[s] = "subscribe" /\ topics[s] = NumTopics
  /\ loop' = s
  /\ pc' = [pc EXCEPT ![s] = "select"]
  /\ UNCHANGED <<client, network, calls, signal>>

\* The first service takes the event loop, any other one fails.
TakeLoop(s) ==
  /\ pc[s] = "subscribe" /\ topics[s] = NumTopics
  /\ IF loop = Held
     THEN loop' = s /\ pc' = [pc EXCEPT ![s] = "select"]
     ELSE loop' = loop /\ pc' = [pc EXCEPT ![s] = "failed"]
  /\ UNCHANGED <<client, network, calls, signal>>

-----------------------------------------------------------------------------
(* The service loop *)

\* poll() returns a publish packet.  A message of a service that failed has no
\* route here and is dropped; otherwise its handler starts.
TakeMessage(s) ==
  /\ pc[s] = "select" /\ loop = s
  /\ inbox # <<>>
  /\ inbox' = Tail(inbox)
  /\ IF Head(inbox) = s
     THEN /\ pc' = [pc EXCEPT ![s] = "handle"]
          /\ \E n \in 0..MaxPublish : todo' = [todo EXCEPT ![s] = n]
     ELSE UNCHANGED <<pc, todo>>
  /\ UNCHANGED <<client, loop, wire, arrived, topics, published, app, signal>>

\* Mutant of Publish: the publish is issued twice.
PublishTwice(s) ==
  /\ pc[s] = "handle" /\ todo[s] > 0
  /\ Len(chan) + 1 < Capacity
  /\ chan' = chan \o <<Event(s, published[s] + 1), Event(s, published[s] + 1)>>
  /\ accepted' = accepted \cup {Event(s, published[s] + 1)}
  /\ published' = [published EXCEPT ![s] = @ + 1]
  /\ todo' = [todo EXCEPT ![s] = @ - 1]
  /\ UNCHANGED <<loop, network, pc, topics, app, signal>>

\* Mutant of Publish: the request is queued whether or not there is room.
PublishUnbounded(s) ==
  /\ pc[s] = "handle" /\ todo[s] > 0
  /\ chan' = Append(chan, Event(s, published[s] + 1))
  /\ accepted' = accepted \cup {Event(s, published[s] + 1)}
  /\ published' = [published EXCEPT ![s] = @ + 1]
  /\ todo' = [todo EXCEPT ![s] = @ - 1]
  /\ UNCHANGED <<loop, network, pc, topics, app, signal>>

\* The handler, the reply or the error event awaits broker.publish().
Publish(s) ==
  /\ pc[s] = "handle" /\ todo[s] > 0
  /\ Accept(Event(s, published[s] + 1))
  /\ published' = [published EXCEPT ![s] = @ + 1]
  /\ todo' = [todo EXCEPT ![s] = @ - 1]
  /\ UNCHANGED <<loop, network, pc, topics, app, signal>>

HandlerReturns(s) ==
  /\ pc[s] = "handle" /\ todo[s] = 0
  /\ pc' = [pc EXCEPT ![s] = "select"]
  /\ UNCHANGED <<client, loop, network, calls, signal>>

\* Mutant of PollFails: the event loop goes back to the broker, unpolled.
PollFailsHeld(s) ==
  /\ pc[s] = "select" /\ loop = s
  /\ loop' = Held
  /\ pc' = [pc EXCEPT ![s] = "hook"]
  /\ UNCHANGED <<client, network, calls, signal>>

\* A connection error ends the stream and drops the event loop with it.
PollFails(s) ==
  /\ pc[s] = "select" /\ loop = s
  /\ loop' = Gone
  /\ pc' = [pc EXCEPT ![s] = "hook"]
  /\ UNCHANGED <<client, network, calls, signal>>

Signal(s) ==
  /\ s \notin signal
  /\ signal' = signal \cup {s}
  /\ UNCHANGED <<client, loop, network, pc, calls>>

TakeShutdown(s) ==
  /\ pc[s] = "select"
  /\ s \in signal
  /\ pc' = [pc EXCEPT ![s] = "hook"]
  /\ UNCHANGED <<client, loop, network, calls, signal>>

-----------------------------------------------------------------------------
(* The shutdown hook publishes one last message, then serve() returns *)

\* Mutant of HookPublish: a client without its event loop waits for ever.
HookPublishWaits(s) ==
  /\ pc[s] = "hook"
  /\ Accept(Last(s))
  /\ pc' = [pc EXCEPT ![s] = "return"]
  /\ UNCHANGED <<loop, network, calls, signal>>

\* The publish waits for room as any other and fails when the event loop is gone.
HookPublish(s) ==
  /\ pc[s] = "hook"
  /\ IF loop = Gone THEN UNCHANGED client ELSE Accept(Last(s))
  /\ pc' = [pc EXCEPT ![s] = "return"]
  /\ UNCHANGED <<loop, network, calls, signal>>

\* The merged streams are dropped with the event loop in them.
Return(s) ==
  /\ pc[s] = "return"
  /\ pc' = [pc EXCEPT ![s] = "done"]
  /\ loop' = IF loop = s THEN Gone ELSE loop
  /\ UNCHANGED <<client, network, calls, signal>>

-----------------------------------------------------------------------------
(* Specification *)

Init ==
  /\ chan = <<>>
  /\ loop = Held
  /\ wire = <<>>
  /\ inbox = <<>>
  /\ arrived = 0
  /\ pc = [s \in Services |-> "subscribe"]
  /\ topics = [s \in Services |-> 0]
  /\ todo = [s \in Services |-> 0]
  /\ published = [s \in Services |-> 0]
  /\ app = 0
  /\ signal = {}
  /\ accepted = {}

Startup(s)  == SubscribeNext(s) \/ SubscribeFails(s) \/ TakeLoop(s)
Handle(s)   == Publish(s) \/ HandlerReturns(s)
Shutdown(s) == HookPublish(s) \/ Return(s)

Serve(s) ==
  \/ Startup(s)
  \/ Send(s) \/ TakeMessage(s) \/ PollFails(s)
  \/ Handle(s)
  \/ Signal(s) \/ TakeShutdown(s) \/ Shutdown(s)

Next == Arrive \/ AppPublish \/ \E s \in Services : Serve(s)

Spec == Init /\ [][Next]_vars

\* Services take their steps; select! and the event loop's own select pick
\* ready branches at random, so none is passed over for ever.
Fairness ==
  \A s \in Services :
    /\ WF_vars(Startup(s)) /\ WF_vars(Handle(s)) /\ WF_vars(Shutdown(s))
    /\ SF_vars(Send(s)) /\ SF_vars(TakeShutdown(s))

FairSpec == Spec /\ Fairness

-----------------------------------------------------------------------------
(* Properties *)

\* The broker has one event loop, and only the service that has it serves, so
\* that no two services read one connection (mqtt.rs:83-88).
OneReader ==
  /\ \A s \in Services : pc[s] \in {"select", "handle"} => loop = s
  /\ loop \in Services => pc[loop] \in {"select", "handle", "hook", "return"}

\* No accepted request is lost while the event loop exists, whatever fails,
\* and none is sent twice (mqtt.rs:80, 123).
RequestsKept ==
  /\ loop # Gone => \A r \in accepted : In(r, chan) \/ In(r, wire)
  /\ \A i, j \in DOMAIN wire : wire[i] = wire[j] => i = j

\* What a handler publishes is sent behind all subscriptions of its service, so
\* an answer to it cannot be missed (mqtt.rs:75-81, service.rs:160).
SubscribedFirst ==
  \A i \in DOMAIN wire : \A s \in Services : \A n \in 1..published[s] :
    wire[i] = Event(s, n) =>
      \A k \in 1..NumTopics : \E j \in 1..(i - 1) : wire[j] = Sub(s, k)

\* A call of service s waits for room in the channel.
Stuck(s) ==
  /\ Len(chan) = Capacity /\ loop # Gone
  /\ \/ pc[s] = "subscribe" /\ topics[s] < NumTopics
     \/ pc[s] = "handle" /\ todo[s] > 0
     \/ pc[s] = "hook"

\* The service that could poll the event loop is the one that waits for room;
\* before anyone has the event loop, every service does.
Jammed ==
  \/ loop \in Services /\ Stuck(loop)
  \/ loop = Held /\ \A s \in Services : Stuck(s)

\* The requests of the services and of other tasks, up to the bounds.
Issuable ==
  {Sub(s, i) : s \in Services, i \in 1..NumTopics}
    \cup {Event(s, n) : s \in Services, n \in 1..(MaxMessages * MaxPublish)}
    \cup {Last(s) : s \in Services}
    \cup {App(n) : n \in 1..MaxApp}

\* An accepted request, be it a subscription, a publish of a handler, of the hook or
\* of another task, is sent unless the event loop is dropped with it or the service
\* that polls the event loop waits for room itself (mqtt.rs:80, 90-105, 123).
SentUnlessStopped ==
  \A r \in Issuable : In(r, chan) ~> In(r, wire) \/ loop = Gone \/ Jammed

\* A jam is the only thing that keeps a service whose shutdown signal resolved
\* from returning: a failed poll or another service never does
\* (service.rs:185-203, mqtt.rs:106-110).
ReturnsUnlessJammed ==
  \A s \in Services : s \in signal ~> pc[s] \in {"done", "failed"} \/ Jammed

\* Nothing undoes a jam, so that a service in it never returns (mqtt.rs:80, 123).
JamLasts == [][Jammed => Jammed']_vars

\* What service.rs:114-116 says of the shutdown signal: the service then
\* returns from serve().
SignalReturns == \A s \in Services : s \in signal ~> pc[s] \in {"done", "failed"}

=============================================================================
