--------------------------- MODULE MqttLoopProofs ---------------------------
(***************************************************************************)
(* Proofs about MqttLoop for any set of services, topics, capacity and     *)
(* bounds: types with the capacity of the channel, one reader, no request  *)
(* lost or sent twice while the event loop exists, and that a jam lasts.   *)
(***************************************************************************)
EXTENDS MqttLoop, TLAPS

\* What has been issued so far: a request is queued at most once because the
\* next one of its kind is always new.
Issued ==
  {r \in Requests :
     \/ r[1] = "sub"   /\ r[2] \in Services /\ r[3] <= topics[r[2]]
     \/ r[1] = "event" /\ r[2] \in Services /\ r[3] <= published[r[2]]
     \/ r[1] = "last"  /\ r[2] \in Services /\ pc[r[2]] \in {"return", "done"}
     \/ r[1] = "app"   /\ r[3] <= app}

OnlyIssued ==
  /\ \A i \in DOMAIN chan : chan[i] \in Issued
  /\ \A i \in DOMAIN wire : wire[i] \in Issued

NoneTwice ==
  /\ \A i, j \in DOMAIN chan : chan[i] = chan[j] => i = j
  /\ \A i, j \in DOMAIN wire : wire[i] = wire[j] => i = j
  /\ \A i \in DOMAIN chan, j \in DOMAIN wire : chan[i] # wire[j]

NoneLost == loop # Gone => \A r \in accepted : In(r, chan) \/ In(r, wire)

IndInv == TypeOK /\ OneReader /\ OnlyIssued /\ NoneTwice /\ NoneLost

-----------------------------------------------------------------------------
(* The two steps on the channel *)

\* The parts of a request.
LEMMA RequestParts ==
  \A r \in Requests : r[2] \in Services \cup {Held} /\ r[3] \in Nat
BY DEF Requests

\* A queued request keeps the type of channel and history.
LEMMA AcceptType ==
  ASSUME TypeOK, NEW r \in Requests, Accept(r), MqttAssumption
  PROVE  chan' \in Seq(Requests) /\ Len(chan') <= Capacity /\ accepted' \in SUBSET Requests
BY DEF TypeOK, Accept, MqttAssumption

\* A request never issued before can be queued.
LEMMA AcceptNew ==
  ASSUME TypeOK, OnlyIssued, NoneTwice, NoneLost,
         NEW r \in Requests, Accept(r), r \notin Issued, r \in Issued', wire' = wire, loop' = loop,
         Issued \subseteq Issued'
  PROVE  OnlyIssued' /\ NoneTwice' /\ NoneLost'
<1>1. /\ chan \in Seq(Requests) /\ wire \in Seq(Requests)
      /\ chan' = Append(chan, r) /\ accepted' = accepted \cup {r}
  BY DEF TypeOK, Accept
<1>2. /\ DOMAIN chan' = DOMAIN chan \cup {Len(chan) + 1}
      /\ \A i \in DOMAIN chan : chan'[i] = chan[i] /\ chan[i] \in Requests
      /\ chan'[Len(chan) + 1] = r
      /\ Len(chan) + 1 \notin DOMAIN chan
  BY <1>1
<1>3. \A i \in DOMAIN wire : wire[i] \in Requests
  BY <1>1
<1>4. OnlyIssued'
  <2>1. \A i \in DOMAIN chan' : chan'[i] \in Issued'
    BY <1>2 DEF OnlyIssued
  <2>2. \A i \in DOMAIN wire' : wire'[i] \in Issued'
    BY <1>3 DEF OnlyIssued
  <2> QED BY <2>1, <2>2 DEF OnlyIssued
<1>5. (\A i \in DOMAIN chan : chan[i] # r) /\ (\A i \in DOMAIN wire : wire[i] # r)
  BY DEF OnlyIssued
<1>6. NoneTwice'
  BY <1>2, <1>5 DEF NoneTwice
<1>7. NoneLost'
  <2>1. \A q : In(q, chan) => In(q, chan')
    BY <1>2 DEF In
  <2>2. In(r, chan')
    BY <1>2 DEF In
  <2> QED BY <1>1, <2>1, <2>2 DEF NoneLost, In
<1> QED BY <1>4, <1>6, <1>7

\* Writing the oldest request loses and repeats nothing.
LEMMA SendKeeps ==
  ASSUME TypeOK, OnlyIssued, NoneTwice, NoneLost, NEW s \in Services, Send(s)
  PROVE  /\ chan' \in Seq(Requests) /\ Len(chan') <= Capacity /\ wire' \in Seq(Requests)
         /\ OnlyIssued' /\ NoneTwice' /\ NoneLost'
<1>1. /\ chan \in Seq(Requests) /\ wire \in Seq(Requests) /\ chan # <<>>
      /\ wire' = Append(wire, Head(chan)) /\ chan' = Tail(chan) /\ accepted' = accepted
  BY DEF TypeOK, Send
<1>2. /\ chan' \in Seq(Requests) /\ wire' \in Seq(Requests)
      /\ Len(chan) \in Nat \ {0} /\ Len(chan') = Len(chan) - 1
      /\ DOMAIN chan = 1..Len(chan) /\ DOMAIN chan' = 1..(Len(chan) - 1)
      /\ \A i \in DOMAIN chan' : i + 1 \in DOMAIN chan /\ chan'[i] = chan[i + 1]
  BY <1>1
<1>3. /\ DOMAIN wire' = DOMAIN wire \cup {Len(wire) + 1}
      /\ \A i \in DOMAIN wire : wire'[i] = wire[i]
      /\ wire'[Len(wire) + 1] = chan[1]
      /\ 1 \in DOMAIN chan
  BY <1>1
<1>4. Issued' = Issued
  BY DEF Send, Issued, calls
<1>5. OnlyIssued'
  BY <1>2, <1>3, <1>4 DEF OnlyIssued
<1>6. NoneTwice'
  BY <1>2, <1>3, SMTT(30) DEF NoneTwice
<1>7. NoneLost'
  <2>1. \A q : In(q, chan) => In(q, chan') \/ In(q, wire')
    <3> SUFFICES ASSUME NEW q, NEW i \in DOMAIN chan, chan[i] = q
                 PROVE  In(q, chan') \/ In(q, wire')
      BY DEF In
    <3>1. CASE i = 1
      BY <3>1, <1>3 DEF In
    <3>2. CASE i # 1
      <4>1. i - 1 \in DOMAIN chan' /\ chan'[i - 1] = q
        BY <3>2, <1>2
      <4> QED BY <4>1 DEF In
    <3> QED BY <3>1, <3>2
  <2>2. \A q : In(q, wire) => In(q, wire')
    BY <1>3 DEF In
  <2> QED BY <1>1, <2>1, <2>2 DEF NoneLost, Send
<1>8. Len(chan') <= Capacity
  BY <1>2, MqttAssumption DEF TypeOK, MqttAssumption
<1> QED BY <1>2, <1>5, <1>6, <1>7, <1>8

-----------------------------------------------------------------------------
(* Types *)

LEMMA InitType == Init => TypeOK
BY MqttAssumption DEF Init, TypeOK, MqttAssumption, Pcs

\* Every step keeps the types, and the channel within its capacity.
LEMMA TypeStep == ASSUME TypeOK, OnlyIssued, NoneTwice, NoneLost, [Next]_vars PROVE TypeOK'
<1> USE MqttAssumption DEF MqttAssumption
<1>1. CASE Arrive
  <2>1. inbox' \in Seq(Services) /\ arrived' \in Nat
    BY <1>1 DEF Arrive, TypeOK
  <2>2. UNCHANGED <<chan, accepted, loop, wire, pc, topics, todo, published, app, signal>>
    BY <1>1 DEF Arrive, client, calls
  <2> QED BY <2>1, <2>2 DEF TypeOK
<1>2. CASE AppPublish
  <2>1. App(app + 1) \in Requests
    BY DEF TypeOK, App, Requests
  <2> QED BY <1>2, <2>1, AcceptType DEF AppPublish, TypeOK, network
<1>3. ASSUME NEW s \in Services, Serve(s) PROVE TypeOK'
  <2>1. CASE SubscribeNext(s)
    <3>1. Sub(s, topics[s] + 1) \in Requests
      BY DEF TypeOK, Sub, Requests
    <3>2. chan' \in Seq(Requests) /\ Len(chan') <= Capacity /\ accepted' \in SUBSET Requests
      BY <2>1, <3>1, AcceptType DEF SubscribeNext
    <3>3. topics' \in [Services -> 0..NumTopics]
      <4>1. topics' = [topics EXCEPT ![s] = topics[s] + 1] /\ topics[s] < NumTopics
        BY <2>1 DEF SubscribeNext
      <4>2. topics \in [Services -> 0..NumTopics]
        BY DEF TypeOK
      <4> QED BY <4>1, <4>2
    <3> QED BY <2>1, <3>2, <3>3 DEF SubscribeNext, TypeOK, network
  <2>2. CASE SubscribeFails(s)
    BY <2>2 DEF SubscribeFails, TypeOK, client, network, calls, Pcs
  <2>3. CASE TakeLoop(s)
    BY <2>3 DEF TakeLoop, TypeOK, client, network, calls, Pcs
  <2>4. CASE Send(s)
    BY <2>4, SendKeeps DEF Send, TypeOK, calls
  <2>5. CASE TakeMessage(s)
    <3>1. inbox' \in Seq(Services)
      BY <2>5 DEF TakeMessage, TypeOK
    <3>2. pc' \in [Services -> Pcs] /\ todo' \in [Services -> 0..MaxPublish]
      BY <2>5 DEF TakeMessage, TypeOK, Pcs
    <3> QED BY <2>5, <3>1, <3>2 DEF TakeMessage, TypeOK, client
  <2>6. CASE Publish(s)
    <3>1. Event(s, published[s] + 1) \in Requests
      <4>1. published[s] \in Nat
        BY DEF TypeOK
      <4> QED BY <4>1 DEF Event, Requests
    <3>2. chan' \in Seq(Requests) /\ Len(chan') <= Capacity /\ accepted' \in SUBSET Requests
      BY <2>6, <3>1, AcceptType DEF Publish
    <3>3. published' \in [Services -> Nat] /\ todo' \in [Services -> 0..MaxPublish]
      <4>1. published \in [Services -> Nat] /\ todo \in [Services -> 0..MaxPublish]
        BY DEF TypeOK
      <4>2. /\ published' = [published EXCEPT ![s] = published[s] + 1]
            /\ todo' = [todo EXCEPT ![s] = todo[s] - 1]
            /\ todo[s] > 0
        BY <2>6 DEF Publish
      <4>3. published[s] + 1 \in Nat /\ todo[s] - 1 \in 0..MaxPublish
        BY <4>1, <4>2
      <4>4. published' \in [Services -> Nat]
        BY <4>1, <4>2, <4>3
      <4>5. todo' \in [Services -> 0..MaxPublish]
        BY <4>1, <4>2, <4>3
      <4> QED BY <4>4, <4>5
    <3> QED BY <2>6, <3>2, <3>3 DEF Publish, TypeOK, network
  <2>7. CASE HandlerReturns(s)
    BY <2>7 DEF HandlerReturns, TypeOK, client, network, calls, Pcs
  <2>8. CASE PollFails(s)
    BY <2>8 DEF PollFails, TypeOK, client, network, calls, Pcs
  <2>9. CASE Signal(s)
    BY <2>9 DEF Signal, TypeOK, client, network, calls
  <2>10. CASE TakeShutdown(s)
    BY <2>10 DEF TakeShutdown, TypeOK, client, network, calls, Pcs
  <2>11. CASE HookPublish(s)
    <3>1. Last(s) \in Requests
      BY DEF Last, Requests
    <3>2. chan' \in Seq(Requests) /\ Len(chan') <= Capacity /\ accepted' \in SUBSET Requests
      BY <2>11, <3>1, AcceptType DEF HookPublish, TypeOK, client
    <3> QED BY <2>11, <3>2 DEF HookPublish, TypeOK, network, calls, Pcs
  <2>12. CASE Return(s)
    BY <2>12 DEF Return, TypeOK, client, network, calls, Pcs
  <2> QED BY <1>3, <2>1, <2>2, <2>3, <2>4, <2>5, <2>6, <2>7, <2>8, <2>9, <2>10, <2>11, <2>12
          DEF Serve, Startup, Handle, Shutdown
<1>4. CASE UNCHANGED vars
  BY <1>4 DEF vars, TypeOK, client, network, calls
<1> QED BY <1>1, <1>2, <1>3, <1>4 DEF Next

-----------------------------------------------------------------------------
(* One reader *)

LEMMA ReaderStep == ASSUME TypeOK, OneReader, [Next]_vars PROVE OneReader'
<1> USE MqttAssumption DEF MqttAssumption, TypeOK, OneReader
<1>1. CASE Arrive
  BY <1>1 DEF Arrive
<1>2. CASE AppPublish
  BY <1>2 DEF AppPublish
<1>3. ASSUME NEW s \in Services, Serve(s) PROVE OneReader'
  <2>1. CASE Startup(s)
    BY <2>1 DEF Startup, SubscribeNext, SubscribeFails, TakeLoop
  <2>2. CASE Send(s)
    BY <2>2 DEF Send
  <2>3. CASE TakeMessage(s)
    BY <2>3 DEF TakeMessage
  <2>4. CASE PollFails(s)
    BY <2>4 DEF PollFails
  <2>5. CASE Handle(s)
    BY <2>5 DEF Handle, Publish, HandlerReturns
  <2>6. CASE Signal(s) \/ TakeShutdown(s)
    BY <2>6 DEF Signal, TakeShutdown
  <2>7. CASE Shutdown(s)
    BY <2>7 DEF Shutdown, HookPublish, Return
  <2> QED BY <1>3, <2>1, <2>2, <2>3, <2>4, <2>5, <2>6, <2>7 DEF Serve
<1>4. CASE UNCHANGED vars
  BY <1>4 DEF vars
<1> QED BY <1>1, <1>2, <1>3, <1>4 DEF Next

-----------------------------------------------------------------------------
(* Requests *)

\* Steps that leave channel and wire alone, and bring no event loop back.
LEMMA QuietKeeps ==
  ASSUME TypeOK, OnlyIssued, NoneTwice, NoneLost,
         UNCHANGED <<client, wire>>, loop # Gone \/ loop' = Gone,
         Issued \subseteq Issued'
  PROVE  OnlyIssued' /\ NoneTwice' /\ NoneLost'
<1>1. OnlyIssued'
  BY DEF OnlyIssued, client
<1>2. NoneTwice'
  BY DEF NoneTwice, client
<1>3. NoneLost'
  BY DEF NoneLost, In, client
<1> QED BY <1>1, <1>2, <1>3

LEMMA RequestStep ==
  ASSUME TypeOK, OneReader, OnlyIssued, NoneTwice, NoneLost, [Next]_vars
  PROVE  OnlyIssued' /\ NoneTwice' /\ NoneLost'
<1> USE MqttAssumption DEF MqttAssumption
<1>1. CASE Arrive
  <2>1. Issued \subseteq Issued'
    BY <1>1 DEF Arrive, calls, Issued
  <2> QED BY <1>1, <2>1, QuietKeeps DEF Arrive
<1>2. CASE AppPublish
  <2>1. App(app + 1) \in Requests /\ App(app + 1) \notin Issued
    BY DEF TypeOK, App, Requests, Issued
  <2>2. App(app + 1) \in Issued' /\ Issued \subseteq Issued'
    <3>1. app \in Nat /\ app' = app + 1 /\ UNCHANGED <<pc, topics, published>>
      BY <1>2 DEF AppPublish, TypeOK, calls
    <3> QED BY <3>1 DEF App, Requests, Issued
  <2> QED BY <1>2, <2>1, <2>2, AcceptNew DEF AppPublish, network
<1>3. ASSUME NEW s \in Services, Serve(s) PROVE OnlyIssued' /\ NoneTwice' /\ NoneLost'
  <2>1. CASE SubscribeNext(s)
    <3>1. Sub(s, topics[s] + 1) \in Requests /\ Sub(s, topics[s] + 1) \notin Issued
      <4>1. topics[s] \in Nat
        BY DEF TypeOK
      <4> QED BY <4>1 DEF Sub, Requests, Issued
    <3>2. /\ topics[s] \in Nat /\ topics'[s] = topics[s] + 1
          /\ \A t \in Services : topics[t] \in Nat /\ topics'[t] >= topics[t]
          /\ \A t \in Services : topics'[t] \in Nat
          /\ published' = published /\ pc' = pc /\ app' = app
      <4>1. topics \in [Services -> 0..NumTopics]
        BY DEF TypeOK
      <4>2. /\ topics' = [topics EXCEPT ![s] = topics[s] + 1]
            /\ published' = published /\ pc' = pc /\ app' = app
        BY <2>1 DEF SubscribeNext
      <4> QED BY <4>1, <4>2
    <3>3. Sub(s, topics[s] + 1) \in Issued'
      BY <3>1, <3>2 DEF Sub, Issued
    <3>4. Issued \subseteq Issued'
      BY <3>2, RequestParts DEF Issued
    <3> QED BY <2>1, <3>1, <3>3, <3>4, AcceptNew DEF SubscribeNext, network
  <2>2. CASE SubscribeFails(s) \/ TakeLoop(s) \/ HandlerReturns(s) \/ PollFails(s) \/ TakeShutdown(s)
    <3>1. Issued \subseteq Issued'
      BY <2>2 DEF SubscribeFails, TakeLoop, HandlerReturns, PollFails, TakeShutdown,
                  TypeOK, calls, Issued, Requests
    <3> QED BY <2>2, <3>1, QuietKeeps
            DEF SubscribeFails, TakeLoop, HandlerReturns, PollFails, TakeShutdown, network
  <2>3. CASE Send(s)
    BY <2>3, SendKeeps
  <2>4. CASE TakeMessage(s)
    <3>1. Issued \subseteq Issued'
      BY <2>4 DEF TakeMessage, TypeOK, Issued, Requests
    <3> QED BY <2>4, <3>1, QuietKeeps DEF TakeMessage
  <2>5. CASE Publish(s)
    <3>1. Event(s, published[s] + 1) \in Requests /\ Event(s, published[s] + 1) \notin Issued
      <4>1. published[s] \in Nat
        BY DEF TypeOK
      <4> QED BY <4>1 DEF Event, Requests, Issued
    <3>2. /\ published[s] \in Nat /\ published'[s] = published[s] + 1
          /\ \A t \in Services : published[t] \in Nat /\ published'[t] >= published[t]
          /\ \A t \in Services : published'[t] \in Nat
          /\ topics' = topics /\ pc' = pc /\ app' = app
      <4>1. published \in [Services -> Nat]
        BY DEF TypeOK
      <4>2. /\ published' = [published EXCEPT ![s] = published[s] + 1]
            /\ topics' = topics /\ pc' = pc /\ app' = app
        BY <2>5 DEF Publish
      <4> QED BY <4>1, <4>2
    <3>3. Event(s, published[s] + 1) \in Issued'
      BY <3>1, <3>2 DEF Event, Issued
    <3>4. Issued \subseteq Issued'
      BY <3>2, RequestParts DEF Issued
    <3> QED BY <2>5, <3>1, <3>3, <3>4, AcceptNew DEF Publish, network
  <2>6. CASE Signal(s)
    <3>1. Issued \subseteq Issued'
      BY <2>6 DEF Signal, calls, Issued
    <3> QED BY <2>6, <3>1, QuietKeeps DEF Signal, network
  <2>7. CASE HookPublish(s)
    <3>1. Last(s) \in Requests /\ Last(s) \notin Issued
      BY <2>7 DEF HookPublish, Last, Requests, Issued
    <3>2. Last(s) \in Issued' /\ Issued \subseteq Issued'
      BY <2>7 DEF HookPublish, TypeOK, calls, Last, Requests, Issued
    <3>3. CASE loop = Gone
      BY <2>7, <3>2, <3>3, QuietKeeps DEF HookPublish, network
    <3>4. CASE loop # Gone
      BY <2>7, <3>1, <3>2, <3>4, AcceptNew DEF HookPublish, network
    <3> QED BY <3>3, <3>4
  <2>8. CASE Return(s)
    <3>1. Issued \subseteq Issued'
      BY <2>8 DEF Return, TypeOK, calls, Issued, Requests
    <3> QED BY <2>8, <3>1, QuietKeeps DEF Return, network
  <2> QED BY <1>3, <2>1, <2>2, <2>3, <2>4, <2>5, <2>6, <2>7, <2>8
          DEF Serve, Startup, Handle, Shutdown
<1>4. CASE UNCHANGED vars
  <2>1. Issued \subseteq Issued'
    BY <1>4 DEF vars, calls, Issued
  <2> QED BY <1>4, <2>1, QuietKeeps DEF vars, network
<1> QED BY <1>1, <1>2, <1>3, <1>4 DEF Next

-----------------------------------------------------------------------------
(* A jam *)

\* A jammed service cannot move, and the others can neither take requests out
\* of the channel nor take over the event loop.
LEMMA JamStep == ASSUME TypeOK, OneReader, Jammed, [Next]_vars PROVE Jammed'
<1> USE MqttAssumption DEF MqttAssumption, TypeOK, OneReader, Jammed, Stuck
<1>1. CASE Arrive
  BY <1>1 DEF Arrive, client, calls
<1>2. CASE AppPublish
  BY <1>2 DEF AppPublish, Accept
<1>3. ASSUME NEW s \in Services, Serve(s) PROVE Jammed'
  <2>1. CASE Startup(s)
    BY <2>1 DEF Startup, SubscribeNext, SubscribeFails, TakeLoop, Accept, client, calls
  <2>2. CASE Send(s) \/ TakeMessage(s) \/ PollFails(s)
    BY <2>2 DEF Send, TakeMessage, PollFails
  <2>3. CASE Handle(s)
    BY <2>3 DEF Handle, Publish, HandlerReturns, Accept, client, calls
  <2>4. CASE Signal(s)
    BY <2>4 DEF Signal, client, calls
  <2>5. CASE TakeShutdown(s)
    BY <2>5 DEF TakeShutdown, client, calls
  <2>6. CASE Shutdown(s)
    BY <2>6 DEF Shutdown, HookPublish, Return, Accept, client, calls
  <2> QED BY <1>3, <2>1, <2>2, <2>3, <2>4, <2>5, <2>6 DEF Serve
<1>4. CASE UNCHANGED vars
  BY <1>4 DEF vars, client, calls
<1> QED BY <1>1, <1>2, <1>3, <1>4 DEF Next

-----------------------------------------------------------------------------
(* The order of subscriptions and publishes *)

\* Each subscribe request a service has issued was accepted, and a service that
\* serves has issued all of them.
AllSubscribed ==
  /\ \A s \in Services, k \in Nat : 1 <= k /\ k <= topics[s] => Sub(s, k) \in accepted
  /\ \A s \in Services : pc[s] \in {"select", "handle"} => topics[s] = NumTopics

\* Behind, in the channel or already on the wire: the subscriptions of the service.
QueuedFirst ==
  \A i \in DOMAIN chan, s \in Services, n \in Nat, k \in 1..NumTopics :
    chan[i] = Event(s, n) =>
      In(Sub(s, k), wire) \/ \E j \in DOMAIN chan : j < i /\ chan[j] = Sub(s, k)

SentFirst ==
  \A i \in DOMAIN wire, s \in Services, n \in Nat, k \in 1..NumTopics :
    wire[i] = Event(s, n) => \E j \in DOMAIN wire : j < i /\ wire[j] = Sub(s, k)

OrderInv == AllSubscribed /\ QueuedFirst /\ SentFirst

\* Writing the oldest request keeps the order.
LEMMA SendOrder ==
  ASSUME TypeOK, QueuedFirst, SentFirst, NEW s \in Services, Send(s)
  PROVE  QueuedFirst' /\ SentFirst'
<1>1. /\ chan \in Seq(Requests) /\ wire \in Seq(Requests) /\ chan # <<>>
      /\ wire' = Append(wire, Head(chan)) /\ chan' = Tail(chan)
  BY DEF TypeOK, Send
<1>2. /\ Len(chan) \in Nat \ {0} /\ Len(wire) \in Nat
      /\ DOMAIN chan = 1..Len(chan) /\ DOMAIN chan' = 1..(Len(chan) - 1)
      /\ \A i \in DOMAIN chan' : i + 1 \in DOMAIN chan /\ chan'[i] = chan[i + 1]
  BY <1>1
<1>3. /\ DOMAIN wire = 1..Len(wire) /\ DOMAIN wire' = 1..(Len(wire) + 1)
      /\ \A i \in DOMAIN wire : wire'[i] = wire[i]
      /\ wire'[Len(wire) + 1] = chan[1]
  BY <1>1
<1>4. \A q : In(q, wire) => In(q, wire')
  BY <1>3 DEF In
<1>5. QueuedFirst'
  <2> SUFFICES ASSUME NEW i \in DOMAIN chan', NEW t \in Services, NEW n \in Nat,
                      NEW k \in 1..NumTopics, chan'[i] = Event(t, n)
               PROVE  \/ In(Sub(t, k), wire')
                      \/ \E j \in DOMAIN chan' : j < i /\ chan'[j] = Sub(t, k)
    BY DEF QueuedFirst, Event, Sub
  <2>1. i + 1 \in DOMAIN chan /\ chan[i + 1] = Event(t, n) /\ i \in Nat
    BY <1>2
  <2>2. CASE In(Sub(t, k), wire)
    BY <1>4, <2>2
  <2>3. CASE ~In(Sub(t, k), wire)
    <3>1. PICK j \in DOMAIN chan : j < i + 1 /\ chan[j] = Sub(t, k)
      BY <2>1, <2>3 DEF QueuedFirst
    <3>2. CASE j = 1
      BY <1>3, <3>1, <3>2, <1>2 DEF In
    <3>3. CASE j # 1
      <4>1. j - 1 \in DOMAIN chan' /\ j - 1 < i /\ chan'[j - 1] = Sub(t, k)
        BY <1>2, <2>1, <3>1, <3>3
      <4> QED
        BY <4>1
    <3> QED
      BY <3>2, <3>3
  <2> QED
    BY <2>2, <2>3
<1>6. SentFirst'
  <2> SUFFICES ASSUME NEW i \in DOMAIN wire', NEW t \in Services, NEW n \in Nat,
                      NEW k \in 1..NumTopics, wire'[i] = Event(t, n)
               PROVE  \E j \in DOMAIN wire' : j < i /\ wire'[j] = Sub(t, k)
    BY DEF SentFirst, Event, Sub
  <2>1. CASE i \in DOMAIN wire
    <3>1. PICK j \in DOMAIN wire : j < i /\ wire[j] = Sub(t, k)
      BY <1>3, <2>1 DEF SentFirst
    <3> QED
      BY <1>3, <3>1
  <2>2. CASE i = Len(wire) + 1
    <3>1. 1 \in DOMAIN chan /\ chan[1] = Event(t, n)
      BY <1>2, <1>3, <2>2
    <3>2. ~ \E j \in DOMAIN chan : j < 1
      BY <1>2
    <3>3. In(Sub(t, k), wire)
      BY <3>1, <3>2 DEF QueuedFirst
    <3> QED
      BY <1>3, <2>2, <3>3 DEF In
  <2> QED
    BY <1>3, <2>1, <2>2
<1> QED
  BY <1>5, <1>6

\* A queued request keeps the order, when it is no publish of a service or all
\* subscriptions of the service are in the channel or on the wire.
LEMMA AcceptOrder ==
  ASSUME TypeOK, QueuedFirst, SentFirst, NEW r \in Requests, Accept(r), wire' = wire,
         \A s \in Services, n \in Nat : r = Event(s, n) =>
           \A k \in 1..NumTopics : In(Sub(s, k), chan) \/ In(Sub(s, k), wire)
  PROVE  QueuedFirst' /\ SentFirst'
<1>1. chan \in Seq(Requests) /\ chan' = Append(chan, r)
  BY DEF TypeOK, Accept
<1>2. /\ Len(chan) \in Nat /\ DOMAIN chan = 1..Len(chan)
      /\ DOMAIN chan' = DOMAIN chan \cup {Len(chan) + 1}
      /\ \A i \in DOMAIN chan : chan'[i] = chan[i]
      /\ chan'[Len(chan) + 1] = r
  BY <1>1
<1>3. SentFirst'
  BY DEF SentFirst, Event, Sub
<1>4. QueuedFirst'
  <2> SUFFICES ASSUME NEW i \in DOMAIN chan', NEW t \in Services, NEW n \in Nat,
                      NEW k \in 1..NumTopics, chan'[i] = Event(t, n), ~In(Sub(t, k), wire)
               PROVE  \E j \in DOMAIN chan' : j < i /\ chan'[j] = Sub(t, k)
    BY DEF QueuedFirst, Event, Sub, In
  <2>1. CASE i \in DOMAIN chan
    <3>1. PICK j \in DOMAIN chan : j < i /\ chan[j] = Sub(t, k)
      BY <1>2, <2>1 DEF QueuedFirst
    <3> QED
      BY <1>2, <3>1
  <2>2. CASE i = Len(chan) + 1
    <3>1. In(Sub(t, k), chan)
      BY <1>2, <2>2
    <3> QED
      BY <1>2, <2>2, <3>1 DEF In
  <2> QED
    BY <1>2, <2>1, <2>2
<1> QED
  BY <1>3, <1>4

LEMMA OrderStep ==
  ASSUME IndInv, OrderInv, [Next]_vars
  PROVE  OrderInv'
<1> USE MqttAssumption DEF MqttAssumption
<1>0. TypeOK /\ AllSubscribed /\ QueuedFirst /\ SentFirst
  BY DEF IndInv, OrderInv
<1>1. UNCHANGED <<chan, wire>> => QueuedFirst' /\ SentFirst'
  BY <1>0 DEF QueuedFirst, SentFirst, Event, Sub, In
<1>2. CASE Arrive \/ UNCHANGED vars
  BY <1>0, <1>1, <1>2 DEF Arrive, vars, client, network, calls, AllSubscribed, Sub, OrderInv
<1>3. CASE AppPublish
  <2>1. App(app + 1) \in Requests /\ \A s \in Services, n \in Nat : App(app + 1) # Event(s, n)
    BY <1>0 DEF TypeOK, App, Event, Requests
  <2>2. QueuedFirst' /\ SentFirst'
    BY <1>0, <1>3, <2>1, AcceptOrder DEF AppPublish, network
  <2> QED
    BY <1>0, <1>3, <2>2 DEF AppPublish, Accept, AllSubscribed, OrderInv, Sub
<1>4. ASSUME NEW s \in Services, Serve(s) PROVE OrderInv'
  <2>1. CASE SubscribeNext(s)
    <3>1. /\ Sub(s, topics[s] + 1) \in Requests
          /\ \A t \in Services, n \in Nat : Sub(s, topics[s] + 1) # Event(t, n)
      BY <1>0 DEF TypeOK, Sub, Event, Requests
    <3>2. QueuedFirst' /\ SentFirst'
      BY <1>0, <2>1, <3>1, AcceptOrder DEF SubscribeNext, network
    <3>3. /\ pc' = pc /\ pc[s] = "subscribe"
          /\ accepted' = accepted \cup {Sub(s, topics[s] + 1)}
          /\ topics[s] \in Nat /\ topics'[s] = topics[s] + 1
          /\ \A t \in Services \ {s} : topics'[t] = topics[t]
      BY <1>0, <2>1 DEF SubscribeNext, Accept, TypeOK
    <3>4. AllSubscribed'
      <4>1. \A t \in Services, k \in Nat : 1 <= k /\ k <= topics'[t] => Sub(t, k) \in accepted'
        <5> SUFFICES ASSUME NEW t \in Services, NEW k \in Nat, 1 <= k, k <= topics'[t]
                     PROVE  Sub(t, k) \in accepted'
          OBVIOUS
        <5>1. CASE t = s /\ k = topics[s] + 1
          BY <3>3, <5>1
        <5>2. CASE ~(t = s /\ k = topics[s] + 1)
          BY <1>0, <3>3, <5>2 DEF AllSubscribed
        <5> QED
          BY <5>1, <5>2
      <4>2. \A t \in Services : pc'[t] \in {"select", "handle"} => topics'[t] = NumTopics
        BY <1>0, <3>3 DEF AllSubscribed
      <4> QED
        BY <4>1, <4>2 DEF AllSubscribed, Sub
    <3> QED
      BY <3>2, <3>4 DEF OrderInv
  <2>2. CASE SubscribeFails(s) \/ TakeLoop(s)
    <3>1. QueuedFirst' /\ SentFirst'
      BY <1>1, <2>2 DEF SubscribeFails, TakeLoop, client, network
    <3>2. AllSubscribed'
      BY <1>0, <2>2 DEF SubscribeFails, TakeLoop, client, calls, TypeOK, AllSubscribed, Sub
    <3> QED
      BY <3>1, <3>2 DEF OrderInv
  <2>3. CASE Send(s)
    BY <1>0, <2>3, SendOrder DEF Send, calls, AllSubscribed, OrderInv, Sub
  <2>4. CASE TakeMessage(s)
    <3>1. QueuedFirst' /\ SentFirst'
      BY <1>1, <2>4 DEF TakeMessage, client
    <3>2. AllSubscribed'
      BY <1>0, <2>4 DEF TakeMessage, client, TypeOK, AllSubscribed, Sub
    <3> QED
      BY <3>1, <3>2 DEF OrderInv
  <2>5. CASE Publish(s)
    <3>1. Event(s, published[s] + 1) \in Requests /\ loop # Gone /\ topics[s] = NumTopics
      <4>1. published[s] \in Nat
        BY <1>0 DEF TypeOK
      <4>2. Event(s, published[s] + 1) \in Requests
        BY <4>1 DEF Event, Requests
      <4>3. loop # Gone
        BY <2>5 DEF Publish, Accept
      <4>4. topics[s] = NumTopics
        BY <1>0, <2>5 DEF Publish, AllSubscribed
      <4> QED
        BY <4>2, <4>3, <4>4
    <3>2. \A k \in 1..NumTopics : Sub(s, k) \in accepted
      BY <1>0, <3>1 DEF AllSubscribed
    <3>3. \A k \in 1..NumTopics : In(Sub(s, k), chan) \/ In(Sub(s, k), wire)
      BY <3>1, <3>2 DEF IndInv, NoneLost
    <3>4. \A t \in Services, n \in Nat : Event(s, published[s] + 1) = Event(t, n) => t = s
      BY DEF Event
    <3>5. QueuedFirst' /\ SentFirst'
      BY <1>0, <2>5, <3>1, <3>3, <3>4, AcceptOrder DEF Publish, network
    <3>6. AllSubscribed'
      BY <1>0, <2>5 DEF Publish, Accept, AllSubscribed, Sub
    <3> QED
      BY <3>5, <3>6 DEF OrderInv
  <2>6. CASE HandlerReturns(s) \/ PollFails(s) \/ TakeShutdown(s) \/ Return(s) \/ Signal(s)
    <3>1. QueuedFirst' /\ SentFirst'
      BY <1>1, <2>6 DEF HandlerReturns, PollFails, TakeShutdown, Return, Signal, client, network
    <3>2. AllSubscribed'
      BY <1>0, <2>6 DEF HandlerReturns, PollFails, TakeShutdown, Return, Signal, client, calls,
                        TypeOK, AllSubscribed, Sub
    <3> QED
      BY <3>1, <3>2 DEF OrderInv
  <2>7. CASE HookPublish(s)
    <3>1. Last(s) \in Requests /\ \A t \in Services, n \in Nat : Last(s) # Event(t, n)
      BY DEF Last, Event, Requests
    <3>2. QueuedFirst' /\ SentFirst'
      BY <1>0, <1>1, <2>7, <3>1, AcceptOrder DEF HookPublish, client, network
    <3>3. AllSubscribed'
      BY <1>0, <2>7 DEF HookPublish, Accept, client, calls, TypeOK, AllSubscribed, Sub
    <3> QED
      BY <3>2, <3>3 DEF OrderInv
  <2> QED
    BY <1>4, <2>1, <2>2, <2>3, <2>4, <2>5, <2>6, <2>7 DEF Serve, Startup, Handle, Shutdown
<1> QED
  BY <1>2, <1>3, <1>4 DEF Next

-----------------------------------------------------------------------------
(* What a full channel leaves *)

\* Service t has a step that waits for nothing, or one that makes room.
Free(t) ==
  \/ pc[t] = "subscribe" /\ topics[t] = NumTopics
  \/ pc[t] = "select" /\ loop = t /\ chan # <<>>
  \/ pc[t] = "handle" /\ todo[t] = 0
  \/ pc[t] = "return"

\* Until one takes the event loop, all services subscribe.
HeldFirst == loop = Held => \A s \in Services : pc[s] = "subscribe"

\* A call waits for room only as long as a service can go on, or in a jam.
WaitsForSomeone == \A s \in Services : Stuck(s) => Jammed \/ \E t \in Services : Free(t)

LEMMA HeldStep == ASSUME TypeOK, HeldFirst, [Next]_vars PROVE HeldFirst'
<1>1. loop' = Held => loop = Held
  BY MqttAssumption DEF TypeOK, Next, vars, Arrive, AppPublish, Serve, Startup, Handle, Shutdown,
     SubscribeNext, SubscribeFails, TakeLoop, Send, TakeMessage, Publish, HandlerReturns,
     PollFails, Signal, TakeShutdown, HookPublish, Return, MqttAssumption
<1>2. (loop = Held /\ loop' = Held /\ HeldFirst) => UNCHANGED pc
  BY MqttAssumption DEF HeldFirst, Next, vars, Arrive, AppPublish, Serve, Startup, Handle,
     Shutdown, SubscribeNext, SubscribeFails, TakeLoop, Send, TakeMessage, Publish,
     HandlerReturns, PollFails, Signal, TakeShutdown, HookPublish, Return, MqttAssumption
<1> QED
  BY <1>1, <1>2 DEF HeldFirst

LEMMA OthersMove ==
  ASSUME IndInv, HeldFirst, Capacity # 0
  PROVE  WaitsForSomeone
<1> SUFFICES ASSUME NEW s \in Services, Stuck(s), ~Jammed
             PROVE  \E t \in Services : Free(t)
  BY DEF WaitsForSomeone
<1>1. /\ loop # Gone /\ Len(chan) = Capacity /\ chan # <<>>
      /\ \A t \in Services : topics[t] \in 0..NumTopics /\ todo[t] \in 0..MaxPublish
  BY MqttAssumption DEF Stuck, IndInv, TypeOK, MqttAssumption
<1>2. CASE loop \in Services
  <2>1. ~Stuck(loop)
    BY <1>2 DEF Jammed
  <2>2. pc[loop] \in {"select", "handle", "hook", "return"}
    BY <1>2 DEF IndInv, OneReader
  <2>3. Free(loop)
    BY <1>1, <1>2, <2>1, <2>2 DEF Stuck, Free
  <2> QED
    BY <1>2, <2>3
<1>3. CASE loop = Held
  <2>1. PICK t \in Services : ~Stuck(t)
    BY <1>3 DEF Jammed
  <2>2. pc[t] = "subscribe"
    BY <1>3 DEF HeldFirst
  <2>3. ~(topics[t] < NumTopics)
    BY <1>1, <2>1, <2>2 DEF Stuck
  <2>4. topics[t] = NumTopics
    BY <1>1, <2>3, MqttAssumption DEF MqttAssumption
  <2> QED
    BY <2>2, <2>4 DEF Free
<1> QED
  BY <1>1, <1>2, <1>3 DEF IndInv, TypeOK

-----------------------------------------------------------------------------
(* Theorems *)

\* The invariant the others follow from.
THEOREM Inductive == Spec => []IndInv
<1>1. Init => IndInv
  <2> SUFFICES ASSUME Init PROVE IndInv
    OBVIOUS
  <2>1. TypeOK
    BY InitType
  <2>2. OneReader
    BY MqttAssumption DEF Init, OneReader, MqttAssumption
  <2>3. OnlyIssued /\ NoneTwice /\ NoneLost
    BY DEF Init, OnlyIssued, NoneTwice, NoneLost
  <2> QED BY <2>1, <2>2, <2>3 DEF IndInv
<1>2. IndInv /\ [Next]_vars => IndInv'
  BY TypeStep, ReaderStep, RequestStep DEF IndInv
<1> QED BY <1>1, <1>2, PTL DEF Spec

\* Every variable keeps its type and the channel its capacity (mqtt.rs:35).
THEOREM TypeCorrect == Spec => []TypeOK
<1>1. IndInv => TypeOK
  BY DEF IndInv
<1> QED BY <1>1, Inductive, PTL

\* At most one service reads the connection (mqtt.rs:83-88).
THEOREM SingleReader == Spec => []OneReader
<1>1. IndInv => OneReader
  BY DEF IndInv
<1> QED BY <1>1, Inductive, PTL

\* Accepted requests are kept while the event loop exists, and none is sent
\* twice (mqtt.rs:80, 123).
THEOREM RequestsSafe == Spec => []RequestsKept
<1>1. IndInv => RequestsKept
  BY DEF IndInv, NoneTwice, NoneLost, RequestsKept
<1> QED BY <1>1, Inductive, PTL

\* What a handler publishes is sent behind the subscriptions of its service, for
\* any capacity and any number of services (mqtt.rs:75-81, service.rs:160).
THEOREM SubscribedBefore == Spec => []SubscribedFirst
<1>1. Init => OrderInv
  BY DEF Init, OrderInv, AllSubscribed, QueuedFirst, SentFirst
<1>2. IndInv /\ OrderInv /\ [Next]_vars => OrderInv'
  BY OrderStep
<1>3. IndInv /\ OrderInv => SubscribedFirst
  <2> SUFFICES ASSUME IndInv, OrderInv, NEW i \in DOMAIN wire, NEW s \in Services,
                      NEW n \in 1..published[s], wire[i] = Event(s, n), NEW k \in 1..NumTopics
               PROVE  \E j \in 1..(i - 1) : wire[j] = Sub(s, k)
    BY DEF SubscribedFirst
  <2>1. n \in Nat /\ DOMAIN wire = 1..Len(wire) /\ Len(wire) \in Nat
    BY DEF IndInv, TypeOK
  <2>2. PICK j \in DOMAIN wire : j < i /\ wire[j] = Sub(s, k)
    BY <2>1 DEF OrderInv, SentFirst
  <2> QED
    BY <2>1, <2>2
<1> QED BY <1>1, <1>2, <1>3, Inductive, PTL DEF Spec

\* A jam is never undone (mqtt.rs:80, 123).
THEOREM JamForEver == Spec => JamLasts
<1>1. IndInv /\ [Next]_vars => [Jammed => Jammed']_vars
  BY JamStep DEF IndInv
<1> QED BY <1>1, Inductive, PTL DEF Spec, JamLasts

\* Whoever waits for room in the channel waits for a service that can go on, unless
\* there is a jam: no other wait of services for each other exists (mqtt.rs:80-88,
\* 90-105, service.rs:185-203).
THEOREM OnlyJamBlocks ==
  ASSUME Capacity # 0
  PROVE  Spec => []WaitsForSomeone
<1>1. Init => HeldFirst
  BY DEF Init, HeldFirst
<1>2. IndInv /\ HeldFirst /\ [Next]_vars => HeldFirst'
  BY HeldStep DEF IndInv
<1>3. IndInv /\ HeldFirst => WaitsForSomeone
  BY OthersMove
<1> QED BY <1>1, <1>2, <1>3, Inductive, PTL DEF Spec

=============================================================================
