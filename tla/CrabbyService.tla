---------------------------- MODULE CrabbyService ----------------------------
(***************************************************************************)
(* CrabbyService::serve of src/src/service.rs: startup of the broker        *)
(* subscription and of the stream factories, the select! loop over the      *)
(* merged streams and the shutdown signal, the handling of one message      *)
(* (dispatch, reply, error event, acknowledgement), and the shutdown hook.  *)
(* select_all keeps the streams that may have something in a queue: a       *)
(* stream comes to its end when it is opened, woken or has just yielded.    *)
(*                                                                          *)
(* Route r has subject r.  Stream 0 is the broker subscription of all plain *)
(* routes, stream r the one made by the factory of route r.  A subscription *)
(* may cover subjects no route is registered for (wildcards): Stray stands  *)
(* for them.  Messages are numbered in the order brokers deliver them.      *)
(***************************************************************************)
EXTENDS Integers, Sequences, FiniteSets

CONSTANTS
  NumRoutes,     \* routes 1..NumRoutes, in registration order
  Plain,         \* routes without a stream factory
  RouteTopic,    \* on_error topic of a route, or NoTopic
  ServiceTopic,  \* on_error/dlq topic of the service, or NoTopic
  NoTopic,
  Kinds,         \* what senders, brokers and handlers make of a stream's messages
  MaxMessages,   \* bound: messages delivered by brokers
  MaxBroken      \* bound: messages a publish or an acknowledgement fails for

Routes  == 1..NumRoutes
Streams == 0..NumRoutes
Stray   == 0
Ids     == 1..MaxMessages
NoMsg   == 0

\* It has a reply subject, an acknowledger, a response of its handler.
AllKinds == [replyTo : BOOLEAN, acker : BOOLEAN, response : BOOLEAN]

ASSUME ServiceAssumption ==
  /\ NumRoutes \in Nat /\ MaxMessages \in Nat /\ MaxBroken \in Nat
  /\ Plain \subseteq Routes
  /\ Kinds \in [Streams -> SUBSET AllKinds]
  /\ \A kind \in Kinds[0] : ~kind.acker
  /\ DOMAIN RouteTopic = Routes

VARIABLES
  \* configuration, fixed before serve()
  routes,    \* registered routes
  hook,      \* shutdown hook: "none", "armed", "ran"
  \* the brokers and the outside
  queue,     \* messages a stream has ready, oldest first
  ended,     \* streams that end once their queue is empty
  posted,    \* messages delivered so far
  msg,       \* message attributes by number
  signal,    \* the shutdown signal has resolved
  \* serve()
  pc,        \* where serve() is
  opened,    \* streams pushed to select_all
  ready,     \* streams select_all has still to poll, in turn
  cur,       \* the message in handle_message, or NoMsg
  \* history by message number
  taken,     \* messages stream.next() has returned
  result,    \* "ok", "err" or "unrouted" once dispatched
  replied, errored, acked,  \* published replies, error topics, acks
  broken,    \* messages for which a publish or an ack failed
  passed     \* streams that have yielded while a stream had a message waiting

config  == <<routes, hook>>
outside == <<queue, ended, posted, msg, signal>>
history == <<taken, result, replied, errored, acked, broken>>
turns   == <<ready, passed>>
vars    == <<config, outside, pc, opened, cur, history, turns>>

Pcs == {"subscribe", "factories", "nostreams", "select", "dispatch", "reply",
        "error", "ack", "hook", "done", "failed"}

Results == {"none", "ok", "err", "unrouted"}

Messages == [stream : Streams, subject : Routes \cup {Stray}, kind : AllKinds]

\* Effective error topic of a route: the route's, else the service's.
ErrorTopic(r) == IF RouteTopic[r] # NoTopic THEN RouteTopic[r] ELSE ServiceTopic

Topics == {RouteTopic[r] : r \in Routes} \cup {ServiceTopic}

TypeOK ==
  /\ routes \in SUBSET Routes
  /\ hook \in {"none", "armed", "ran"}
  /\ queue \in [Streams -> Seq(Ids)]
  /\ ended \in SUBSET Streams
  /\ posted \in 0..MaxMessages
  /\ msg \in [Ids -> Messages]
  /\ signal \in BOOLEAN
  /\ pc \in Pcs
  /\ opened \in SUBSET Streams
  /\ cur \in Ids \cup {NoMsg}
  /\ taken \in SUBSET Ids
  /\ result \in [Ids -> Results]
  /\ replied \in SUBSET Ids
  /\ errored \in [Ids -> SUBSET Topics]
  /\ acked \in SUBSET Ids
  /\ broken \in SUBSET Ids
  /\ ready \in Seq(Streams)
  /\ passed \in [Streams -> SUBSET Streams]

-----------------------------------------------------------------------------
(* Brokers and the outside world *)

\* A stream that has something to yield, or has ended, is polled in its turn.
Woken(s) == IF \E i \in DOMAIN ready : ready[i] = s THEN ready ELSE Append(ready, s)

\* A broker delivers a message to an open stream.  A wildcard, of the plain routes
\* or of a JetStream route, may match the subject of any route.  Plain subscriptions
\* carry no acknowledger; reply_to is the sender's choice, or JetStream's ack subject.
Post(s) ==
  /\ posted < MaxMessages
  /\ s \in opened \ ended
  /\ \E subject \in {Stray} \cup routes, kind \in Kinds[s] :
       msg' = [msg EXCEPT ![posted + 1] = [stream |-> s, subject |-> subject, kind |-> kind]]
  /\ posted' = posted + 1
  /\ queue' = [queue EXCEPT ![s] = Append(@, posted + 1)]
  /\ ready' = Woken(s)
  /\ UNCHANGED <<config, ended, signal, pc, opened, cur, history, passed>>

\* The broker closes a stream, or its read loop fails for good.
EndStream(s) ==
  /\ s \in opened \ ended
  /\ ended' = ended \cup {s}
  /\ ready' = Woken(s)
  /\ UNCHANGED <<config, queue, posted, msg, signal, pc, opened, cur, history, passed>>

Signal ==
  /\ ~signal
  /\ signal' = TRUE
  /\ UNCHANGED <<config, queue, ended, posted, msg, pc, opened, cur, history, turns>>

-----------------------------------------------------------------------------
(* Startup *)

PlainRoutes    == routes \cap Plain
FactoryRoutes  == routes \ Plain

\* broker.subscribe(&subjects), skipped without plain routes.
Subscribe ==
  /\ pc = "subscribe"
  /\ IF PlainRoutes = {}
     THEN UNCHANGED <<opened, ready>>
     ELSE opened' = opened \cup {0} /\ ready' = Append(ready, 0)
  /\ pc' = "factories"
  /\ UNCHANGED <<config, outside, cur, history, passed>>

\* factory.init() of the next route, in registration order.
OpenFactory ==
  /\ pc = "factories"
  /\ \E r \in FactoryRoutes \ opened :
       /\ \A q \in FactoryRoutes \ opened : r <= q
       /\ opened' = opened \cup {r}
       /\ ready' = Append(ready, r)
  /\ UNCHANGED <<config, outside, pc, cur, history, passed>>

\* Mutant of StartFails: the error leaves through the shutdown path.
StartFailsIntoHook ==
  /\ \/ pc = "subscribe" /\ PlainRoutes # {}
     \/ pc = "factories" /\ FactoryRoutes \ opened # {}
  /\ hook' = IF hook = "armed" THEN "ran" ELSE hook
  /\ pc' = "failed"
  /\ opened' = {} /\ ready' = <<>>
  /\ UNCHANGED <<routes, outside, cur, history, passed>>

\* subscribe() or init() returns an error, and serve() with it; the streams
\* opened so far are dropped.
StartFails ==
  /\ \/ pc = "subscribe" /\ PlainRoutes # {}
     \/ pc = "factories" /\ FactoryRoutes \ opened # {}
  /\ pc' = "failed"
  /\ opened' = {} /\ ready' = <<>>
  /\ UNCHANGED <<config, outside, cur, history, passed>>

EnterLoop ==
  /\ pc = "factories"
  /\ FactoryRoutes \subseteq opened
  /\ pc' = IF opened = {} THEN "nostreams" ELSE "select"
  /\ UNCHANGED <<config, outside, opened, cur, history, turns>>

\* Without routes serve() only waits for the signal.
WaitSignal ==
  /\ pc = "nostreams"
  /\ signal
  /\ pc' = "hook"
  /\ UNCHANGED <<config, outside, opened, cur, history, turns>>

\* The default signal cannot listen for Ctrl+C: here serve() returns the error,
\* in the loop it is the signal itself that resolves.
WaitFails ==
  /\ pc = "nostreams"
  /\ pc' = "failed"
  /\ UNCHANGED <<config, outside, opened, cur, history, turns>>

-----------------------------------------------------------------------------
(* The select! loop *)

\* Mutant of TakeShutdown: the handler future is dropped when the signal fires.
TakeShutdownAnywhere ==
  /\ pc \in {"select", "dispatch", "reply", "error", "ack"}
  /\ signal
  /\ pc' = "hook"
  /\ cur' = NoMsg
  /\ UNCHANGED <<config, outside, opened, history, turns>>

\* Mutant of TakeShutdown: only a service without streams waits for the signal.
TakeShutdownIdle ==
  /\ pc = "select"
  /\ signal
  /\ opened = {}
  /\ pc' = "hook"
  /\ UNCHANGED <<config, outside, opened, cur, history, turns>>

TakeShutdown ==
  /\ pc = "select"
  /\ signal
  /\ pc' = "hook"
  /\ UNCHANGED <<config, outside, opened, cur, history, turns>>

\* The oldest message of stream s goes to handle_message.  The other streams that
\* have one waiting were passed by.
Yield(s) ==
  /\ cur' = Head(queue[s])
  /\ queue' = [queue EXCEPT ![s] = Tail(@)]
  /\ taken' = taken \cup {Head(queue[s])}
  /\ passed' = [u \in Streams |-> IF u = s \/ queue[u] = <<>> THEN {} ELSE passed[u] \cup {s}]
  /\ pc' = "dispatch"
  /\ UNCHANGED <<config, ended, posted, msg, signal, opened, result, replied,
                 errored, acked, broken>>

\* Mutant of TakeMessage: the streams are polled in the order of the routes.
TakeMessageFirst(s) ==
  /\ pc = "select"
  /\ s \in opened /\ \A q \in opened : queue[q] # <<>> => s <= q
  /\ queue[s] # <<>>
  /\ ready' = ready
  /\ Yield(s)

\* Mutant of TakeMessage: the index of the message is taken for the message.
TakeMessageIndex(s) ==
  /\ pc = "select"
  /\ ready # <<>> /\ s = Head(ready)
  /\ queue[s] # <<>>
  /\ cur' = Len(queue[s]) - 1
  /\ queue' = [queue EXCEPT ![s] = Tail(@)]
  /\ taken' = taken \cup {Len(queue[s]) - 1}
  /\ pc' = "dispatch"
  /\ UNCHANGED <<config, ended, posted, msg, signal, opened, result, replied,
                 errored, acked, broken, turns>>

\* stream.next(): the stream whose turn it is has a message and yields it, and
\* select_all puts it back behind the others.
TakeMessage(s) ==
  /\ pc = "select"
  /\ ready # <<>> /\ s = Head(ready)
  /\ queue[s] # <<>>
  /\ ready' = Append(Tail(ready), s)
  /\ Yield(s)

\* stream.next(): the stream whose turn it is has nothing.  It is not polled again
\* until it is woken, never if it has ended.
PollPending ==
  /\ pc = "select"
  /\ ready # <<>> /\ queue[Head(ready)] = <<>>
  /\ ready' = Tail(ready)
  /\ UNCHANGED <<config, outside, pc, opened, cur, history, passed>>

\* All streams have ended: stream.next() is None.
TakeNone ==
  /\ pc = "select"
  /\ \A s \in opened : s \in ended /\ queue[s] = <<>>
  /\ pc' = "hook"
  /\ UNCHANGED <<config, outside, opened, cur, history, turns>>

-----------------------------------------------------------------------------
(* handle_message *)

\* The route of the subject runs the handler; a handler error, an extraction
\* error and a service error all become an outcome with an error message.
Dispatch ==
  /\ pc = "dispatch"
  /\ msg[cur].subject \in routes
  /\ \E outcome \in {"ok", "err"} : result' = [result EXCEPT ![cur] = outcome]
  /\ pc' = "reply"
  /\ UNCHANGED <<config, outside, opened, cur, taken, replied, errored, acked, broken, turns>>

\* No route has this subject: logged, neither answered nor acknowledged.
DispatchNone ==
  /\ pc = "dispatch"
  /\ msg[cur].subject \notin routes
  /\ result' = [result EXCEPT ![cur] = "unrouted"]
  /\ pc' = "select"
  /\ cur' = NoMsg
  /\ UNCHANGED <<config, outside, opened, taken, replied, errored, acked, broken, turns>>

\* A publish or an acknowledgement fails; the failure is only logged.
Breaks(m) ==
  /\ Cardinality(broken \cup {m}) <= MaxBroken
  /\ broken' = broken \cup {m}

\* A reply goes out when there is both a reply subject and a response, for
\* errors too.
ReplyDue(m) == msg[m].kind.replyTo /\ msg[m].kind.response

PublishReply ==
  /\ pc = "reply"
  /\ IF ReplyDue(cur)
     THEN \/ replied' = replied \cup {cur} /\ UNCHANGED broken
          \/ Breaks(cur) /\ UNCHANGED replied
     ELSE UNCHANGED <<replied, broken>>
  /\ pc' = "error"
  /\ UNCHANGED <<config, outside, opened, cur, taken, result, errored, acked, turns>>

\* An error event goes to the effective topic, if there is one.
ErrorDue(m) == result[m] = "err" /\ ErrorTopic(msg[m].subject) # NoTopic

PublishError ==
  /\ pc = "error"
  /\ IF ErrorDue(cur)
     THEN \/ /\ errored' = [errored EXCEPT ![cur] = @ \cup {ErrorTopic(msg[cur].subject)}]
             /\ UNCHANGED broken
          \/ Breaks(cur) /\ UNCHANGED errored
     ELSE UNCHANGED <<errored, broken>>
  /\ pc' = "ack"
  /\ UNCHANGED <<config, outside, opened, cur, taken, result, replied, acked, turns>>

\* Mutant of AckDue: the outcome is not looked at.
AckAlways(m) == result[m] # "none" /\ msg[m].kind.acker

\* Without an error message the acknowledger runs, if the message has one.
AckDue(m) == result[m] = "ok" /\ msg[m].kind.acker

AckMessage ==
  /\ pc = "ack"
  /\ IF AckDue(cur)
     THEN \/ acked' = acked \cup {cur} /\ UNCHANGED broken
          \/ Breaks(cur) /\ UNCHANGED acked
     ELSE UNCHANGED <<acked, broken>>
  /\ pc' = "select"
  /\ cur' = NoMsg
  /\ UNCHANGED <<config, outside, opened, taken, result, replied, errored, turns>>

-----------------------------------------------------------------------------
(* Shutdown *)

\* run_shutdown_hook, then Ok(()); the hook's own error is only logged.
RunHook ==
  /\ pc = "hook"
  /\ hook' = IF hook = "armed" THEN "ran" ELSE hook
  /\ pc' = "done"
  /\ opened' = {} /\ ready' = <<>>
  /\ UNCHANGED <<routes, outside, cur, history, passed>>

-----------------------------------------------------------------------------
(* Specification *)

Init ==
  /\ routes \in SUBSET Routes
  /\ hook \in {"none", "armed"}
  /\ queue = [s \in Streams |-> <<>>]
  /\ ended = {}
  /\ posted = 0
  /\ msg = [m \in Ids |-> [stream |-> 0, subject |-> Stray,
                           kind |-> [replyTo |-> FALSE, acker |-> FALSE, response |-> FALSE]]]
  /\ signal = FALSE
  /\ pc = "subscribe"
  /\ opened = {}
  /\ cur = NoMsg
  /\ taken = {}
  /\ result = [m \in Ids |-> "none"]
  /\ replied = {}
  /\ errored = [m \in Ids |-> {}]
  /\ acked = {}
  /\ broken = {}
  /\ ready = <<>>
  /\ passed = [s \in Streams |-> {}]

Startup == Subscribe \/ OpenFactory \/ EnterLoop
Handle  == Dispatch \/ DispatchNone \/ PublishReply \/ PublishError \/ AckMessage

Next ==
  \/ \E s \in Streams : Post(s) \/ EndStream(s) \/ TakeMessage(s)
  \/ Signal
  \/ Startup \/ StartFails
  \/ WaitSignal \/ WaitFails \/ TakeShutdown \/ TakeNone \/ PollPending
  \/ Handle
  \/ RunHook

Spec == Init /\ [][Next]_vars

\* serve() goes on: brokers answer, handlers and the hook return, and select! polls
\* the signal, whose branch stays ready.  Nothing is assumed of the streams.
Goes == Startup \/ WaitSignal \/ TakeShutdown \/ Handle \/ RunHook

FairSpec == Spec /\ WF_vars(Goes)

-----------------------------------------------------------------------------
(* Properties *)

\* Everything handle_message owes to message m has been tried.
Settled(m) ==
  \/ result[m] = "unrouted"
  \/ /\ result[m] \in {"ok", "err"}
     /\ ReplyDue(m) => m \in replied \cup broken
     /\ ErrorDue(m) => errored[m] # {} \/ m \in broken
     /\ AckDue(m) => m \in acked \cup broken

\* A message is settled before another one is taken and before the hook runs,
\* so shutdown never cuts a message short (service.rs:185-201).
SettledBeforeNext ==
  /\ pc \in {"select", "nostreams", "hook", "done"} => cur = NoMsg
  /\ \A m \in taken \ {cur} : Settled(m)

\* A message is acknowledged or reported as failed, never both, and reported to
\* the route's topic when the route has one (service.rs:263, 299-301).
AckXorError ==
  \A m \in Ids :
    /\ m \in acked => result[m] = "ok" /\ msg[m].kind.acker /\ errored[m] = {}
    /\ \A t \in errored[m] : result[m] = "err" /\ t = ErrorTopic(msg[m].subject)

\* Nothing is handled unless startup succeeded in full, and a failed startup
\* leaves the hook alone; a service that returns Ok has run it
\* (service.rs:160, 165, 201).
HookOnlyOnSuccess ==
  /\ pc = "failed" => taken = {} /\ hook # "ran"
  /\ pc = "done" => hook # "armed"

\* The abstract state of the service and of a message.
ServiceStage ==
  CASE pc \in {"subscribe", "factories", "nostreams"} -> "starting"
    [] pc = "hook"               -> "closing"
    [] pc \in {"done", "failed"} -> pc
    [] OTHER                     -> "open"

Verdict == [m \in Ids |-> IF m \notin taken THEN "new"
                          ELSE IF result[m] = "none" THEN "taken" ELSE result[m]]

Promise == INSTANCE ServicePromise
             WITH stage <- ServiceStage, current <- cur, verdict <- Verdict,
                  answered <- replied, reported <- {m \in Ids : errored[m] # {}}

\* The service implements ServicePromise: whatever arrives, fails or ends when,
\* a message is taken once and judged once, answered, reported or acknowledged
\* only in between, and a service that failed to start or has left its loop
\* touches no message (service.rs:143-202, 226-269).
ImplementsPromise == Promise!Spec

\* A resolved signal stops a service that reached its loop, from any point of the
\* handling of a message and with other messages and streams ready
\* (service.rs:185-201).
ShutdownCompletes == signal /\ pc = "select" ~> pc = "done"

\* stream.next() yields a message of stream s.
Yields(s) == pc = "select" /\ Len(queue'[s]) < Len(queue[s])

\* No stream yields twice while another one has a message waiting: however busy the
\* broker subscription or a route's own stream is, and whenever streams are woken or
\* end, the others get their turn in between (service.rs:176, 191).
FairTurns ==
  [][\A s, u \in Streams :
        Yields(s) /\ u # s /\ u \in opened /\ queue[u] # <<>> => s \notin passed[u]]_vars

-----------------------------------------------------------------------------
(* The inductive invariant behind the safety properties *)

Starting == {"subscribe", "factories", "nostreams", "failed"}
Handling == {"dispatch", "reply", "error", "ack"}

\* Streams hold delivered messages, each in one place, that were never taken.
QueuesApart ==
  /\ taken \subseteq 1..posted
  /\ \A s \in Streams : \A i \in 1..Len(queue[s]) : queue[s][i] \in (1..posted) \ taken
  /\ \A s, t \in Streams : \A i \in 1..Len(queue[s]), j \in 1..Len(queue[t]) :
       queue[s][i] = queue[t][j] => s = t /\ i = j

\* What has been done about the message in handle_message.
CurrentStep ==
  /\ IF pc \in Handling THEN cur \in taken ELSE cur = NoMsg
  /\ pc = "dispatch" => result[cur] = "none"
  /\ pc \in {"reply", "error", "ack"} =>
       result[cur] \in {"ok", "err"} /\ msg[cur].subject \in routes
  /\ pc \in {"error", "ack"} => (ReplyDue(cur) => cur \in replied \cup broken)
  /\ pc = "ack" => (ErrorDue(cur) => errored[cur] # {} \/ cur \in broken)

\* Nothing is recorded of a message before it was dispatched.
NothingEarly ==
  /\ \A m \in Ids \ taken : result[m] = "none"
  /\ pc \in Starting => taken = {} /\ hook # "ran"

\* A stream is polled once in a turn, and one with a message waiting is in front of
\* those that have passed it.
TurnsKept ==
  /\ \A i, j \in DOMAIN ready : ready[i] = ready[j] => i = j
  /\ \A i \in DOMAIN ready : ready[i] \in opened
  /\ \A u \in opened : queue[u] # <<>> =>
       \E i \in DOMAIN ready :
         ready[i] = u /\ \A j \in DOMAIN ready : j < i => ready[j] \notin passed[u]
  /\ \A u \in Streams : queue[u] = <<>> => passed[u] = {}
  /\ pc \in {"subscribe", "factories"} => \A u \in Streams : passed[u] = {}
  /\ pc = "subscribe" => opened = {}

IndInv ==
  /\ TypeOK /\ QueuesApart /\ CurrentStep /\ NothingEarly
  /\ SettledBeforeNext /\ AckXorError /\ HookOnlyOnSuccess

=============================================================================
