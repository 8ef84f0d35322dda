# CrabbyQ: models, checks and proofs

CrabbyQ is a Rust crate in which an application writes *handlers* for *subjects*
and a `Router` turns them into a `CrabbyService` that runs on a message broker
(NATS, Redis or MQTT). This directory holds TLA+ models of the parts of the crate
whose behaviour depends on interleaving, failure and restart, the TLC
configurations that check them on small instances, and TLAPS proofs of the
properties that matter most, for every instance. Source references such as
`redis.rs:718` are to `src/src/routing/redis.rs` and its siblings.

## 1. The system

### Components

| component | state | operations |
|---|---|---|
| service loop, `service.rs` | routes, merged streams, shutdown signal and hook, the message in `handle_message` | `serve`: subscribe, open factories, `select!` loop; `handle_message`: dispatch, reply, error event, ack; shutdown hook |
| consumer-group route, `routing/redis.rs:540-1089` | read buffer, claim buffer, scan cursor; in Redis: stream, group, pending entries list (PEL), dead-letter stream | `XREADGROUP` loop, `XAUTOCLAIM` loop, `XPENDING` counts, cap decision, dead-letter path, `XACK` |
| ephemeral stream route, `routing/redis.rs:511-537, 638-690` | last id seen, buffer | `XREAD` loop |
| pattern route, `routing/redis.rs:1091-1125` | a connection | `PSUBSCRIBE` |
| JetStream route, `routing/nats.rs:35-99` | the server's consumer | create consumer, stream messages, ack through the reply subject |
| brokers, `brokers/*.rs` | connection; MQTT: bounded request channel and an event loop taken by the first `subscribe` | `subscribe`, `publish` |
| routers, `routing/*.rs` | routes, layers, error topic and headers; MQTT default QoS and options; bound JetStream stream or stream broker | builders `route`, `include`, `layer`, `on_error`, `qos`, `jetstream`, `with_broker`, `into_service` |
| handlers, extractors, responses | none | event to outcome (response and/or error message) |
| publisher, `publish/*.rs` | none | build a request, merge headers, one broker command |

### How they interact

`Router::into_service` fixes the routes. `serve()` asks the broker for one stream
of all plain routes and each stream factory for its own stream, merges them with
`select_all`, and then alternates between waiting for a message (or the shutdown
signal) and awaiting `handle_message` **inline**. All stream code of the process
(the two group loops, the MQTT event loop) is polled only while the loop waits;
a command already sent to a broker takes effect whenever the broker gets to it.
A handler's outcome is turned into up to three broker commands: the reply, the
error event, the ack. Redelivery is left to the broker and to the claim loop:
what is not acked stays pending and is claimed again when it has been idle.

### What is hard

- Two loops per consumer and several consumers hold copies of the same entry,
  and decide on counts that were true some commands ago.
- `XACK`, `XADD`, `XPENDING`, `XAUTOCLAIM` are separate commands; each fails, or
  loses its reply after it was executed, and the process may stop between any two.
- Restart: the buffers are gone, the group and its pending list are not.
- `select!` chooses between ready branches at random; shutdown races messages.
- Startup, reply, error event and ack can each fail alone.

### What makes each component correct

- *Group route*: an entry leaves the PEL only for a reason (a successful call or the
  cap); a delivery is handled at most once; the cap neither strikes early nor is
  missed; a dead letter exists for what was given up, once; first deliveries are
  handled in order; every pending entry eventually leaves the PEL.
- *Service loop*: a message is settled (reply, error event and ack tried) before
  the next one and before the hook; acked and failed exclude each other; a failed
  startup handles nothing; shutdown completes; merged streams take turns.
- *Ephemeral route*: entries are handled in stream order, none left out from the
  first one on; what lies ahead of its position is read.
- *Group route with a start id*: it reads its own history; it never calls the handler for
  an entry it has acknowledged, and reaches the pending ones within `COUNT` of the id.
- *JetStream*: a message is forgotten by the server only after a success or an answer
  of the handler; repeats have a reason; a durable consumer keeps its place.
- *MQTT*: startup does not block on its own request channel; what was accepted by
  `publish` is sent while the service lives, behind the subscriptions.
- *Routers*: a route carries the error settings and the stream of the router it was
  registered in, is wrapped in exactly the layers it is due, innermost those of its own
  router, and is subscribed with the QoS it asked for; one route per subject.
- *Outcome*: the service never acknowledges a failed call; on JetStream only the
  handler's own answer may settle it.

`PROJECT.json` lists every component with its status and every hazard with its line.

## 2. The modules

| module | models | proved in |
|---|---|---|
| `RedisGroup` | consumer-group routes of one group, any number of consumers | `RedisGroupProofs`, `RedisGroupCaseProofs`, `RedisGroupCapProofs` |
| `EntryPromise` | what such a route promises about one entry (abstract) | refinement in `RedisGroupProofs` |
| `RedisRead` | `xread_next` for ephemeral routes and for group routes with a start id | `RedisReadProofs` |
| `CrabbyService` | `serve()` and `handle_message` | `CrabbyServiceProofs` |
| `ServicePromise` | what a service promises about its messages and its hook (abstract) | refinement in `CrabbyServiceProofs` |
| `MqttLoop` | the MQTT broker under the service loop, services on clones of it | `MqttLoopProofs` |
| `JetStream` | a JetStream route: its consumer, its messages, handlers and acknowledgements | `JetStreamProofs` |
| `CoreRouter` | the core router as a value, one operator per method | |
| `RouterBuild` | a program that builds routers and facades with it (extends `CoreRouter`) | `RouterBuildProofs` |
| `MC...` | instances for TLC, one per module with runs | |

`RouterBuild` composes `CoreRouter` with the three facades and with the choice of
subscriptions in `brokers/mqtt.rs`; `MqttLoop` and `JetStream` compose a broker with the
part of the service loop it depends on. Definitions whose comment starts with "Mutant of"
are not part of a specification: each is a plausible bug that a property must catch.

### RedisGroup

*State.* The server: `added`, `groupStart`, `groupLast`, and per entry `owner` (PEL),
`times` (delivery count), `fresh` (deliveries younger than `min_idle`), `dlq`. The
process of consumer `c`: the read loop (`readPc`, `readBuf`), the claim loop
(`claimPc`, `batch`, `counts`, `dying`, `claimBuf`, `cursor`; `"none"` for a consumer
without `auto_claim`), and the message in the service loop (`job`, `ackDue`). History:
`called`, `succ`, `capped`. `ClaimerSets` says which consumers may have a claim loop.

*Actions.* A command is two steps, `Poll...` (the code sends it, only while the
service loop is `Polling`) and `Serve...` (the server executes it, at any time). A
command that fails has a step for "not executed" (`ReadFails`, `ScanFails`,
`CountsFail`, `DeadAckFails`, `DeadLetterFails`, `AckFails`) and, where that makes a
difference, one for "executed, reply lost" (`ReadReplyLost`, `ScanReplyLost`,
`DeadAckReplyLost`). `AckFails` after execution is `Ack`, `DeadLetterFails` after
execution is `ServeDeadLetter`: the code only logs. `Crash` drops everything in
memory; it is also a shutdown between two messages. `Start` is `init()`.

*Abstractions.* An entry id is its position; `LexRank` gives the byte order of the
ids' text, the order `min()` and `max()` use at `redis.rs:825`. A buffer is a set of
tokens `<<entry, n-th delivery>>` popped lowest entry first: both loops fill a buffer
in id order and only when it is empty. One `XAUTOCLAIM` looks at `ScanLimit` pending
entries at most (ten times `COUNT` in Redis) and takes over up to `COUNT` idle ones
(`Reach`, `Claimable`); its cursor is the entry behind those it looked at (`ResumesAt`), so a
short batch need not end the scan. Time is the order of deliveries: `Age` lets `min_idle`
elapse for the oldest. Payloads and headers are left out.

*Left out.* `XDEL` and `MAXLEN` trimming of entries that are pending; a start id other
than `>` (see `RedisRead`); `mkstream = false` (the group then exists already, or every read fails);
commands of a dead process that reach the server after its restart; two processes
under one consumer name.

### EntryPromise

Each entry is `new`, then `pending`, then `settled` for good; it is settled only after
a call succeeded or the cap gave it up, and a dead letter is written only for an entry
given up and settled. `RedisGroup!ImplementsPromise` is its specification under
`status <- EntryStatus, ok <- succ, over <- capped, dead <- dlq`.

### RedisRead

*State.* The configuration `conf` (group or not, start id, `BLOCK` or not, whether the group
has claim loops), the server's `len` and `pel`, the entries `acked` by this route and
`settled` elsewhere in the group, the read loop (`pc`, `lastId`, `from` of the outstanding
command, `reply` on its way back, `buf`), and the message `job` of the service, which may be
another route's. History: `last`, `base`.

*Actions.* `Start` (factory), `PollRead` (the command is sent), `Arrive` (it is executed; `$`
becomes the last entry of that moment), `AnswerEntries` or `AnswerNone` (the content of the
reply is fixed), `Receive`, `ReadFails`, `TakeNext`, `TakeOther`, `HandledAndAcked`, `Handled`,
`Crash`. Sending and receiving need a service that waits in `select!`; what the server does
between them does not, so `BLOCK` may run out, and entries be added after that, while
another route's handler runs. Around the route: `Add` by producers, and for a group
`ClaimedAway`, `ClaimedHere` and `SettledElsewhere`, which stand for the claim loop that
`init()` merges with the read loop (`redis.rs:590-615`) and for other consumers.

*Abstractions.* The n-th entry is its id; producers are outside. The consumer's pending
entries are there at first, as left by an earlier configuration with `>`. The claim loops
appear by their effect on the pending list; a message of the route's own claim loop is
handled as one of another route (`TakeOther`). `RedisGroup` has those loops in detail.

### CrabbyService

*State.* Configuration (`routes`, `hook`), the outside (`queue` per stream, `ended`,
`msg`, `signal`), the control point `pc` of `serve()`, the opened streams and the order in
which `select_all` polls them (`ready`), the message `cur` in `handle_message`, and history
(`taken`, `result`, `replied`, `errored`, `acked`, `broken`, and `passed`: which streams have
yielded while a stream had a message waiting). `Init` allows every set of routes and both
settings of the hook.

*Actions.* Startup: `Subscribe`, `OpenFactory` (in registration order), `StartFails`,
`EnterLoop`, and `WaitSignal`/`WaitFails` for a service without routes. Loop: `TakeMessage(s)`
(the stream in front yields and goes to the back), `PollPending` (it has nothing and leaves
the turns until it is woken), `TakeShutdown`, `TakeNone`. `handle_message`: `Dispatch` or
`DispatchNone`, `PublishReply`, `PublishError`, `AckMessage`, each of the last three with
its failure (`Breaks`), which is only logged. `RunHook` ends it. Outside: `Post` and
`EndStream`, which wake a stream, and `Signal`.

*Abstractions.* A handler is its outcome: `ok` or `err`, with or without a response;
serialisation failures of an error event count as a failed publish. `Kinds` says which
attributes (reply subject, acknowledger, response) the messages of a stream may have. Stream 0
is the broker subscription; a wildcard of it or of a JetStream route may match subjects of
no route or of any route, so every stream may yield either. A stream's `ended` is final, as
the streams of all three brokers are. `select_all` belongs to `futures_util`: it keeps the
streams that were woken in a queue and puts one that has yielded behind the others.

### ServicePromise

A service starts in full or not at all, takes each message at most once and one at a time,
and passes one verdict on it; only then, and while it has the message in hand, it may reply,
then report a failure, then acknowledge a success. It closes between two messages, and the
hook is the last thing it does. `CrabbyService!ImplementsPromise` is its specification with
the stage read off `pc` and the verdict off `taken` and `result`; streams, routes, topics,
failed commands and the signal are hidden.

### MqttLoop

*State.* The client's request channel `chan`, who holds the event `loop` (the broker, a
service's stream, or nobody any more), what was written to the connection (`wire`), the
messages read ahead (`inbox`), and per service its control point `pc`, the subscriptions
issued (`topics`) and the publishes its handler still has to make (`todo`). History:
`accepted`, `published`, `app`.

*Actions.* `subscribe()` is `SubscribeNext` per topic, `SubscribeFails`, and `TakeLoop` (the
`take()` of the event loop, failing for the second service). The stream is `Send`, `TakeMessage`
and `PollFails`, enabled only in `select`. `Publish` and `HookPublish` await room in the channel
(`Accept`) and fail once the event loop is dropped, which `Return` and `PollFails` do.

*Abstractions.* `handle_message` is a number of publishes (reply, error event and the
handler's own). `poll()` writes one request or returns one message; packets are neither
acknowledged nor retransmitted, as the client does that below `poll()`. A message
belongs to the service that subscribed its topic. Every service has a hook that
publishes one message.

*Left out.* QoS and shared subscriptions (data), and the subscription requests of a client
given out by `MqttBroker::client()`.

### JetStream

*State.* The server's consumer (`exists`, `next`, `pending`, redelivery queue `due`), the
`inbox` of the pull, and the service (`stage`, `job`, `outcome`). History: `good`,
`controlled`, `late`.

*Actions.* Server: `Deliver`, `Expire` (an ack wait runs out, wherever the message is),
`Add`. Factory: `Start`, `StartFails`, `StreamFails` and `SkipError` (errors are items of
the stream). Service: `Take` or `TakeUnrouted`, one action per way a call can end
(`NotReady`, `PartsFail`, `BodyFails`, `HandlerOk`, `HandlerErr`, `ConvertFails`),
`PublishReply`, `PublishError`, `AckMessage`, `Crash`.

*Abstractions.* A response is what the server makes of it at the ack subject: nothing, data
it ignores, or a control word. `AckMessage` and `PublishReply` may be lost. The error event
has no effect here. Left out are the configuration of the consumer beyond `max_ack_pending`,
several services on one durable consumer, and the end of the pull stream when somebody deletes
the consumer under the service: the client then yields an error and the stream is over, which
the service loop sees as any stream that ends (`CrabbyService!EndStream`).

### CoreRouter and RouterBuild

*State.* `routers` (facade and inner core router of each), which of them are `live` (not yet
consumed by `include`, `into_router` or `into_service`), the `phase` of the program and the
`service` it made. History: `registered`, what each registration asked for, and `joined`, the
routers each route has been in with the layers they had when it came there.

*Actions.* One per builder method or group of methods with the same effect: plain and MQTT
registrations (`AddPlain`, `QosRoute`, `SharedRoute`, `SharedQosRoute`), stream routes that
capture their binding (`JetStreamRoute`, `RedisStreamRoute`), settings (`SetQos`,
`BindStream`, `BindBroker`, `AddOneLayer`, `OnError`, `WithErrorHeaders`), `Include`, `IntoRouter`,
`FromRouter`, `IntoService`, and the panics (`DuplicateRoute`, `DuplicateInclude`, `NotBound`).

*Abstractions.* A handler is the router it was registered on and its subject; a layer is the
router and the position it was added at; routes are a set, since their order decides only
the order of subscriptions. `set_state` changes a type and nothing else.

## 3. The runs

All in `MC_<run>.cfg`; each takes under five minutes, most of them under two.

| run | properties | shows |
|---|---|---|
| `group_two` | `TypeOK`, `NoSilentLoss`, `OneCallPerDelivery`, `DeadLetterComplete`, `DeadLetterOverCap`, `SingleAttempt`, `ImplementsPromise` | two consumers, each with or without a claim loop, reclaim from each other, one command may fail, one process may be lost: no silent loss, no delivery handled twice, no early condemnation, one attempt per entry where nobody claims, and the route implements `EntryPromise` |
| `group_one` | `CapHolds`, `DeadLetterOnce`, `FirstCallsInOrder`, `PendingSettles` | one consumer, three entries, batches of two, a crash: the cap is not missed, and every pending entry leaves the PEL though handlers may always fail |
| `group_dlq_order` | `PublishedBeforeAck` (violated) | the ack precedes the dead letter |
| `group_cap_byteorder` | `CallsWithinCap` (violated) | byte order of ids hides the count |
| `read` | `TypeOK`, `CallsOnlyPending`, `Consecutive`, `AheadIsRead`, `ReachIsTried` | ephemeral routes with every start and group routes that read their history while entries are claimed and settled around them, among other routes' messages, with empty replies, read errors and a crash: nothing behind the position is left out, nothing acknowledged is handled again |
| `read_dollar` | `NewerThanStart` (violated) | entries added between an empty reply and the next `$` are skipped |
| `service` | `TypeOK`, `SettledBeforeNext`, `AckXorError`, `ImplementsPromise`, `ShutdownCompletes`, `FairTurns` | failures of every command, of startup and of streams, the signal at any time: the service implements `ServicePromise`, stops, and no stream yields twice past one that has a message waiting |
| `mqtt` | `TypeOK`, `OneReader`, `RequestsKept`, `SubscribedFirst`, `SentUnlessStopped`, `ReturnsUnlessJammed`, `JamLasts` | two services on one broker, a channel smaller than their requests: one reads, requests are kept and sent once, and only a jam keeps a service from returning |
| `mqtt_stuck` | `SignalReturns` (violated) | a full channel that only the waiting service could drain |
| `js` | `TypeOK`, `NothingSkipped`, `RepeatsExcused`, `DurableKeepsPlace`, `Retried` | durable and ephemeral, exact and wildcard routes, handlers that answer control words, expired ack waits, lost publishes, stream errors, a crash |
| `router` | `KeysAreUnique`, `OwnRoutesUniform`, `LayersNest`, `RegisteredOnce`, `SubscribedAsAsked` | three routers of each kind, built in any order of calls: routes keep the settings of their routers and get the layers due to them, handlers keep their streams, subscriptions are as asked |
| `router_qos` | `RouterDefaultQos` (violated) | the default QoS of an included router is dropped |

`CHECK_DEADLOCK FALSE` is said where the program may really stop: `serve()` returns
(`service`) or waits for ever in a jam (`mqtt`, `mqtt_stuck`); without a claim loop all consumers
may end up waiting in `XREADGROUP` for entries nobody adds (`group_two`); a read loop has ended
or has read all there is (`read`, `read_dollar`); the server has nothing more to deliver
(`js`); the program has its service or has panicked (`router`, `router_qos`).

### Bounds and why they are enough

`MaxEntries`, `MaxPresent`, `MaxTimes` (deliveries of one entry; in the guard of `Age`),
`MaxMessages`, `MaxMsgs`, `MaxPublish`, `MaxApp`, `MaxRoutes`, `MaxCalls`, `MaxFaults`,
`MaxBroken` (messages a publish or ack fails for) and `MaxCrashes` bound the runs. The safety properties of all passing runs are proved for every
value of them (section 4; `CapHolds` under the assumptions named there); the bounds below are
for what is only model-checked, and let the
mutants show that the properties can fail.

- *Group.* `group_two` has one entry and two consumers, enough for a claimant and a peer; a
  claimed entry has at least two deliveries, so a cap of two gives claims at the cap and above
  it. `group_one` has three entries with `ClaimCount = 2`, so that the scan cursor stops in the
  middle of the list and wraps, and foreign entries lie between the claimed ones. Consumers are
  interchangeable, so runs with two and no liveness use symmetry. `ScanLimit` covers the whole
  list in all runs (ten times `COUNT` entries are far beyond them): what a scan does that
  stops earlier is part of the model and of the proofs, and no run reaches it. `group_one` has
  no failing commands: progress after one is not checked.
- *Read.* Three entries with `COUNT` 2 give a full buffer, a second one, an entry added
  while a command is on its way, waits or is being answered, and one out of reach; start ids
  `$`, 0 and 1 are before, at and behind entries that are there.
- *Service.* `MaxMessages = 3` gives a stream that has two messages while another one waits
  with one, and a wake-up of each of the two streams at any point of their turns; commands may
  fail for one of the messages (`MaxBroken = 1`), the others show what happens after that. `MCSpec` arms the hook where both routes
  are registered, to halve the states; the smaller services have it or not.
- *MQTT.* Two services with two topics each, a handler's publish and another task's share a
  channel of three requests, so that it fills up at startup, in a handler and in the hook;
  `mqtt_stuck` has room for one request.
- *JetStream.* Two messages and an inbox of two let a copy wait in the inbox while the
  message is handled.
- *Router.* Three routers give an include into an included router; up to four configuring
  calls (`MCRouterBuild`) put layers and settings before and after registrations and includes.
  Routers, subjects and bindings are interchangeable. `router_qos` needs two MQTT routers.

### Fairness

- `RedisGroup!FairSpec`: `Age` (time passes), `Handle` (handlers return, they are awaited
  without a timeout), `ReadLoop` and `ClaimLoop` (Redis answers, and `stream::select`
  polls both sides each time it is polled), `Start`: *an assumption about the deployment*,
  that a stopped process is started again. Nothing is assumed of outcomes: handlers may
  fail forever. Weak fairness is enough: nothing in a loop is disabled for good by the
  other loop.
- `CrabbyService!FairSpec`: weak fairness for `serve()`'s own steps (`Goes`): brokers answer,
  handlers and the hook return, and the branch of the resolved signal, which stays ready, is
  taken in the end: `tokio::select!` starts at a random branch each time (`service.rs:185`, no
  `biased;`), so ready messages delay the shutdown but do not keep it out. (`ShutdownCompletes` is checked
  with three messages; that an endless supply does not win every draw is this randomness, not
  the run.) Nothing is assumed
  of the streams: that they take turns is `FairTurns`, a safety property of the code that
  polls them, not an assumption.
- `MqttLoop!FairSpec`: weak fairness for a service's own steps; strong fairness for the
  shutdown branch of `select!` (as above) and for writing a request, as the client's `poll()`
  chooses between the connection and the channel at random too. Not assumed: messages, signals
  or poll errors.
- `RedisRead!FairSpec`: a started service goes on, the server executes and answers commands
  (`Arrive`; `AnswerEntries` or `AnswerNone`) and handlers return (weak); strong fairness for the
  route's own steps in `select!` (`PollRead`, `Receive`, `TakeNext`), which other routes' messages
  disable again and again. Reads may fail at any time, a stopped service is started again, and
  nothing is assumed of producers and of claims.
- `JetStream!FairSpec`: the service is one task (`Serve`), the server delivers while a pull is
  open (`Deliver`) and runs an ack timer per message (`Expire`), and the program is started
  again (`Start`). All weak; faults and crashes are bounded, handlers may fail forever.

### Findings

1. `group_dlq_order`: `handle_dead_letter` acks, then publishes (`redis.rs:876`, `908`);
   `examples/redis_streams.rs:64-66` describes the opposite order. A stop or a failed publish
   in between loses the entry; `NoSilentLoss` says it is at least known to be given up.
2. `group_cap_byteorder`: the range of `XPENDING` is taken from the ids as strings
   (`redis.rs:825`); ids whose sequence part grows from one to two digits invert it.
3. `read_dollar`: `$` is sent again until a first entry has been read (`redis.rs:657`, `683`),
   so an entry added between an empty reply and the next command is skipped, against
   `redis.rs:35` ("only entries newer than the start"). `AheadIsRead` says what is not skipped.
4. `mqtt_stuck`: startup with more topics than the channel has room for, a handler or the hook
   that publishes into a full channel wait for the event loop their own service should poll:
   `serve()` does not return after the signal, against `service.rs:114-116`. `JamLasts` shows that
   nothing else resolves it, `ReturnsUnlessJammed` that nothing else causes it.

5. `router_qos`: `include` keeps the including router's default QoS and drops the other's
   (`routing/mqtt.rs:150`), and `subscribe` uses the one that is left for every subject without
   options (`brokers/mqtt.rs:78`), against `routing/mqtt.rs:58` and `64` ("the router's default
   QoS"). `SubscribedAsAsked` states what the code does for all other routes.

Observed in the models, without a run of their own:

- `XPENDING` asks for this consumer's entries (`redis.rs:829`). When a peer claims an entry
  between the claim and the count, the count is unknown, the cap is skipped (`redis.rs:778`) and
  the handler runs above `max_deliveries`. `CapHolds` is therefore about one consumer.
- The `COUNT` of `XPENDING` is the size of the batch (`redis.rs:829`). After two restarts, each
  right after a claim above the cap, other entries of the consumer lie between the claimed ones
  and use up the rows, so the last entry's count is missing and its cap is skipped. `CapHolds` has
  at most one crash for this reason.
- `select!` is unbiased (`service.rs:185`): after the signal has resolved, ready messages may
  still be taken before the service stops. `ShutdownCompletes` shows that it does stop.
- The hook's last MQTT message is only queued: the event loop is never polled again
  (`mqtt.rs:90-92`, `service.rs:200`).
- `shared_route` captures the default QoS of the moment (`routing/mqtt.rs:187-210`), while plain
  routes get the final default of the router that becomes the service. `SubscribedAsAsked` asks
  each shared route for the default it captured.
- A group route with a start id hands over entries that were claimed, and perhaps handled and
  acknowledged, elsewhere while they waited in its buffer (`redis.rs:590-615`, `638-642`).
  At-least-once delivery allows it; `CallsOnlyPending` is about the route's own acks then, and
  about the whole pending list in a group without claims.

## 4. The proofs

`RedisGroupProofs` (for any set of consumers, number of entries, counts, cap, faults,
crashes, under `ConstantsAssumption`):

- `TypeCorrect`, `Inductive`, and from them `NothingLost`, `DeadLettersOverCap`,
  `EachDeliveryOnce`;
- `Refinement`: `Spec => ImplementsPromise`.

The invariant is `IndInv == TypeOK /\ MemoryInv /\ LedgerInv /\ CapInv`. `MemoryInv` is needed
because "handled at most once" follows from where deliveries are: every token in a
memory was issued by the server (`AllIssued`), the token a command hands out is larger
than all issued ones and therefore new, and a buffer and a batch never share one.
`LedgerInv` ties an ack to its reason: an entry with `ackDue` is in `succ`, a dying one in
`capped`, and entries behind `groupLast` were never delivered. `CapInv` is needed because
the cap is decided on an old count: counts only lag behind (`CountsBehind`), so what is
over the cap by an old count is over it by the current one. The step lemma of each part
has a step per action.

`RedisGroupCaseProofs` builds on it, for routes of a particular kind:

- `DeadLettersComplete` (a dead-letter topic): a dying delivery is dropped only by a failing
  command (`DyingPlace`), and a read loop ends only by one (`EndedByFault`);
- `OneAttempt` (no claim loop): nothing is ever claimed (`NoClaims`);
- `OneDeadLetter` (one consumer, any failures and restarts): an entry in a batch or being
  dead-lettered has no dead letter yet and is there once (`LettersApart`), as the `XACK`
  precedes the `XADD`;
- `OrderedFirstCalls` (one consumer): first deliveries in the read buffer are behind
  every entry that was called (`FirstAhead`).

`RedisGroupCapProofs` proves that the cap is not missed (`CapNotMissed`: `CapHolds`). What could
go wrong is the `COUNT` of `XPENDING` (`redis.rs:829`): pending entries between the claimed
ones use up its rows. The argument has three layers, each an invariant of its own:

- `OrderInv` (theorem `OrderedPendingList`, one consumer, no failed command, and a pending list
  that one `XAUTOCLAIM` can look at as a whole, `Fits`): as the scan goes
  round, of two pending entries the earlier has more deliveries, or as many and is older
  (`EarlierMore`), and the cursor has passed only entries ahead in deliveries (`CursorPassed`).
- `ScanInv`: hence what lies between the claimed entries and was not claimed is over the cap
  before what it could push out. Only a lost process leaves entries above the cap behind, and
  those one loss leaves become idle together and are claimed together (`LeftAlike`), so no
  pending entry is in such a gap (`NoGap`).
- `CountInv`: then the first `COUNT` rows of the reply contain every claimed entry
  (`CountsKnown`, by a cardinality argument: lemmas `BatchSize`, `CountsTell`), no entry above
  the cap reaches the claim buffer (`BufferWithin`), and none the handler.

Its assumptions: a single consumer and at most one lost process, without which the property is
false (section 3, "Observed"); at every moment a batch whose ids are in byte order
(`BatchOrdered`), without which it is false too (finding 2); a pending list of at most
`ScanLimit` entries, ten times `COUNT` in Redis (`Fits`): the argument that a scan goes round the
whole list before it claims an entry again needs it, and nothing is claimed for longer lists;
and a cap above zero. `max_deliveries(0)` can be configured, but the read loop does not look
at the cap, so every first delivery would be above it.

`CrabbyServiceProofs` (any number of routes and messages, any error topics, under
`ServiceAssumption`): `TypeCorrect`, `EachMessageSettled`, `AckedOrReported`, `FailsEarly`,
`StreamsTakeTurns`, `Refinement` (`Spec => ImplementsPromise`).
The invariant adds to the properties that a message is in at most one
queue and never comes back once taken (`QueuesApart`: otherwise a second dispatch could turn
an acked message into a failed one), how far the current message has come (`CurrentStep`),
and that nothing is recorded early (`NothingEarly`).
The refinement needs in addition that the reply comes before the error event (`ReplyFirst`).
`StreamsTakeTurns` has an invariant of its own, `TurnsKept`: a stream is in the turns once, and one
with a message waiting is in front of every stream that has passed it.

`MqttLoopProofs` (any services, topics, capacity and bounds, under `MqttAssumption`):
`TypeCorrect`, `SingleReader`, `RequestsSafe`, `SubscribedBefore`, `JamForEver`,
`OnlyJamBlocks`. The invariant adds
`OnlyIssued` (what is in the channel or on the wire was issued before, so the next request of
its kind is new) and `NoneTwice` over channel and wire together, without which `Send` could
repeat a request. `SubscribedBefore` needs a second invariant, `OrderInv`, about the positions
of requests in the channel and on the wire: the channel is first in, first out, and a service
publishes only once all its subscriptions were accepted. `OnlyJamBlocks` is the safety half of
`ReturnsUnlessJammed`: while anyone waits for room and there is no jam, some service has a step
that waits for nothing or makes room. It needs that nobody has left startup while the broker
still has the event loop (`HeldFirst`) and a capacity above zero (with none, the client hands
a request over directly, which the model's channel does not).

`RedisReadProofs` (any configurations, `COUNT` and bounds, under `ReadAssumption`): `TypeCorrect`;
`EphemeralConsecutive` from `Position` (the buffer is consecutive, the id is its last entry, and its
next entry follows what was handed over last) and `Emptied`; `HistoryCallsPending` from `Fresh`
(what is in the reply, buffered or handled is nowhere twice and was not acknowledged by this
route, and is still pending where nobody claims).

`JetStreamProofs` (any routes, messages, inbox and bounds, under `JetStreamAssumption`):
`TypeCorrect`, `NoMessageSkipped`, `RepeatsHaveExcuse`, `DurablePlace`. The invariant adds `JobKnown` (an
acknowledgement follows a success, a control word needs a handler that answers one) and
`CopiesExcused` (a message is in the inbox twice, or again, only when it is in `late`).

`RouterBuildProofs` (any routers, subjects, settings and number of calls, under
`RouterAssumption`): `TypeCorrect`, `UniqueKeys`, `OwnUniform`, `HandlersKept`, `Subscribed`,
`LayersNested`. The invariant
says for the routers that hold routes (those alive and the one of the service) that a handler is
named by home, subject and stream, is in exactly one of them (`HomeInv`, `OnceInv`), and that
an option answers the registration that asked for it (`OptionInv`). `LayersNested` has a
second one, `NestInv`: the layers of every route in a router that still holds routes are, from the
handler outwards, exactly the ones it is due (`Wrapped`), and the router that holds it is the last
one it came to, around all the others, which are gone (`Newest`); what was recorded of a joining lies
within the router's layers, and no router is inside itself (`JoinInv`). Hence a new layer of the
router goes outside all layers of every route in it, and a router that takes routes in finds none
of its own layers on them. The stack of a service is the reverse (`WrappedReversed`).

*Only model-checked.* Liveness (`PendingSettles`, `ShutdownCompletes`, `SentUnlessStopped`, `ReturnsUnlessJammed`, `AheadIsRead`, `ReachIsTried`, `Retried`): the prover handles
neither fairness nor `ENABLED`. Every other property of a passing run is a theorem. The other
way round, `TypeOK` of `RouterBuild`, `HookOnlyOnSuccess` of `CrabbyService` (which follows from
`ServicePromise`), the invariants `OrderInv` of the group route and
`WaitsForSomeone` of the MQTT broker are proved and no run checks them.

## 5. Not modelled

- *Pattern route* (`redis.rs:1091-1125`), *NATS and Redis pub/sub brokers*, *broker traits*:
  adapters of client streams without state of their own. What they give to the service loop is
  in `CrabbyService` as streams that deliver, end and fail.
- *Publisher and publish requests*, the `XADD` field codec and header merging: one command per
  request; what matters of it (that it fails, is lost or waits for room) is in the modules whose
  handlers publish.
- *Extractors, responses and errors* as values: `JetStream` has every way a call can end;
  what a parser accepts is data.
- *Configuration builders* of stream routes: their results are the constants of `RedisGroup`,
  `RedisRead` and `JetStream`.
- *Several services on one durable JetStream consumer*, trimming of pending stream entries,
  and commands of a dead process that arrive after its restart.
