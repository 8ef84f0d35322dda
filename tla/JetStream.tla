----------------------------- MODULE JetStream -----------------------------
(***************************************************************************)
(* A JetStream route: NatsJsRouteStreamFactory of src/src/routing/nats.rs, *)
(* the handling of its messages in src/src/service.rs with the handlers of *)
(* handler.rs and response.rs, and the server's side of the consumer.      *)
(*                                                                         *)
(* The reply_to of a JetStream message is the subject its acknowledgement  *)
(* goes to, so what publish_reply sends there reaches the server before    *)
(* (or without) the acknowledgement and may be one of its control words.   *)
(* Messages are numbered as in the stream; item 0 of the inbox is an error *)
(* of the message stream.                                                  *)
(***************************************************************************)
EXTENDS Integers, FiniteSets, SequencesExt

CONSTANTS
  Configs,     \* the routes in use, see Config
  MaxMsgs,     \* bound: messages of the stream
  MaxPending,  \* max_ack_pending of the consumer
  MaxInbox,    \* messages a pull may have in flight to the service
  MaxCrashes,  \* bound: crashes and stops of the service
  MaxFaults    \* bound: failed starts, stream errors, lost publishes

\* durable: js_durable_route.  exact: the key of the route is the subject of its
\* messages; it is a wildcard otherwise.  controls: what the handler answers may
\* be a control word.
Config == [durable : BOOLEAN, exact : BOOLEAN, controls : BOOLEAN]

ASSUME JetStreamAssumption ==
  /\ Configs \subseteq Config
  /\ MaxMsgs \in Nat /\ MaxPending \in Nat /\ MaxInbox \in Nat
  /\ MaxCrashes \in Nat /\ MaxFaults \in Nat

VARIABLES
  conf,        \* the route, chosen once
  stage,       \* of the service: "down", "idle", "handling", "replying", "settling"
  exists,      \* the consumer exists on the server
  added,       \* messages added to the stream
  next,        \* the last message the consumer has delivered
  pending,     \* delivered and neither acknowledged nor terminated
  due,         \* the server's redelivery queue
  inbox,       \* delivered and not yet taken by the service
  job,         \* the message the service is handling, 0 for none
  outcome,     \* of its handler: the response and whether it failed
  good,        \* history: messages whose handler succeeded
  controlled,  \* history: messages a response acknowledged or terminated
  late,        \* history: messages whose ack wait ran out or that were naked
  crashes, faults

server  == <<exists, next, pending, due>>
service == <<stage, job, outcome>>
history == <<good, controlled, late>>
vars    == <<conf, added, inbox, server, service, history, crashes, faults>>

\* What a response is to the server: nothing is published without one; other
\* payloads than control words mean nothing to it.
Words == {"none", "data", "ack", "term", "nak"}
Responses == IF conf.controls THEN Words ELSE {"none", "data"}
Outcome == [word : Words, failed : BOOLEAN]
NoOutcome == [word |-> "none", failed |-> FALSE]

TypeOK ==
  /\ conf \in Configs
  /\ stage \in {"down", "idle", "handling", "replying", "settling"}
  /\ exists \in BOOLEAN
  /\ added \in Nat /\ next \in 0..added
  /\ pending \subseteq 1..next
  /\ due \in Seq(1..next) /\ inbox \in Seq(0..next)
  /\ job \in 0..next /\ outcome \in Outcome
  /\ (job = 0) <=> (stage \in {"down", "idle"})
  /\ good \subseteq 1..next /\ controlled \subseteq 1..next /\ late \subseteq 1..next
  /\ crashes \in 0..MaxCrashes /\ faults \in 0..MaxFaults

-----------------------------------------------------------------------------
(* The server *)

Add ==
  /\ added < MaxMsgs
  /\ added' = added + 1
  /\ UNCHANGED <<conf, inbox, server, service, history, crashes, faults>>

\* What is due again comes before what is new, and is dropped when it was settled
\* meanwhile; the limit is on what is new.
Deliver ==
  /\ stage # "down" /\ Len(inbox) < MaxInbox
  /\ \/ /\ due # <<>>
        /\ inbox' = IF Head(due) \in pending THEN Append(inbox, Head(due)) ELSE inbox
        /\ due' = Tail(due)
        /\ UNCHANGED <<next, pending>>
     \/ /\ due = <<>> /\ next < added /\ Cardinality(pending) < MaxPending
        /\ next' = next + 1
        /\ inbox' = Append(inbox, next')
        /\ pending' = pending \cup {next'}
        /\ UNCHANGED due
  /\ UNCHANGED <<conf, added, exists, service, history, crashes, faults>>

MakeDue(m) ==
  /\ due' = IF m \in pending /\ m \notin ToSet(due) THEN Append(due, m) ELSE due
  /\ late' = IF m \in pending THEN late \cup {m} ELSE late

\* The ack wait of a message runs out, wherever the message is by then.
Expire(m) ==
  /\ m \in pending /\ m \notin ToSet(due)
  /\ MakeDue(m)
  /\ UNCHANGED <<conf, added, inbox, exists, next, pending, service, good, controlled,
                 crashes, faults>>

Settle(m) == pending' = pending \ {m} /\ UNCHANGED due

\* A publish to the ack subject of m arrives.
Arrives(m, word) ==
  CASE word \in {"ack", "term"} -> Settle(m) /\ UNCHANGED late
    [] word = "nak"             -> MakeDue(m) /\ UNCHANGED pending
    [] OTHER                    -> UNCHANGED <<pending, due, late>>

-----------------------------------------------------------------------------
(* NatsJsRouteStreamFactory *)

\* A consumer that has delivered nothing: it starts at the first message.
NewConsumer ==
  /\ next' = 0 /\ pending' = {} /\ due' = <<>>
  /\ good' = {} /\ controlled' = {} /\ late' = {}

\* Mutant of GetConsumer: a durable consumer is created anew as well.
CreateConsumer == NewConsumer /\ exists' = TRUE

\* get_or_create_consumer for a durable route, create_consumer otherwise.
GetConsumer ==
  /\ IF conf.durable /\ exists THEN UNCHANGED <<next, pending, due, history>>
                               ELSE NewConsumer
  /\ exists' = TRUE

\* init
Start ==
  /\ stage = "down"
  /\ GetConsumer
  /\ stage' = "idle"
  /\ UNCHANGED <<conf, added, inbox, job, outcome, crashes, faults>>

\* messages() or another stream fails when the consumer is there already.
StartFails ==
  /\ stage = "down" /\ faults < MaxFaults
  /\ GetConsumer
  /\ faults' = faults + 1
  /\ UNCHANGED <<conf, added, inbox, service, crashes>>

\* An error of the message stream is an item of it.
StreamFails ==
  /\ stage # "down" /\ Len(inbox) < MaxInbox /\ faults < MaxFaults
  /\ inbox' = Append(inbox, 0)
  /\ faults' = faults + 1
  /\ UNCHANGED <<conf, added, server, service, history, crashes>>

\* Mutant of SkipError: the stream ends at its first error.
SkipErrorEnds == FALSE /\ UNCHANGED vars

\* filter_map
SkipError ==
  /\ stage = "idle" /\ inbox # <<>> /\ Head(inbox) = 0
  /\ inbox' = Tail(inbox)
  /\ UNCHANGED <<conf, added, server, service, history, crashes, faults>>

-----------------------------------------------------------------------------
(* Handling of a message *)

\* Mutant of Take: the message stays in the inbox.
TakePeeks ==
  /\ stage = "idle" /\ inbox # <<>> /\ Head(inbox) # 0
  /\ conf.exact
  /\ job' = Head(inbox)
  /\ stage' = "handling"
  /\ UNCHANGED <<conf, added, inbox, outcome, server, history, crashes, faults>>

\* serve takes the next message and dispatch_event finds its route.
Take ==
  /\ stage = "idle" /\ inbox # <<>> /\ Head(inbox) # 0
  /\ conf.exact
  /\ job' = Head(inbox)
  /\ inbox' = Tail(inbox)
  /\ stage' = "handling"
  /\ UNCHANGED <<conf, added, outcome, server, history, crashes, faults>>

\* No route has the subject of the message: a warning, and no acknowledgement.
TakeUnrouted ==
  /\ stage = "idle" /\ inbox # <<>> /\ Head(inbox) # 0
  /\ ~conf.exact
  /\ inbox' = Tail(inbox)
  /\ UNCHANGED <<conf, added, server, service, history, crashes, faults>>

Finish(word, failed) ==
  /\ stage = "handling"
  /\ outcome' = [word |-> word, failed |-> failed]
  /\ stage' = "replying"
  /\ UNCHANGED <<conf, added, inbox, job, server, controlled, late, crashes, faults>>

\* A layer's service is not ready, or a custom service fails: error_outcome
\* answers with the text of the error.
NotReady == Finish("data", TRUE) /\ UNCHANGED good

\* An extractor fails, so the handler is not called.
PartsFail == Finish("data", TRUE) /\ UNCHANGED good
BodyFails == Finish("data", TRUE) /\ UNCHANGED good

\* The handler returns, and into_handler_result makes an outcome of it.
HandlerOk(word)  == Finish(word, FALSE) /\ good' = good \cup {job}
HandlerErr(word) == Finish(word, TRUE) /\ UNCHANGED good

\* The handler's value cannot be made a response: its work is done, and failed.
ConvertFails == Finish("data", TRUE) /\ UNCHANGED good

\* publish_reply, which swallows what goes wrong.
PublishReply ==
  /\ stage = "replying"
  /\ stage' = "settling"
  /\ \/ /\ Arrives(job, outcome.word)
        /\ controlled' = IF outcome.word \in {"ack", "term"}
                           THEN controlled \cup {job} ELSE controlled
        /\ UNCHANGED faults
     \/ /\ outcome.word # "none" /\ faults < MaxFaults
        /\ faults' = faults + 1
        /\ UNCHANGED <<pending, due, controlled, late>>
  /\ UNCHANGED <<conf, added, inbox, exists, next, job, outcome, good, crashes>>

Done == stage' = "idle" /\ job' = 0 /\ outcome' = NoOutcome

\* The handler failed: publish_error, and no acknowledgement.
PublishError ==
  /\ stage = "settling" /\ outcome.failed
  /\ Done
  /\ UNCHANGED <<conf, added, inbox, server, history, crashes, faults>>

\* Mutant of AckMessage: the outcome is not looked at.
AckMessageAlways ==
  /\ stage = "settling"
  /\ Settle(job)
  /\ Done
  /\ UNCHANGED <<conf, added, inbox, exists, next, history, crashes, faults>>

\* Mutant of AckMessage: the job is not cleared.
AckMessageKeeps ==
  /\ stage = "settling" /\ ~outcome.failed
  /\ Settle(job)
  /\ stage' = "idle"
  /\ UNCHANGED <<conf, added, inbox, exists, next, job, outcome, history, crashes, faults>>

\* ack_message, which swallows what goes wrong as well.
AckMessage ==
  /\ stage = "settling" /\ ~outcome.failed
  /\ \/ Settle(job) /\ UNCHANGED faults
     \/ faults < MaxFaults /\ faults' = faults + 1 /\ UNCHANGED <<pending, due>>
  /\ Done
  /\ UNCHANGED <<conf, added, inbox, exists, next, history, crashes>>

\* The program ends, between messages or in the middle of one.
Crash ==
  /\ stage # "down" /\ crashes < MaxCrashes
  /\ stage' = "down" /\ job' = 0 /\ outcome' = NoOutcome /\ inbox' = <<>>
  /\ crashes' = crashes + 1
  /\ UNCHANGED <<conf, added, server, history, faults>>

-----------------------------------------------------------------------------

Init ==
  /\ conf \in Configs
  /\ stage = "down" /\ job = 0 /\ outcome = NoOutcome
  /\ exists = FALSE /\ next = 0 /\ pending = {} /\ due = <<>>
  /\ added = 0 /\ inbox = <<>>
  /\ good = {} /\ controlled = {} /\ late = {}
  /\ crashes = 0 /\ faults = 0

Handle ==
  \/ NotReady \/ PartsFail \/ BodyFails \/ ConvertFails
  \/ \E word \in Responses : HandlerOk(word) \/ HandlerErr(word)

Serve == SkipError \/ Take \/ TakeUnrouted \/ Handle \/ PublishReply \/ PublishError \/ AckMessage

Next ==
  \/ Add \/ Deliver \/ (\E m \in pending : Expire(m))
  \/ Start \/ StartFails \/ StreamFails \/ Serve \/ Crash

Spec == Init /\ [][Next]_vars

\* The server delivers while a pull is open and runs an ack timer for each message
\* it awaits; the service is one task; whoever runs the program starts it again.
FairSpec ==
  /\ Spec
  /\ WF_vars(Start) /\ WF_vars(Serve) /\ WF_vars(Deliver)
  /\ \A m \in 1..MaxMsgs : WF_vars(Expire(m))

-----------------------------------------------------------------------------
(* Properties *)

\* A message leaves the consumer only when its handler succeeded or a control word
\* was answered for it: neither a failure, a crash, a lost publish nor a message
\* without a route makes the server forget it.
NothingSkipped ==
  \A m \in 1..next :
    m \in pending \/ m \in good \/ (conf.controls /\ m \in controlled)

\* The handler is called again for a message it succeeded on only when the server
\* had a reason of its own: an ack wait that ran out or a nak.
RepeatsExcused == stage = "handling" /\ job \in good => job \in late

\* A restart does not move a durable consumer: what it delivered stays delivered,
\* and what was settled is not pending again.
DurableKeepsPlace ==
  [][conf.durable /\ exists =>
       /\ next' >= next
       /\ (1..next) \ pending \subseteq (1..next') \ pending']_vars

\* A message delivered by a route whose key is its subject is settled or handled
\* again, whatever failed, as long as the program is started again.
Retried ==
  \A m \in 1..MaxMsgs :
    conf.exact /\ m \in pending ~> m \notin pending \/ (stage = "handling" /\ job = m)

=============================================================================
