------------------------------ MODULE RedisRead ------------------------------
(***************************************************************************)
(* The read loop of src/src/routing/redis.rs, xread_next, where RedisGroup *)
(* does not reach: the ephemeral route (XREAD), whose position lives in    *)
(* memory only, and the consumer-group route with a start id other than    *)
(* ">", which reads the history of its consumer.                           *)
(*                                                                         *)
(* Entry n is the n-th entry added to the stream and stands for its id.    *)
(* The loop is polled only while the service waits in select!: a handler   *)
(* of any other message may run while a command is on its way, while it    *)
(* waits at the server and while its reply waits to be received.           *)
(*                                                                         *)
(* The claim loop that init() merges with the read loop, and those of the  *)
(* other consumers of the group, appear by what they do to the pending     *)
(* list; RedisGroup has them in detail.                                    *)
(***************************************************************************)
EXTENDS Integers, FiniteSets, Sequences, SequencesExt

CONSTANTS
  Configs,      \* route configurations: group, start id, BLOCK given or not,
                \* and whether some consumer of the group claims entries
  Count,        \* COUNT of a read
  MaxEntries,   \* bound: entries of the stream
  MaxPresent,   \* bound: entries that are there before the first start
  MaxCrashes    \* bound: crashes of the service

\* The start id "$".  It is never the id of an entry.
Dollar == -1

ASSUME ReadAssumption ==
  /\ Count \in Nat \ {0} /\ MaxEntries \in Nat
  /\ MaxPresent \in 0..MaxEntries /\ MaxCrashes \in Nat
  /\ Configs \subseteq [group : BOOLEAN, start : Nat \cup {Dollar},
                        block : BOOLEAN, claims : BOOLEAN]
  /\ \A c \in Configs : c.group => c.start # Dollar
  /\ \A c \in Configs : c.claims => c.group

VARIABLES
  conf,      \* configuration of the route
  len,       \* entries added to the stream
  pel,       \* entries pending for this consumer, group route only
  acked,     \* entries this route acknowledged
  settled,   \* entries acknowledged elsewhere in the group
  pc,        \* the stream: not started, between reads, command on its way to the
             \* server, command waiting there, reply on its way back, ended
  lastId,    \* last_id of XReadState
  from,      \* the id of the outstanding command, "$" until the server resolves it
  reply,     \* entries of the reply on its way back
  buf,       \* buffer of XReadState, next message at the end
  job,       \* what the service handles: an entry of the read loop, another message
  last,      \* history: last entry handed over since the start, or the start id
  base,      \* history: length of the stream when the first read was executed
  crashes    \* crashes so far

server == <<len, pel, acked, settled>>
state  == <<lastId, from, reply, buf>>
vars   == <<conf, server, pc, state, job, last, base, crashes>>

Entries == 1..MaxEntries
Idle    == 0
Other   == -1

Reading == {"sent", "waiting", "replied"}

TypeOK ==
  /\ conf \in Configs
  /\ len \in 0..MaxEntries
  /\ pel \in SUBSET (1..len) /\ acked \in SUBSET (1..len) /\ settled \in SUBSET (1..len)
  /\ pc \in {"down", "idle", "ended"} \cup Reading
  /\ lastId \in Nat \cup {Dollar} /\ from \in Nat \cup {Dollar}
  /\ reply \in Seq(1..len) /\ Len(reply) <= Count
  /\ buf \in Seq(1..len) /\ Len(buf) <= Count
  /\ job \in (1..len) \cup {Idle, Other}
  /\ last \in Nat \cup {Dollar}
  /\ base \in Nat \cup {Dollar}
  /\ crashes \in 0..MaxCrashes

-----------------------------------------------------------------------------
(* The Redis server *)

\* Entries the waiting command may return: those behind the id; for a group with
\* an id, those that are pending for this consumer.
Available == {e \in 1..len : e > from /\ (conf.group => e \in pel)}

\* A reply holds the first Count of them, in the order of the stream.
IsReply(r) ==
  /\ \A i, j \in DOMAIN r : i < j => r[i] < r[j]
  /\ \A i \in DOMAIN r, e \in Available : e < r[i] => \E j \in 1..(i - 1) : r[j] = e
  /\ Len(r) = Count \/ \A e \in Available : \E i \in DOMAIN r : r[i] = e

\* Mutant of Replies: COUNT is not part of the command.
RepliesUncounted == UNION {[1..n -> Available] : n \in 1..MaxEntries}

Replies == UNION {[1..n -> Available] : n \in 1..Count}

\* The command is executed: "$" becomes the last entry there is.
Arrive ==
  /\ pc = "sent"
  /\ pc' = "waiting"
  /\ from' = IF from = Dollar THEN len ELSE from
  /\ base' = IF base = Dollar THEN len ELSE base
  /\ UNCHANGED <<conf, server, lastId, reply, buf, job, last, crashes>>

\* It is answered with entries.  "$" without BLOCK has nothing behind it when it
\* is executed.
AnswerEntries ==
  /\ pc = "waiting"
  /\ conf.block \/ lastId # Dollar
  /\ \E r \in Replies : IsReply(r) /\ reply' = r
  /\ pc' = "replied"
  /\ UNCHANGED <<conf, server, lastId, from, buf, job, last, base, crashes>>

\* It is answered without entries: BLOCK ran out, there is no BLOCK, or the
\* history is empty.
AnswerNone ==
  /\ pc = "waiting"
  /\ Available = {} \/ (~conf.block /\ lastId = Dollar)
  /\ pc' = "replied"
  /\ UNCHANGED <<conf, server, state, job, last, base, crashes>>

\* A producer adds an entry.
Add ==
  /\ len < MaxEntries
  /\ len' = len + 1
  /\ UNCHANGED <<conf, pel, acked, settled, pc, state, job, last, base, crashes>>

\* XAUTOCLAIM of another consumer takes an entry over.
ClaimedAway ==
  /\ conf.claims
  /\ \E e \in pel : pel' = pel \ {e}
  /\ UNCHANGED <<conf, len, acked, settled, pc, state, job, last, base, crashes>>

\* XAUTOCLAIM of this consumer takes an entry over, for its claim loop.
ClaimedHere ==
  /\ conf.claims
  /\ \E e \in (1..len) \ (pel \cup acked \cup settled) : pel' = pel \cup {e}
  /\ UNCHANGED <<conf, len, acked, settled, pc, state, job, last, base, crashes>>

\* Somebody else acknowledges an entry of the group: after a success, or because
\* it exceeds the delivery cap.  Both follow a claim.
SettledElsewhere ==
  /\ conf.claims
  /\ \E e \in (1..len) \ (acked \cup settled) :
       pel' = pel \ {e} /\ settled' = settled \cup {e}
  /\ UNCHANGED <<conf, len, acked, pc, state, job, last, base, crashes>>

-----------------------------------------------------------------------------
(* The route *)

\* The factory: the connection is made and last_id is the configured start id.
Start ==
  /\ pc = "down"
  /\ pc' = "idle"
  /\ lastId' = conf.start
  /\ last' = conf.start
  /\ base' = Dollar
  /\ UNCHANGED <<conf, server, from, reply, buf, job, crashes>>

\* Mutant of PollRead: a route without a group asks for "$" every time.
PollReadAtEnd ==
  /\ pc = "idle" /\ job = Idle
  /\ buf = <<>>
  /\ from' = IF conf.group THEN lastId ELSE Dollar
  /\ pc' = "sent"
  /\ UNCHANGED <<conf, server, lastId, reply, buf, job, last, base, crashes>>

\* The service waits in select! and polls the route: nothing is buffered, so the
\* next command is sent.
PollRead ==
  /\ pc = "idle" /\ job = Idle
  /\ buf = <<>>
  /\ from' = lastId
  /\ pc' = "sent"
  /\ UNCHANGED <<conf, server, lastId, reply, buf, job, last, base, crashes>>

\* Mutant of Receive: the buffer is not reversed.
ReceiveUnreversed ==
  /\ pc = "replied" /\ job = Idle
  /\ buf' = reply
  /\ reply' = <<>>
  /\ lastId' = IF conf.group \/ reply = <<>> THEN lastId ELSE reply[Len(reply)]
  /\ pc' = "idle"
  /\ UNCHANGED <<conf, server, from, job, last, base, crashes>>

\* Mutant of Receive: the position moves for a group route as well.
ReceiveMoves ==
  /\ pc = "replied" /\ job = Idle
  /\ buf' = Reverse(reply)
  /\ reply' = <<>>
  /\ lastId' = IF reply = <<>> THEN lastId ELSE reply[Len(reply)]
  /\ pc' = "idle"
  /\ UNCHANGED <<conf, server, from, job, last, base, crashes>>

\* The reply is received in select!.  The messages are pushed in order and the
\* buffer is reversed; without a group the position moves to the last entry read.
\* After a reply without entries the loop goes round with the same id.
Receive ==
  /\ pc = "replied" /\ job = Idle
  /\ buf' = Reverse(reply)
  /\ reply' = <<>>
  /\ lastId' = IF conf.group \/ reply = <<>> THEN lastId ELSE reply[Len(reply)]
  /\ pc' = "idle"
  /\ UNCHANGED <<conf, server, from, job, last, base, crashes>>

\* The command fails, on its way, at the server or on its way back: the stream
\* ends for good.
ReadFails ==
  /\ pc \in Reading /\ job = Idle
  /\ pc' = "ended"
  /\ reply' = <<>>
  /\ UNCHANGED <<conf, server, lastId, from, buf, job, last, base, crashes>>

\* Mutant of TakeNext: the message stays in the buffer.
TakeNextPeeks ==
  /\ pc = "idle" /\ job = Idle
  /\ buf # <<>>
  /\ job' = buf[Len(buf)]
  /\ last' = buf[Len(buf)]
  /\ UNCHANGED <<conf, server, pc, state, base, crashes>>

\* select! takes the route's next message, the last one of the buffer.
TakeNext ==
  /\ pc = "idle" /\ job = Idle
  /\ buf # <<>>
  /\ job' = buf[Len(buf)]
  /\ last' = buf[Len(buf)]
  /\ buf' = SubSeq(buf, 1, Len(buf) - 1)
  /\ UNCHANGED <<conf, server, pc, lastId, from, reply, base, crashes>>

\* select! takes a message of another route, or of this route's claim loop.
TakeOther ==
  /\ pc \in {"idle"} \cup Reading /\ job = Idle
  /\ job' = Other
  /\ UNCHANGED <<conf, server, pc, state, last, base, crashes>>

\* The handler succeeded; a group route acknowledges the entry, whoever owns it.
HandledAndAcked ==
  /\ job \in Entries /\ conf.group
  /\ pel' = pel \ {job}
  /\ acked' = acked \cup {job}
  /\ job' = Idle
  /\ UNCHANGED <<conf, len, settled, pc, state, last, base, crashes>>

\* The message is done and nothing was acknowledged here: no group, a failed
\* handler, a failed XACK, or another message.
Handled ==
  /\ job # Idle
  /\ job' = Idle
  /\ UNCHANGED <<conf, server, pc, state, last, base, crashes>>

\* The service process is lost, and with it position, reply and buffer.
Crash ==
  /\ crashes < MaxCrashes
  /\ pc # "down"
  /\ pc' = "down"
  /\ lastId' = Dollar /\ from' = Dollar
  /\ reply' = <<>> /\ buf' = <<>>
  /\ job' = Idle
  /\ last' = Dollar /\ base' = Dollar
  /\ crashes' = crashes + 1
  /\ UNCHANGED <<conf, server>>

-----------------------------------------------------------------------------

\* What is pending for the consumer at first was delivered to it by ">" reads of
\* an earlier configuration.
Init ==
  /\ conf \in Configs
  /\ len \in 0..MaxPresent
  /\ pel \in SUBSET (1..len)
  /\ ~conf.group => pel = {}
  /\ acked = {} /\ settled = {}
  /\ pc = "down"
  /\ lastId = Dollar /\ from = Dollar
  /\ reply = <<>> /\ buf = <<>>
  /\ job = Idle
  /\ last = Dollar /\ base = Dollar
  /\ crashes = 0

Next ==
  \/ Arrive \/ AnswerEntries \/ AnswerNone
  \/ Add
  \/ ClaimedAway \/ ClaimedHere \/ SettledElsewhere
  \/ Start \/ PollRead \/ Receive \/ ReadFails
  \/ TakeNext \/ TakeOther
  \/ HandledAndAcked \/ Handled
  \/ Crash

Spec == Init /\ [][Next]_vars

\* A started service goes on; handlers return; the server executes and answers
\* commands; select! polls every route again and again however many messages
\* other routes have.  Nothing is assumed of producers and of claims.
FairSpec ==
  /\ Spec
  /\ WF_vars(Start)
  /\ WF_vars(Arrive) /\ WF_vars(AnswerEntries \/ AnswerNone)
  /\ SF_vars(PollRead) /\ SF_vars(Receive) /\ SF_vars(TakeNext)
  /\ WF_vars(HandledAndAcked \/ Handled)

-----------------------------------------------------------------------------
(* Properties *)

\* Without a group, entries are handed to the handler in the order of the stream,
\* none twice and none left out, from the first one on: from the entry behind the
\* start id when that is an id.  Across buffers, empty replies and the reversal
\* of the buffer.
Consecutive ==
  [][job' # job /\ job' \in Entries /\ ~conf.group
       => last = Dollar \/ job' = last + 1]_vars

\* A group route that reads its history again and again from the same id never
\* calls the handler for an entry it has acknowledged, whatever is claimed, settled
\* elsewhere or restarted in between.  In a group without claims the entry is
\* pending when the handler is called; with them it may have been claimed, handled
\* and acknowledged elsewhere while it waited in a reply or in the buffer.
CallsOnlyPending ==
  conf.group /\ job \in Entries =>
    /\ job \notin acked
    /\ ~conf.claims => job \in pel

Gone == pc \in {"ended", "down"}

\* Entries behind the position of a running ephemeral route.
Ahead(e) ==
  /\ ~conf.group /\ e \in 1..len /\ ~Gone
  /\ \/ \E i \in DOMAIN buf : buf[i] = e
     \/ lastId # Dollar /\ e > lastId
     \/ pc = "waiting" /\ conf.block /\ e > from
     \/ pc = "replied" /\ reply # <<>> /\ e > from

\* Once the position is an id, or "$" is waiting at the server, or it has been
\* answered with entries, every entry behind it reaches the handler, unless a read
\* fails or the service stops.
AheadIsRead == \A e \in Entries : Ahead(e) ~> (job = e \/ Gone)

\* Pending entries behind the start id with fewer than Count such entries before.
InReach(e) ==
  /\ conf.group /\ ~Gone
  /\ e \in pel /\ e > conf.start
  /\ Cardinality({d \in pel : conf.start < d /\ d < e}) < Count

\* The history read hands over every pending entry that stays among the first Count
\* behind the start id; entries that fail for ever keep later ones out, not these.
\* An entry leaves the reach when it is claimed or settled elsewhere, or when this
\* consumer claims entries before it.
ReachIsTried ==
  \A e \in Entries : InReach(e) ~> (job = e \/ ~InReach(e))

\* redis.rs:35 says of start_id "$": "only entries newer than the start".  Every
\* entry added after the first read of an ephemeral route would reach its handler.
NewerThanStart ==
  \A e \in Entries :
    (~conf.group /\ ~Gone /\ base # Dollar /\ e \in (base + 1)..len)
      ~> (job = e \/ Gone)

=============================================================================
