----------------------------- MODULE RedisGroup -----------------------------
(***************************************************************************)
(* Consumer-group routes of src/src/routing/redis.rs: the XREADGROUP read  *)
(* loop (xread_next), the XAUTOCLAIM loop (xautoclaim_next) with its       *)
(* delivery cap and dead-letter path, the acknowledger, and the part of    *)
(* the service loop that decides when these loops are polled.              *)
(*                                                                         *)
(* Both loops are async streams merged by stream::select: their code runs  *)
(* only while the service loop of the process is between two messages      *)
(* (Polling), because serve() awaits handle_message inline.  A command     *)
(* already sent to Redis takes effect whenever the server gets to it, also *)
(* while a handler runs.  Every command is therefore two steps, Poll...    *)
(* (the code sends it) and Serve... (the server executes it), and may fail *)
(* before or after the server executed it.                                 *)
(*                                                                         *)
(* An entry id is its position in the stream.  LexRank is the byte order   *)
(* of the ids' text, which fetch_delivery_counts uses.  A token <<e, n>>   *)
(* is the n-th delivery of entry e by the server.                          *)
(***************************************************************************)
EXTENDS Integers, Sequences, FiniteSets

CONSTANTS
  Consumers,      \* one service process per consumer name of the group
  Nobody,         \* owner of an entry outside the pending list
  MaxEntries,     \* bound: entries ever added to the stream
  ReadCount,      \* COUNT of XREADGROUP (config.count)
  ClaimCount,     \* COUNT of XAUTOCLAIM (auto_claim.count)
  ScanLimit,      \* pending entries one XAUTOCLAIM looks at (Redis: ten times COUNT)
  ClaimerSets,    \* the sets of consumers that may have auto_claim configured
  HasCap,         \* max_deliveries is Some(MaxDeliveries)
  MaxDeliveries,
  HasDlq,         \* dead_letter_topic is Some
  LexRank,        \* rank of an entry's id in byte order
  MaxTimes,       \* bound: deliveries of one entry
  MaxFaults,      \* bound: failing commands
  MaxCrashes      \* bound: crashes

Entries == 1..MaxEntries

ASSUME ConstantsAssumption ==
  /\ MaxEntries \in Nat /\ ReadCount \in Nat \ {0} /\ ClaimCount \in Nat \ {0}
  /\ HasCap \in BOOLEAN /\ HasDlq \in BOOLEAN
  /\ MaxDeliveries \in Nat /\ MaxTimes \in Nat
  /\ MaxFaults \in Nat /\ MaxCrashes \in Nat
  /\ LexRank \in [Entries -> Nat]
  /\ Nobody \notin Consumers

ASSUME ClaimersAssumption ==
  ScanLimit \in Nat \ {0} /\ ClaimerSets \subseteq SUBSET Consumers

NoGroup == -1                             \* XGROUP CREATE has not happened

VARIABLES
  \* the Redis server
  added,       \* id of the last entry of the stream
  groupStart,  \* id at which the group was created, or NoGroup
  groupLast,   \* last-delivered-id of the group
  owner,       \* PEL: the consumer an entry is pending for, or Nobody
  times,       \* times_delivered of an entry
  fresh,       \* deliveries younger than min_idle, oldest first
  dlq,         \* how often an entry was XADDed to the dead-letter stream
  \* the process of each consumer
  up,          \* serve() is running
  readPc,      \* XREADGROUP: "idle", "sent", or the stream has "ended"
  readBuf,     \* XReadState.buffer
  job,         \* {} or {the message in handle_message}
  ackDue,      \* the handler returned Ok, the acknowledger runs
  claimPc,     \* where xautoclaim_next waits, "none" without auto_claim
  batch,       \* entries of the claim reply still to be looked at
  counts,      \* reply of XPENDING: <<entry, times_delivered>>
  dying,       \* {} or {the delivery in handle_dead_letter}
  claimBuf,    \* AutoClaimState.buffer
  cursor,      \* AutoClaimState.cursor, 0 for "0-0"
  \* the environment's budgets
  faults, crashes,
  \* history
  called,      \* deliveries handed to the handler
  succ,        \* entries for which a handler call returned Ok
  capped       \* entries the cap decision was taken for

server  == <<added, groupStart, groupLast, owner, times, fresh, dlq>>
reader  == <<readPc, readBuf>>
handler == <<job, ackDue>>
claimer == <<claimPc, batch, counts, dying, claimBuf, cursor>>
env     == <<faults, crashes>>
history == <<called, succ, capped>>
vars    == <<server, up, reader, handler, claimer, env, history>>

ReadPcs  == {"idle", "sent", "ended"}
ClaimPcs == {"none", "sleep", "scan", "claimed", "count", "decide", "dlack", "dlacked", "dlpub"}
Tokens   == Entries \X Nat

TypeOK ==
  /\ added \in 0..MaxEntries
  /\ groupStart \in {NoGroup} \cup 0..MaxEntries
  /\ groupLast \in 0..MaxEntries
  /\ owner \in [Entries -> Consumers \cup {Nobody}]
  /\ times \in [Entries -> Nat]
  /\ fresh \in Seq(SUBSET Entries)
  /\ dlq \in [Entries -> Nat]
  /\ up \in [Consumers -> BOOLEAN]
  /\ readPc \in [Consumers -> ReadPcs]
  /\ readBuf \in [Consumers -> SUBSET Tokens]
  /\ job \in [Consumers -> SUBSET Tokens]
  /\ ackDue \in [Consumers -> BOOLEAN]
  /\ claimPc \in [Consumers -> ClaimPcs]
  /\ batch \in [Consumers -> SUBSET Tokens]
  /\ counts \in [Consumers -> SUBSET Tokens]
  /\ dying \in [Consumers -> SUBSET Tokens]
  /\ claimBuf \in [Consumers -> SUBSET Tokens]
  /\ cursor \in [Consumers -> 0..MaxEntries]
  /\ faults \in 0..MaxFaults
  /\ crashes \in 0..MaxCrashes
  /\ called \in SUBSET Tokens
  /\ succ \in SUBSET Entries
  /\ capped \in SUBSET Entries

-----------------------------------------------------------------------------
(* Helpers *)

EntriesOf(T) == {t[1] : t \in T}

\* The k smallest elements of a set of integers.
FirstK(S, k) == {x \in S : Cardinality({y \in S : y < x}) < k}

\* Mutant of IsFirst: the buffer is popped without having been reversed.
IsLast(t, T) == \A s \in T : s[1] <= t[1]

\* t has the lowest entry id of T: buffers are reversed, then popped.
IsFirst(t, T) == \A s \in T : t[1] <= s[1]

Pending == {e \in Entries : owner[e] # Nobody}

\* Pending entries whose last delivery is at least min_idle old.
Idle == {e \in Pending : \A i \in DOMAIN fresh : e \notin fresh[i]}

\* The service loop of c awaits stream.next(): both loops of c are polled.
Polling(c) == up[c] /\ job[c] = {}

\* A delivery of the entries of E to consumer c.
Deliver(E, c) ==
  /\ owner' = [e \in Entries |-> IF e \in E THEN c ELSE owner[e]]
  /\ times' = [e \in Entries |-> IF e \in E THEN times[e] + 1 ELSE times[e]]
  /\ fresh' = IF E = {} THEN fresh ELSE Append(fresh, E)

DeliveredTokens(E) == {<<e, times[e] + 1>> : e \in E}

XAck(T) ==
  owner' = [e \in Entries |-> IF \E t \in T : t[1] = e THEN Nobody ELSE owner[e]]

SpendFault == faults < MaxFaults /\ faults' = faults + 1

-----------------------------------------------------------------------------
(* Producers and time *)

XAdd ==
  /\ added < MaxEntries
  /\ added' = added + 1
  /\ UNCHANGED <<groupStart, groupLast, owner, times, fresh, dlq, up, reader,
                 handler, claimer, env, history>>

\* min_idle elapses for the oldest delivery: idle times follow delivery order.
\* MaxTimes bounds deliveries: an entry delivered that often stays fresh.
Age ==
  /\ fresh # <<>>
  /\ \A e \in Head(fresh) : owner[e] # Nobody => times[e] < MaxTimes
  /\ fresh' = Tail(fresh)
  /\ UNCHANGED <<added, groupStart, groupLast, owner, times, dlq, up, reader,
                 handler, claimer, env, history>>

-----------------------------------------------------------------------------
(* Life of a process *)

\* A lost process: everything it holds in memory is gone.
Forget(c) ==
  /\ up' = [up EXCEPT ![c] = FALSE]
  /\ readPc' = [readPc EXCEPT ![c] = "idle"]
  /\ readBuf' = [readBuf EXCEPT ![c] = {}]
  /\ job' = [job EXCEPT ![c] = {}]
  /\ ackDue' = [ackDue EXCEPT ![c] = FALSE]
  /\ claimPc' = [claimPc EXCEPT ![c] = IF @ = "none" THEN "none" ELSE "sleep"]
  /\ batch' = [batch EXCEPT ![c] = {}]
  /\ counts' = [counts EXCEPT ![c] = {}]
  /\ dying' = [dying EXCEPT ![c] = {}]
  /\ claimBuf' = [claimBuf EXCEPT ![c] = {}]
  /\ cursor' = [cursor EXCEPT ![c] = 0]

\* Mutant of Start: the group starts where it was before it existed.
StartUnset(c) ==
  /\ ~up[c]
  /\ up' = [up EXCEPT ![c] = TRUE]
  /\ IF groupStart = NoGroup
     THEN groupStart' = added /\ groupLast' = groupStart
     ELSE UNCHANGED <<groupStart, groupLast>>
  /\ UNCHANGED <<added, owner, times, fresh, dlq, reader, handler, claimer,
                 env, history>>

\* XGROUP CREATE ... $ MKSTREAM: BUSYGROUP is not an error.
Start(c) ==
  /\ ~up[c]
  /\ up' = [up EXCEPT ![c] = TRUE]
  /\ IF groupStart = NoGroup
     THEN groupStart' = added /\ groupLast' = added
     ELSE UNCHANGED <<groupStart, groupLast>>
  /\ UNCHANGED <<added, owner, times, fresh, dlq, reader, handler, claimer,
                 env, history>>

\* A crash, or a shutdown when it happens between two messages.
Crash(c) ==
  /\ up[c]
  /\ crashes < MaxCrashes
  /\ crashes' = crashes + 1
  /\ Forget(c)
  /\ UNCHANGED <<server, faults, history>>

\* Without a claim loop the route's stream ends with the read loop, and a
\* service whose only stream ended returns Ok from serve().
StreamsEnded(c) ==
  /\ Polling(c)
  /\ claimPc[c] = "none"
  /\ readPc[c] = "ended"
  /\ Forget(c)
  /\ UNCHANGED <<server, env, history>>

-----------------------------------------------------------------------------
(* The read loop: xread_next with a group and start id ">" *)

PollRead(c) ==
  /\ Polling(c)
  /\ readPc[c] = "idle"
  /\ readBuf[c] = {}
  /\ readPc' = [readPc EXCEPT ![c] = "sent"]
  /\ UNCHANGED <<server, up, readBuf, handler, claimer, env, history>>

\* The server's side of XREADGROUP: the entries after the last delivered one.
Undelivered ==
  {e \in Entries : groupLast < e /\ e <= added /\ e <= groupLast + ReadCount}

ExecRead(c) ==
  /\ readPc[c] = "sent"
  /\ Undelivered # {}
  /\ Deliver(Undelivered, c)
  /\ groupLast' = IF groupLast + ReadCount < added THEN groupLast + ReadCount ELSE added
  /\ UNCHANGED <<added, groupStart, dlq, up, handler, claimer, crashes, history>>

\* An empty or timed out reply only makes the loop send the command again.
ServeRead(c) ==
  /\ ExecRead(c)
  /\ readBuf' = [readBuf EXCEPT ![c] = DeliveredTokens(Undelivered)]
  /\ readPc' = [readPc EXCEPT ![c] = "idle"]
  /\ UNCHANGED faults

\* An error reply ends the stream for good, whether the server executed the
\* command (ReadReplyLost) or not (ReadFails).
ReadReplyLost(c) ==
  /\ ExecRead(c)
  /\ SpendFault
  /\ readPc' = [readPc EXCEPT ![c] = "ended"]
  /\ UNCHANGED readBuf

ReadFails(c) ==
  /\ readPc[c] = "sent"
  /\ SpendFault
  /\ readPc' = [readPc EXCEPT ![c] = "ended"]
  /\ UNCHANGED <<server, up, readBuf, handler, claimer, crashes, history>>

\* Mutant of TakeRead: the message stays in the buffer.
TakeReadPeeks(c) ==
  /\ Polling(c)
  /\ \E t \in readBuf[c] :
       /\ IsFirst(t, readBuf[c])
       /\ job' = [job EXCEPT ![c] = {t}]
       /\ called' = called \cup {t}
  /\ UNCHANGED <<server, up, reader, ackDue, claimer, env, succ, capped>>

TakeRead(c) ==
  /\ Polling(c)
  /\ \E t \in readBuf[c] :
       /\ IsFirst(t, readBuf[c])
       /\ readBuf' = [readBuf EXCEPT ![c] = @ \ {t}]
       /\ job' = [job EXCEPT ![c] = {t}]
       /\ called' = called \cup {t}
  /\ UNCHANGED <<server, up, readPc, ackDue, claimer, env, succ, capped>>

-----------------------------------------------------------------------------
(* The service loop: handle_message *)

HandlerOk(c) ==
  /\ job[c] # {}
  /\ ~ackDue[c]
  /\ ackDue' = [ackDue EXCEPT ![c] = TRUE]
  /\ succ' = succ \cup EntriesOf(job[c])
  /\ UNCHANGED <<server, up, reader, job, claimer, env, called, capped>>

\* Mutant of HandlerErr: the message is acknowledged whatever the outcome.
HandlerErrAcks(c) ==
  /\ job[c] # {}
  /\ ~ackDue[c]
  /\ XAck(job[c])
  /\ job' = [job EXCEPT ![c] = {}]
  /\ UNCHANGED <<added, groupStart, groupLast, times, fresh, dlq, up, reader,
                 ackDue, claimer, env, history>>

\* A failed call is not acknowledged: the entry stays pending.
HandlerErr(c) ==
  /\ job[c] # {}
  /\ ~ackDue[c]
  /\ job' = [job EXCEPT ![c] = {}]
  /\ UNCHANGED <<server, up, reader, ackDue, claimer, env, history>>

Ack(c) ==
  /\ ackDue[c]
  /\ XAck(job[c])
  /\ job' = [job EXCEPT ![c] = {}]
  /\ ackDue' = [ackDue EXCEPT ![c] = FALSE]
  /\ UNCHANGED <<added, groupStart, groupLast, times, fresh, dlq, up, reader,
                 claimer, env, history>>

\* The acknowledger fails: the service logs it and goes on.
AckFails(c) ==
  /\ ackDue[c]
  /\ SpendFault
  /\ job' = [job EXCEPT ![c] = {}]
  /\ ackDue' = [ackDue EXCEPT ![c] = FALSE]
  /\ UNCHANGED <<server, up, reader, claimer, crashes, history>>

-----------------------------------------------------------------------------
(* The claim loop: xautoclaim_next *)

TakeClaim(c) ==
  /\ Polling(c)
  /\ \E t \in claimBuf[c] :
       /\ IsFirst(t, claimBuf[c])
       /\ claimBuf' = [claimBuf EXCEPT ![c] = @ \ {t}]
       /\ job' = [job EXCEPT ![c] = {t}]
       /\ called' = called \cup {t}
  /\ UNCHANGED <<server, up, reader, ackDue, claimPc, batch, counts, dying,
                 cursor, env, succ, capped>>

\* The sleep ends and XAUTOCLAIM is sent.
PollScan(c) ==
  /\ Polling(c)
  /\ claimPc[c] = "sleep"
  /\ claimBuf[c] = {}
  /\ claimPc' = [claimPc EXCEPT ![c] = "scan"]
  /\ UNCHANGED <<server, up, reader, handler, batch, counts, dying, claimBuf,
                 cursor, env, history>>

\* The server's side of XAUTOCLAIM: of the first ScanLimit pending entries from
\* the cursor on it takes over up to COUNT idle ones, whoever owns them, the caller
\* included.
Reach(c)     == FirstK({e \in Pending : cursor[c] <= e}, ScanLimit)
Claimable(c) == FirstK(Idle \cap Reach(c), ClaimCount)

ExecScan(c) ==
  /\ claimPc[c] = "scan"
  /\ Deliver(Claimable(c), c)
  /\ UNCHANGED <<added, groupStart, groupLast, dlq, up, reader, handler,
                 counts, dying, claimBuf, crashes, history>>

\* It stops when it has COUNT entries.
Examined(c) ==
  IF Cardinality(Claimable(c)) < ClaimCount
  THEN Reach(c)
  ELSE {e \in Reach(c) : \E g \in Claimable(c) : e <= g}

\* The cursor of the reply is the pending entry after those it looked at, "0-0"
\* when there is none, also after a short or an empty reply.
ResumesAt(c, n) ==
  LET rest == {e \in Pending : cursor[c] <= e /\ e \notin Examined(c)}
  IN IF rest = {} THEN n = 0 ELSE n \in rest /\ \A f \in rest : n <= f

\* Mutant of ServeScan: at the end of the list the cursor stays there.
ServeScanToEnd(c) ==
  /\ ExecScan(c)
  /\ batch' = [batch EXCEPT ![c] = DeliveredTokens(Claimable(c))]
  /\ \E n \in 0..MaxEntries :
       /\ ResumesAt(c, n)
       /\ cursor' = [cursor EXCEPT ![c] = IF n = 0 THEN MaxEntries ELSE n]
  /\ claimPc' = [claimPc EXCEPT ![c] = "claimed"]
  /\ UNCHANGED faults

ServeScan(c) ==
  /\ ExecScan(c)
  /\ batch' = [batch EXCEPT ![c] = DeliveredTokens(Claimable(c))]
  /\ \E n \in 0..MaxEntries :
       ResumesAt(c, n) /\ cursor' = [cursor EXCEPT ![c] = n]
  /\ claimPc' = [claimPc EXCEPT ![c] = "claimed"]
  /\ UNCHANGED faults

\* An error is logged, the cursor stays, and the loop sleeps again; the server
\* executed the command (ScanReplyLost) or not (ScanFails).
ScanReplyLost(c) ==
  /\ ExecScan(c)
  /\ SpendFault
  /\ claimPc' = [claimPc EXCEPT ![c] = "sleep"]
  /\ UNCHANGED <<batch, cursor>>

ScanFails(c) ==
  /\ claimPc[c] = "scan"
  /\ SpendFault
  /\ claimPc' = [claimPc EXCEPT ![c] = "sleep"]
  /\ UNCHANGED <<server, up, reader, handler, batch, counts, dying, claimBuf,
                 cursor, crashes, history>>

\* An empty reply sleeps again; with max_deliveries, XPENDING is sent.
PollClaimed(c) ==
  /\ Polling(c)
  /\ claimPc[c] = "claimed"
  /\ claimPc' = [claimPc EXCEPT ![c] =
                   IF batch[c] = {} THEN "sleep" ELSE IF HasCap THEN "count" ELSE "decide"]
  /\ UNCHANGED <<server, up, reader, handler, batch, counts, dying, claimBuf,
                 cursor, env, history>>

\* Mutant of PendingRange: both ends of the range are the least claimed id.
PendingRangeFirst(c) ==
  {e \in EntriesOf(batch[c]) : owner[e] = c /\ \A f \in EntriesOf(batch[c]) : e <= f}

\* fetch_delivery_counts: XPENDING start end COUNT consumer, with start and end
\* the least and the greatest claimed id in byte order and COUNT the number of
\* claimed ids.  The server answers in stream order.
PendingRange(c) ==
  LET lo == {e \in EntriesOf(batch[c]) :
               \A f \in EntriesOf(batch[c]) : LexRank[e] <= LexRank[f]}
      hi == {e \in EntriesOf(batch[c]) :
               \A f \in EntriesOf(batch[c]) : LexRank[f] <= LexRank[e]}
  IN {e \in Entries : owner[e] = c /\ (\A l \in lo : l <= e) /\ (\A h \in hi : e <= h)}

ServeCounts(c) ==
  /\ claimPc[c] = "count"
  /\ counts' = [counts EXCEPT ![c] =
                  {<<e, times[e]>> : e \in FirstK(PendingRange(c), Cardinality(batch[c]))}]
  /\ claimPc' = [claimPc EXCEPT ![c] = "decide"]
  /\ UNCHANGED <<server, up, reader, handler, batch, dying, claimBuf, cursor,
                 env, history>>

\* An XPENDING error leaves the counts empty: the cap is skipped.
CountsFail(c) ==
  /\ claimPc[c] = "count"
  /\ SpendFault
  /\ claimPc' = [claimPc EXCEPT ![c] = "decide"]
  /\ UNCHANGED <<server, up, reader, handler, batch, counts, dying, claimBuf,
                 cursor, crashes, history>>

\* Mutant of OverCap: the cap is compared with >=.
AtCap(c) ==
  {t \in batch[c] : HasCap /\ \E k \in counts[c] : k[1] = t[1] /\ k[2] >= MaxDeliveries}

\* Claimed deliveries whose known count is over the cap.
OverCap(c) ==
  {t \in batch[c] : HasCap /\ \E k \in counts[c] : k[1] = t[1] /\ k[2] > MaxDeliveries}

\* Mutant of Condemn: the loop does not go on to the next entry.
CondemnAgain(c) ==
  /\ Polling(c)
  /\ claimPc[c] = "decide"
  /\ \E t \in OverCap(c) :
       /\ IsFirst(t, OverCap(c))
       /\ dying' = [dying EXCEPT ![c] = {t}]
       /\ capped' = capped \cup {t[1]}
  /\ claimPc' = [claimPc EXCEPT ![c] = "dlack"]
  /\ UNCHANGED <<server, up, reader, handler, batch, counts, claimBuf, cursor,
                 env, called, succ>>

\* handle_dead_letter is entered for the next entry over the cap: XACK is sent.
Condemn(c) ==
  /\ Polling(c)
  /\ claimPc[c] = "decide"
  /\ \E t \in OverCap(c) :
       /\ IsFirst(t, OverCap(c))
       /\ dying' = [dying EXCEPT ![c] = {t}]
       /\ batch' = [batch EXCEPT ![c] = @ \ {t}]
       /\ capped' = capped \cup {t[1]}
  /\ claimPc' = [claimPc EXCEPT ![c] = "dlack"]
  /\ UNCHANGED <<server, up, reader, handler, counts, claimBuf, cursor, env,
                 called, succ>>

\* The rest of the batch goes to the buffer.
FillBuffer(c) ==
  /\ Polling(c)
  /\ claimPc[c] = "decide"
  /\ OverCap(c) = {}
  /\ claimBuf' = [claimBuf EXCEPT ![c] = batch[c]]
  /\ batch' = [batch EXCEPT ![c] = {}]
  /\ counts' = [counts EXCEPT ![c] = {}]
  /\ claimPc' = [claimPc EXCEPT ![c] = "sleep"]
  /\ UNCHANGED <<server, up, reader, handler, dying, cursor, env, history>>

\* The server executes the XACK of handle_dead_letter.
ExecDeadAck(c) ==
  /\ claimPc[c] = "dlack"
  /\ XAck(dying[c])
  /\ UNCHANGED <<added, groupStart, groupLast, times, fresh, dlq, up, reader,
                 handler, batch, counts, claimBuf, cursor, crashes, history>>

ServeDeadAck(c) ==
  /\ ExecDeadAck(c)
  /\ claimPc' = [claimPc EXCEPT ![c] = "dlacked"]
  /\ UNCHANGED <<dying, faults>>

\* An XACK error returns from handle_dead_letter before anything is published.
DeadAckReplyLost(c) ==
  /\ ExecDeadAck(c)
  /\ SpendFault
  /\ claimPc' = [claimPc EXCEPT ![c] = "decide"]
  /\ dying' = [dying EXCEPT ![c] = {}]

\* Mutant of DeadAckFails: the entry is published although its XACK failed.
DeadAckFailureIgnored(c) ==
  /\ claimPc[c] = "dlack"
  /\ SpendFault
  /\ claimPc' = [claimPc EXCEPT ![c] = "dlacked"]
  /\ UNCHANGED <<server, up, reader, handler, batch, counts, dying, claimBuf,
                 cursor, crashes, history>>

DeadAckFails(c) ==
  /\ claimPc[c] = "dlack"
  /\ SpendFault
  /\ claimPc' = [claimPc EXCEPT ![c] = "decide"]
  /\ dying' = [dying EXCEPT ![c] = {}]
  /\ UNCHANGED <<server, up, reader, handler, batch, counts, claimBuf, cursor,
                 crashes, history>>

\* Mutant of PollDeadAcked: the dead-letter topic is not looked at.
PollDeadAckedSilent(c) ==
  /\ Polling(c)
  /\ claimPc[c] = "dlacked"
  /\ claimPc' = [claimPc EXCEPT ![c] = "decide"]
  /\ dying' = [dying EXCEPT ![c] = {}]
  /\ UNCHANGED <<server, up, reader, handler, batch, counts, claimBuf, cursor,
                 env, history>>

\* With a dead-letter topic the XADD of publish_dead_letter is sent.
PollDeadAcked(c) ==
  /\ Polling(c)
  /\ claimPc[c] = "dlacked"
  /\ claimPc' = [claimPc EXCEPT ![c] = IF HasDlq THEN "dlpub" ELSE "decide"]
  /\ dying' = [dying EXCEPT ![c] = IF HasDlq THEN @ ELSE {}]
  /\ UNCHANGED <<server, up, reader, handler, batch, counts, claimBuf, cursor,
                 env, history>>

ServeDeadLetter(c) ==
  /\ claimPc[c] = "dlpub"
  /\ dlq' = [e \in Entries |-> IF \E t \in dying[c] : t[1] = e THEN dlq[e] + 1 ELSE dlq[e]]
  /\ claimPc' = [claimPc EXCEPT ![c] = "decide"]
  /\ dying' = [dying EXCEPT ![c] = {}]
  /\ UNCHANGED <<added, groupStart, groupLast, owner, times, fresh, up, reader,
                 handler, batch, counts, claimBuf, cursor, env, history>>

\* A publish error is only logged.
DeadLetterFails(c) ==
  /\ claimPc[c] = "dlpub"
  /\ SpendFault
  /\ claimPc' = [claimPc EXCEPT ![c] = "decide"]
  /\ dying' = [dying EXCEPT ![c] = {}]
  /\ UNCHANGED <<server, up, reader, handler, batch, counts, claimBuf, cursor,
                 crashes, history>>

-----------------------------------------------------------------------------
(* Specification *)

Init ==
  /\ added \in 0..MaxEntries
  /\ groupStart = NoGroup
  /\ groupLast = 0
  /\ owner = [e \in Entries |-> Nobody]
  /\ times = [e \in Entries |-> 0]
  /\ fresh = <<>>
  /\ dlq = [e \in Entries |-> 0]
  /\ up = [c \in Consumers |-> FALSE]
  /\ readPc = [c \in Consumers |-> "idle"]
  /\ readBuf = [c \in Consumers |-> {}]
  /\ job = [c \in Consumers |-> {}]
  /\ ackDue = [c \in Consumers |-> FALSE]
  /\ \E S \in ClaimerSets :
       claimPc = [c \in Consumers |-> IF c \in S THEN "sleep" ELSE "none"]
  /\ batch = [c \in Consumers |-> {}]
  /\ counts = [c \in Consumers |-> {}]
  /\ dying = [c \in Consumers |-> {}]
  /\ claimBuf = [c \in Consumers |-> {}]
  /\ cursor = [c \in Consumers |-> 0]
  /\ faults = 0
  /\ crashes = 0
  /\ called = {}
  /\ succ = {}
  /\ capped = {}

ReadLoop(c)  == PollRead(c) \/ ServeRead(c)
ReadError(c) == ReadReplyLost(c) \/ ReadFails(c)

Handle(c)    == TakeRead(c) \/ TakeClaim(c) \/ HandlerOk(c) \/ HandlerErr(c) \/ Ack(c)

ClaimLoop(c) ==
  \/ PollScan(c) \/ ServeScan(c) \/ PollClaimed(c) \/ ServeCounts(c)
  \/ Condemn(c) \/ FillBuffer(c)
  \/ ServeDeadAck(c) \/ PollDeadAcked(c) \/ ServeDeadLetter(c)

ClaimError(c) ==
  \/ ScanReplyLost(c) \/ ScanFails(c) \/ CountsFail(c)
  \/ DeadAckReplyLost(c) \/ DeadAckFails(c) \/ DeadLetterFails(c)

Process(c) ==
  \/ Start(c) \/ Crash(c) \/ StreamsEnded(c)
  \/ ReadLoop(c) \/ ReadError(c)
  \/ Handle(c) \/ AckFails(c)
  \/ ClaimLoop(c) \/ ClaimError(c)

Next == XAdd \/ Age \/ \E c \in Consumers : Process(c)

Spec == Init /\ [][Next]_vars

\* Time passes, Redis answers, handlers return, a stopped process is started
\* again, and select polls both loops whenever the service loop waits.
Fairness ==
  /\ WF_vars(Age)
  /\ \A c \in Consumers :
       /\ WF_vars(Start(c))
       /\ WF_vars(ReadLoop(c))
       /\ WF_vars(Handle(c))
       /\ WF_vars(ClaimLoop(c))

FairSpec == Spec /\ Fairness

-----------------------------------------------------------------------------
(* Properties *)

\* Deliveries held in the memory of c that the handler has not been given.
Waiting(c) == readBuf[c] \cup claimBuf[c] \cup batch[c]

Delivered(e) == times[e] > 0

\* No entry is lost silently: an entry the group was given leaves the pending
\* list only after a handler call for it returned Ok (service.rs:263) or after
\* the delivery cap was found exceeded (redis.rs:777), whatever fails.
NoSilentLoss ==
  \A e \in Entries : Delivered(e) /\ owner[e] = Nobody => e \in succ \/ e \in capped

\* The cap decision, taken from a count read earlier and outside any lock
\* (redis.rs:778), never condemns an entry that was delivered MaxDeliveries
\* times or less, and only a condemned entry reaches the dead-letter stream.
DeadLetterOverCap ==
  /\ \A e \in capped : HasCap /\ times[e] > MaxDeliveries
  /\ \A e \in Entries : dlq[e] > 0 => e \in capped /\ owner[e] = Nobody

\* A delivery reaches the handler at most once, although the two loops and all
\* consumers hold buffers of overlapping entries (redis.rs:640, 709).
OneCallPerDelivery ==
  /\ \A c \in Consumers : Waiting(c) \cap called = {}
  /\ \A c, d \in Consumers : c # d => Waiting(c) \cap Waiting(d) = {}
  /\ \A c \in Consumers : readBuf[c] \cap (claimBuf[c] \cup batch[c]) = {}

\* One consumer whose commands do not fail and whose process is lost at most
\* once: an entry its cap rules out is given to the handler only when an earlier
\* call for it has succeeded meanwhile, so that XPENDING no longer knows it
\* (redis.rs:769-791). A second loss can leave so many entries above the cap that
\* they use up the COUNT of the next XPENDING (redis.rs:829), and so can a pending
\* list longer than what one XAUTOCLAIM looks at. It takes ids that are claimed
\* together in byte order: CallsWithinCap is about others.
CapHolds ==
  faults = 0 /\ crashes <= 1 =>
    \A t \in called : HasCap /\ t[2] > MaxDeliveries => t[1] \in succ

\* While no command fails and no process is lost, a condemned entry is in the
\* dead-letter stream or on its way there (redis.rs:873-925).
DeadLetterComplete ==
  faults = 0 /\ crashes = 0 =>
    \A e \in capped : dlq[e] > 0 \/ \E c \in Consumers : e \in EntriesOf(dying[c])

\* One consumer never writes two dead letters for an entry: the XACK that
\* precedes the XADD takes the entry out of reach of later scans.
DeadLetterOnce == \A e \in Entries : dlq[e] <= 1

\* First deliveries are handled in stream order by a single consumer, across
\* reclaimed entries handled in between and restarts (redis.rs:679, 641).
FirstCallsInOrder ==
  [][\A t \in called' \ called :
        t[2] = 1 => \A s \in called : s[2] = 1 => s[1] < t[1]]_vars

\* Without a claim loop in the group nothing is delivered twice, and an entry whose
\* call failed or was cut off stays pending (redis.rs:257-261).
SingleAttempt ==
  (\A c \in Consumers : claimPc[c] = "none") =>
    /\ \A s, t \in called : s[1] = t[1] => s = t
    /\ \A e \in Entries : Delivered(e) /\ e \notin succ => owner[e] # Nobody

\* The abstract state of an entry.
EntryStatus ==
  [e \in Entries |-> IF times[e] = 0 THEN "new"
                     ELSE IF owner[e] = Nobody THEN "settled" ELSE "pending"]

Promise == INSTANCE EntryPromise
             WITH status <- EntryStatus, ok <- succ, over <- capped, dead <- dlq

\* The group route implements EntryPromise: no interleaving of loops, peers,
\* failures and crashes revives a settled entry, settles one early, or writes a
\* dead letter for one that is still pending (redis.rs:705-926).
ImplementsPromise == Promise!Spec

\* Every pending entry of a group with a claim loop, a cap and complete counts
\* eventually leaves the pending list, though its handler always fails.
PendingSettles ==
  \A e \in Entries : owner[e] # Nobody ~> owner[e] = Nobody

\* What examples/redis_streams.rs:64-66 says: the dead letter is published,
\* then the original entry is acknowledged.
PublishedBeforeAck ==
  \A e \in Entries :
    Delivered(e) /\ owner[e] = Nobody /\ e \notin succ => dlq[e] > 0

\* What redis.rs:150 says of max_deliveries: a cap on the total number of times
\* an entry may be delivered to the handler.
CallsWithinCap ==
  HasCap => \A e \in Entries :
    e \notin succ => Cardinality({t \in called : t[1] = e}) <= MaxDeliveries

-----------------------------------------------------------------------------
(* The inductive invariant behind the safety properties *)

\* Consumers read a group that exists, and an entry past its last-delivered-id
\* was never delivered.
Undealt ==
  /\ groupStart = NoGroup => groupLast = 0
  /\ \A c \in Consumers : up[c] \/ readPc[c] = "sent" => groupStart # NoGroup
  /\ \A e \in Entries : e > groupLast => times[e] = 0
  /\ \A e \in Entries : times[e] = 0 => owner[e] = Nobody

\* Every delivery in some memory is one the server has counted.
Issued(T) == \A t \in T : 1 <= t[2] /\ t[2] <= times[t[1]]

AllIssued ==
  /\ Issued(called)
  /\ \A c \in Consumers :
       /\ Issued(readBuf[c]) /\ Issued(claimBuf[c]) /\ Issued(batch[c])
       /\ Issued(job[c]) /\ Issued(dying[c])

CountsBehind == \A c \in Consumers : \A k \in counts[c] : k[2] <= times[k[1]]

ClaimsApart == \A c \in Consumers : claimBuf[c] \cap batch[c] = {}

\* One message is handled and one entry dead-lettered at a time.
OneAtATime ==
  \A c \in Consumers :
    /\ \A s, t \in job[c] : s = t
    /\ \A s, t \in dying[c] : s = t

AckedAfterSuccess ==
  \A c \in Consumers : ackDue[c] => job[c] # {} /\ \A t \in job[c] : t[1] \in succ

DyingCondemned ==
  \A c \in Consumers : \A t \in dying[c] :
    /\ t[1] \in capped
    /\ claimPc[c] \in {"dlacked", "dlpub"} => owner[t[1]] = Nobody

\* The deliveries in the memories, the pending list, and the cap decisions.
MemoryInv == AllIssued /\ ClaimsApart /\ OneAtATime /\ OneCallPerDelivery
LedgerInv == Undealt /\ AckedAfterSuccess /\ NoSilentLoss
CapInv    == CountsBehind /\ DyingCondemned /\ DeadLetterOverCap

IndInv == TypeOK /\ MemoryInv /\ LedgerInv /\ CapInv

=============================================================================
