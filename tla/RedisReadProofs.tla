--------------------------- MODULE RedisReadProofs ---------------------------
(***************************************************************************)
(* Proofs about RedisRead, for any COUNT, any number of entries and        *)
(* crashes and every configuration of the route.                           *)
(***************************************************************************)
EXTENDS RedisRead, SequenceTheorems, TLAPS

USE ReadAssumption

-----------------------------------------------------------------------------
(* The reply and the buffer *)

\* Reversing a sequence keeps its length and its elements.
LEMMA Reversed ==
  ASSUME NEW S, NEW r \in Seq(S)
  PROVE  /\ Reverse(r) \in Seq(S)
         /\ Len(Reverse(r)) = Len(r)
         /\ \A i \in 1..Len(r) : Reverse(r)[i] = r[Len(r) - i + 1]
BY DEF Reverse

\* What TakeNext leaves in the buffer.
LEMMA FrontOf ==
  ASSUME NEW S, NEW q \in Seq(S), q # <<>>
  PROVE  /\ Len(q) \in Nat /\ Len(q) >= 1 /\ q[Len(q)] \in S
         /\ SubSeq(q, 1, Len(q) - 1) \in Seq(S)
         /\ Len(SubSeq(q, 1, Len(q) - 1)) = Len(q) - 1
         /\ \A i \in 1..(Len(q) - 1) : SubSeq(q, 1, Len(q) - 1)[i] = q[i]
<1>1. Len(q) \in Nat /\ Len(q) >= 1
  OBVIOUS
<1>2. \A i \in 1..(Len(q) - 1) : q[i] \in S
  BY <1>1
<1>3. Len(q) - 1 \in Int /\ 1 \in Int
  BY <1>1
<1>4. /\ SubSeq(q, 1, Len(q) - 1) \in Seq(S)
      /\ Len(SubSeq(q, 1, Len(q) - 1)) = (IF 1 <= Len(q) - 1 THEN Len(q) - 1 - 1 + 1 ELSE 0)
      /\ \A i \in 1..(Len(q) - 1 - 1 + 1) : SubSeq(q, 1, Len(q) - 1)[i] = q[1 + i - 1]
  BY <1>2, <1>3, SubSeqProperties
<1>5. Len(SubSeq(q, 1, Len(q) - 1)) = Len(q) - 1
  <2>1. CASE Len(q) = 1
    BY <1>4, <2>1
  <2>2. CASE Len(q) > 1
    <3>1. 1 <= Len(q) - 1 /\ Len(q) - 1 - 1 + 1 = Len(q) - 1
      BY <1>1, <2>2
    <3> QED BY <1>4, <3>1
  <2>3. \A n \in Nat : n >= 1 => n = 1 \/ n > 1
    OBVIOUS
  <2> QED BY <1>1, <2>1, <2>2, <2>3
<1>6. \A i \in 1..(Len(q) - 1) : SubSeq(q, 1, Len(q) - 1)[i] = q[i]
  <2> SUFFICES ASSUME NEW i \in 1..(Len(q) - 1)
               PROVE  SubSeq(q, 1, Len(q) - 1)[i] = q[i]
    OBVIOUS
  <2>1. i \in 1..(Len(q) - 1 - 1 + 1) /\ 1 + i - 1 = i
    BY <1>1
  <2> QED BY <1>4, <2>1
<1> QED BY <1>1, <1>4, <1>5, <1>6

\* A reply is a nonempty sequence of at most Count available entries.
LEMMA ReplyType ==
  ASSUME NEW r \in Replies
  PROVE  /\ r \in Seq(Available) /\ Len(r) \in 1..Count /\ DOMAIN r = 1..Len(r)
         /\ r \in Seq(1..len)
         /\ \A i \in 1..Len(r) : r[i] \in Available
<1>1. PICK n \in 1..Count : r \in [1..n -> Available]
  BY DEF Replies
<1>2. Available \subseteq 1..len
  BY DEF Available
<1>3. r \in Seq(Available) /\ Len(r) = n /\ DOMAIN r = 1..n
  BY <1>1
<1>4. r \in Seq(1..len)
  BY <1>2, <1>3, SeqMonotonic
<1>5. n \in 1..Count /\ \A i \in 1..n : r[i] \in Available
  BY <1>1
<1> QED BY <1>3, <1>4, <1>5

\* Without a group the reply to a read behind an id holds the entries that follow
\* it, one after the other.
LEMMA ReplyConsecutive ==
  ASSUME ~conf.group, from \in Nat, len \in Nat,
         NEW r \in Replies, IsReply(r)
  PROVE  /\ r[1] = from + 1
         /\ \A i \in 1..(Len(r) - 1) : r[i + 1] = r[i] + 1
<1>1. /\ r \in Seq(Available) /\ Len(r) \in 1..Count /\ DOMAIN r = 1..Len(r)
  BY ReplyType
<1>2. Available = (from + 1)..len
  BY DEF Available
<1>3. \A i \in 1..Len(r) : r[i] \in Int /\ r[i] > from /\ r[i] <= len
  BY <1>1, <1>2
<1>4. r[1] = from + 1
  <2>1. SUFFICES ASSUME from + 1 < r[1] PROVE FALSE
    BY <1>1, <1>3
  <2>2. from + 1 \in Available
    BY <1>1, <1>2, <1>3, <2>1
  <2>3. 1 \in DOMAIN r
    BY <1>1
  <2>4. \E j \in 1..(1 - 1) : r[j] = from + 1
    BY <2>1, <2>2, <2>3 DEF IsReply
  <2> QED BY <2>4
<1>5. ASSUME NEW i \in 1..(Len(r) - 1) PROVE r[i + 1] = r[i] + 1
  <2>1. i \in 1..Len(r) /\ i + 1 \in 1..Len(r) /\ i < i + 1
    BY <1>1
  <2>2. r[i] < r[i + 1]
    BY <1>1, <2>1 DEF IsReply
  <2>3. SUFFICES ASSUME r[i] + 1 < r[i + 1] PROVE FALSE
    BY <1>3, <2>1, <2>2
  <2>4. r[i] + 1 \in Available
    BY <1>2, <1>3, <2>1, <2>3
  <2>5. PICK j \in 1..((i + 1) - 1) : r[j] = r[i] + 1
    BY <1>1, <2>1, <2>3, <2>4 DEF IsReply
  <2>6. j \in 1..Len(r) /\ j <= i
    BY <1>1, <2>1
  <2>7. j < i => r[j] < r[i]
    BY <1>1, <2>1, <2>6 DEF IsReply
  <2> QED BY <1>3, <2>1, <2>5, <2>6, <2>7
<1> QED BY <1>4, <1>5

-----------------------------------------------------------------------------
(* Type correctness *)

LEMMA TypeInit == Init => TypeOK
<1> SUFFICES ASSUME Init PROVE TypeOK
  OBVIOUS
<1>1. <<>> \in Seq(1..len) /\ Len(<<>>) <= Count
  OBVIOUS
<1> QED BY <1>1 DEF Init, TypeOK, Dollar, Idle

LEMMA TypeStep == TypeOK /\ [Next]_vars => TypeOK'
<1> SUFFICES ASSUME TypeOK, [Next]_vars PROVE TypeOK'
  OBVIOUS
<1> USE DEF TypeOK, Reading
<1>0. <<>> \in Seq(1..len) /\ Len(<<>>) <= Count
  OBVIOUS
<1>1. CASE Arrive
  BY <1>1 DEF Arrive, server, Dollar
<1>2. CASE AnswerEntries
  <2>1. PICK r \in Replies : IsReply(r) /\ reply' = r
    BY <1>2 DEF AnswerEntries
  <2>2. reply' \in Seq(1..len) /\ Len(reply') <= Count
    BY <2>1, ReplyType
  <2> QED BY <1>2, <2>2 DEF AnswerEntries, server
<1>3. CASE AnswerNone
  BY <1>3 DEF AnswerNone, server, state
<1>4. CASE Add
  <2>1. len' \in 0..MaxEntries /\ 1..len \subseteq 1..len'
    BY <1>4 DEF Add
  <2>2. /\ buf' \in Seq(1..len') /\ Len(buf') <= Count
        /\ reply' \in Seq(1..len') /\ Len(reply') <= Count
    BY <1>4, <2>1 DEF Add, state
  <2> QED BY <1>4, <2>1, <2>2 DEF Add, state
<1>5. CASE ClaimedAway
  BY <1>5 DEF ClaimedAway, state
<1>6. CASE ClaimedHere
  BY <1>6 DEF ClaimedHere, state
<1>7. CASE SettledElsewhere
  BY <1>7 DEF SettledElsewhere, state
<1>8. CASE Start
  BY <1>8 DEF Start, server
<1>9. CASE PollRead
  BY <1>9 DEF PollRead, server
<1>10. CASE Receive
  <2>1. /\ Reverse(reply) \in Seq(1..len) /\ Len(Reverse(reply)) = Len(reply)
    BY Reversed
  <2>2. lastId' \in Nat \cup {Dollar}
    BY <1>10 DEF Receive
  <2> QED BY <1>0, <1>10, <2>1, <2>2 DEF Receive, server
<1>11. CASE ReadFails
  BY <1>0, <1>11 DEF ReadFails, server
<1>12. CASE TakeNext
  <2>1. buf # <<>> /\ buf \in Seq(1..len)
    BY <1>12 DEF TakeNext
  <2>2. buf[Len(buf)] \in 1..len
    BY <2>1, FrontOf
  <2>3. buf' \in Seq(1..len) /\ Len(buf') <= Count
    BY <1>12, <2>1, FrontOf DEF TakeNext
  <2> QED BY <1>12, <2>2, <2>3 DEF TakeNext, server
<1>13. CASE TakeOther
  BY <1>13 DEF TakeOther, server, state
<1>14. CASE HandledAndAcked
  BY <1>14 DEF HandledAndAcked, state, Entries, Idle, Other
<1>15. CASE Handled
  BY <1>15 DEF Handled, server, state
<1>16. CASE Crash
  BY <1>0, <1>16 DEF Crash, server, Dollar, Idle
<1>17. CASE UNCHANGED vars
  BY <1>17 DEF vars, server, state
<1> QED
  BY <1>1, <1>2, <1>3, <1>4, <1>5, <1>6, <1>7, <1>8, <1>9, <1>10, <1>11, <1>12, <1>13,
     <1>14, <1>15, <1>16, <1>17 DEF Next

\* Every variable of the read loop keeps its type; neither a reply nor the buffer
\* ever holds more than Count entries.
THEOREM TypeCorrect == Spec => []TypeOK
BY TypeInit, TypeStep, PTL DEF Spec

\* What TakeNext does to the buffer.
LEMMA Popped ==
  ASSUME TypeOK, TakeNext
  PROVE  /\ Len(buf) \in Nat /\ Len(buf) >= 1 /\ Len(buf) \in 1..Len(buf)
         /\ buf # <<>> /\ job' = buf[Len(buf)] /\ last' = buf[Len(buf)]
         /\ buf' \in Seq(1..len) /\ Len(buf') = Len(buf) - 1
         /\ \A i \in 1..Len(buf') :
              i \in 1..Len(buf) /\ i # Len(buf) /\ buf'[i] = buf[i]
<1>1. buf # <<>> /\ buf \in Seq(1..len)
  BY DEF TypeOK, TakeNext
<1>2. Len(buf) \in Nat /\ Len(buf) >= 1
  BY <1>1
<1>3. buf' = SubSeq(buf, 1, Len(buf) - 1) /\ job' = buf[Len(buf)] /\ last' = buf[Len(buf)]
  BY DEF TakeNext
<1>4. /\ buf' \in Seq(1..len) /\ Len(buf') = Len(buf) - 1
      /\ \A i \in 1..(Len(buf) - 1) : buf'[i] = buf[i]
  BY <1>1, <1>3, FrontOf
<1> QED BY <1>1, <1>2, <1>3, <1>4

\* What Receive puts in the buffer.
LEMMA Received ==
  ASSUME TypeOK, Receive
  PROVE  /\ Len(buf') = Len(reply) /\ Len(reply) \in Nat /\ buf' \in Seq(1..len)
         /\ \A i \in 1..Len(reply) :
              /\ Len(reply) - i + 1 \in 1..Len(reply)
              /\ buf'[i] = reply[Len(reply) - i + 1]
              /\ buf'[i] \in Entries
<1>1. reply \in Seq(1..len) /\ Len(reply) \in Nat
  BY DEF TypeOK
<1>2. buf' = Reverse(reply)
  BY DEF Receive
<1>3. /\ buf' \in Seq(1..len) /\ Len(buf') = Len(reply)
      /\ \A i \in 1..Len(reply) : buf'[i] = reply[Len(reply) - i + 1]
  BY <1>1, <1>2, Reversed
<1>4. len \in 0..MaxEntries
  BY DEF TypeOK
<1>5. ASSUME NEW i \in 1..Len(reply)
      PROVE  Len(reply) - i + 1 \in 1..Len(reply) /\ buf'[i] \in Entries
  <2>1. Len(reply) - i + 1 \in 1..Len(reply)
    BY <1>1
  <2>2. \A k \in 1..Len(reply) : reply[k] \in 1..len
    BY <1>1, ElementOfSeq
  <2>3. buf'[i] \in 1..len
    BY <1>3, <2>1, <2>2
  <2> QED BY <1>4, <2>1, <2>3 DEF Entries
<1> QED BY <1>1, <1>3, <1>5

\* What a history read returns is pending and comes once.
LEMMA ReplyPending ==
  ASSUME conf.group, len \in Nat, NEW r \in Replies, IsReply(r)
  PROVE  /\ \A i \in 1..Len(r) : r[i] \in pel
         /\ \A i, j \in 1..Len(r) : i # j => r[i] # r[j]
<1>1. /\ Len(r) \in 1..Count /\ DOMAIN r = 1..Len(r)
      /\ \A i \in 1..Len(r) : r[i] \in Available
  BY ReplyType
<1>2. Available \subseteq pel /\ Available \subseteq 1..len
  BY DEF Available
<1>3. ASSUME NEW i \in 1..Len(r) PROVE r[i] \in pel /\ r[i] \in Int
  <2>1. r[i] \in Available
    BY <1>1
  <2>2. r[i] \in pel /\ r[i] \in 1..len
    BY <1>2, <2>1
  <2> QED BY <2>2
<1>4. \A i, j \in 1..Len(r) : i < j => r[i] < r[j]
  BY <1>1 DEF IsReply
<1>5. \A i, j \in 1..Len(r) : i # j => i < j \/ j < i
  BY <1>1
<1>6. \A i, j \in 1..Len(r) : i # j => r[i] # r[j]
  BY <1>3, <1>4, <1>5
<1> QED BY <1>3, <1>6

-----------------------------------------------------------------------------
(* Where entries can be in each phase of the loop *)

Phases ==
  /\ pc \in Reading \cup {"down"} => buf = <<>>
  /\ pc # "replied" => reply = <<>>
  /\ pc \in Reading => job \notin Entries
  /\ pc = "waiting" => from \in Nat
  /\ pc = "down" => last = Dollar

LEMMA PhasesInit == Init => Phases
BY DEF Init, Phases, Reading

LEMMA PhasesStep == TypeOK /\ Phases /\ [Next]_vars => Phases'
<1> SUFFICES ASSUME TypeOK, Phases, [Next]_vars PROVE Phases'
  OBVIOUS
<1> USE DEF Phases, Reading, Entries, Idle, Other
<1>1. CASE Arrive
  BY <1>1 DEF Arrive, server, TypeOK
<1>2. CASE AnswerEntries \/ AnswerNone
  BY <1>2 DEF AnswerEntries, AnswerNone, server, state
<1>3. CASE Add \/ ClaimedAway \/ ClaimedHere \/ SettledElsewhere
  BY <1>3 DEF Add, ClaimedAway, ClaimedHere, SettledElsewhere, state
<1>4. CASE Start \/ PollRead
  BY <1>4 DEF Start, PollRead, server
<1>5. CASE Receive \/ ReadFails
  BY <1>5 DEF Receive, ReadFails, server
<1>6. CASE TakeNext
  BY <1>6 DEF TakeNext, server
<1>7. CASE TakeOther
  BY <1>7 DEF TakeOther, server, state
<1>8. CASE HandledAndAcked \/ Handled
  BY <1>8 DEF HandledAndAcked, Handled, server, state
<1>9. CASE Crash
  BY <1>9 DEF Crash, server
<1>10. CASE UNCHANGED vars
  BY <1>10 DEF vars, server, state
<1> QED
  BY <1>1, <1>2, <1>3, <1>4, <1>5, <1>6, <1>7, <1>8, <1>9, <1>10 DEF Next

-----------------------------------------------------------------------------
(* Consecutive: the position is the last entry of the buffer, the buffer is     *)
(* consecutive, what comes next follows what was handed over last, and a reply  *)
(* on its way back follows the id that was sent.                                *)

Position ==
  ~conf.group =>
    /\ buf # <<>> => lastId = buf[1]
    /\ \A i \in 1..(Len(buf) - 1) : buf[i] = buf[i + 1] + 1
    /\ pc \in Reading /\ lastId # Dollar => from = lastId
    /\ last # Dollar /\ buf = <<>> => lastId = last
    /\ last # Dollar /\ buf # <<>> => buf[Len(buf)] = last + 1
    /\ reply # <<>> => reply[1] = from + 1
    /\ \A i \in 1..(Len(reply) - 1) : reply[i + 1] = reply[i] + 1

LEMMA PositionInit == Init => Position
BY DEF Init, Position, Reading

LEMMA PositionStep == TypeOK /\ Phases /\ Position /\ [Next]_vars => Position'
<1> SUFFICES ASSUME TypeOK, Phases, Position, [Next]_vars, ~conf.group PROVE Position'
  BY DEF Position, Next, vars, Arrive, AnswerEntries, AnswerNone, Add, ClaimedAway,
         ClaimedHere, SettledElsewhere, Start, PollRead, Receive, ReadFails,
         TakeNext, TakeOther, HandledAndAcked, Handled, Crash
<1> USE DEF TypeOK, Position
<1>1. CASE Arrive
  BY <1>1 DEF Arrive, server, Reading, Phases
<1>2. CASE AnswerEntries
  <2>1. PICK r \in Replies : IsReply(r) /\ reply' = r
    BY <1>2 DEF AnswerEntries
  <2>2. from \in Nat
    BY <1>2 DEF AnswerEntries, Phases
  <2>3. /\ r[1] = from + 1
        /\ \A i \in 1..(Len(r) - 1) : r[i + 1] = r[i] + 1
    BY <2>1, <2>2, ReplyConsecutive
  <2> QED BY <1>2, <2>1, <2>3 DEF AnswerEntries, server, Reading
<1>3. CASE AnswerNone
  BY <1>3 DEF AnswerNone, server, state, Reading
<1>4. CASE Add \/ ClaimedAway \/ ClaimedHere \/ SettledElsewhere
  BY <1>4 DEF Add, ClaimedAway, ClaimedHere, SettledElsewhere, state
<1>5. CASE Start
  BY <1>5 DEF Start, server, Phases, Reading
<1>6. CASE PollRead
  BY <1>6 DEF PollRead, server, Phases, Reading
<1>7. CASE Receive
  <2>0. /\ pc = "replied" /\ buf' = Reverse(reply) /\ reply' = <<>> /\ pc' = "idle"
        /\ lastId' = (IF reply = <<>> THEN lastId ELSE reply[Len(reply)])
        /\ last' = last /\ conf' = conf /\ from' = from
    BY <1>7 DEF Receive, server
  <2>1. /\ Len(buf') = Len(reply) /\ buf' \in Seq(1..len)
        /\ \A i \in 1..Len(reply) : buf'[i] = reply[Len(reply) - i + 1]
    BY <2>0, Reversed
  <2>2. buf = <<>>
    BY <2>0 DEF Phases, Reading
  <2>3. CASE reply = <<>>
    <3>1. buf' = <<>>
      BY <2>1, <2>3
    <3> QED BY <2>0, <2>2, <2>3, <3>1 DEF Reading
  <2>4. CASE reply # <<>>
    <3>1. Len(reply) \in Nat /\ Len(reply) >= 1
      BY <2>4
    <3>2. buf' # <<>> /\ buf'[1] = lastId'
      BY <2>0, <2>1, <2>4, <3>1
    <3>3. buf'[Len(buf')] = from + 1
      <4>1. Len(reply) \in 1..Len(reply) /\ Len(reply) - Len(reply) + 1 = 1
        BY <3>1
      <4>2. buf'[Len(buf')] = reply[1]
        BY <2>1, <4>1
      <4> QED BY <2>4, <4>2
    <3>4. ASSUME NEW i \in 1..(Len(buf') - 1) PROVE buf'[i] = buf'[i + 1] + 1
      <4> DEFINE j == Len(reply) - i
      <4>1. j \in 1..(Len(reply) - 1) /\ i \in 1..Len(reply) /\ i + 1 \in 1..Len(reply)
        BY <2>1, <3>1
      <4>2. buf'[i] = reply[j + 1] /\ buf'[i + 1] = reply[j]
        BY <2>1, <3>1, <4>1
      <4> QED BY <4>1, <4>2
    <3>5. last # Dollar => from = last
      BY <2>0, <2>2 DEF Reading
    <3> QED BY <2>0, <3>2, <3>3, <3>4, <3>5 DEF Reading
  <2> QED BY <2>3, <2>4
<1>8. CASE ReadFails
  BY <1>8 DEF ReadFails, server, Reading
<1>9. CASE TakeNext
  <2>1. Len(buf) \in Nat /\ Len(buf) >= 1 /\ buf # <<>> /\ buf \in Seq(1..len)
    BY <1>9 DEF TakeNext
  <2>2. /\ last' = buf[Len(buf)] /\ lastId' = lastId
        /\ buf' = SubSeq(buf, 1, Len(buf) - 1) /\ pc' = "idle" /\ conf' = conf
        /\ reply' = reply /\ from' = from /\ "idle" \notin Reading
    BY <1>9 DEF TakeNext, Reading
  <2>3. /\ buf' \in Seq(1..len) /\ Len(buf') = Len(buf) - 1
        /\ \A i \in 1..Len(buf') : buf'[i] = buf[i]
    BY <1>9, Popped
  <2>4. ASSUME NEW i \in 1..(Len(buf') - 1) PROVE buf'[i] = buf'[i + 1] + 1
    <3>1. i \in 1..Len(buf') /\ i + 1 \in 1..Len(buf') /\ i \in 1..(Len(buf) - 1)
      BY <2>1, <2>3
    <3> QED BY <2>3, <3>1
  <2>5. CASE Len(buf) = 1
    <3>1. buf' = <<>> /\ lastId' = last'
      BY <2>1, <2>2, <2>3, <2>5
    <3> QED BY <2>2, <2>4, <3>1
  <2>6. CASE Len(buf) > 1
    <3>1. Len(buf') \in 1..(Len(buf) - 1) /\ Len(buf') + 1 = Len(buf)
      BY <2>1, <2>3, <2>6
    <3>2. Len(buf') \in 1..Len(buf') /\ 1 \in 1..Len(buf') /\ buf' # <<>>
      BY <2>3, <3>1
    <3>3. buf'[Len(buf')] = buf[Len(buf')] /\ buf'[1] = buf[1]
      BY <2>3, <3>2
    <3>4. buf[Len(buf')] = buf[Len(buf)] + 1
      BY <3>1
    <3> QED BY <2>1, <2>2, <2>4, <3>2, <3>3, <3>4
  <2>7. \A n \in Nat : n >= 1 => n = 1 \/ n > 1
    OBVIOUS
  <2> QED BY <2>1, <2>5, <2>6, <2>7
<1>10. CASE TakeOther
  BY <1>10 DEF TakeOther, server, state
<1>11. CASE HandledAndAcked \/ Handled
  BY <1>11 DEF HandledAndAcked, Handled, server, state
<1>12. CASE Crash
  BY <1>12 DEF Crash, server, Reading
<1>13. CASE UNCHANGED vars
  BY <1>13 DEF vars, server, state
<1> QED
  BY <1>1, <1>2, <1>3, <1>4, <1>5, <1>6, <1>7, <1>8, <1>9, <1>10, <1>11, <1>12,
     <1>13 DEF Next

\* What changes job to an entry is TakeNext, and its buffer starts behind last.
LEMMA ConsecutiveStep ==
  ASSUME TypeOK, Position, [Next]_vars
  PROVE  [job' # job /\ job' \in Entries /\ ~conf.group
            => last = Dollar \/ job' = last + 1]_vars
<1> SUFFICES ASSUME job' # job, job' \in Entries, ~conf.group
             PROVE  last = Dollar \/ job' = last + 1
  OBVIOUS
<1>1. TakeNext
  BY DEF Next, vars, server, state, Arrive, AnswerEntries, AnswerNone, Add, ClaimedAway,
         ClaimedHere, SettledElsewhere, Start, PollRead, Receive, ReadFails,
         TakeOther, HandledAndAcked, Handled, Crash, Entries, Idle, Other
<1> QED BY <1>1 DEF TakeNext, Position

\* An ephemeral route hands over the entries of the stream one after the other, none
\* twice and none left out, whatever arrives, times out or is handled in between.
THEOREM EphemeralConsecutive == Spec => Consecutive
<1>1. TypeOK /\ Phases /\ Position /\ [Next]_vars => (TypeOK /\ Phases /\ Position)'
  BY TypeStep, PhasesStep, PositionStep
<1>2. TypeOK /\ Position /\ [Next]_vars
        => [job' # job /\ job' \in Entries /\ ~conf.group
              => last = Dollar \/ job' = last + 1]_vars
  BY ConsecutiveStep
<1> QED
  BY <1>1, <1>2, TypeInit, PhasesInit, PositionInit, PTL DEF Spec, Consecutive

-----------------------------------------------------------------------------
(* CallsOnlyPending: an entry is in one place of the read loop at a time, what   *)
(* the route acknowledged is in none of them, and without claims all of them are *)
(* pending.                                                                      *)

\* An entry the route may still hand over.
Live(e) == e \notin acked /\ (~conf.claims => e \in pel)

Fresh ==
  conf.group =>
    /\ pel \cap acked = {}
    /\ \A i \in 1..Len(reply) : Live(reply[i])
    /\ \A i, j \in 1..Len(reply) : i # j => reply[i] # reply[j]
    /\ \A i \in 1..Len(buf) : Live(buf[i]) /\ buf[i] # job
    /\ \A i, j \in 1..Len(buf) : i # j => buf[i] # buf[j]
    /\ job \in Entries => Live(job)

LEMMA FreshInit == Init => Fresh
BY DEF Init, Fresh, Entries, Idle

LEMMA FreshStep == TypeOK /\ Phases /\ Fresh /\ [Next]_vars => Fresh'
<1> SUFFICES ASSUME TypeOK, Phases, Fresh, [Next]_vars, conf.group PROVE Fresh'
  BY DEF Fresh, Next, vars, Arrive, AnswerEntries, AnswerNone, Add, ClaimedAway,
         ClaimedHere, SettledElsewhere, Start, PollRead, Receive, ReadFails,
         TakeNext, TakeOther, HandledAndAcked, Handled, Crash
<1> USE DEF TypeOK, Fresh, Live
<1>1. CASE Arrive
  BY <1>1 DEF Arrive, server
<1>2. CASE AnswerEntries
  <2>1. PICK r \in Replies : IsReply(r) /\ reply' = r
    BY <1>2 DEF AnswerEntries
  <2>2. /\ \A i \in 1..Len(r) : r[i] \in pel
        /\ \A i, j \in 1..Len(r) : i # j => r[i] # r[j]
    BY <2>1, ReplyPending
  <2>3. \A i \in 1..Len(r) : Live(r[i])
    BY <2>2
  <2>4. /\ pel' = pel /\ acked' = acked /\ buf' = buf /\ job' = job /\ conf' = conf
    BY <1>2 DEF AnswerEntries, server
  <2> QED BY <2>1, <2>2, <2>3, <2>4
<1>3. CASE AnswerNone
  BY <1>3 DEF AnswerNone, server, state
<1>4. CASE Add
  BY <1>4 DEF Add, state
<1>5. CASE ClaimedAway
  BY <1>5 DEF ClaimedAway, state
<1>6. CASE ClaimedHere
  BY <1>6 DEF ClaimedHere, state
<1>7. CASE SettledElsewhere
  BY <1>7 DEF SettledElsewhere, state
<1>8. CASE Start
  BY <1>8 DEF Start, server
<1>9. CASE PollRead
  BY <1>9 DEF PollRead, server
<1>10. CASE Receive
  <2>1. /\ buf' = Reverse(reply) /\ reply' = <<>> /\ pc = "replied"
        /\ pel' = pel /\ acked' = acked /\ job' = job /\ conf' = conf
    BY <1>10 DEF Receive, server
  <2>2. /\ Len(buf') = Len(reply) /\ Len(reply) \in Nat
        /\ \A i \in 1..Len(reply) :
             /\ Len(reply) - i + 1 \in 1..Len(reply)
             /\ buf'[i] = reply[Len(reply) - i + 1]
             /\ buf'[i] \in Entries
    BY <1>10, Received
  <2>3. job \notin Entries
    BY <2>1 DEF Phases, Reading
  <2>4. \A i \in 1..Len(buf') : Live(buf'[i]) /\ buf'[i] # job
    BY <2>2, <2>3
  <2>5. ASSUME NEW i \in 1..Len(buf'), NEW j \in 1..Len(buf'), i # j
        PROVE  buf'[i] # buf'[j]
    <3> DEFINE k == Len(reply) - i + 1
               l == Len(reply) - j + 1
    <3>1. k \in 1..Len(reply) /\ l \in 1..Len(reply) /\ k # l
      BY <2>2, <2>5
    <3>2. buf'[i] = reply[k] /\ buf'[j] = reply[l]
      BY <2>2
    <3> QED BY <3>1, <3>2
  <2> QED BY <2>1, <2>3, <2>4, <2>5
<1>11. CASE ReadFails
  BY <1>11 DEF ReadFails, server
<1>12. CASE TakeNext
  <2>1. /\ Len(buf) \in 1..Len(buf) /\ job' = buf[Len(buf)]
        /\ \A i \in 1..Len(buf') :
             i \in 1..Len(buf) /\ i # Len(buf) /\ buf'[i] = buf[i]
    BY <1>12, Popped
  <2>2. pel' = pel /\ acked' = acked /\ conf' = conf /\ reply' = reply
    BY <1>12 DEF TakeNext, server
  <2>3. \A i \in 1..Len(buf') : Live(buf'[i]) /\ buf'[i] # job'
    BY <2>1
  <2>4. \A i, j \in 1..Len(buf') : i # j => buf'[i] # buf'[j]
    BY <2>1
  <2>5. Live(job')
    BY <2>1
  <2> QED BY <2>2, <2>3, <2>4, <2>5
<1>13. CASE TakeOther
  BY <1>13 DEF TakeOther, server, state, Entries, Other
<1>14. CASE HandledAndAcked
  <2>1. /\ job \in Entries /\ job' = 0 /\ pel' = pel \ {job} /\ acked' = acked \cup {job}
        /\ buf' = buf /\ reply' = reply /\ conf' = conf
    BY <1>14 DEF HandledAndAcked, state, Idle
  <2>2. reply = <<>>
    BY <2>1 DEF Phases, Reading
  <2>3. \A i \in 1..Len(buf) : buf[i] # 0
    OBVIOUS
  <2>4. \A i \in 1..Len(buf) : /\ buf[i] \notin acked'
                               /\ ~conf'.claims => buf[i] \in pel'
    BY <2>1
  <2>5. 0 \notin Entries /\ pel' \cap acked' = {} /\ Len(reply) = 0
    BY <2>1, <2>2 DEF Entries
  <2> QED BY <2>1, <2>3, <2>4, <2>5
<1>15. CASE Handled
  BY <1>15 DEF Handled, server, state, Entries, Idle
<1>16. CASE Crash
  BY <1>16 DEF Crash, server, Entries, Idle
<1>17. CASE UNCHANGED vars
  BY <1>17 DEF vars, server, state
<1> QED
  BY <1>1, <1>2, <1>3, <1>4, <1>5, <1>6, <1>7, <1>8, <1>9, <1>10, <1>11, <1>12, <1>13,
     <1>14, <1>15, <1>16, <1>17 DEF Next

\* A route that reads its history never calls the handler for an entry that it has
\* acknowledged, whatever the group claims and settles meanwhile, for any number of
\* pending entries and any COUNT; and without claims only for pending entries.
THEOREM HistoryCallsPending == Spec => []CallsOnlyPending
<1>1. TypeOK /\ Phases /\ Fresh /\ [Next]_vars => (TypeOK /\ Phases /\ Fresh)'
  BY TypeStep, PhasesStep, FreshStep
<1>2. Fresh => CallsOnlyPending
  BY DEF Fresh, Live, CallsOnlyPending
<1> QED BY <1>1, <1>2, TypeInit, PhasesInit, FreshInit, PTL DEF Spec

=============================================================================
