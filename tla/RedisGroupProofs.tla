-------------------------- MODULE RedisGroupProofs --------------------------
(***************************************************************************)
(* Proofs about consumer-group routes, for every number of consumers,      *)
(* entries, deliveries, failures and crashes.                              *)
(***************************************************************************)
EXTENDS RedisGroup, TLAPS

\* FirstK selects from its argument.
LEMMA FirstKSubset == ASSUME NEW S, NEW k PROVE FirstK(S, k) \subseteq S
BY DEF FirstK

\* A token is an entry and a delivery number.
LEMMA TokenParts ==
  /\ \A t \in Tokens : t[1] \in Entries /\ t[2] \in Nat
  /\ \A e \in Entries, n \in Nat : <<e, n>> \in Tokens
  /\ \A T \in SUBSET Tokens : EntriesOf(T) \subseteq Entries
BY DEF Tokens, EntriesOf

\* What XREADGROUP and XAUTOCLAIM hand out are entries of the stream.
LEMMA HandedOutEntries ==
  ASSUME TypeOK, NEW c \in Consumers
  PROVE  /\ Undelivered \subseteq Entries
         /\ Claimable(c) \subseteq Entries
         /\ Claimable(c) \subseteq Pending
<1>1. Claimable(c) \subseteq Idle
  BY FirstKSubset DEF Claimable
<1> QED
  BY <1>1 DEF Undelivered, Idle, Pending

\* The effect of a delivery on the pending list keeps the types.
LEMMA DeliverType ==
  ASSUME TypeOK, ConstantsAssumption, NEW c \in Consumers, NEW E \in SUBSET Entries,
         Deliver(E, c)
  PROVE  /\ owner' \in [Entries -> Consumers \cup {Nobody}]
         /\ times' \in [Entries -> Nat]
         /\ fresh' \in Seq(SUBSET Entries)
         /\ DeliveredTokens(E) \in SUBSET Tokens
BY DEF TypeOK, Deliver, DeliveredTokens, Tokens

\* The initial state has the types.
LEMMA TypeInit == ConstantsAssumption /\ Init => TypeOK
BY DEF ConstantsAssumption, Init, TypeOK, NoGroup, ReadPcs, ClaimPcs

\* Every step keeps every variable in its type.
LEMMA TypeNext == ConstantsAssumption /\ TypeOK /\ [Next]_vars => TypeOK'
<1> SUFFICES ASSUME ConstantsAssumption, TypeOK, [Next]_vars PROVE TypeOK'
  OBVIOUS
<1> USE DEF ConstantsAssumption, reader, handler, env, history
<1>1. CASE XAdd
  BY <1>1 DEF XAdd, TypeOK, claimer
<1>2. CASE Age
  BY <1>2 DEF Age, TypeOK, claimer
<1>3. ASSUME NEW c \in Consumers, Process(c) PROVE TypeOK'
  <2>1. CASE Start(c)
    BY <2>1 DEF Start, TypeOK, claimer
  <2>2. CASE Crash(c)
    BY <2>2 DEF Crash, Forget, TypeOK, server, ReadPcs, ClaimPcs
  <2>3. CASE StreamsEnded(c)
    BY <2>3 DEF StreamsEnded, Forget, TypeOK, server, ReadPcs, ClaimPcs
  <2>4. CASE PollRead(c)
    BY <2>4 DEF PollRead, TypeOK, server, claimer, ReadPcs
  <2>5. CASE ServeRead(c)
    <3>1. Undelivered \in SUBSET Entries /\ Deliver(Undelivered, c)
      BY <2>5, HandedOutEntries DEF ServeRead, ExecRead
    <3>2. /\ owner' \in [Entries -> Consumers \cup {Nobody}]
          /\ times' \in [Entries -> Nat] /\ fresh' \in Seq(SUBSET Entries)
          /\ DeliveredTokens(Undelivered) \in SUBSET Tokens
      BY <3>1, DeliverType
    <3>3. groupLast' \in 0..MaxEntries
      BY <2>5 DEF ServeRead, ExecRead, Undelivered, TypeOK
    <3> QED
      BY <2>5, <3>2, <3>3 DEF ServeRead, ExecRead, TypeOK, claimer, ReadPcs
  <2>6. CASE ReadReplyLost(c)
    <3>1. Undelivered \in SUBSET Entries /\ Deliver(Undelivered, c)
      BY <2>6, HandedOutEntries DEF ReadReplyLost, ExecRead
    <3>2. /\ owner' \in [Entries -> Consumers \cup {Nobody}]
          /\ times' \in [Entries -> Nat] /\ fresh' \in Seq(SUBSET Entries)
          /\ DeliveredTokens(Undelivered) \in SUBSET Tokens
      BY <3>1, DeliverType
    <3>3. groupLast' \in 0..MaxEntries
      BY <2>6 DEF ReadReplyLost, ExecRead, Undelivered, TypeOK
    <3> QED
      BY <2>6, <3>2, <3>3 DEF ReadReplyLost, ExecRead, SpendFault, TypeOK, claimer, ReadPcs
  <2>7. CASE ReadFails(c)
    BY <2>7 DEF ReadFails, SpendFault, TypeOK, server, claimer, ReadPcs
  <2>8. CASE TakeRead(c)
    BY <2>8 DEF TakeRead, TypeOK, server, claimer
  <2>9. CASE TakeClaim(c)
    BY <2>9 DEF TakeClaim, TypeOK, server
  <2>10. CASE HandlerOk(c)
    <3>1. EntriesOf(job[c]) \subseteq Entries
      BY TokenParts DEF TypeOK
    <3> QED
      BY <2>10, <3>1 DEF HandlerOk, TypeOK, server, claimer
  <2>11. CASE HandlerErr(c)
    BY <2>11 DEF HandlerErr, TypeOK, server, claimer
  <2>12. CASE Ack(c)
    BY <2>12 DEF Ack, XAck, TypeOK, claimer
  <2>13. CASE AckFails(c)
    BY <2>13 DEF AckFails, SpendFault, TypeOK, server, claimer
  <2>14. CASE PollScan(c)
    BY <2>14 DEF PollScan, TypeOK, server, ClaimPcs
  <2>15. CASE ServeScan(c)
    <3>1. Claimable(c) \in SUBSET Entries /\ Deliver(Claimable(c), c)
      BY <2>15, HandedOutEntries DEF ServeScan, ExecScan
    <3> QED
      BY <2>15, <3>1, DeliverType DEF ServeScan, ExecScan, TypeOK, ClaimPcs
  <2>16. CASE ScanReplyLost(c)
    <3>1. Claimable(c) \in SUBSET Entries /\ Deliver(Claimable(c), c)
      BY <2>16, HandedOutEntries DEF ScanReplyLost, ExecScan
    <3> QED
      BY <2>16, <3>1, DeliverType DEF ScanReplyLost, ExecScan, SpendFault, TypeOK, ClaimPcs
  <2>17. CASE ScanFails(c)
    BY <2>17 DEF ScanFails, SpendFault, TypeOK, server, ClaimPcs
  <2>18. CASE PollClaimed(c)
    BY <2>18 DEF PollClaimed, TypeOK, server, ClaimPcs
  <2>19. CASE ServeCounts(c)
    <3>1. FirstK(PendingRange(c), Cardinality(batch[c])) \subseteq Entries
      BY FirstKSubset DEF PendingRange
    <3>2. {<<e, times[e]>> : e \in FirstK(PendingRange(c), Cardinality(batch[c]))}
            \in SUBSET Tokens
      BY <3>1, TokenParts DEF TypeOK
    <3> QED
      BY <2>19, <3>2 DEF ServeCounts, TypeOK, server, ClaimPcs
  <2>20. CASE CountsFail(c)
    BY <2>20 DEF CountsFail, SpendFault, TypeOK, server, ClaimPcs
  <2>21. CASE Condemn(c)
    <3>1. \A t \in OverCap(c) : t \in batch[c] /\ t \in Tokens /\ t[1] \in Entries
      BY TokenParts DEF OverCap, TypeOK
    <3> QED
      BY <2>21, <3>1 DEF Condemn, TypeOK, server, ClaimPcs
  <2>22. CASE FillBuffer(c)
    BY <2>22 DEF FillBuffer, TypeOK, server, ClaimPcs
  <2>23. CASE ServeDeadAck(c)
    BY <2>23 DEF ServeDeadAck, ExecDeadAck, XAck, TypeOK, ClaimPcs
  <2>24. CASE DeadAckReplyLost(c)
    BY <2>24 DEF DeadAckReplyLost, ExecDeadAck, XAck, SpendFault, TypeOK, ClaimPcs
  <2>25. CASE DeadAckFails(c)
    BY <2>25 DEF DeadAckFails, SpendFault, TypeOK, server, ClaimPcs
  <2>26. CASE PollDeadAcked(c)
    BY <2>26 DEF PollDeadAcked, TypeOK, server, ClaimPcs
  <2>27. CASE ServeDeadLetter(c)
    BY <2>27 DEF ServeDeadLetter, TypeOK, ClaimPcs
  <2>28. CASE DeadLetterFails(c)
    BY <2>28 DEF DeadLetterFails, SpendFault, TypeOK, server, ClaimPcs
  <2> QED
    BY <1>3, <2>1, <2>2, <2>3, <2>4, <2>5, <2>6, <2>7, <2>8, <2>9, <2>10,
       <2>11, <2>12, <2>13, <2>14, <2>15, <2>16, <2>17, <2>18, <2>19, <2>20,
       <2>21, <2>22, <2>23, <2>24, <2>25, <2>26, <2>27, <2>28
    DEF Process, ReadLoop, ReadError, Handle, ClaimLoop, ClaimError
<1>4. CASE UNCHANGED vars
  BY <1>4 DEF vars, server, claimer, TypeOK
<1> QED
  BY <1>1, <1>2, <1>3, <1>4 DEF Next

\* Type correctness of the group route, whatever fails.
THEOREM TypeCorrect == Spec => []TypeOK
<1>1. Init => TypeOK
  BY ConstantsAssumption, TypeInit
<1>2. TypeOK /\ [Next]_vars => TypeOK'
  BY ConstantsAssumption, TypeNext
<1> QED
  BY <1>1, <1>2, PTL DEF Spec

\* The deliveries of a command are none of those already in some memory, and
\* counting them keeps the old ones issued.
LEMMA DeliveredAreNew ==
  ASSUME TypeOK, NEW c \in Consumers, NEW E \in SUBSET Entries, Deliver(E, c)
  PROVE  /\ \A t \in DeliveredTokens(E) : 1 <= t[2] /\ t[2] <= times'[t[1]]
         /\ \A t \in Tokens : t[2] <= times[t[1]] =>
              t \notin DeliveredTokens(E) /\ t[2] <= times'[t[1]]
<1>1. \A t \in DeliveredTokens(E) :
        t[1] \in E /\ t[2] = times[t[1]] + 1 /\ t[2] = times'[t[1]]
  BY DEF TypeOK, Deliver, DeliveredTokens
<1>2. \A e \in Entries : times[e] \in Nat /\ times'[e] \in Nat /\ times[e] <= times'[e]
  BY DEF TypeOK, Deliver
<1> QED
  BY <1>1, <1>2, TokenParts

\* All deliveries in memory are tokens the server has counted.
LEMMA HeldTokens ==
  ASSUME TypeOK, MemoryInv, NEW c \in Consumers
  PROVE  \A t \in readBuf[c] \cup claimBuf[c] \cup batch[c] \cup job[c] \cup dying[c] \cup called :
           t \in Tokens /\ 1 <= t[2] /\ t[2] <= times[t[1]]
BY DEF TypeOK, MemoryInv, AllIssued, Issued

\* XREADGROUP moves the last-delivered-id past what it hands out.
LEMMA ReadAdvances ==
  ASSUME ConstantsAssumption, TypeOK, NEW c \in Consumers, ExecRead(c)
  PROVE  /\ groupLast <= groupLast'
         /\ \A e \in Undelivered : groupLast < e /\ e <= groupLast'
         /\ \A e \in Entries : e > groupLast' => e > groupLast /\ e \notin Undelivered
         /\ UNCHANGED <<groupStart, job, ackDue, succ, capped>>
<1>1. added \in Nat /\ groupLast \in Nat /\ ReadCount \in Nat
  BY DEF ConstantsAssumption, TypeOK
<1>2. PICK e \in Entries : groupLast < e /\ e <= added
  BY DEF ExecRead, Undelivered
<1>3. e \in Int /\ Entries \subseteq Int
  BY DEF Entries
<1>4. UNCHANGED <<groupStart, job, ackDue, succ, capped>>
  BY DEF ExecRead, handler, history
<1> QED
  BY <1>1, <1>2, <1>3, <1>4 DEF ExecRead, Undelivered

\* Creating the group moves the last-delivered-id from 0.
LEMMA StartAdvances ==
  ASSUME TypeOK, Undealt, NEW c \in Consumers, Start(c)
  PROVE  groupLast <= groupLast' /\ groupStart' # NoGroup
BY DEF Start, TypeOK, Undealt, NoGroup

\* Deliveries keep what is known about counts and condemned entries.
LEMMA CapKept ==
  ASSUME ConstantsAssumption, TypeOK, TypeOK', MemoryInv, CapInv,
         \A e \in Entries : times[e] <= times'[e],
         \A e \in Entries : times[e] > 0 /\ owner[e] = Nobody => owner'[e] = Nobody,
         UNCHANGED <<counts, dying, capped, dlq>>,
         \A d \in Consumers : claimPc'[d] \in {"dlacked", "dlpub"} => claimPc'[d] = claimPc[d]
  PROVE  CapInv'
<1>1. \A d \in Consumers : \A k \in counts[d] \cup dying[d] : k[1] \in Entries /\ k[2] \in Nat
  BY TokenParts DEF TypeOK
<1>2. \A e \in Entries : times[e] \in Nat /\ times'[e] \in Nat
  BY DEF TypeOK
<1>3. CountsBehind'
  BY <1>1, <1>2 DEF CapInv, CountsBehind
<1>4. \A d \in Consumers : \A t \in dying[d] : times[t[1]] > 0
  BY <1>1, <1>2, HeldTokens
<1>5. DyingCondemned'
  BY <1>1, <1>4 DEF CapInv, DyingCondemned
<1>6. \A e \in capped : e \in Entries /\ HasCap /\ times[e] > MaxDeliveries /\ MaxDeliveries \in Nat
  BY DEF TypeOK, CapInv, DeadLetterOverCap, ConstantsAssumption
<1>7. DeadLetterOverCap'
  BY <1>2, <1>6 DEF CapInv, DeadLetterOverCap
<1> QED
  BY <1>3, <1>5, <1>7 DEF CapInv

\* What the cap decision knows about the entry it condemns.
LEMMA Condemned ==
  ASSUME TypeOK, ConstantsAssumption, CountsBehind, NEW c \in Consumers,
         NEW t \in OverCap(c)
  PROVE  /\ t \in batch[c] /\ t \in Tokens /\ t[1] \in Entries
         /\ HasCap /\ times[t[1]] > MaxDeliveries
<1>1. /\ t \in batch[c] /\ HasCap
      /\ \E k \in counts[c] : k[1] = t[1] /\ k[2] > MaxDeliveries
  BY DEF OverCap
<1>2. t \in Tokens /\ counts[c] \subseteq Tokens
  BY <1>1 DEF TypeOK
<1>3. PICK k \in counts[c] : k[1] = t[1] /\ k[2] > MaxDeliveries
  BY <1>1
<1>4. t[1] \in Entries /\ k[2] \in Nat
  BY <1>2, <1>3, TokenParts
<1>5. k[2] <= times[k[1]] /\ times[t[1]] \in Nat /\ MaxDeliveries \in Nat
  BY <1>4 DEF CountsBehind, TypeOK, ConstantsAssumption
<1> QED
  BY <1>1, <1>2, <1>3, <1>4, <1>5

\* The initial state satisfies the invariant.
LEMMA IndInit == ConstantsAssumption /\ Init => IndInv
BY TypeInit
DEF ConstantsAssumption, Init, IndInv, MemoryInv, AllIssued, Issued, ClaimsApart, OneAtATime,
    OneCallPerDelivery, Waiting, LedgerInv, Undealt, AckedAfterSuccess,
    NoSilentLoss, Delivered, CapInv, CountsBehind, DyingCondemned, DeadLetterOverCap

\* No step puts a delivery in two places, or in a buffer once it was handled.
LEMMA MemoryNext ==
  ASSUME ConstantsAssumption, IndInv, TypeOK', [Next]_vars
  PROVE  MemoryInv'
<1> USE DEF ConstantsAssumption, IndInv, MemoryInv
<1>1. CASE XAdd
  BY <1>1 DEF XAdd, reader, handler, claimer, env, history, AllIssued, Issued, OneAtATime,
      OneCallPerDelivery, Waiting, ClaimsApart
<1>2. CASE Age
  BY <1>2 DEF Age, reader, handler, claimer, env, history, AllIssued, Issued, OneAtATime,
      OneCallPerDelivery, Waiting, ClaimsApart
<1>3. ASSUME NEW c \in Consumers, Process(c) PROVE MemoryInv'
  <2> USE DEF server, reader, handler, claimer, env, history, SpendFault,
          TypeOK, AllIssued, Issued, OneAtATime, OneCallPerDelivery, Waiting, ClaimsApart
  <2>1. CASE Start(c)
    BY <2>1 DEF Start
  <2>2. CASE Crash(c)
    BY <2>2 DEF Crash, Forget
  <2>3. CASE StreamsEnded(c)
    BY <2>3 DEF StreamsEnded, Forget
  <2>4. CASE PollRead(c)
    BY <2>4 DEF PollRead
  <2>5. CASE ServeRead(c)
    <3>1. Undelivered \in SUBSET Entries /\ Deliver(Undelivered, c)
      BY <2>5, HandedOutEntries DEF ServeRead, ExecRead
    <3>2. \A d \in Consumers :
            \A t \in readBuf[d] \cup claimBuf[d] \cup batch[d] \cup job[d] \cup dying[d] \cup called :
              t \notin DeliveredTokens(Undelivered) /\ 1 <= t[2] /\ t[2] <= times'[t[1]]
      BY <3>1, HeldTokens, DeliveredAreNew
    <3>3. \A t \in DeliveredTokens(Undelivered) : 1 <= t[2] /\ t[2] <= times'[t[1]]
      BY <3>1, DeliveredAreNew
    <3>4. /\ UNCHANGED <<claimBuf, batch, job, dying, called>>
          /\ readBuf' = [readBuf EXCEPT ![c] = DeliveredTokens(Undelivered)]
      BY <2>5 DEF ServeRead, ExecRead
    <3>5. AllIssued'
      BY <3>2, <3>3, <3>4
    <3>6. ClaimsApart' /\ OneAtATime' /\ OneCallPerDelivery'
      BY <3>2, <3>4
    <3> QED
      BY <3>5, <3>6
  <2>6. CASE ReadReplyLost(c)
    <3>1. Undelivered \in SUBSET Entries /\ Deliver(Undelivered, c)
      BY <2>6, HandedOutEntries DEF ReadReplyLost, ExecRead
    <3>2. \A d \in Consumers :
            \A t \in readBuf[d] \cup claimBuf[d] \cup batch[d] \cup job[d] \cup dying[d] \cup called :
              t \notin DeliveredTokens(Undelivered) /\ 1 <= t[2] /\ t[2] <= times'[t[1]]
      BY <3>1, HeldTokens, DeliveredAreNew
    <3>3. \A t \in DeliveredTokens(Undelivered) : 1 <= t[2] /\ t[2] <= times'[t[1]]
      BY <3>1, DeliveredAreNew
    <3>4. UNCHANGED <<claimBuf, batch, readBuf, job, dying, called>>
      BY <2>6 DEF ReadReplyLost, ExecRead
    <3>5. AllIssued'
      BY <3>2, <3>3, <3>4
    <3>6. ClaimsApart' /\ OneAtATime' /\ OneCallPerDelivery'
      BY <3>2, <3>4
    <3> QED
      BY <3>5, <3>6
  <2>7. CASE ReadFails(c)
    BY <2>7 DEF ReadFails
  <2>8. CASE TakeRead(c)
    BY <2>8 DEF TakeRead
  <2>9. CASE TakeClaim(c)
    BY <2>9 DEF TakeClaim
  <2>10. CASE HandlerOk(c)
    BY <2>10 DEF HandlerOk
  <2>11. CASE HandlerErr(c)
    BY <2>11 DEF HandlerErr
  <2>12. CASE Ack(c)
    BY <2>12 DEF Ack, XAck
  <2>13. CASE AckFails(c)
    BY <2>13 DEF AckFails
  <2>14. CASE PollScan(c)
    BY <2>14 DEF PollScan
  <2>15. CASE ServeScan(c)
    <3>1. Claimable(c) \in SUBSET Entries /\ Deliver(Claimable(c), c)
      BY <2>15, HandedOutEntries DEF ServeScan, ExecScan
    <3>2. \A d \in Consumers :
            \A t \in readBuf[d] \cup claimBuf[d] \cup batch[d] \cup job[d] \cup dying[d] \cup called :
              t \notin DeliveredTokens(Claimable(c)) /\ 1 <= t[2] /\ t[2] <= times'[t[1]]
      BY <3>1, HeldTokens, DeliveredAreNew
    <3>3. \A t \in DeliveredTokens(Claimable(c)) : 1 <= t[2] /\ t[2] <= times'[t[1]]
      BY <3>1, DeliveredAreNew
    <3>4. /\ UNCHANGED <<claimBuf, readBuf, job, dying, called>>
          /\ batch' = [batch EXCEPT ![c] = DeliveredTokens(Claimable(c))]
      BY <2>15 DEF ServeScan, ExecScan
    <3>5. AllIssued'
      BY <3>2, <3>3, <3>4
    <3>6. ClaimsApart' /\ OneAtATime' /\ OneCallPerDelivery'
      BY <3>2, <3>4
    <3> QED
      BY <3>5, <3>6
  <2>16. CASE ScanReplyLost(c)
    <3>1. Claimable(c) \in SUBSET Entries /\ Deliver(Claimable(c), c)
      BY <2>16, HandedOutEntries DEF ScanReplyLost, ExecScan
    <3>2. \A d \in Consumers :
            \A t \in readBuf[d] \cup claimBuf[d] \cup batch[d] \cup job[d] \cup dying[d] \cup called :
              t \notin DeliveredTokens(Claimable(c)) /\ 1 <= t[2] /\ t[2] <= times'[t[1]]
      BY <3>1, HeldTokens, DeliveredAreNew
    <3>3. \A t \in DeliveredTokens(Claimable(c)) : 1 <= t[2] /\ t[2] <= times'[t[1]]
      BY <3>1, DeliveredAreNew
    <3>4. UNCHANGED <<claimBuf, batch, readBuf, job, dying, called>>
      BY <2>16 DEF ScanReplyLost, ExecScan
    <3>5. AllIssued'
      BY <3>2, <3>3, <3>4
    <3>6. ClaimsApart' /\ OneAtATime' /\ OneCallPerDelivery'
      BY <3>2, <3>4
    <3> QED
      BY <3>5, <3>6
  <2>17. CASE ScanFails(c)
    BY <2>17 DEF ScanFails
  <2>18. CASE PollClaimed(c)
    BY <2>18 DEF PollClaimed
  <2>19. CASE ServeCounts(c)
    BY <2>19 DEF ServeCounts
  <2>20. CASE CountsFail(c)
    BY <2>20 DEF CountsFail
  <2>21. CASE Condemn(c)
    <3>1. PICK t \in OverCap(c) : /\ dying' = [dying EXCEPT ![c] = {t}]
                                /\ batch' = [batch EXCEPT ![c] = @ \ {t}]
      BY <2>21 DEF Condemn
    <3>2. t \in batch[c]
      BY DEF OverCap
    <3>3. UNCHANGED <<times, readBuf, job, claimBuf, called>>
      BY <2>21 DEF Condemn
    <3>4. 1 <= t[2] /\ t[2] <= times[t[1]]
      BY <3>2
    <3>5. AllIssued'
      BY <3>1, <3>3, <3>4
    <3>6. ClaimsApart' /\ OneAtATime' /\ OneCallPerDelivery'
      BY <3>1, <3>3
    <3> QED
      BY <3>5, <3>6
  <2>22. CASE FillBuffer(c)
    BY <2>22 DEF FillBuffer
  <2>23. CASE ServeDeadAck(c)
    BY <2>23 DEF ServeDeadAck, ExecDeadAck, XAck
  <2>24. CASE DeadAckReplyLost(c)
    BY <2>24 DEF DeadAckReplyLost, ExecDeadAck, XAck
  <2>25. CASE DeadAckFails(c)
    BY <2>25 DEF DeadAckFails
  <2>26. CASE PollDeadAcked(c)
    BY <2>26 DEF PollDeadAcked
  <2>27. CASE ServeDeadLetter(c)
    BY <2>27 DEF ServeDeadLetter
  <2>28. CASE DeadLetterFails(c)
    BY <2>28 DEF DeadLetterFails
  <2> QED
    BY <1>3, <2>1, <2>2, <2>3, <2>4, <2>5, <2>6, <2>7, <2>8, <2>9, <2>10,
       <2>11, <2>12, <2>13, <2>14, <2>15, <2>16, <2>17, <2>18, <2>19, <2>20,
       <2>21, <2>22, <2>23, <2>24, <2>25, <2>26, <2>27, <2>28
    DEF Process, ReadLoop, ReadError, Handle, ClaimLoop, ClaimError
<1>4. CASE UNCHANGED vars
  BY <1>4 DEF vars, server, reader, handler, claimer, env, history, AllIssued,
      Issued, OneAtATime, OneCallPerDelivery, Waiting, ClaimsApart
<1> QED
  BY <1>1, <1>2, <1>3, <1>4 DEF Next

\* No step takes an entry off the pending list without a reason.
LEMMA LedgerNext ==
  ASSUME ConstantsAssumption, IndInv, TypeOK', [Next]_vars
  PROVE  LedgerInv'
<1> USE DEF ConstantsAssumption, IndInv, LedgerInv
<1>1. CASE XAdd
  BY <1>1 DEF XAdd, reader, handler, claimer, env, history, Undealt,
      NoSilentLoss, Delivered, AckedAfterSuccess
<1>2. CASE Age
  BY <1>2 DEF Age, reader, handler, claimer, env, history, Undealt,
      NoSilentLoss, Delivered, AckedAfterSuccess
<1>3. ASSUME NEW c \in Consumers, Process(c) PROVE LedgerInv'
  <2> USE DEF server, reader, handler, claimer, env, history, SpendFault,
          TypeOK, Undealt, NoSilentLoss, Delivered, AckedAfterSuccess
  <2>1. CASE Start(c)
    <3>1. groupLast <= groupLast' /\ groupStart' # NoGroup
      BY <2>1, StartAdvances
    <3>2. \A e \in Entries : e > groupLast' => e > groupLast
      BY <3>1 DEF Entries
    <3> QED
      BY <2>1, <3>1, <3>2 DEF Start
  <2>2. CASE Crash(c)
    BY <2>2 DEF Crash, Forget
  <2>3. CASE StreamsEnded(c)
    BY <2>3 DEF StreamsEnded, Forget
  <2>4. CASE PollRead(c)
    BY <2>4 DEF PollRead, Polling
  <2>5. CASE ServeRead(c)
    <3>1. Undelivered \in SUBSET Entries /\ Deliver(Undelivered, c)
      BY <2>5, HandedOutEntries DEF ServeRead, ExecRead
    <3>2. /\ groupLast <= groupLast'
          /\ \A e \in Undelivered : groupLast < e /\ e <= groupLast'
          /\ \A e \in Entries : e > groupLast' => e > groupLast /\ e \notin Undelivered
          /\ UNCHANGED <<groupStart, job, ackDue, succ, capped>>
      BY <2>5, ReadAdvances DEF ServeRead
    <3>3. /\ UNCHANGED up
          /\ readPc[c] = "sent" /\ readPc' \in [Consumers -> ReadPcs]
          /\ \A d \in Consumers \ {c} : readPc'[d] = readPc[d]
      BY <2>5 DEF ServeRead, ExecRead
    <3>4. \A e \in Undelivered : times[e] = 0
      BY <3>1, <3>2
    <3>5. \A e \in Undelivered : times'[e] = 1 /\ owner'[e] = c
      BY <3>1, <3>4 DEF Deliver
    <3>6. \A e \in Entries \ Undelivered : times'[e] = times[e] /\ owner'[e] = owner[e]
      BY <3>1 DEF Deliver
    <3>7. groupStart' # NoGroup
      BY <3>2, <3>3
    <3>8. \A e \in Entries : e > groupLast' => times'[e] = 0
      BY <3>2, <3>6
    <3>a. \A e \in Entries : times[e] = 0 => owner[e] = Nobody
      OBVIOUS
    <3>9. \A e \in Entries : times'[e] = 0 => owner'[e] = Nobody
      <4> SUFFICES ASSUME NEW e \in Entries, times'[e] = 0 PROVE owner'[e] = Nobody
        OBVIOUS
      <4>1. e \notin Undelivered
        BY <3>5
      <4> QED
        BY <4>1, <3>6, <3>a
    <3>10. NoSilentLoss' /\ AckedAfterSuccess'
      BY <3>2, <3>5, <3>6
    <3> QED
      BY <3>7, <3>8, <3>9, <3>10
  <2>6. CASE ReadReplyLost(c)
    <3>1. Undelivered \in SUBSET Entries /\ Deliver(Undelivered, c)
      BY <2>6, HandedOutEntries DEF ReadReplyLost, ExecRead
    <3>2. /\ groupLast <= groupLast'
          /\ \A e \in Undelivered : groupLast < e /\ e <= groupLast'
          /\ \A e \in Entries : e > groupLast' => e > groupLast /\ e \notin Undelivered
          /\ UNCHANGED <<groupStart, job, ackDue, succ, capped>>
      BY <2>6, ReadAdvances DEF ReadReplyLost
    <3>3. /\ UNCHANGED up
          /\ readPc[c] = "sent" /\ readPc' \in [Consumers -> ReadPcs]
          /\ \A d \in Consumers \ {c} : readPc'[d] = readPc[d]
      BY <2>6 DEF ReadReplyLost, ExecRead
    <3>4. \A e \in Undelivered : times[e] = 0
      BY <3>1, <3>2
    <3>5. \A e \in Undelivered : times'[e] = 1 /\ owner'[e] = c
      BY <3>1, <3>4 DEF Deliver
    <3>6. \A e \in Entries \ Undelivered : times'[e] = times[e] /\ owner'[e] = owner[e]
      BY <3>1 DEF Deliver
    <3>7. groupStart' # NoGroup
      BY <3>2, <3>3
    <3>8. \A e \in Entries : e > groupLast' => times'[e] = 0
      BY <3>2, <3>6
    <3>a. \A e \in Entries : times[e] = 0 => owner[e] = Nobody
      OBVIOUS
    <3>9. \A e \in Entries : times'[e] = 0 => owner'[e] = Nobody
      <4> SUFFICES ASSUME NEW e \in Entries, times'[e] = 0 PROVE owner'[e] = Nobody
        OBVIOUS
      <4>1. e \notin Undelivered
        BY <3>5
      <4> QED
        BY <4>1, <3>6, <3>a
    <3>10. NoSilentLoss' /\ AckedAfterSuccess'
      BY <3>2, <3>5, <3>6
    <3> QED
      BY <3>7, <3>8, <3>9, <3>10
  <2>7. CASE ReadFails(c)
    BY <2>7 DEF ReadFails
  <2>8. CASE TakeRead(c)
    <3>1. \A d \in Consumers : ackDue[d] => job'[d] = job[d]
      BY <2>8 DEF TakeRead, Polling
    <3> QED
      BY <2>8, <3>1 DEF TakeRead
  <2>9. CASE TakeClaim(c)
    <3>1. \A d \in Consumers : ackDue[d] => job'[d] = job[d]
      BY <2>9 DEF TakeClaim, Polling
    <3> QED
      BY <2>9, <3>1 DEF TakeClaim
  <2>10. CASE HandlerOk(c)
    BY <2>10 DEF HandlerOk, EntriesOf
  <2>11. CASE HandlerErr(c)
    BY <2>11 DEF HandlerErr
  <2>12. CASE Ack(c)
    BY <2>12 DEF Ack, XAck
  <2>13. CASE AckFails(c)
    BY <2>13 DEF AckFails
  <2>14. CASE PollScan(c)
    BY <2>14 DEF PollScan
  <2>15. CASE ServeScan(c)
    <3>1. Claimable(c) \in SUBSET Pending /\ Deliver(Claimable(c), c)
      BY <2>15, HandedOutEntries DEF ServeScan, ExecScan
    <3>2. UNCHANGED <<groupStart, groupLast, up, readPc, job, ackDue, succ, capped>>
      BY <2>15 DEF ServeScan, ExecScan
    <3>3. \A e \in Claimable(c) : /\ e \in Entries /\ owner[e] # Nobody /\ times[e] # 0
                                  /\ owner'[e] = c /\ times'[e] # 0
      BY <3>1 DEF Deliver, Pending
    <3>4. \A e \in Entries \ Claimable(c) : owner'[e] = owner[e] /\ times'[e] = times[e]
      BY <3>1 DEF Deliver
    <3>5. Undealt'
      <4>1. \A e \in Entries : e > groupLast' => times'[e] = 0
        BY <3>2, <3>3, <3>4
      <4>2. \A e \in Entries : times'[e] = 0 => owner'[e] = Nobody
        BY <3>3, <3>4
      <4> QED
        BY <3>2, <4>1, <4>2
    <3>6. NoSilentLoss' /\ AckedAfterSuccess'
      BY <3>2, <3>3, <3>4
    <3> QED
      BY <3>5, <3>6
  <2>16. CASE ScanReplyLost(c)
    <3>1. Claimable(c) \in SUBSET Pending /\ Deliver(Claimable(c), c)
      BY <2>16, HandedOutEntries DEF ScanReplyLost, ExecScan
    <3>2. UNCHANGED <<groupStart, groupLast, up, readPc, job, ackDue, succ, capped>>
      BY <2>16 DEF ScanReplyLost, ExecScan
    <3>3. \A e \in Claimable(c) : /\ e \in Entries /\ owner[e] # Nobody /\ times[e] # 0
                                  /\ owner'[e] = c /\ times'[e] # 0
      BY <3>1 DEF Deliver, Pending
    <3>4. \A e \in Entries \ Claimable(c) : owner'[e] = owner[e] /\ times'[e] = times[e]
      BY <3>1 DEF Deliver
    <3>5. Undealt'
      <4>1. \A e \in Entries : e > groupLast' => times'[e] = 0
        BY <3>2, <3>3, <3>4
      <4>2. \A e \in Entries : times'[e] = 0 => owner'[e] = Nobody
        BY <3>3, <3>4
      <4> QED
        BY <3>2, <4>1, <4>2
    <3>6. NoSilentLoss' /\ AckedAfterSuccess'
      BY <3>2, <3>3, <3>4
    <3> QED
      BY <3>5, <3>6
  <2>17. CASE ScanFails(c)
    BY <2>17 DEF ScanFails
  <2>18. CASE PollClaimed(c)
    BY <2>18 DEF PollClaimed
  <2>19. CASE ServeCounts(c)
    BY <2>19 DEF ServeCounts
  <2>20. CASE CountsFail(c)
    BY <2>20 DEF CountsFail
  <2>21. CASE Condemn(c)
    BY <2>21 DEF Condemn
  <2>22. CASE FillBuffer(c)
    BY <2>22 DEF FillBuffer
  <2>23. CASE ServeDeadAck(c)
    BY <2>23 DEF ServeDeadAck, ExecDeadAck, XAck, CapInv, DyingCondemned
  <2>24. CASE DeadAckReplyLost(c)
    BY <2>24 DEF DeadAckReplyLost, ExecDeadAck, XAck, CapInv, DyingCondemned
  <2>25. CASE DeadAckFails(c)
    BY <2>25 DEF DeadAckFails, CapInv, DyingCondemned
  <2>26. CASE PollDeadAcked(c)
    BY <2>26 DEF PollDeadAcked, CapInv, DyingCondemned
  <2>27. CASE ServeDeadLetter(c)
    BY <2>27 DEF ServeDeadLetter, CapInv, DyingCondemned
  <2>28. CASE DeadLetterFails(c)
    BY <2>28 DEF DeadLetterFails, CapInv, DyingCondemned
  <2> QED
    BY <1>3, <2>1, <2>2, <2>3, <2>4, <2>5, <2>6, <2>7, <2>8, <2>9, <2>10,
       <2>11, <2>12, <2>13, <2>14, <2>15, <2>16, <2>17, <2>18, <2>19, <2>20,
       <2>21, <2>22, <2>23, <2>24, <2>25, <2>26, <2>27, <2>28
    DEF Process, ReadLoop, ReadError, Handle, ClaimLoop, ClaimError
<1>4. CASE UNCHANGED vars
  BY <1>4 DEF vars, server, reader, handler, claimer, env, history, Undealt,
      NoSilentLoss, Delivered, AckedAfterSuccess
<1> QED
  BY <1>1, <1>2, <1>3, <1>4 DEF Next

\* No step condemns an entry on a count the server has not reached.
LEMMA CapNext ==
  ASSUME ConstantsAssumption, IndInv, TypeOK', [Next]_vars
  PROVE  CapInv'
<1> USE DEF ConstantsAssumption, IndInv, CapInv
<1>1. CASE XAdd
  BY <1>1 DEF XAdd, reader, handler, claimer, env, history, CountsBehind,
      DyingCondemned, DeadLetterOverCap
<1>2. CASE Age
  BY <1>2 DEF Age, reader, handler, claimer, env, history, CountsBehind,
      DyingCondemned, DeadLetterOverCap
<1>3. ASSUME NEW c \in Consumers, Process(c) PROVE CapInv'
  <2> USE DEF server, reader, handler, claimer, env, history, SpendFault,
          TypeOK, CountsBehind, DyingCondemned, DeadLetterOverCap
  <2>1. CASE Start(c)
    BY <2>1 DEF Start
  <2>2. CASE Crash(c)
    BY <2>2 DEF Crash, Forget
  <2>3. CASE StreamsEnded(c)
    BY <2>3 DEF StreamsEnded, Forget
  <2>4. CASE PollRead(c)
    BY <2>4 DEF PollRead
  <2>5. CASE ServeRead(c)
    <3>1. /\ Undelivered \in SUBSET Entries /\ Deliver(Undelivered, c)
          /\ \A e \in Undelivered : times[e] = 0 \/ owner[e] # Nobody
      BY <2>5, HandedOutEntries DEF ServeRead, ExecRead, Undelivered, LedgerInv, Undealt, Pending
    <3>2. /\ \A e \in Entries : times[e] <= times'[e]
          /\ \A e \in Entries : times[e] > 0 /\ owner[e] = Nobody => owner'[e] = Nobody
      BY <3>1 DEF Deliver
    <3>3. /\ UNCHANGED <<counts, dying, capped, dlq>>
          /\ \A d \in Consumers : claimPc'[d] \in {"dlacked", "dlpub"} => claimPc'[d] = claimPc[d]
      BY <2>5 DEF ServeRead, ExecRead
    <3> QED
      BY <3>2, <3>3, CapKept
  <2>6. CASE ReadReplyLost(c)
    <3>1. /\ Undelivered \in SUBSET Entries /\ Deliver(Undelivered, c)
          /\ \A e \in Undelivered : times[e] = 0 \/ owner[e] # Nobody
      BY <2>6, HandedOutEntries DEF ReadReplyLost, ExecRead, Undelivered, LedgerInv, Undealt, Pending
    <3>2. /\ \A e \in Entries : times[e] <= times'[e]
          /\ \A e \in Entries : times[e] > 0 /\ owner[e] = Nobody => owner'[e] = Nobody
      BY <3>1 DEF Deliver
    <3>3. /\ UNCHANGED <<counts, dying, capped, dlq>>
          /\ \A d \in Consumers : claimPc'[d] \in {"dlacked", "dlpub"} => claimPc'[d] = claimPc[d]
      BY <2>6 DEF ReadReplyLost, ExecRead
    <3> QED
      BY <3>2, <3>3, CapKept
  <2>7. CASE ReadFails(c)
    BY <2>7 DEF ReadFails
  <2>8. CASE TakeRead(c)
    BY <2>8 DEF TakeRead
  <2>9. CASE TakeClaim(c)
    BY <2>9 DEF TakeClaim
  <2>10. CASE HandlerOk(c)
    BY <2>10 DEF HandlerOk
  <2>11. CASE HandlerErr(c)
    BY <2>11 DEF HandlerErr
  <2>12. CASE Ack(c)
    BY <2>12 DEF Ack, XAck
  <2>13. CASE AckFails(c)
    BY <2>13 DEF AckFails
  <2>14. CASE PollScan(c)
    BY <2>14 DEF PollScan
  <2>15. CASE ServeScan(c)
    <3>1. /\ Claimable(c) \in SUBSET Entries /\ Deliver(Claimable(c), c)
          /\ \A e \in Claimable(c) : times[e] = 0 \/ owner[e] # Nobody
      BY <2>15, HandedOutEntries DEF ServeScan, ExecScan, Undelivered, LedgerInv, Undealt, Pending
    <3>2. /\ \A e \in Entries : times[e] <= times'[e]
          /\ \A e \in Entries : times[e] > 0 /\ owner[e] = Nobody => owner'[e] = Nobody
      BY <3>1 DEF Deliver
    <3>3. /\ UNCHANGED <<counts, dying, capped, dlq>>
          /\ \A d \in Consumers : claimPc'[d] \in {"dlacked", "dlpub"} => claimPc'[d] = claimPc[d]
      BY <2>15 DEF ServeScan, ExecScan
    <3> QED
      BY <3>2, <3>3, CapKept
  <2>16. CASE ScanReplyLost(c)
    <3>1. /\ Claimable(c) \in SUBSET Entries /\ Deliver(Claimable(c), c)
          /\ \A e \in Claimable(c) : times[e] = 0 \/ owner[e] # Nobody
      BY <2>16, HandedOutEntries DEF ScanReplyLost, ExecScan, Undelivered, LedgerInv, Undealt, Pending
    <3>2. /\ \A e \in Entries : times[e] <= times'[e]
          /\ \A e \in Entries : times[e] > 0 /\ owner[e] = Nobody => owner'[e] = Nobody
      BY <3>1 DEF Deliver
    <3>3. /\ UNCHANGED <<counts, dying, capped, dlq>>
          /\ \A d \in Consumers : claimPc'[d] \in {"dlacked", "dlpub"} => claimPc'[d] = claimPc[d]
      BY <2>16 DEF ScanReplyLost, ExecScan
    <3> QED
      BY <3>2, <3>3, CapKept
  <2>17. CASE ScanFails(c)
    BY <2>17 DEF ScanFails
  <2>18. CASE PollClaimed(c)
    BY <2>18 DEF PollClaimed
  <2>19. CASE ServeCounts(c)
    <3> DEFINE R == FirstK(PendingRange(c), Cardinality(batch[c]))
    <3>a. R \subseteq Entries
      BY FirstKSubset DEF PendingRange
    <3>b. counts'[c] = {<<e, times[e]>> : e \in R}
      BY <2>19 DEF ServeCounts
    <3> HIDE DEF R
    <3>1. \A k \in counts'[c] : k[1] \in Entries /\ k[2] <= times[k[1]]
      BY <3>a, <3>b
    <3>2. \A d \in Consumers \ {c} : counts'[d] = counts[d]
      BY <2>19 DEF ServeCounts
    <3>3. UNCHANGED <<owner, times, dying, capped, dlq>>
      BY <2>19 DEF ServeCounts
    <3>4. \A d \in Consumers : claimPc'[d] \in {"dlacked", "dlpub"} => claimPc'[d] = claimPc[d]
      BY <2>19 DEF ServeCounts
    <3>5. CountsBehind'
      BY <3>1, <3>2, <3>3
    <3>6. DyingCondemned' /\ DeadLetterOverCap'
      BY <3>3, <3>4
    <3> QED
      BY <3>5, <3>6
  <2>20. CASE CountsFail(c)
    BY <2>20 DEF CountsFail
  <2>21. CASE Condemn(c)
    <3>1. PICK t \in OverCap(c) : /\ dying' = [dying EXCEPT ![c] = {t}]
                                /\ capped' = capped \cup {t[1]}
      BY <2>21 DEF Condemn
    <3>2. HasCap /\ t[1] \in Entries /\ times[t[1]] > MaxDeliveries
      BY Condemned
    <3>3. UNCHANGED <<owner, times, counts, dlq>> /\ claimPc' = [claimPc EXCEPT ![c] = "dlack"]
      BY <2>21 DEF Condemn
    <3> QED
      BY <3>1, <3>2, <3>3
  <2>22. CASE FillBuffer(c)
    BY <2>22 DEF FillBuffer
  <2>23. CASE ServeDeadAck(c)
    BY <2>23 DEF ServeDeadAck, ExecDeadAck, XAck
  <2>24. CASE DeadAckReplyLost(c)
    BY <2>24 DEF DeadAckReplyLost, ExecDeadAck, XAck
  <2>25. CASE DeadAckFails(c)
    BY <2>25 DEF DeadAckFails
  <2>26. CASE PollDeadAcked(c)
    BY <2>26 DEF PollDeadAcked
  <2>27. CASE ServeDeadLetter(c)
    BY <2>27 DEF ServeDeadLetter
  <2>28. CASE DeadLetterFails(c)
    BY <2>28 DEF DeadLetterFails
  <2> QED
    BY <1>3, <2>1, <2>2, <2>3, <2>4, <2>5, <2>6, <2>7, <2>8, <2>9, <2>10,
       <2>11, <2>12, <2>13, <2>14, <2>15, <2>16, <2>17, <2>18, <2>19, <2>20,
       <2>21, <2>22, <2>23, <2>24, <2>25, <2>26, <2>27, <2>28
    DEF Process, ReadLoop, ReadError, Handle, ClaimLoop, ClaimError
<1>4. CASE UNCHANGED vars
  BY <1>4 DEF vars, server, reader, handler, claimer, env, history,
      CountsBehind, DyingCondemned, DeadLetterOverCap
<1> QED
  BY <1>1, <1>2, <1>3, <1>4 DEF Next

\* The inductive invariant holds throughout.
THEOREM Inductive == Spec => []IndInv
<1>1. Init => IndInv
  BY ConstantsAssumption, IndInit
<1>2. IndInv /\ [Next]_vars => IndInv'
  <2> SUFFICES ASSUME IndInv, [Next]_vars PROVE IndInv'
    OBVIOUS
  <2>1. TypeOK'
    BY ConstantsAssumption, TypeNext DEF IndInv
  <2> QED
    BY <2>1, ConstantsAssumption, MemoryNext, LedgerNext, CapNext DEF IndInv
<1> QED
  BY <1>1, <1>2, PTL DEF Spec

\* No entry handed to the group is lost silently.
THEOREM NothingLost == Spec => []NoSilentLoss
BY Inductive, PTL DEF IndInv, LedgerInv

\* Only entries delivered more often than the cap allows are dead-lettered.
THEOREM DeadLettersOverCap == Spec => []DeadLetterOverCap
BY Inductive, PTL DEF IndInv, CapInv

\* No delivery reaches the handler twice.
THEOREM EachDeliveryOnce == Spec => []OneCallPerDelivery
BY Inductive, PTL DEF IndInv, MemoryInv

-----------------------------------------------------------------------------
(* The group route implements EntryPromise *)

\* Steps that neither deliver, settle, succeed, condemn nor dead-letter change
\* nothing the promise speaks of.
LEMMA PromiseStutter ==
  ASSUME UNCHANGED <<owner, times, succ, capped, dlq>>
  PROVE  UNCHANGED Promise!vars
BY DEF Promise!vars, EntryStatus

\* The group route starts where the promise starts.
LEMMA PromiseInit == Init => Promise!Init
BY DEF Init, Promise!Init, EntryStatus

\* XREADGROUP hands out entries that were new.
LEMMA PromiseRead ==
  ASSUME IndInv, NEW c \in Consumers, ExecRead(c)
  PROVE  Promise!Hand(Undelivered)
<1>1. /\ Undelivered \in SUBSET Entries /\ Deliver(Undelivered, c)
      /\ UNCHANGED <<succ, capped, dlq>>
  BY HandedOutEntries DEF ExecRead, IndInv, history
<1>2. \A e \in Undelivered : times[e] = 0
  BY DEF Undelivered, IndInv, LedgerInv, Undealt
<1>3. \A e \in Undelivered : times'[e] = 1 /\ owner'[e] = c /\ c # Nobody
  BY <1>1, <1>2, ConstantsAssumption DEF Deliver, ConstantsAssumption
<1>4. \A e \in Entries \ Undelivered : times'[e] = times[e] /\ owner'[e] = owner[e]
  BY <1>1 DEF Deliver
<1>5. EntryStatus' = [e \in Entries |-> IF e \in Undelivered THEN "pending" ELSE EntryStatus[e]]
  BY <1>3, <1>4 DEF EntryStatus
<1> QED
  BY <1>1, <1>2, <1>5 DEF Promise!Hand, EntryStatus

\* XAUTOCLAIM hands out entries that are pending already.
LEMMA PromiseScan ==
  ASSUME IndInv, NEW c \in Consumers, ExecScan(c)
  PROVE  UNCHANGED Promise!vars
<1>1. /\ Claimable(c) \in SUBSET Entries /\ Deliver(Claimable(c), c)
      /\ UNCHANGED <<succ, capped, dlq>>
  BY HandedOutEntries DEF ExecScan, IndInv, history
<1>2. \A e \in Claimable(c) : e \in Entries /\ owner[e] # Nobody /\ times[e] # 0 /\ times[e] \in Nat
  BY <1>1, HandedOutEntries DEF IndInv, LedgerInv, Undealt, Pending, TypeOK
<1>3. \A e \in Claimable(c) : times'[e] # 0 /\ owner'[e] # Nobody
  BY <1>1, <1>2, ConstantsAssumption DEF Deliver, ConstantsAssumption
<1>4. \A e \in Entries \ Claimable(c) : times'[e] = times[e] /\ owner'[e] = owner[e]
  BY <1>1 DEF Deliver
<1>5. EntryStatus' = EntryStatus
  BY <1>2, <1>3, <1>4 DEF EntryStatus
<1> QED
  BY <1>1, <1>5 DEF Promise!vars

\* The deliveries being handled, looked at or dead-lettered were delivered.
LEMMA HeldDelivered ==
  ASSUME IndInv, NEW c \in Consumers, NEW t \in job[c] \cup batch[c] \cup dying[c]
  PROVE  t[1] \in Entries /\ times[t[1]] \in Nat /\ times[t[1]] > 0
<1>1. t \in Tokens /\ 1 <= t[2] /\ t[2] <= times[t[1]]
  BY HeldTokens DEF IndInv
<1>2. t[1] \in Entries /\ t[2] \in Nat
  BY <1>1, TokenParts
<1>3. times[t[1]] \in Nat
  BY <1>2 DEF IndInv, TypeOK
<1> QED
  BY <1>1, <1>2, <1>3

\* An XACK settles the entry, unless it was settled already.
LEMMA PromiseAck ==
  ASSUME IndInv, NEW e \in Entries, e \in succ \cup capped, times[e] > 0,
         owner' = [f \in Entries |-> IF f = e THEN Nobody ELSE owner[f]],
         UNCHANGED <<times, succ, capped, dlq>>
  PROVE  Promise!Settle(e) \/ UNCHANGED Promise!vars
<1>1. CASE owner[e] = Nobody
  <2>1. owner' = owner
    BY <1>1 DEF IndInv, TypeOK
  <2> QED
    BY <2>1, PromiseStutter
<1>2. CASE owner[e] # Nobody
  <2>1. times[e] # 0
    BY DEF IndInv, TypeOK
  <2>2. EntryStatus[e] = "pending"
    BY <1>2, <2>1 DEF EntryStatus
  <2>3. EntryStatus' = [EntryStatus EXCEPT ![e] = "settled"]
    BY <2>1 DEF EntryStatus
  <2> QED
    BY <2>2, <2>3 DEF Promise!Settle
<1> QED
  BY <1>1, <1>2

\* Every step of the group route is a step of the promise or a stutter.
LEMMA PromiseNext ==
  ASSUME IndInv, [Next]_vars
  PROVE  [Promise!Next]_(Promise!vars)
<1> USE DEF server, reader, handler, claimer, env, history
<1>1. CASE XAdd
  BY <1>1, PromiseStutter DEF XAdd
<1>2. CASE Age
  BY <1>2, PromiseStutter DEF Age
<1>3. ASSUME NEW c \in Consumers, Process(c) PROVE [Promise!Next]_(Promise!vars)
  <2>1. CASE Start(c) \/ Crash(c) \/ StreamsEnded(c)
    BY <2>1, PromiseStutter DEF Start, Crash, StreamsEnded
  <2>2. CASE PollRead(c) \/ ReadFails(c) \/ TakeRead(c) \/ TakeClaim(c)
    BY <2>2, PromiseStutter DEF PollRead, ReadFails, TakeRead, TakeClaim
  <2>3. CASE ServeRead(c) \/ ReadReplyLost(c)
    <3>1. Promise!Hand(Undelivered) /\ Undelivered \in SUBSET Entries
      BY <2>3, PromiseRead DEF ServeRead, ReadReplyLost, Undelivered
    <3> QED
      BY <3>1 DEF Promise!Next
  <2>4. CASE HandlerErr(c) \/ AckFails(c)
    BY <2>4, PromiseStutter DEF HandlerErr, AckFails
  <2>5. CASE HandlerOk(c)
    <3>1. PICK t \in job[c] : job[c] = {t}
      BY <2>5 DEF HandlerOk, IndInv, MemoryInv, OneAtATime
    <3>2. t[1] \in Entries /\ times[t[1]] # 0
      BY HeldTokens, TokenParts DEF IndInv
    <3>3. succ' = succ \cup {t[1]} /\ UNCHANGED <<owner, times, capped, dlq>>
      BY <2>5, <3>1 DEF HandlerOk, EntriesOf
    <3>4. Promise!Succeed(t[1])
      BY <3>2, <3>3 DEF Promise!Succeed, EntryStatus
    <3> QED
      BY <3>2, <3>4 DEF Promise!Next
  <2>6. CASE Ack(c)
    <3>1. PICK t \in job[c] : job[c] = {t} /\ t[1] \in succ
      BY <2>6 DEF Ack, IndInv, MemoryInv, OneAtATime, LedgerInv, AckedAfterSuccess
    <3>2. t[1] \in Entries /\ times[t[1]] > 0
      BY HeldDelivered
    <3>3. /\ owner' = [f \in Entries |-> IF f = t[1] THEN Nobody ELSE owner[f]]
          /\ UNCHANGED <<times, succ, capped, dlq>>
      BY <2>6, <3>1 DEF Ack, XAck
    <3> QED
      BY <3>1, <3>2, <3>3, PromiseAck DEF Promise!Next
  <2>7. CASE PollScan(c) \/ ScanFails(c) \/ PollClaimed(c) \/ ServeCounts(c) \/ CountsFail(c)
    BY <2>7, PromiseStutter DEF PollScan, ScanFails, PollClaimed, ServeCounts, CountsFail
  <2>8. CASE ServeScan(c) \/ ScanReplyLost(c)
    BY <2>8, PromiseScan DEF ServeScan, ScanReplyLost
  <2>9. CASE Condemn(c)
    <3>1. PICK t \in OverCap(c) : capped' = capped \cup {t[1]}
      BY <2>9 DEF Condemn
    <3>2. HasCap /\ t[1] \in Entries /\ t \in batch[c]
      BY ConstantsAssumption, Condemned DEF IndInv, CapInv
    <3>3. times[t[1]] # 0
      BY <3>2, HeldDelivered
    <3>4. Promise!GiveUp(t[1])
      BY <2>9, <3>1, <3>2, <3>3 DEF Condemn, Promise!GiveUp, EntryStatus
    <3> QED
      BY <3>2, <3>4 DEF Promise!Next
  <2>10. CASE FillBuffer(c) \/ DeadAckFails(c) \/ PollDeadAcked(c) \/ DeadLetterFails(c)
    BY <2>10, PromiseStutter DEF FillBuffer, DeadAckFails, PollDeadAcked, DeadLetterFails
  <2>11. CASE ServeDeadAck(c) \/ DeadAckReplyLost(c)
    <3>1. /\ owner' = [f \in Entries |-> IF \E t \in dying[c] : t[1] = f THEN Nobody ELSE owner[f]]
          /\ UNCHANGED <<times, succ, capped, dlq>>
      BY <2>11 DEF ServeDeadAck, DeadAckReplyLost, ExecDeadAck, XAck
    <3>2. CASE dying[c] = {}
      BY <3>1, <3>2, PromiseStutter DEF IndInv, TypeOK
    <3>3. CASE dying[c] # {}
      <4>1. PICK t \in dying[c] : dying[c] = {t} /\ t[1] \in capped
        BY <3>3 DEF IndInv, MemoryInv, OneAtATime, CapInv, DyingCondemned
      <4>2. t[1] \in Entries /\ times[t[1]] > 0
        BY HeldDelivered
      <4>3. owner' = [f \in Entries |-> IF f = t[1] THEN Nobody ELSE owner[f]]
        BY <3>1, <4>1
      <4> QED
        BY <3>1, <4>1, <4>2, <4>3, PromiseAck DEF Promise!Next
    <3> QED
      BY <3>2, <3>3
  <2>12. CASE ServeDeadLetter(c)
    <3>1. /\ dlq' = [e \in Entries |-> IF \E t \in dying[c] : t[1] = e THEN dlq[e] + 1 ELSE dlq[e]]
          /\ UNCHANGED <<owner, times, succ, capped>> /\ claimPc[c] = "dlpub"
      BY <2>12 DEF ServeDeadLetter
    <3>2. CASE dying[c] = {}
      BY <3>1, <3>2, PromiseStutter DEF IndInv, TypeOK
    <3>3. CASE dying[c] # {}
      <4>1. PICK t \in dying[c] : dying[c] = {t} /\ t[1] \in capped /\ owner[t[1]] = Nobody
        BY <3>1, <3>3 DEF IndInv, MemoryInv, OneAtATime, CapInv, DyingCondemned
      <4>2. t[1] \in Entries /\ times[t[1]] # 0
        BY HeldTokens, TokenParts DEF IndInv
      <4>3. dlq' = [dlq EXCEPT ![t[1]] = @ + 1]
        BY <3>1, <4>1, <4>2 DEF IndInv, TypeOK
      <4>4. UNCHANGED EntryStatus /\ EntryStatus[t[1]] = "settled"
        BY <3>1, <4>1, <4>2 DEF EntryStatus
      <4> QED
        BY <3>1, <4>1, <4>2, <4>3, <4>4 DEF Promise!Next, Promise!DeadLetter
    <3> QED
      BY <3>2, <3>3
  <2> QED
    BY <1>3, <2>1, <2>2, <2>3, <2>4, <2>5, <2>6, <2>7, <2>8, <2>9, <2>10, <2>11, <2>12
    DEF Process, ReadLoop, ReadError, Handle, ClaimLoop, ClaimError
<1>4. CASE UNCHANGED vars
  BY <1>4, PromiseStutter DEF vars
<1> QED
  BY <1>1, <1>2, <1>3, <1>4 DEF Next

\* The group route implements the promise, whatever fails and whoever crashes.
THEOREM Refinement == Spec => ImplementsPromise
<1>1. Init => Promise!Init
  BY PromiseInit
<1>2. IndInv /\ [Next]_vars => [Promise!Next]_(Promise!vars)
  BY PromiseNext
<1> QED
  BY <1>1, <1>2, Inductive, PTL DEF Spec, ImplementsPromise, Promise!Spec

=============================================================================
