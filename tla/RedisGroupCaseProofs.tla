------------------------ MODULE RedisGroupCaseProofs ------------------------
(***************************************************************************)
(* Proofs about consumer-group routes of a particular kind: with a         *)
(* dead-letter topic, without a claim loop, or with a single consumer; for *)
(* every number of entries and deliveries.                                 *)
(***************************************************************************)
EXTENDS RedisGroupProofs

\* A delivery is being dead-lettered only in handle_dead_letter.
DyingPlace ==
  \A c \in Consumers : claimPc[c] \notin {"dlack", "dlacked", "dlpub"} => dying[c] = {}

\* A read loop ends by a failing command only.
EndedByFault == faults = 0 => \A c \in Consumers : readPc[c] # "ended"

\* DyingPlace holds at first and every step keeps it.
LEMMA DyingPlaceInit == Init => DyingPlace
BY DEF Init, DyingPlace

LEMMA DyingPlaceNext ==
  ASSUME TypeOK, DyingPlace, [Next]_vars
  PROVE  DyingPlace'
<1> USE DEF DyingPlace, TypeOK, reader, handler, claimer, env, history, server
<1>1. CASE XAdd \/ Age
  BY <1>1 DEF XAdd, Age
<1>2. ASSUME NEW c \in Consumers, Process(c) PROVE DyingPlace'
  <2>1. CASE Start(c) \/ Crash(c) \/ StreamsEnded(c)
    BY <2>1 DEF Start, Crash, StreamsEnded, Forget
  <2>2. CASE ReadLoop(c) \/ ReadError(c)
    BY <2>2 DEF ReadLoop, ReadError, PollRead, ServeRead, ReadReplyLost, ReadFails, ExecRead
  <2>3. CASE Handle(c) \/ AckFails(c)
    BY <2>3 DEF Handle, TakeRead, TakeClaim, HandlerOk, HandlerErr, Ack, AckFails
  <2>4. CASE PollScan(c) \/ ServeScan(c) \/ PollClaimed(c) \/ ServeCounts(c)
    BY <2>4 DEF PollScan, ServeScan, ExecScan, PollClaimed, ServeCounts
  <2>5. CASE ScanReplyLost(c) \/ ScanFails(c) \/ CountsFail(c)
    BY <2>5 DEF ScanReplyLost, ScanFails, CountsFail, ExecScan
  <2>6. CASE Condemn(c) \/ FillBuffer(c)
    BY <2>6 DEF Condemn, FillBuffer
  <2>7. CASE ServeDeadAck(c) \/ DeadAckReplyLost(c) \/ DeadAckFails(c)
    BY <2>7 DEF ServeDeadAck, DeadAckReplyLost, DeadAckFails, ExecDeadAck
  <2>8. CASE PollDeadAcked(c) \/ ServeDeadLetter(c) \/ DeadLetterFails(c)
    BY <2>8 DEF PollDeadAcked, ServeDeadLetter, DeadLetterFails
  <2> QED
    BY <1>2, <2>1, <2>2, <2>3, <2>4, <2>5, <2>6, <2>7, <2>8
    DEF Process, ClaimLoop, ClaimError
<1>3. CASE UNCHANGED vars
  BY <1>3 DEF vars
<1> QED
  BY <1>1, <1>2, <1>3 DEF Next

-----------------------------------------------------------------------------
(* A dead-letter topic: DeadLetterComplete *)

\* What a dying delivery needs to reach the dead-letter stream is kept: it is only
\* dropped by a failing command, and the read loop only ends by one.
LetterInv == DyingPlace /\ EndedByFault /\ DeadLetterComplete

LEMMA LetterInit == Init => LetterInv
BY DyingPlaceInit DEF Init, LetterInv, EndedByFault, DeadLetterComplete

\* Steps that leave the cap decisions and the dead letters alone.
LEMMA LetterKept ==
  ASSUME LetterInv, UNCHANGED <<dying, capped, dlq>>,
         faults' = 0 => faults = 0, crashes' = 0 => crashes = 0
  PROVE  DeadLetterComplete'
BY DEF LetterInv, DeadLetterComplete

\* A failed command or a crash ends what is promised.
LEMMA LetterExcused ==
  ASSUME TypeOK, SpendFault \/ crashes' = crashes + 1
  PROVE  faults' # 0 \/ crashes' # 0
BY DEF TypeOK, SpendFault

LEMMA LetterNext ==
  ASSUME HasDlq, TypeOK, LetterInv, [Next]_vars
  PROVE  LetterInv'
<1> USE DEF server, reader, handler, claimer, env, history
<1>0. TypeOK /\ DyingPlace /\ EndedByFault /\ DeadLetterComplete
  BY DEF LetterInv
<1>1. DyingPlace'
  BY <1>0, DyingPlaceNext
<1>2. ASSUME XAdd \/ Age \/ UNCHANGED vars
      PROVE  EndedByFault' /\ DeadLetterComplete'
  BY <1>0, <1>2, LetterKept DEF XAdd, Age, vars, EndedByFault
<1>3. ASSUME NEW c \in Consumers, Process(c)
      PROVE  EndedByFault' /\ DeadLetterComplete'
  <2>1. CASE Start(c)
    BY <1>0, <2>1, LetterKept DEF Start, EndedByFault
  <2>2. CASE Crash(c)
    <3>1. EndedByFault'
      BY <1>0, <2>2 DEF Crash, Forget, EndedByFault, TypeOK
    <3>2. DeadLetterComplete'
      BY <1>0, <2>2, LetterExcused DEF Crash, DeadLetterComplete, TypeOK
    <3> QED
      BY <3>1, <3>2
  <2>3. CASE StreamsEnded(c)
    <3>1. faults # 0 /\ faults' = faults
      BY <1>0, <2>3 DEF StreamsEnded, EndedByFault
    <3> QED
      BY <3>1 DEF EndedByFault, DeadLetterComplete
  <2>4. CASE PollRead(c) \/ ServeRead(c)
    BY <1>0, <2>4, LetterKept DEF PollRead, ServeRead, ExecRead, EndedByFault, TypeOK
  <2>5. CASE SpendFault
    BY <1>0, <2>5 DEF SpendFault, EndedByFault, DeadLetterComplete, TypeOK
  <2>6. CASE Handle(c)
    BY <1>0, <2>6, LetterKept
    DEF Handle, TakeRead, TakeClaim, HandlerOk, HandlerErr, Ack, EndedByFault
  <2>7. CASE PollScan(c) \/ ServeScan(c) \/ PollClaimed(c) \/ ServeCounts(c) \/ FillBuffer(c)
    BY <1>0, <2>7, LetterKept
    DEF PollScan, ServeScan, ExecScan, PollClaimed, ServeCounts, FillBuffer, EndedByFault
  <2>8. CASE Condemn(c)
    <3>1. PICK t \in OverCap(c) : /\ dying' = [dying EXCEPT ![c] = {t}]
                                /\ capped' = capped \cup {t[1]}
      BY <2>8 DEF Condemn
    <3>2. dying[c] = {}
      BY <1>0, <2>8 DEF Condemn, DyingPlace
    <3>3. /\ dying'[c] = {t} /\ \A d \in Consumers \ {c} : dying'[d] = dying[d]
          /\ UNCHANGED <<dlq, readPc, faults, crashes>>
      BY <1>0, <2>8, <3>1 DEF Condemn, TypeOK
    <3>4. \A e : e \in EntriesOf(dying'[c]) <=> e = t[1]
      BY <3>3 DEF EntriesOf
    <3>5. \A d \in Consumers : EntriesOf(dying[d]) \subseteq EntriesOf(dying'[d])
      BY <3>2, <3>3 DEF EntriesOf
    <3>6. DeadLetterComplete'
      BY <1>0, <3>1, <3>3, <3>4, <3>5 DEF DeadLetterComplete, EntriesOf
    <3> QED
      BY <1>0, <3>3, <3>6 DEF EndedByFault
  <2>9. CASE ServeDeadAck(c) \/ PollDeadAcked(c)
    <3>1. UNCHANGED <<dying, capped, dlq, faults, crashes, readPc>>
      BY <1>0, <2>9 DEF ServeDeadAck, ExecDeadAck, PollDeadAcked, TypeOK
    <3> QED
      BY <1>0, <3>1, LetterKept DEF EndedByFault, LetterInv
  <2>10. CASE ServeDeadLetter(c)
    <3>1. /\ dlq' = [e \in Entries |-> IF \E t \in dying[c] : t[1] = e THEN dlq[e] + 1 ELSE dlq[e]]
          /\ \A d \in Consumers \ {c} : dying'[d] = dying[d]
          /\ UNCHANGED <<capped, readPc, faults, crashes>>
      BY <1>0, <2>10 DEF ServeDeadLetter, TypeOK
    <3>2. \A e \in Entries : dlq'[e] > 0 \/ (dlq[e] = 0 /\ e \notin EntriesOf(dying[c]))
      BY <1>0, <3>1 DEF TypeOK, EntriesOf
    <3>3. capped \subseteq Entries
      BY <1>0 DEF TypeOK
    <3>4. DeadLetterComplete'
      BY <1>0, <3>1, <3>2, <3>3 DEF DeadLetterComplete, EntriesOf
    <3> QED
      BY <1>0, <3>1, <3>4 DEF EndedByFault
  <2>11. ReadError(c) \/ AckFails(c) \/ ClaimError(c) => SpendFault
    BY DEF ReadError, ReadReplyLost, ReadFails, AckFails, ClaimError, ScanReplyLost,
           ScanFails, CountsFail, DeadAckReplyLost, DeadAckFails, DeadLetterFails
  <2> QED
    BY <1>3, <2>1, <2>2, <2>3, <2>4, <2>5, <2>6, <2>7, <2>8, <2>9, <2>10, <2>11
    DEF Process, ReadLoop, ClaimLoop
<1> QED
  BY <1>1, <1>2, <1>3 DEF Next, LetterInv

\* With a dead-letter topic, everything condemned is published or about to be,
\* until a command fails or a process is lost; for any number of consumers.
THEOREM DeadLettersComplete ==
  ASSUME HasDlq
  PROVE  Spec => []DeadLetterComplete
<1>1. Init => LetterInv
  BY LetterInit
<1>2. TypeOK /\ LetterInv /\ [Next]_vars => LetterInv'
  BY LetterNext
<1>3. LetterInv => DeadLetterComplete
  BY DEF LetterInv
<1> QED
  BY <1>1, <1>2, <1>3, TypeCorrect, PTL DEF Spec

-----------------------------------------------------------------------------
(* No claim loop: SingleAttempt *)

\* No consumer has auto_claim configured.
NoLoops == \A c \in Consumers : claimPc[c] = "none"

\* Then nothing is claimed, condemned or delivered a second time.
NothingClaimed ==
  /\ \A c \in Consumers : batch[c] = {} /\ claimBuf[c] = {} /\ dying[c] = {}
  /\ capped = {}
  /\ \A e \in Entries : times[e] <= 1

NoClaims == NoLoops => NothingClaimed

LEMMA NoClaimsInit == Init => NoClaims
BY DEF Init, NoClaims, NothingClaimed

\* No step takes a claim loop away.
LEMMA LoopsStay ==
  ASSUME TypeOK, [Next]_vars, NoLoops'
  PROVE  NoLoops
<1> USE DEF server, reader, handler, claimer, env, history, NoLoops, TypeOK
<1>1. CASE XAdd \/ Age \/ UNCHANGED vars
  BY <1>1 DEF XAdd, Age, vars
<1>2. ASSUME NEW c \in Consumers, Process(c) PROVE NoLoops
  <2>1. CASE Start(c) \/ Crash(c) \/ StreamsEnded(c)
    BY <2>1 DEF Start, Crash, StreamsEnded, Forget
  <2>2. CASE ReadLoop(c) \/ ReadError(c)
    BY <2>2 DEF ReadLoop, ReadError, PollRead, ServeRead, ReadReplyLost, ReadFails, ExecRead
  <2>3. CASE Handle(c) \/ AckFails(c)
    BY <2>3 DEF Handle, TakeRead, TakeClaim, HandlerOk, HandlerErr, Ack, AckFails
  <2>4. CASE PollScan(c) \/ ServeScan(c) \/ PollClaimed(c) \/ ServeCounts(c)
    BY <2>4 DEF PollScan, ServeScan, ExecScan, PollClaimed, ServeCounts
  <2>5. CASE ScanReplyLost(c) \/ ScanFails(c) \/ CountsFail(c)
    BY <2>5 DEF ScanReplyLost, ScanFails, CountsFail, ExecScan
  <2>6. CASE Condemn(c) \/ FillBuffer(c)
    BY <2>6 DEF Condemn, FillBuffer
  <2>7. CASE ServeDeadAck(c) \/ DeadAckReplyLost(c) \/ DeadAckFails(c)
    BY <2>7 DEF ServeDeadAck, DeadAckReplyLost, DeadAckFails, ExecDeadAck
  <2>8. CASE PollDeadAcked(c) \/ ServeDeadLetter(c) \/ DeadLetterFails(c)
    BY <2>8 DEF PollDeadAcked, ServeDeadLetter, DeadLetterFails
  <2> QED
    BY <1>2, <2>1, <2>2, <2>3, <2>4, <2>5, <2>6, <2>7, <2>8
    DEF Process, ClaimLoop, ClaimError
<1> QED
  BY <1>1, <1>2 DEF Next

\* A read delivers what was never delivered, so that nothing is delivered twice.
LEMMA NoClaimsNext ==
  ASSUME IndInv, NoClaims, [Next]_vars
  PROVE  NoClaims'
<1> SUFFICES ASSUME NoLoops' PROVE NothingClaimed'
  BY DEF NoClaims
<1> USE DEF server, reader, handler, claimer, env, history, NothingClaimed
<1>0. TypeOK /\ NoLoops /\ NothingClaimed
  BY LoopsStay DEF IndInv, NoClaims
<1>1. CASE XAdd \/ Age \/ UNCHANGED vars
  BY <1>0, <1>1 DEF XAdd, Age, vars
<1>2. ASSUME NEW c \in Consumers, Process(c) PROVE NothingClaimed'
  <2>1. CASE Start(c) \/ Crash(c) \/ StreamsEnded(c)
    <3>1. CASE Start(c)
      BY <1>0, <3>1 DEF Start, TypeOK
    <3>2. Forget(c) /\ UNCHANGED <<server, history>> => NothingClaimed'
      BY <1>0 DEF Forget, TypeOK
    <3>3. CASE Crash(c) \/ StreamsEnded(c)
      BY <3>2, <3>3 DEF Crash, StreamsEnded
    <3> QED
      BY <2>1, <3>1, <3>3
  <2>2. CASE PollRead(c) \/ ReadFails(c)
    BY <1>0, <2>2 DEF PollRead, ReadFails
  <2>3. CASE ServeRead(c) \/ ReadReplyLost(c)
    <3>1. /\ Deliver(Undelivered, c)
          /\ UNCHANGED <<batch, claimBuf, dying, capped>>
      BY <2>3 DEF ServeRead, ReadReplyLost, ExecRead
    <3>2. \A e \in Undelivered : times[e] = 0
      BY DEF Undelivered, IndInv, LedgerInv, Undealt
    <3>3. \A e \in Entries : times'[e] = IF e \in Undelivered THEN times[e] + 1 ELSE times[e]
      BY <3>1 DEF Deliver
    <3> QED
      BY <1>0, <3>1, <3>2, <3>3
  <2>4. CASE Handle(c) \/ AckFails(c)
    <3>1. CASE TakeRead(c) \/ TakeClaim(c)
      BY <1>0, <3>1 DEF TakeRead, TakeClaim
    <3>2. CASE HandlerOk(c) \/ HandlerErr(c)
      BY <1>0, <3>2 DEF HandlerOk, HandlerErr
    <3>3. CASE Ack(c) \/ AckFails(c)
      BY <1>0, <3>3 DEF Ack, AckFails
    <3> QED
      BY <2>4, <3>1, <3>2, <3>3 DEF Handle
  <2>5. ~ClaimLoop(c) /\ ~ClaimError(c)
    BY <1>0 DEF NoLoops, ClaimLoop, PollScan, ServeScan, ExecScan, PollClaimed, ServeCounts, Condemn,
           FillBuffer, ServeDeadAck, ExecDeadAck, PollDeadAcked, ServeDeadLetter, ClaimError,
           ScanReplyLost, ScanFails, CountsFail, DeadAckReplyLost, DeadAckFails, DeadLetterFails
  <2> QED
    BY <1>2, <2>1, <2>2, <2>3, <2>4, <2>5 DEF Process, ReadLoop, ReadError
<1> QED
  BY <1>1, <1>2 DEF Next

\* Without claims the handled deliveries are first ones of different entries,
\* and only a success takes an entry off the pending list.
LEMMA NoClaimsSingle == IndInv /\ NoClaims => SingleAttempt
<1> SUFFICES ASSUME IndInv, NoLoops, NothingClaimed
             PROVE  /\ \A s, t \in called : s[1] = t[1] => s = t
                    /\ \A e \in Entries : Delivered(e) /\ e \notin succ => owner[e] # Nobody
  BY DEF NoClaims, SingleAttempt, NoLoops
<1>1. \A t \in called : t \in Tokens /\ t[1] \in Entries /\ t[2] = 1
  <2>1. \A t \in called : t \in Tokens /\ 1 <= t[2] /\ t[2] <= times[t[1]]
    BY DEF IndInv, TypeOK, MemoryInv, AllIssued, Issued
  <2>2. \A t \in called : t[1] \in Entries /\ t[2] \in Nat /\ times[t[1]] \in Nat
    BY <2>1, TokenParts DEF IndInv, TypeOK
  <2> QED
    BY <2>1, <2>2 DEF NothingClaimed
<1>2. \A s, t \in called : s[1] = t[1] => s = t
  BY <1>1 DEF Tokens
<1>3. \A e \in Entries : Delivered(e) /\ e \notin succ => owner[e] # Nobody
  BY DEF IndInv, LedgerInv, NoSilentLoss, NothingClaimed
<1> QED
  BY <1>2, <1>3

\* Without a claim loop in the group there is one attempt per entry, and a failed
\* one leaves the entry pending; for any number of consumers, failures and crashes.
THEOREM OneAttempt == Spec => []SingleAttempt
<1>1. Init => NoClaims
  BY NoClaimsInit
<1>2. IndInv /\ NoClaims /\ [Next]_vars => NoClaims'
  BY NoClaimsNext
<1> QED
  BY <1>1, <1>2, NoClaimsSingle, Inductive, PTL DEF Spec

-----------------------------------------------------------------------------
(* One consumer: DeadLetterOnce *)

\* An entry in a batch or in handle_dead_letter has no dead letter yet, and is
\* there once.
LettersApart ==
  \A c \in Consumers :
    /\ \A t \in batch[c] \cup dying[c] : dlq[t[1]] = 0
    /\ \A s, t \in batch[c] : s[1] = t[1] => s = t
    /\ \A s \in dying[c], t \in batch[c] : s[1] # t[1]

\* No delivery of an entry with a dead letter can be condemned or published again.
OnceInv == DyingPlace /\ LettersApart /\ DeadLetterOnce

LEMMA OnceInit == Init => OnceInv
BY DyingPlaceInit DEF Init, OnceInv, LettersApart, DeadLetterOnce

LEMMA OnceNext ==
  ASSUME \A c, d \in Consumers : c = d, IndInv, OnceInv, [Next]_vars
  PROVE  LettersApart' /\ DeadLetterOnce'
<1> USE DEF server, reader, handler, claimer, env, history
<1>0. TypeOK /\ DyingPlace /\ LettersApart /\ DeadLetterOnce
  BY DEF IndInv, OnceInv
<1>1. CASE UNCHANGED <<batch, dying, dlq>>
  BY <1>0, <1>1 DEF LettersApart, DeadLetterOnce
<1>2. ASSUME NEW c \in Consumers, Process(c), ~UNCHANGED <<batch, dying, dlq>>
      PROVE  LettersApart' /\ DeadLetterOnce'
  <2>0. \A d \in Consumers : d = c
    OBVIOUS
  <2>1. CASE Crash(c) \/ StreamsEnded(c)
    BY <1>0, <2>1 DEF Crash, StreamsEnded, Forget, LettersApart, DeadLetterOnce, TypeOK
  <2>2. CASE ServeScan(c)
    <3>1. /\ batch'[c] = DeliveredTokens(Claimable(c)) /\ dying'[c] = {}
          /\ UNCHANGED dlq /\ claimPc[c] = "scan"
      BY <1>0, <2>2 DEF ServeScan, ExecScan, DyingPlace, TypeOK
    <3>2. \A e \in Claimable(c) : e \in Entries /\ owner[e] # Nobody
      BY <1>0, HandedOutEntries DEF Pending
    <3>3. \A e \in Claimable(c) : dlq[e] = 0
      BY <1>0, <3>2 DEF IndInv, CapInv, DeadLetterOverCap, TypeOK
    <3>4. \A t \in batch'[c] : t[1] \in Claimable(c) /\ t = <<t[1], times[t[1]] + 1>>
      BY <3>1 DEF DeliveredTokens
    <3> QED
      BY <1>0, <2>0, <3>1, <3>3, <3>4 DEF LettersApart, DeadLetterOnce
  <2>3. CASE Condemn(c)
    <3>1. PICK t \in OverCap(c) : /\ dying' = [dying EXCEPT ![c] = {t}]
                                /\ batch' = [batch EXCEPT ![c] = @ \ {t}]
      BY <2>3 DEF Condemn
    <3>2. t \in batch[c] /\ UNCHANGED dlq
      BY <2>3 DEF Condemn, OverCap
    <3>3. dying'[c] = {t} /\ batch'[c] = batch[c] \ {t}
      BY <1>0, <3>1 DEF TypeOK
    <3> QED
      BY <1>0, <2>0, <3>2, <3>3 DEF LettersApart, DeadLetterOnce
  <2>4. CASE FillBuffer(c)
    BY <1>0, <2>4 DEF FillBuffer, LettersApart, DeadLetterOnce, TypeOK
  <2>5. CASE DeadAckReplyLost(c) \/ DeadAckFails(c) \/ PollDeadAcked(c) \/ DeadLetterFails(c)
    <3>1. dying'[c] \subseteq dying[c] /\ UNCHANGED <<batch, dlq>>
      BY <1>0, <2>5
      DEF DeadAckReplyLost, ExecDeadAck, DeadAckFails, PollDeadAcked, DeadLetterFails, TypeOK
    <3> QED
      BY <1>0, <2>0, <3>1 DEF LettersApart, DeadLetterOnce
  <2>6. CASE ServeDeadLetter(c)
    <3>1. /\ dlq' = [e \in Entries |-> IF \E t \in dying[c] : t[1] = e THEN dlq[e] + 1 ELSE dlq[e]]
          /\ dying'[c] = {} /\ UNCHANGED batch
      BY <1>0, <2>6 DEF ServeDeadLetter, TypeOK
    <3>2. \A t \in batch[c] \cup dying[c] : t[1] \in Entries
      BY <1>0, TokenParts DEF TypeOK
    <3>3. \A e \in Entries : dlq[e] \in Nat
      BY <1>0 DEF TypeOK
    <3>4. \A t \in batch[c] : dlq'[t[1]] = 0
      BY <1>0, <3>1, <3>2 DEF LettersApart
    <3>5. DeadLetterOnce'
      BY <1>0, <3>1, <3>2, <3>3 DEF LettersApart, DeadLetterOnce
    <3> QED
      BY <1>0, <2>0, <3>1, <3>4, <3>5 DEF LettersApart
  <2>7. CASE Start(c) \/ ReadLoop(c) \/ ReadError(c) \/ Handle(c) \/ AckFails(c)
    BY <1>2, <2>7
    DEF Start, ReadLoop, ReadError, PollRead, ServeRead, ReadReplyLost, ReadFails, ExecRead,
        Handle, TakeRead, TakeClaim, HandlerOk, HandlerErr, Ack, AckFails
  <2>8. CASE PollScan(c) \/ PollClaimed(c) \/ ServeCounts(c) \/ ServeDeadAck(c)
    BY <1>2, <2>8 DEF PollScan, PollClaimed, ServeCounts, ServeDeadAck, ExecDeadAck
  <2>9. CASE ScanReplyLost(c) \/ ScanFails(c) \/ CountsFail(c)
    BY <1>2, <2>9 DEF ScanReplyLost, ExecScan, ScanFails, CountsFail
  <2> QED
    BY <1>2, <2>1, <2>2, <2>3, <2>4, <2>5, <2>6, <2>7, <2>8, <2>9
    DEF Process, ClaimLoop, ClaimError
<1>3. XAdd \/ Age \/ UNCHANGED vars => UNCHANGED <<batch, dying, dlq>>
  BY DEF XAdd, Age, vars
<1> QED
  BY <1>1, <1>2, <1>3 DEF Next

\* A single consumer writes at most one dead letter for an entry, whatever fails
\* and however often it is restarted.
THEOREM OneDeadLetter ==
  ASSUME \A c, d \in Consumers : c = d
  PROVE  Spec => []DeadLetterOnce
<1>1. Init => OnceInv
  BY OnceInit
<1>2. IndInv /\ OnceInv /\ [Next]_vars => OnceInv'
  BY OnceNext, DyingPlaceNext DEF IndInv, OnceInv
<1>3. OnceInv => DeadLetterOnce
  BY DEF OnceInv
<1> QED
  BY <1>1, <1>2, <1>3, Inductive, PTL DEF Spec

-----------------------------------------------------------------------------
(* One consumer: FirstCallsInOrder *)

FirstCalls == {t \in called : t[2] = 1}

\* The read buffer holds first deliveries, all behind those that were handled;
\* what is claimed was delivered before.
FirstAhead ==
  \A c \in Consumers :
    /\ \A t \in readBuf[c] : t[2] = 1 /\ \A s \in FirstCalls : s[1] < t[1]
    /\ \A t \in batch[c] \cup claimBuf[c] : t[2] > 1

LEMMA FirstInit == Init => FirstAhead
BY DEF Init, FirstAhead

\* XREADGROUP hands out entries behind all that were handled, XAUTOCLAIM entries
\* that were delivered before.
LEMMA FirstHandedOut ==
  ASSUME IndInv
  PROVE  /\ \A e \in Undelivered : times[e] = 0 /\ \A s \in FirstCalls : s[1] < e
         /\ \A c \in Consumers : \A e \in Claimable(c) : times[e] > 0
<1>1. \A e \in Entries : times[e] \in Nat /\ e \in Int /\ groupLast \in Int
  BY ConstantsAssumption DEF ConstantsAssumption, IndInv, TypeOK, Entries
<1>2. \A s \in FirstCalls : s[1] \in Entries /\ times[s[1]] > 0
  <2>1. \A s \in called : s \in Tokens /\ 1 <= s[2] /\ s[2] <= times[s[1]]
    BY DEF IndInv, TypeOK, MemoryInv, AllIssued, Issued
  <2>2. \A s \in called : s[1] \in Entries /\ s[2] \in Nat
    BY <2>1, TokenParts
  <2> QED
    BY <1>1, <2>1, <2>2 DEF FirstCalls
<1>3. \A s \in FirstCalls : s[1] <= groupLast
  BY <1>1, <1>2 DEF IndInv, LedgerInv, Undealt
<1>4. \A e \in Undelivered : e \in Entries /\ e > groupLast /\ times[e] = 0
  BY <1>1 DEF Undelivered, IndInv, LedgerInv, Undealt
<1>5. \A c \in Consumers : \A e \in Claimable(c) : e \in Entries /\ owner[e] # Nobody
  BY HandedOutEntries DEF IndInv, Pending
<1>6. \A e \in Entries : owner[e] # Nobody => times[e] # 0
  BY DEF IndInv, LedgerInv, Undealt
<1> QED
  BY <1>1, <1>2, <1>3, <1>4, <1>5, <1>6

\* A step keeps what lies ahead, and what it hands to the handler is in order.
LEMMA FirstNext ==
  ASSUME \A c, d \in Consumers : c = d, IndInv, FirstAhead, [Next]_vars
  PROVE  /\ FirstAhead'
         /\ \A t \in called' \ called :
              t[2] = 1 => \A s \in called : s[2] = 1 => s[1] < t[1]
<1> DEFINE InOrder == \A t \in called' \ called :
                        t[2] = 1 => \A s \in called : s[2] = 1 => s[1] < t[1]
<1> USE DEF server, reader, handler, claimer, env, history
<1>0. TypeOK
  BY DEF IndInv
<1>1. CASE UNCHANGED <<readBuf, batch, claimBuf, called>>
  BY <1>1 DEF FirstAhead, FirstCalls
<1>2. ASSUME NEW c \in Consumers, Process(c), ~UNCHANGED <<readBuf, batch, claimBuf, called>>
      PROVE  FirstAhead' /\ InOrder
  <2>0. \A d \in Consumers : d = c
    OBVIOUS
  <2>1. CASE Crash(c) \/ StreamsEnded(c)
    BY <1>0, <2>0, <2>1 DEF Crash, StreamsEnded, Forget, FirstAhead, FirstCalls, TypeOK
  <2>2. CASE ServeRead(c)
    <3>1. /\ readBuf'[c] = DeliveredTokens(Undelivered)
          /\ UNCHANGED <<batch, claimBuf, called>>
      BY <1>0, <2>2 DEF ServeRead, ExecRead, TypeOK
    <3>2. \A t \in readBuf'[c] : t[1] \in Undelivered /\ t[2] = times[t[1]] + 1
      BY <3>1 DEF DeliveredTokens
    <3> QED
      BY <2>0, <3>1, <3>2, FirstHandedOut DEF FirstAhead, FirstCalls
  <2>3. CASE TakeRead(c)
    <3>1. PICK t \in readBuf[c] : /\ IsFirst(t, readBuf[c])
                                  /\ readBuf' = [readBuf EXCEPT ![c] = @ \ {t}]
                                  /\ called' = called \cup {t}
      BY <2>3 DEF TakeRead
    <3>2. UNCHANGED <<batch, claimBuf>> /\ readBuf'[c] = readBuf[c] \ {t}
      BY <1>0, <2>3, <3>1 DEF TakeRead, TypeOK
    <3>3. \A u \in readBuf[c] : u \in Tokens /\ u[2] = 1
      BY <1>0 DEF TypeOK, FirstAhead
    <3>4. \A u \in readBuf[c] : u[1] \in Int /\ u = <<u[1], 1>>
      BY <3>3 DEF Tokens, Entries
    <3>5. \A u \in readBuf'[c] : t[1] < u[1]
      BY <3>1, <3>2, <3>4 DEF IsFirst
    <3>6. FirstCalls' = FirstCalls \cup {t}
      BY <3>1, <3>3 DEF FirstCalls
    <3>7. FirstAhead'
      BY <2>0, <3>2, <3>5, <3>6 DEF FirstAhead
    <3> QED
      BY <3>1, <3>7 DEF FirstAhead, FirstCalls
  <2>4. CASE TakeClaim(c)
    <3>1. PICK t \in claimBuf[c] : /\ claimBuf' = [claimBuf EXCEPT ![c] = @ \ {t}]
                                   /\ called' = called \cup {t}
      BY <2>4 DEF TakeClaim
    <3>2. t \in Tokens /\ t[2] > 1 /\ t[2] # 1
      BY <1>0, TokenParts DEF TypeOK, FirstAhead
    <3>3. FirstCalls' = FirstCalls
      BY <3>1, <3>2 DEF FirstCalls
    <3>4. UNCHANGED <<readBuf, batch>> /\ claimBuf'[c] = claimBuf[c] \ {t}
      BY <1>0, <2>4, <3>1 DEF TakeClaim, TypeOK
    <3> QED
      BY <2>0, <3>1, <3>2, <3>3, <3>4 DEF FirstAhead
  <2>5. CASE ServeScan(c)
    <3>1. /\ batch'[c] = DeliveredTokens(Claimable(c))
          /\ UNCHANGED <<readBuf, claimBuf, called>>
      BY <1>0, <2>5 DEF ServeScan, ExecScan, TypeOK
    <3>2. \A t \in batch'[c] :
            t[1] \in Claimable(c) /\ t[1] \in Entries /\ t[2] = times[t[1]] + 1
      BY <1>0, <3>1, HandedOutEntries DEF DeliveredTokens
    <3>3. \A t \in batch'[c] : times[t[1]] \in Nat
      BY <1>0, <3>2 DEF TypeOK
    <3> QED
      BY <2>0, <3>1, <3>2, <3>3, FirstHandedOut DEF FirstAhead, FirstCalls
  <2>6. CASE Condemn(c) \/ FillBuffer(c)
    <3>1. /\ batch'[c] \cup claimBuf'[c] \subseteq batch[c] \cup claimBuf[c]
          /\ UNCHANGED <<readBuf, called>>
      BY <1>0, <2>6 DEF Condemn, FillBuffer, TypeOK
    <3> QED
      BY <2>0, <3>1 DEF FirstAhead, FirstCalls
  <2>7. CASE \/ Start(c) \/ PollRead(c) \/ ReadError(c) \/ HandlerOk(c) \/ HandlerErr(c)
             \/ Ack(c) \/ AckFails(c) \/ ClaimError(c)
    BY <1>2, <2>7
    DEF Start, PollRead, ReadError, ReadReplyLost, ReadFails, ExecRead, HandlerOk, HandlerErr,
        Ack, AckFails, ClaimError, ScanReplyLost, ScanFails, CountsFail, DeadAckReplyLost,
        DeadAckFails, DeadLetterFails, ExecScan, ExecDeadAck
  <2>8. CASE \/ PollScan(c) \/ PollClaimed(c) \/ ServeCounts(c) \/ ServeDeadAck(c)
             \/ PollDeadAcked(c) \/ ServeDeadLetter(c)
    BY <1>2, <2>8
    DEF PollScan, PollClaimed, ServeCounts, ServeDeadAck, ExecDeadAck, PollDeadAcked,
        ServeDeadLetter
  <2> QED
    BY <1>2, <2>1, <2>2, <2>3, <2>4, <2>5, <2>6, <2>7, <2>8
    DEF Process, ReadLoop, Handle, ClaimLoop
<1>3. XAdd \/ Age \/ UNCHANGED vars => UNCHANGED <<readBuf, batch, claimBuf, called>>
  BY DEF XAdd, Age, vars
<1> QED
  BY <1>1, <1>2, <1>3 DEF Next

\* A single consumer handles first deliveries in stream order, across failures,
\* reclaimed entries and restarts.
THEOREM OrderedFirstCalls ==
  ASSUME \A c, d \in Consumers : c = d
  PROVE  Spec => FirstCallsInOrder
<1>1. Init => FirstAhead
  BY FirstInit
<1>2. IndInv /\ FirstAhead /\ [Next]_vars => FirstAhead'
  BY FirstNext
<1>3. IndInv /\ FirstAhead /\ [Next]_vars =>
        [\A t \in called' \ called :
           t[2] = 1 => \A s \in called : s[2] = 1 => s[1] < t[1]]_vars
  BY FirstNext
<1> QED
  BY <1>1, <1>2, <1>3, Inductive, PTL DEF Spec, FirstCallsInOrder

=============================================================================
