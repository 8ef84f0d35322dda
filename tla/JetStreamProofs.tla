--------------------------- MODULE JetStreamProofs ---------------------------
(***************************************************************************)
(* Proofs about JetStream, for any routes, limits and bounds.              *)
(***************************************************************************)
EXTENDS JetStream, SequenceTheorems, TLAPS

USE JetStreamAssumption

-----------------------------------------------------------------------------
(* The inductive invariant *)

\* What the service remembers of a message while it handles it.
JobKnown ==
  /\ stage = "down" => inbox = <<>>
  /\ stage \in {"replying", "settling"} /\ ~outcome.failed => job \in good
  /\ outcome.word \in {"ack", "term", "nak"} => conf.controls

\* A message is on its way to the service twice, or again, only with an excuse.
CopiesExcused ==
  /\ \A i \in 1..Len(due) : due[i] \in late
  /\ \A i, j \in 1..Len(inbox) :
       i # j /\ inbox[i] = inbox[j] /\ inbox[i] # 0 => inbox[i] \in late
  /\ \A i \in 1..Len(inbox) :
       inbox[i] # 0 /\ (inbox[i] = job \/ inbox[i] \in good) => inbox[i] \in late

IInv == TypeOK /\ NothingSkipped /\ RepeatsExcused /\ JobKnown /\ CopiesExcused

-----------------------------------------------------------------------------
(* Lemmas about sequences *)

\* A sequence over a set is one over any set that contains its elements.
LEMMA SeqWiden ==
  ASSUME NEW S, NEW T, NEW s \in Seq(S), S \subseteq T
  PROVE  s \in Seq(T)
OBVIOUS

LEMMA AppendFacts ==
  ASSUME NEW S, NEW s \in Seq(S), NEW e \in S
  PROVE  /\ Append(s, e) \in Seq(S)
         /\ Len(s) \in Nat /\ Len(Append(s, e)) = Len(s) + 1
         /\ \A i \in 1..Len(s) : Append(s, e)[i] = s[i]
         /\ Append(s, e)[Len(s) + 1] = e
OBVIOUS

LEMMA TailFacts ==
  ASSUME NEW S, NEW s \in Seq(S), s # <<>>
  PROVE  /\ Head(s) \in S /\ Head(s) = s[1]
         /\ Tail(s) \in Seq(S)
         /\ Len(s) \in Nat /\ Len(s) >= 1 /\ Len(Tail(s)) = Len(s) - 1
         /\ \A i \in 1..Len(Tail(s)) : Tail(s)[i] = s[i + 1] /\ i + 1 \in 1..Len(s)
OBVIOUS

-----------------------------------------------------------------------------
(* Every step preserves the invariant: the steps of the server *)

LEMMA InitInv == Init => IInv
<1> SUFFICES ASSUME Init PROVE IInv
  OBVIOUS
<1>1. NoOutcome \in Outcome /\ NoOutcome.word = "none"
  BY DEF NoOutcome, Outcome, Words
<1>2. TypeOK
  <2>1. <<>> \in Seq(1..0) /\ <<>> \in Seq(0..0) /\ 0 \in 0..0
    OBVIOUS
  <2>2. 0 \in 0..MaxCrashes /\ 0 \in 0..MaxFaults
    BY DEF JetStreamAssumption
  <2> QED BY <1>1, <2>1, <2>2 DEF Init, TypeOK
<1>3. NothingSkipped /\ RepeatsExcused /\ JobKnown /\ CopiesExcused
  BY <1>1 DEF Init, NothingSkipped, RepeatsExcused, JobKnown, CopiesExcused
<1> QED BY <1>2, <1>3 DEF IInv

LEMMA StutterInv == IInv /\ UNCHANGED vars => IInv'
BY DEF vars, server, service, history, IInv, TypeOK, NothingSkipped, RepeatsExcused,
       JobKnown, CopiesExcused

LEMMA AddInv == IInv /\ Add => IInv'
<1> SUFFICES ASSUME IInv, Add PROVE IInv'
  OBVIOUS
<1> USE DEF Add, server, service, history
<1>1. TypeOK'
  BY DEF IInv, TypeOK
<1>2. (NothingSkipped /\ RepeatsExcused)'
  BY DEF IInv, NothingSkipped, RepeatsExcused
<1>3. (JobKnown /\ CopiesExcused)'
  BY DEF IInv, JobKnown, CopiesExcused
<1> QED BY <1>1, <1>2, <1>3 DEF IInv

LEMMA DeliverInv == IInv /\ Deliver => IInv'
<1> SUFFICES ASSUME IInv, Deliver PROVE IInv'
  OBVIOUS
<1> USE DEF service, history
<1>0. TypeOK /\ NothingSkipped /\ RepeatsExcused /\ JobKnown /\ CopiesExcused
  BY DEF IInv
<1>1. /\ stage # "down" /\ UNCHANGED <<conf, added, exists, stage, job, outcome, good,
                                       controlled, late, crashes, faults>>
  BY DEF Deliver
<1>2. next \in Nat /\ added \in Nat
  BY <1>0 DEF TypeOK
<1>3. CASE due # <<>> /\ inbox' = (IF Head(due) \in pending THEN Append(inbox, Head(due))
                                                           ELSE inbox)
           /\ due' = Tail(due) /\ UNCHANGED <<next, pending>>
  <2>1. /\ Head(due) \in 1..next /\ Head(due) = due[1]
        /\ due' \in Seq(1..next)
        /\ Len(due) \in Nat /\ Len(due) >= 1
        /\ \A i \in 1..Len(due') : due'[i] = due[i + 1] /\ i + 1 \in 1..Len(due)
    BY <1>0, <1>3, TailFacts DEF TypeOK
  <2>2. Head(due) \in late
    BY <1>0, <2>1 DEF CopiesExcused
  <2>3. \A i \in 1..Len(due') : due'[i] \in late
    BY <1>0, <2>1 DEF CopiesExcused
  <2>4. inbox \in Seq(0..next) /\ Head(due) \in 0..next
    BY <1>0, <2>1, <1>2 DEF TypeOK
  <2>5. (NothingSkipped /\ RepeatsExcused /\ JobKnown)'
    BY <1>0, <1>1, <1>3 DEF NothingSkipped, RepeatsExcused, JobKnown
  <2>6. CASE Head(due) \in pending
    <3>1. /\ inbox' \in Seq(0..next)
          /\ Len(inbox) \in Nat /\ Len(inbox') = Len(inbox) + 1
          /\ \A i \in 1..Len(inbox) : inbox'[i] = inbox[i]
          /\ inbox'[Len(inbox) + 1] = Head(due)
      BY <2>4, <2>6, <1>3, AppendFacts
    <3>2. TypeOK'
      BY <1>0, <1>1, <1>3, <2>1, <3>1 DEF TypeOK
    <3>3. \A i \in 1..Len(inbox') : i \in 1..Len(inbox) \/ i = Len(inbox) + 1
      BY <3>1
    <3>4. CopiesExcused'
      BY <1>0, <1>1, <2>2, <2>3, <3>1, <3>3 DEF CopiesExcused
    <3> QED BY <2>5, <3>2, <3>4 DEF IInv
  <2>7. CASE Head(due) \notin pending
    <3>1. inbox' = inbox
      BY <1>3, <2>7
    <3>2. TypeOK'
      BY <1>0, <1>1, <1>3, <2>1, <3>1 DEF TypeOK
    <3>3. CopiesExcused'
      BY <1>0, <1>1, <2>3, <3>1 DEF CopiesExcused
    <3> QED BY <2>5, <3>2, <3>3 DEF IInv
  <2> QED BY <2>6, <2>7
<1>4. CASE next < added /\ next' = next + 1 /\ inbox' = Append(inbox, next')
           /\ pending' = pending \cup {next'} /\ UNCHANGED due
  <2>1. /\ next' \in 0..added /\ next' \in 1..next' /\ next' \in 0..next'
        /\ 1..next \subseteq 1..next' /\ 0..next \subseteq 0..next'
        /\ \A k \in 1..next' : k \in 1..next \/ k = next'
        /\ next' \notin 0..next
    BY <1>2, <1>4
  <2>2. due' \in Seq(1..next') /\ inbox \in Seq(0..next')
    BY <1>0, <1>4, <2>1, SeqWiden DEF TypeOK
  <2>3. /\ inbox' \in Seq(0..next')
        /\ Len(inbox) \in Nat /\ Len(inbox') = Len(inbox) + 1
        /\ \A i \in 1..Len(inbox) : inbox'[i] = inbox[i]
        /\ inbox'[Len(inbox) + 1] = next'
    BY <1>4, <2>1, <2>2, AppendFacts
  <2>4. TypeOK'
    BY <1>0, <1>1, <1>4, <2>1, <2>2, <2>3 DEF TypeOK
  <2>5. (NothingSkipped /\ RepeatsExcused /\ JobKnown)'
    BY <1>0, <1>1, <1>4, <2>1 DEF NothingSkipped, RepeatsExcused, JobKnown
  <2>6. \A i \in 1..Len(inbox') : i \in 1..Len(inbox) \/ i = Len(inbox) + 1
    BY <2>3
  <2>7. /\ \A i \in 1..Len(inbox) : inbox[i] \in 0..next
        /\ job \in 0..next /\ good \subseteq 0..next
    BY <1>0, <1>2 DEF TypeOK
  <2>8. \A i \in 1..Len(inbox) : inbox[i] # next'
    BY <2>1, <2>7
  <2>9. next' # job /\ next' \notin good
    BY <2>1, <2>7
  <2>10. CopiesExcused'
    BY <1>0, <1>1, <1>4, <2>3, <2>6, <2>8, <2>9 DEF CopiesExcused
  <2> QED BY <2>4, <2>5, <2>10 DEF IInv
<1> QED BY <1>3, <1>4 DEF Deliver

\* A message becomes due.
LEMMA MakeDueInv ==
  ASSUME TypeOK, CopiesExcused, NEW m \in pending, MakeDue(m)
  PROVE  /\ due' \in Seq(1..next) /\ late' \subseteq 1..next /\ late \subseteq late'
         /\ \A i \in 1..Len(due') : due'[i] \in late'
<1>1. m \in 1..next /\ due \in Seq(1..next)
  BY DEF TypeOK
<1>2. late' = late \cup {m}
  BY DEF MakeDue
<1>3. CASE due' = due
  BY <1>1, <1>2, <1>3 DEF TypeOK, CopiesExcused
<1>4. CASE due' = Append(due, m)
  <2>1. /\ due' \in Seq(1..next)
        /\ Len(due) \in Nat /\ Len(due') = Len(due) + 1
        /\ \A i \in 1..Len(due) : due'[i] = due[i]
        /\ due'[Len(due) + 1] = m
    BY <1>1, <1>4, AppendFacts
  <2>2. \A i \in 1..Len(due') : i \in 1..Len(due) \/ i = Len(due) + 1
    BY <2>1
  <2>3. \A i \in 1..Len(due') : due'[i] \in late'
    BY <1>2, <2>1, <2>2 DEF CopiesExcused
  <2> QED BY <1>1, <1>2, <2>1, <2>3 DEF TypeOK
<1> QED BY <1>3, <1>4 DEF MakeDue

LEMMA ExpireInv == ASSUME IInv, NEW m \in pending, Expire(m) PROVE IInv'
<1> USE DEF service
<1>0. TypeOK /\ NothingSkipped /\ RepeatsExcused /\ JobKnown /\ CopiesExcused
  BY DEF IInv
<1>1. UNCHANGED <<conf, added, inbox, exists, next, pending, stage, job, outcome, good,
                  controlled, crashes, faults>>
  BY DEF Expire
<1>2. /\ due' \in Seq(1..next) /\ late' \subseteq 1..next /\ late \subseteq late'
      /\ \A i \in 1..Len(due') : due'[i] \in late'
  BY <1>0, MakeDueInv DEF Expire
<1>3. TypeOK'
  BY <1>0, <1>1, <1>2 DEF TypeOK
<1>4. (NothingSkipped /\ RepeatsExcused /\ JobKnown)'
  BY <1>0, <1>1, <1>2 DEF NothingSkipped, RepeatsExcused, JobKnown
<1>5. CopiesExcused'
  BY <1>0, <1>1, <1>2 DEF CopiesExcused
<1> QED BY <1>3, <1>4, <1>5 DEF IInv

-----------------------------------------------------------------------------
(* The steps of the route *)

\* The consumer is kept, or it starts over and the history with it.
LEMMA GetConsumerInv ==
  ASSUME IInv, GetConsumer, stage = "down",
         UNCHANGED <<conf, added, inbox, job, outcome, crashes>>,
         stage' \in {"down", "idle"}, faults' \in 0..MaxFaults
  PROVE  IInv'
<1>0. TypeOK /\ NothingSkipped /\ RepeatsExcused /\ JobKnown /\ CopiesExcused
  BY DEF IInv
<1>1. inbox = <<>> /\ job = 0
  BY <1>0 DEF JobKnown, TypeOK
<1>2. \/ UNCHANGED <<next, pending, due, good, controlled, late>>
      \/ NewConsumer
  BY DEF GetConsumer, history
<1>3. CASE UNCHANGED <<next, pending, due, good, controlled, late>>
  <2>1. TypeOK'
    BY <1>0, <1>1, <1>3 DEF TypeOK, GetConsumer
  <2>2. (NothingSkipped /\ RepeatsExcused /\ JobKnown)'
    BY <1>0, <1>1, <1>3 DEF NothingSkipped, RepeatsExcused, JobKnown
  <2>3. CopiesExcused'
    BY <1>0, <1>3 DEF CopiesExcused
  <2> QED BY <2>1, <2>2, <2>3 DEF IInv
<1>4. CASE NewConsumer
  <2>1. TypeOK'
    BY <1>0, <1>1, <1>4 DEF TypeOK, GetConsumer, NewConsumer
  <2>2. (NothingSkipped /\ RepeatsExcused /\ JobKnown)'
    BY <1>0, <1>1, <1>4 DEF NothingSkipped, RepeatsExcused, JobKnown, NewConsumer
  <2>3. CopiesExcused'
    BY <1>1, <1>4 DEF CopiesExcused, NewConsumer
  <2> QED BY <2>1, <2>2, <2>3 DEF IInv
<1> QED BY <1>2, <1>3, <1>4

LEMMA StartInv == IInv /\ (Start \/ StartFails) => IInv'
<1>1. ASSUME IInv, Start PROVE IInv'
  <2>1. faults' \in 0..MaxFaults
    BY <1>1 DEF Start, IInv, TypeOK
  <2> QED BY <1>1, <2>1, GetConsumerInv DEF Start
<1>2. ASSUME IInv, StartFails PROVE IInv'
  <2>1. faults' \in 0..MaxFaults
    BY <1>2 DEF StartFails, IInv, TypeOK
  <2> QED BY <1>2, <2>1, GetConsumerInv DEF StartFails, service
<1> QED BY <1>1, <1>2

LEMMA StreamFailsInv == IInv /\ StreamFails => IInv'
<1> SUFFICES ASSUME IInv, StreamFails PROVE IInv'
  OBVIOUS
<1> USE DEF server, service, history
<1>0. TypeOK /\ NothingSkipped /\ RepeatsExcused /\ JobKnown /\ CopiesExcused
  BY DEF IInv
<1>1. UNCHANGED <<conf, added, exists, next, pending, due, stage, job, outcome, good,
                  controlled, late, crashes>> /\ stage # "down"
  BY DEF StreamFails
<1>2. inbox \in Seq(0..next) /\ 0 \in 0..next
  BY <1>0 DEF TypeOK
<1>3. /\ inbox' \in Seq(0..next)
      /\ Len(inbox) \in Nat /\ Len(inbox') = Len(inbox) + 1
      /\ \A i \in 1..Len(inbox) : inbox'[i] = inbox[i]
      /\ inbox'[Len(inbox) + 1] = 0
  BY <1>2, AppendFacts DEF StreamFails
<1>4. TypeOK'
  BY <1>0, <1>1, <1>3 DEF TypeOK, StreamFails
<1>5. (NothingSkipped /\ RepeatsExcused /\ JobKnown)'
  BY <1>0, <1>1 DEF NothingSkipped, RepeatsExcused, JobKnown
<1>6. \A i \in 1..Len(inbox') : i \in 1..Len(inbox) \/ i = Len(inbox) + 1
  BY <1>3
<1>7. CopiesExcused'
  BY <1>0, <1>1, <1>3, <1>6 DEF CopiesExcused
<1> QED BY <1>4, <1>5, <1>7 DEF IInv

\* The first item leaves the inbox and is handled, or passed over.
LEMMA TakeInv == IInv /\ (Take \/ TakeUnrouted \/ SkipError) => IInv'
<1> SUFFICES ASSUME IInv, Take \/ TakeUnrouted \/ SkipError PROVE IInv'
  OBVIOUS
<1> USE DEF server, service, history
<1>0. TypeOK /\ NothingSkipped /\ RepeatsExcused /\ JobKnown /\ CopiesExcused
  BY DEF IInv
<1>1. /\ stage = "idle" /\ inbox # <<>> /\ inbox' = Tail(inbox)
      /\ UNCHANGED <<conf, added, exists, next, pending, due, outcome, good, controlled,
                     late, crashes, faults>>
      /\ \/ stage' = "handling" /\ job' = Head(inbox) /\ Head(inbox) # 0
         \/ stage' = "idle" /\ job' = job
  BY DEF Take, TakeUnrouted, SkipError
<1>2. /\ Head(inbox) \in 0..next /\ Head(inbox) = inbox[1]
      /\ inbox' \in Seq(0..next) /\ Len(inbox') \in Nat
      /\ Len(inbox) \in Nat /\ Len(inbox) >= 1 /\ Len(inbox') = Len(inbox) - 1
      /\ \A i \in 1..Len(inbox') : inbox'[i] = inbox[i + 1] /\ i + 1 \in 1..Len(inbox)
  BY <1>0, <1>1, TailFacts DEF TypeOK
<1>3. job = 0
  BY <1>0, <1>1 DEF TypeOK
<1>4. TypeOK'
  BY <1>0, <1>1, <1>2, <1>3 DEF TypeOK
<1>5. (NothingSkipped /\ JobKnown)'
  BY <1>0, <1>1 DEF NothingSkipped, JobKnown
<1>6. 1 \in 1..Len(inbox)
  BY <1>2
<1>7. RepeatsExcused'
  BY <1>0, <1>1, <1>2, <1>6 DEF RepeatsExcused, CopiesExcused
<1>8. \A i, j \in 1..Len(inbox') :
        i # j /\ inbox'[i] = inbox'[j] /\ inbox'[i] # 0 => inbox'[i] \in late'
  <2> SUFFICES ASSUME NEW i \in 1..Len(inbox'), NEW j \in 1..Len(inbox'),
                      i # j, inbox'[i] = inbox'[j], inbox'[i] # 0
               PROVE  inbox'[i] \in late
    BY <1>1
  <2>1. i + 1 # j + 1
    BY <1>2
  <2> QED BY <1>0, <1>2, <2>1 DEF CopiesExcused
<1>9. \A i \in 1..Len(inbox') :
        inbox'[i] # 0 /\ (inbox'[i] = job' \/ inbox'[i] \in good') => inbox'[i] \in late'
  <2> SUFFICES ASSUME NEW i \in 1..Len(inbox'), inbox'[i] # 0,
                      inbox'[i] = job' \/ inbox'[i] \in good
               PROVE  inbox'[i] \in late
    BY <1>1
  <2>1. i + 1 # 1 /\ i + 1 \in 1..Len(inbox) /\ inbox'[i] = inbox[i + 1]
    BY <1>2
  <2>2. CASE inbox'[i] \in good
    BY <1>0, <2>1, <2>2 DEF CopiesExcused
  <2>3. CASE inbox'[i] = job'
    <3>1. inbox[i + 1] = inbox[1]
      BY <1>1, <1>2, <1>3, <2>1, <2>3
    <3> QED BY <1>0, <1>6, <2>1, <3>1 DEF CopiesExcused
  <2> QED BY <2>2, <2>3
<1>10. CopiesExcused'
  BY <1>0, <1>1, <1>8, <1>9 DEF CopiesExcused
<1> QED BY <1>4, <1>5, <1>7, <1>10 DEF IInv

\* The handler, or what stands in for it, makes an outcome.
LEMMA FinishInv ==
  ASSUME IInv, NEW word \in Responses, NEW failed \in BOOLEAN, Finish(word, failed),
         IF failed THEN UNCHANGED good ELSE good' = good \cup {job}
  PROVE  IInv'
<1> USE DEF server
<1>0. TypeOK /\ NothingSkipped /\ RepeatsExcused /\ JobKnown /\ CopiesExcused
  BY DEF IInv
<1>1. /\ stage = "handling" /\ stage' = "replying"
      /\ outcome' = [word |-> word, failed |-> failed]
      /\ UNCHANGED <<conf, added, inbox, job, exists, next, pending, due, controlled,
                     late, crashes, faults>>
  BY DEF Finish
<1>2. word \in Words /\ (word \in {"ack", "term", "nak"} => conf.controls)
  BY DEF Responses, Words
<1>3. outcome' \in Outcome /\ outcome'.word = word /\ outcome'.failed = failed
  BY <1>1, <1>2 DEF Outcome
<1>4. job \in 1..next
  BY <1>0, <1>1 DEF TypeOK
<1>5. good \subseteq good' /\ good' \subseteq good \cup {job} /\ (~failed => job \in good')
  OBVIOUS
<1>6. TypeOK'
  BY <1>0, <1>1, <1>3, <1>4, <1>5 DEF TypeOK
<1>7. (NothingSkipped /\ RepeatsExcused)'
  BY <1>0, <1>1, <1>5 DEF NothingSkipped, RepeatsExcused
<1>8. JobKnown'
  BY <1>0, <1>1, <1>2, <1>3, <1>5 DEF JobKnown
<1>9. CopiesExcused'
  BY <1>0, <1>1, <1>5 DEF CopiesExcused
<1> QED BY <1>6, <1>7, <1>8, <1>9 DEF IInv

LEMMA HandleInv == IInv /\ Handle => IInv'
<1> SUFFICES ASSUME IInv, Handle PROVE IInv'
  OBVIOUS
<1>1. "data" \in Responses
  BY DEF Responses, Words
<1>2. CASE Finish("data", TRUE) /\ UNCHANGED good
  BY <1>1, <1>2, FinishInv
<1>3. ASSUME NEW word \in Responses, HandlerOk(word) PROVE IInv'
  BY <1>3, FinishInv DEF HandlerOk
<1>4. ASSUME NEW word \in Responses, HandlerErr(word) PROVE IInv'
  BY <1>4, FinishInv DEF HandlerErr
<1> QED BY <1>2, <1>3, <1>4 DEF Handle, NotReady, PartsFail, BodyFails, ConvertFails

LEMMA PublishReplyInv == IInv /\ PublishReply => IInv'
<1> SUFFICES ASSUME IInv, PublishReply PROVE IInv'
  OBVIOUS
<1>0. TypeOK /\ NothingSkipped /\ RepeatsExcused /\ JobKnown /\ CopiesExcused
  BY DEF IInv
<1>1. /\ stage = "replying" /\ stage' = "settling"
      /\ UNCHANGED <<conf, added, inbox, exists, next, job, outcome, good, crashes>>
  BY DEF PublishReply
<1>2. job \in 1..next
  BY <1>0, <1>1 DEF TypeOK
<1>3. faults' \in 0..MaxFaults
  BY <1>0 DEF PublishReply, TypeOK
<1>4. CASE UNCHANGED <<pending, due, controlled, late>>
  <2>1. TypeOK'
    BY <1>0, <1>1, <1>3, <1>4 DEF TypeOK
  <2>2. (NothingSkipped /\ RepeatsExcused /\ JobKnown /\ CopiesExcused)'
    BY <1>0, <1>1, <1>4 DEF NothingSkipped, RepeatsExcused, JobKnown, CopiesExcused
  <2> QED BY <2>1, <2>2 DEF IInv
<1>5. CASE /\ outcome.word \in {"ack", "term"} /\ Settle(job) /\ UNCHANGED late
           /\ controlled' = controlled \cup {job}
  <2>1. TypeOK'
    BY <1>0, <1>1, <1>2, <1>3, <1>5 DEF TypeOK, Settle
  <2>2. conf.controls
    BY <1>0, <1>5 DEF JobKnown
  <2>3. (NothingSkipped /\ RepeatsExcused /\ JobKnown)'
    BY <1>0, <1>1, <1>5, <2>2 DEF NothingSkipped, RepeatsExcused, JobKnown, Settle
  <2>4. CopiesExcused'
    BY <1>0, <1>1, <1>5 DEF CopiesExcused, Settle
  <2> QED BY <2>1, <2>3, <2>4 DEF IInv
<1>6. CASE outcome.word = "nak" /\ MakeDue(job) /\ UNCHANGED <<pending, controlled>>
  <2>1. CASE job \notin pending
    <3>1. UNCHANGED <<pending, due, controlled, late>>
      BY <1>6, <2>1 DEF MakeDue
    <3> QED BY <1>4, <3>1
  <2>2. CASE job \in pending
    <3>1. /\ due' \in Seq(1..next) /\ late' \subseteq 1..next /\ late \subseteq late'
          /\ \A i \in 1..Len(due') : due'[i] \in late'
      BY <1>0, <1>6, <2>2, MakeDueInv
    <3>2. TypeOK'
      BY <1>0, <1>1, <1>3, <1>6, <3>1 DEF TypeOK
    <3>3. (NothingSkipped /\ RepeatsExcused /\ JobKnown)'
      BY <1>0, <1>1, <1>6, <3>1 DEF NothingSkipped, RepeatsExcused, JobKnown
    <3>4. CopiesExcused'
      BY <1>0, <1>1, <3>1 DEF CopiesExcused
    <3> QED BY <3>2, <3>3, <3>4 DEF IInv
  <2> QED BY <2>1, <2>2
<1> QED BY <1>4, <1>5, <1>6 DEF PublishReply, Arrives

\* A message is settled at most when its handler succeeded.
LEMMA AckMessageInv == IInv /\ (AckMessage \/ PublishError) => IInv'
<1> SUFFICES ASSUME IInv, AckMessage \/ PublishError PROVE IInv'
  OBVIOUS
<1> USE DEF server, history
<1>0. TypeOK /\ NothingSkipped /\ RepeatsExcused /\ JobKnown /\ CopiesExcused
  BY DEF IInv
<1>1. /\ stage = "settling" /\ stage' = "idle" /\ job' = 0 /\ outcome' = NoOutcome
      /\ UNCHANGED <<conf, added, inbox, exists, next, due, good, controlled, late, crashes>>
      /\ \/ pending' = pending /\ (UNCHANGED faults \/ (faults < MaxFaults /\ faults' = faults + 1))
         \/ ~outcome.failed /\ pending' = pending \ {job} /\ UNCHANGED faults
  <2>1. CASE PublishError
    <3>1. UNCHANGED <<exists, next, pending, due, good, controlled, late, faults>>
      BY <2>1 DEF PublishError
    <3>2. UNCHANGED <<conf, added, inbox, crashes>> /\ stage = "settling" /\ Done
      BY <2>1 DEF PublishError
    <3> QED BY <3>1, <3>2 DEF Done
  <2>2. CASE AckMessage
    BY <2>2 DEF AckMessage, Done, Settle
  <2> QED BY <2>1, <2>2
<1>2. outcome' \in Outcome /\ outcome'.word = "none"
  BY <1>1 DEF NoOutcome, Outcome, Words
<1>3. faults' \in 0..MaxFaults
  BY <1>0, <1>1 DEF TypeOK
<1>a. pending' \subseteq 1..next
  BY <1>0, <1>1 DEF TypeOK
<1>4. TypeOK'
  <2> HIDE DEF NoOutcome
  <2>1. UNCHANGED <<conf, added, inbox, exists, next, due, good, controlled, late, crashes>>
        /\ stage' = "idle" /\ job' = 0
    BY <1>1
  <2> QED BY <1>0, <2>1, <1>a, <1>2, <1>3 DEF TypeOK
<1>5. pending \subseteq pending' \cup good
  BY <1>0, <1>1 DEF JobKnown
<1>6. (NothingSkipped /\ RepeatsExcused)'
  BY <1>0, <1>1, <1>5 DEF NothingSkipped, RepeatsExcused
<1>7. JobKnown'
  BY <1>0, <1>1, <1>2 DEF JobKnown
<1>8. CopiesExcused'
  BY <1>0, <1>1 DEF CopiesExcused
<1> QED BY <1>4, <1>6, <1>7, <1>8 DEF IInv

LEMMA CrashInv == IInv /\ Crash => IInv'
<1> SUFFICES ASSUME IInv, Crash PROVE IInv'
  OBVIOUS
<1> USE DEF server, history
<1>1. NoOutcome \in Outcome /\ NoOutcome.word = "none"
  BY DEF NoOutcome, Outcome, Words
<1>2. TypeOK'
  BY <1>1 DEF IInv, TypeOK, Crash
<1>3. (NothingSkipped /\ RepeatsExcused /\ JobKnown)'
  BY <1>1 DEF IInv, NothingSkipped, RepeatsExcused, JobKnown, Crash
<1>4. CopiesExcused'
  BY DEF IInv, CopiesExcused, Crash
<1> QED BY <1>2, <1>3, <1>4 DEF IInv

-----------------------------------------------------------------------------
(* The theorems *)

\* The invariant that the others follow from.
THEOREM Invariance == Spec => []IInv
<1>1. IInv /\ [Next]_vars => IInv'
  BY StutterInv, AddInv, DeliverInv, ExpireInv, StartInv, StreamFailsInv, TakeInv,
     HandleInv, PublishReplyInv, AckMessageInv, CrashInv DEF Next, Serve
<1> QED BY <1>1, InitInv, PTL DEF Spec

\* The state of the service and of the consumer is well formed, for any limits: what
\* is due, in the inbox or in the handler is a message the consumer has delivered.
THEOREM TypeCorrect == Spec => []TypeOK
BY Invariance, PTL DEF IInv

\* No message is forgotten by the server unless its handler succeeded or a control
\* word was answered for it, for any number of messages, crashes and lost publishes.
THEOREM NoMessageSkipped == Spec => []NothingSkipped
BY Invariance, PTL DEF IInv

\* A handler that succeeded is called again only after an expired ack wait or a nak.
THEOREM RepeatsHaveExcuse == Spec => []RepeatsExcused
BY Invariance, PTL DEF IInv

\* Restarts do not move a durable consumer.
THEOREM DurablePlace == Spec => DurableKeepsPlace
<1> DEFINE Kept == /\ next' >= next
                   /\ (1..next) \ pending \subseteq (1..next') \ pending'
<1>1. ASSUME IInv, [Next]_vars, conf.durable, exists PROVE Kept
  <2>0. next \in Nat
    BY <1>1 DEF IInv, TypeOK
  <2>1. CASE UNCHANGED next /\ pending' \subseteq pending
    BY <2>0, <2>1
  <2>2. CASE Deliver
    <3>1. CASE next' = next + 1 /\ pending' = pending \cup {next'}
      BY <2>0, <3>1
    <3> QED BY <2>1, <2>2, <3>1 DEF Deliver
  <2>3. CASE Start \/ StartFails
    BY <1>1, <2>1, <2>3 DEF Start, StartFails, GetConsumer
  <2>4. CASE PublishReply \/ AckMessage
    BY <2>1, <2>4 DEF PublishReply, AckMessage, Arrives, Settle
  <2>5. CASE Add \/ StreamFails \/ Crash \/ SkipError \/ Take \/ TakeUnrouted \/ PublishError
    BY <2>1, <2>5 DEF Add, StreamFails, Crash, SkipError, Take, TakeUnrouted, PublishError, server
  <2>6. CASE Handle
    BY <2>1, <2>6 DEF Handle, NotReady, PartsFail, BodyFails, ConvertFails, HandlerOk,
                      HandlerErr, Finish, server
  <2>7. CASE \E m \in pending : Expire(m)
    BY <2>1, <2>7 DEF Expire
  <2>8. CASE UNCHANGED vars
    BY <2>1, <2>8 DEF vars, server
  <2> QED BY <1>1, <2>2, <2>3, <2>4, <2>5, <2>6, <2>7, <2>8 DEF Next, Serve
<1>2. IInv /\ [Next]_vars => [conf.durable /\ exists => Kept]_vars
  BY <1>1
<1> QED BY <1>2, Invariance, PTL DEF Spec, DurableKeepsPlace

=============================================================================
