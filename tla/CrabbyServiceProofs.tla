------------------------- MODULE CrabbyServiceProofs -------------------------
(***************************************************************************)
(* Proofs about CrabbyService, for every number of routes and messages and *)
(* every assignment of error topics.                                       *)
(***************************************************************************)
EXTENDS CrabbyService, TLAPS

\* The initial state has the types.
LEMMA TypeInit == ServiceAssumption /\ Init => TypeOK
<1> SUFFICES ASSUME ServiceAssumption, Init PROVE TypeOK
  OBVIOUS
<1>1. [stream |-> 0, subject |-> Stray,
       kind |-> [replyTo |-> FALSE, acker |-> FALSE, response |-> FALSE]] \in Messages
  BY DEF ServiceAssumption, Messages, Streams, AllKinds
<1>2. /\ queue \in [Streams -> Seq(Ids)]
      /\ msg \in [Ids -> Messages]
      /\ result \in [Ids -> Results]
      /\ errored \in [Ids -> SUBSET Topics]
      /\ ready \in Seq(Streams)
      /\ passed \in [Streams -> SUBSET Streams]
  BY <1>1 DEF Init, Results
<1>3. posted \in 0..MaxMessages
  BY DEF ServiceAssumption, Init
<1> QED
  BY <1>2, <1>3 DEF Init, TypeOK, Pcs, NoMsg

\* Waking a stream puts it at the end of those to be polled, once.
LEMMA WokenType ==
  ASSUME ready \in Seq(Streams), NEW s \in Streams
  PROVE  Woken(s) \in Seq(Streams)
BY DEF Woken

\* Every step keeps every variable in its type: the message in handle_message
\* is a delivered one, and one with a route when its error event is due.
LEMMA TypeNext ==
  ServiceAssumption /\ TypeOK /\ CurrentStep /\ QueuesApart /\ [Next]_vars => TypeOK'
<1> SUFFICES ASSUME ServiceAssumption, TypeOK, CurrentStep, QueuesApart, [Next]_vars
             PROVE  TypeOK'
  OBVIOUS
<1> USE DEF ServiceAssumption, config, outside, history, turns, Breaks, Yield, Pcs, NoMsg
<1>1. ASSUME NEW s \in Streams, Post(s) PROVE TypeOK'
  <2>1. PICK subject \in {Stray} \cup routes, kind \in Kinds[s] :
          msg' = [msg EXCEPT ![posted + 1] =
                    [stream |-> s, subject |-> subject, kind |-> kind]]
    BY <1>1 DEF Post
  <2>2. [stream |-> s, subject |-> subject, kind |-> kind] \in Messages
    <3>1. subject \in Routes \cup {Stray}
      BY DEF TypeOK
    <3>2. kind \in AllKinds
      OBVIOUS
    <3> QED
      BY <3>1, <3>2 DEF Messages
  <2>3. posted + 1 \in Ids /\ posted + 1 \in 0..MaxMessages
    BY <1>1 DEF Post, TypeOK, Ids
  <2>4. msg' \in [Ids -> Messages]
    BY <2>1, <2>2, <2>3 DEF TypeOK
  <2>5. queue' \in [Streams -> Seq(Ids)]
    BY <1>1, <2>3 DEF Post, TypeOK
  <2>6. ready' \in Seq(Streams)
    BY <1>1, WokenType DEF Post, TypeOK
  <2> QED
    BY <1>1, <2>3, <2>4, <2>5, <2>6 DEF Post, TypeOK
<1>2. ASSUME NEW s \in Streams, EndStream(s) PROVE TypeOK'
  <2>1. ready' \in Seq(Streams)
    BY <1>2, WokenType DEF EndStream, TypeOK
  <2> QED
    BY <1>2, <2>1 DEF EndStream, TypeOK
<1>3. ASSUME NEW s \in Streams, TakeMessage(s) PROVE TypeOK'
  <2>1. Head(queue[s]) \in Ids /\ Tail(queue[s]) \in Seq(Ids)
    BY <1>3 DEF TakeMessage, TypeOK
  <2>2. ready' \in Seq(Streams)
    BY <1>3 DEF TakeMessage, TypeOK
  <2>3. passed' \in [Streams -> SUBSET Streams]
    BY <1>3 DEF TakeMessage, TypeOK
  <2> QED
    BY <1>3, <2>1, <2>2, <2>3 DEF TakeMessage, TypeOK
<1>4. CASE Signal
  BY <1>4 DEF Signal, TypeOK
<1>5. CASE Startup
  <2>1. 0 \in Streams /\ Routes \subseteq Streams
    BY DEF Streams, Routes
  <2>2. CASE Subscribe
    <3>1. ready' \in Seq(Streams)
      <4>1. ready \in Seq(Streams) /\ Append(ready, 0) \in Seq(Streams)
        BY <2>1 DEF TypeOK
      <4> QED
        BY <2>2, <4>1 DEF Subscribe
    <3>2. opened' \in SUBSET Streams
      BY <2>1, <2>2 DEF Subscribe, TypeOK
    <3>3. pc' \in Pcs /\ UNCHANGED <<config, outside, cur, history, passed>>
      BY <2>2 DEF Subscribe
    <3> QED
      BY <3>1, <3>2, <3>3 DEF TypeOK
  <2>3. CASE OpenFactory
    <3>1. FactoryRoutes \subseteq Streams
      BY <2>1 DEF FactoryRoutes, TypeOK
    <3>2. opened' \in SUBSET Streams
      BY <2>3, <3>1 DEF OpenFactory, TypeOK
    <3>3. ready' \in Seq(Streams)
      BY <2>3, <3>1 DEF OpenFactory, TypeOK
    <3> QED
      BY <2>3, <3>2, <3>3 DEF OpenFactory, TypeOK
  <2>4. CASE EnterLoop
    BY <2>4 DEF EnterLoop, TypeOK
  <2> QED
    BY <1>5, <2>2, <2>3, <2>4 DEF Startup
<1>6. CASE StartFails \/ WaitSignal \/ WaitFails \/ TakeShutdown \/ TakeNone
  <2>1. CASE StartFails
    <3>1. opened' \in SUBSET Streams /\ ready' \in Seq(Streams) /\ pc' \in Pcs
      BY <2>1 DEF StartFails
    <3>2. UNCHANGED <<config, outside, cur, history, passed>>
      BY <2>1 DEF StartFails
    <3> QED
      BY <3>1, <3>2 DEF TypeOK
  <2>2. CASE ~StartFails
    BY <1>6, <2>2 DEF WaitSignal, WaitFails, TakeShutdown, TakeNone, TypeOK
  <2> QED
    BY <2>1, <2>2
<1>10. CASE PollPending
  <2>1. ready' \in Seq(Streams)
    BY <1>10 DEF PollPending, TypeOK
  <2> QED
    BY <1>10, <2>1 DEF PollPending, TypeOK
<1>7. CASE Handle
  <2>1. pc \in Handling /\ cur \in Ids
    BY <1>7 DEF Handle, Dispatch, DispatchNone, PublishReply, PublishError, AckMessage,
      CurrentStep, Handling, QueuesApart, TypeOK
  <2>2. CASE Dispatch
    BY <2>1, <2>2 DEF Dispatch, TypeOK, Results
  <2>3. CASE DispatchNone
    BY <2>1, <2>3 DEF DispatchNone, TypeOK, Results
  <2>4. CASE PublishReply
    BY <2>1, <2>4 DEF PublishReply, TypeOK
  <2>5. CASE PublishError
    <3>1. ErrorTopic(msg[cur].subject) \in Topics
      BY <2>5 DEF PublishError, CurrentStep, ErrorTopic, Topics, TypeOK
    <3>2. errored' \in [Ids -> SUBSET Topics]
      BY <2>1, <2>5, <3>1 DEF PublishError, TypeOK
    <3>3. broken' \in SUBSET Ids
      BY <2>1, <2>5 DEF PublishError, TypeOK
    <3> QED
      BY <2>5, <3>2, <3>3 DEF PublishError, TypeOK
  <2>6. CASE AckMessage
    BY <2>1, <2>6 DEF AckMessage, TypeOK
  <2> QED
    BY <1>7, <2>2, <2>3, <2>4, <2>5, <2>6 DEF Handle
<1>8. CASE RunHook
  BY <1>8 DEF RunHook, TypeOK
<1>9. CASE UNCHANGED vars
  BY <1>9 DEF vars, TypeOK
<1> QED
  BY <1>1, <1>2, <1>3, <1>4, <1>5, <1>6, <1>7, <1>8, <1>9, <1>10 DEF Next

\* The initial state satisfies the invariant.
LEMMA IndInit == ServiceAssumption /\ Init => IndInv
BY TypeInit DEF Init, IndInv, QueuesApart, CurrentStep, NothingEarly, Settled,
  SettledBeforeNext, AckXorError, HookOnlyOnSuccess, Handling, Starting, NoMsg

\* A message is in at most one queue and never comes back once taken.
LEMMA QueuesNext ==
  ServiceAssumption /\ TypeOK /\ QueuesApart /\ [Next]_vars => QueuesApart'
<1> SUFFICES ASSUME ServiceAssumption, TypeOK, QueuesApart, [Next]_vars
             PROVE  QueuesApart'
  OBVIOUS
<1> USE DEF config, outside, history, turns, Breaks, Yield
<1>1. ASSUME NEW s \in Streams, Post(s) PROVE QueuesApart'
  <2>1. /\ queue[s] \in Seq(Ids)
        /\ queue'[s] = Append(queue[s], posted + 1)
        /\ \A t \in Streams \ {s} : queue'[t] = queue[t]
        /\ posted \in Nat /\ posted' = posted + 1 /\ taken' = taken
    BY <1>1 DEF Post, TypeOK
  <2>2. /\ Len(queue'[s]) = Len(queue[s]) + 1
        /\ \A i \in 1..Len(queue[s]) : queue'[s][i] = queue[s][i]
        /\ queue'[s][Len(queue[s]) + 1] = posted + 1
    BY <2>1
  <2>3. \A t \in Streams : \A i \in 1..Len(queue[t]) : queue[t][i] \in 1..posted
    BY DEF QueuesApart
  <2>4. taken' \subseteq 1..posted'
    BY <2>1 DEF QueuesApart
  <2>5. \A t \in Streams : \A i \in 1..Len(queue'[t]) :
          \/ i \in 1..Len(queue[t]) /\ queue'[t][i] = queue[t][i]
          \/ t = s /\ i = Len(queue[s]) + 1 /\ queue'[t][i] = posted + 1
    <3> SUFFICES ASSUME NEW t \in Streams, NEW i \in 1..Len(queue'[t])
                 PROVE  \/ i \in 1..Len(queue[t]) /\ queue'[t][i] = queue[t][i]
                        \/ t = s /\ i = Len(queue[s]) + 1 /\ queue'[t][i] = posted + 1
      OBVIOUS
    <3>1. CASE t = s /\ i = Len(queue[s]) + 1
      BY <2>2, <3>1
    <3>2. CASE t = s /\ i # Len(queue[s]) + 1
      <4>1. i \in 1..Len(queue[s])
        BY <2>1, <2>2, <3>2
      <4> QED
        BY <2>2, <3>2, <4>1
    <3>3. CASE t # s
      BY <2>1, <3>3
    <3> QED
      BY <3>1, <3>2, <3>3
  <2>6. \A t \in Streams : \A i \in 1..Len(queue'[t]) :
          queue'[t][i] \in (1..posted') \ taken'
    <3>1. \A n \in (1..posted) \ taken : n \in (1..posted') \ taken'
      BY <2>1
    <3>2. posted + 1 \in (1..posted') \ taken'
      BY <2>1 DEF QueuesApart
    <3>3. \A t \in Streams : \A i \in 1..Len(queue[t]) : queue[t][i] \in (1..posted) \ taken
      BY DEF QueuesApart
    <3> QED
      BY <2>5, <3>1, <3>2, <3>3
  <2>7. ASSUME NEW t \in Streams, NEW u \in Streams,
               NEW i \in 1..Len(queue'[t]), NEW j \in 1..Len(queue'[u]),
               queue'[t][i] = queue'[u][j]
        PROVE  t = u /\ i = j
    <3>1. CASE queue'[t][i] = posted + 1
      <4>1. \A n \in 1..posted : n # posted + 1
        BY <2>1
      <4>2. t = s /\ i = Len(queue[s]) + 1
        BY <2>3, <2>5, <3>1, <4>1
      <4>3. u = s /\ j = Len(queue[s]) + 1
        BY <2>3, <2>5, <2>7, <3>1, <4>1
      <4> QED
        BY <4>2, <4>3
    <3>2. CASE queue'[t][i] # posted + 1
      <4>1. /\ i \in 1..Len(queue[t]) /\ queue'[t][i] = queue[t][i]
            /\ j \in 1..Len(queue[u]) /\ queue'[u][j] = queue[u][j]
        BY <2>5, <2>7, <3>2
      <4>2. queue[t][i] = queue[u][j]
        BY <2>7, <4>1
      <4> QED
        BY <4>1, <4>2 DEF QueuesApart
    <3> QED
      BY <3>1, <3>2
  <2> QED
    BY <2>4, <2>6, <2>7 DEF QueuesApart
<1>2. ASSUME NEW s \in Streams, TakeMessage(s) PROVE QueuesApart'
  <2>1. /\ queue[s] \in Seq(Ids) /\ queue[s] # <<>>
        /\ queue'[s] = Tail(queue[s])
        /\ \A t \in Streams \ {s} : queue'[t] = queue[t]
        /\ posted' = posted /\ taken' = taken \cup {Head(queue[s])}
    BY <1>2 DEF TakeMessage, TypeOK
  <2>2. /\ Len(queue'[s]) = Len(queue[s]) - 1 /\ Len(queue[s]) \in Nat \ {0}
        /\ \A i \in 1..Len(queue'[s]) : queue'[s][i] = queue[s][i + 1]
        /\ Head(queue[s]) = queue[s][1]
    BY <2>1
  <2>3. \A t \in Streams : \A i \in 1..Len(queue'[t]) :
          \E j \in 1..Len(queue[t]) :
            queue'[t][i] = queue[t][j] /\ j = (IF t = s THEN i + 1 ELSE i)
    <3> SUFFICES ASSUME NEW t \in Streams, NEW i \in 1..Len(queue'[t])
                 PROVE  \E j \in 1..Len(queue[t]) :
                          queue'[t][i] = queue[t][j] /\ j = (IF t = s THEN i + 1 ELSE i)
      OBVIOUS
    <3>1. CASE t = s
      <4>1. i + 1 \in 1..Len(queue[t])
        BY <2>2, <3>1
      <4> QED
        BY <2>2, <3>1, <4>1
    <3>2. CASE t # s
      BY <2>1, <3>2
    <3> QED
      BY <3>1, <3>2
  <2>4. Head(queue[s]) \in 1..posted
    BY <2>2 DEF QueuesApart
  <2>5. taken' \subseteq 1..posted'
    BY <2>1, <2>4 DEF QueuesApart
  <2>6. ASSUME NEW t \in Streams, NEW i \in 1..Len(queue'[t])
        PROVE  queue'[t][i] \in (1..posted') \ taken'
    <3>1. PICK j \in 1..Len(queue[t]) :
            queue'[t][i] = queue[t][j] /\ j = (IF t = s THEN i + 1 ELSE i)
      BY <2>3
    <3>2. queue[t][j] # queue[s][1]
      <4>1. queue[t][j] = queue[s][1] => t = s /\ j = 1
        BY <2>2 DEF QueuesApart
      <4> QED
        BY <3>1, <4>1
    <3> QED
      BY <2>1, <2>2, <3>1, <3>2 DEF QueuesApart
  <2>7. ASSUME NEW t \in Streams, NEW u \in Streams,
               NEW i \in 1..Len(queue'[t]), NEW j \in 1..Len(queue'[u]),
               queue'[t][i] = queue'[u][j]
        PROVE  t = u /\ i = j
    <3>1. PICK k \in 1..Len(queue[t]) :
            queue'[t][i] = queue[t][k] /\ k = (IF t = s THEN i + 1 ELSE i)
      BY <2>3
    <3>2. PICK l \in 1..Len(queue[u]) :
            queue'[u][j] = queue[u][l] /\ l = (IF u = s THEN j + 1 ELSE j)
      BY <2>3
    <3>3. queue[t][k] = queue[u][l]
      BY <2>7, <3>1, <3>2
    <3>4. t = u /\ k = l
      BY <3>3 DEF QueuesApart
    <3> QED
      BY <3>1, <3>2, <3>4
  <2> QED
    BY <2>5, <2>6, <2>7 DEF QueuesApart
<1>3. CASE UNCHANGED <<queue, posted, taken>>
  BY <1>3 DEF QueuesApart
<1> QED
  BY <1>1, <1>2, <1>3 DEF Next, vars, EndStream, Signal, Startup, Subscribe, OpenFactory,
    EnterLoop, StartFails, WaitSignal, WaitFails, TakeShutdown, TakeNone, PollPending, Handle,
    Dispatch, DispatchNone, PublishReply, PublishError, AckMessage, RunHook

\* A message is taken, dispatched, answered, reported and acknowledged in turn.
LEMMA CurrentNext ==
  ServiceAssumption /\ TypeOK /\ QueuesApart /\ CurrentStep /\ NothingEarly /\ [Next]_vars
    => CurrentStep'
<1> SUFFICES ASSUME ServiceAssumption, TypeOK, QueuesApart, CurrentStep, NothingEarly,
                    [Next]_vars
             PROVE  CurrentStep'
  OBVIOUS
<1> USE DEF config, outside, history, turns, Breaks, Yield, Handling
<1>1. ASSUME NEW s \in Streams, Post(s) PROVE CurrentStep'
  <2>1. cur \in taken => msg'[cur] = msg[cur]
    BY <1>1 DEF Post, TypeOK, QueuesApart
  <2> QED
    BY <1>1, <2>1 DEF Post, CurrentStep, ReplyDue, ErrorDue
<1>2. ASSUME NEW s \in Streams, TakeMessage(s) PROVE CurrentStep'
  <2>1. Head(queue[s]) \in Ids \ taken
    <3>1. queue[s] \in Seq(Ids) /\ queue[s] # <<>>
      BY <1>2 DEF TakeMessage, TypeOK
    <3>2. 1 \in 1..Len(queue[s]) /\ Head(queue[s]) = queue[s][1] /\ queue[s][1] \in Ids
      BY <3>1
    <3> QED
      BY <3>2 DEF QueuesApart
  <2> QED
    BY <1>2, <2>1 DEF TakeMessage, CurrentStep, NothingEarly
<1>3. CASE Handle
  <2>1. cur \in Ids
    BY <1>3 DEF Handle, Dispatch, DispatchNone, PublishReply, PublishError, AckMessage,
      CurrentStep, QueuesApart, TypeOK
  <2>2. CASE Dispatch
    BY <2>1, <2>2 DEF Dispatch, CurrentStep, TypeOK
  <2>3. CASE DispatchNone
    BY <2>3 DEF DispatchNone, CurrentStep
  <2>4. CASE PublishReply
    BY <2>1, <2>4 DEF PublishReply, CurrentStep, ReplyDue
  <2>5. CASE PublishError
    <3>1. ErrorDue(cur) => errored'[cur] # {} \/ cur \in broken'
      BY <2>1, <2>5 DEF PublishError, TypeOK
    <3>2. cur' = cur /\ pc' = "ack"
      BY <2>5 DEF PublishError
    <3> QED
      BY <2>5, <3>1, <3>2 DEF PublishError, CurrentStep, ReplyDue, ErrorDue
  <2>6. CASE AckMessage
    BY <2>6 DEF AckMessage, CurrentStep
  <2> QED
    BY <1>3, <2>2, <2>3, <2>4, <2>5, <2>6 DEF Handle
<1>4. CASE /\ pc \notin Handling /\ pc' \notin Handling
          /\ UNCHANGED <<cur, history>>
  BY <1>4 DEF CurrentStep
<1>5. CASE UNCHANGED <<pc, cur, msg, routes, history>>
  BY <1>5 DEF CurrentStep, ReplyDue, ErrorDue
<1> QED
  BY <1>1, <1>2, <1>3, <1>4, <1>5 DEF Next, vars, EndStream, Signal, Startup, Subscribe,
    OpenFactory, EnterLoop, StartFails, WaitSignal, WaitFails, TakeShutdown, TakeNone, PollPending, RunHook

\* Nothing is taken before the loop, nothing recorded before the dispatch.
LEMMA EarlyNext ==
  TypeOK /\ QueuesApart /\ CurrentStep /\ NothingEarly /\ [Next]_vars => NothingEarly'
<1> SUFFICES ASSUME TypeOK, QueuesApart, CurrentStep, NothingEarly, [Next]_vars
             PROVE  NothingEarly'
  OBVIOUS
<1> USE DEF config, outside, history, turns, Breaks, Yield, Starting, Handling
<1>1. ASSUME NEW s \in Streams, TakeMessage(s) PROVE NothingEarly'
  BY <1>1 DEF TakeMessage, NothingEarly
<1>2. CASE Handle
  BY <1>2 DEF Handle, Dispatch, DispatchNone, PublishReply, PublishError, AckMessage,
    CurrentStep, NothingEarly, TypeOK
<1>3. CASE /\ pc' \in Starting => pc \in Starting
          /\ UNCHANGED <<taken, result>> /\ (hook' = hook \/ pc' = "done")
  BY <1>3 DEF NothingEarly
<1> QED
  BY <1>1, <1>2, <1>3 DEF Next, vars, Post, EndStream, Signal, Startup, Subscribe,
    OpenFactory, EnterLoop, StartFails, WaitSignal, WaitFails, TakeShutdown, TakeNone, PollPending, RunHook

\* No step leaves a message behind that is not settled.
LEMMA SettledNext ==
  TypeOK /\ QueuesApart /\ CurrentStep /\ SettledBeforeNext /\ CurrentStep' /\ [Next]_vars
    => SettledBeforeNext'
<1> SUFFICES ASSUME TypeOK, QueuesApart, CurrentStep, SettledBeforeNext, CurrentStep',
                    [Next]_vars
             PROVE  SettledBeforeNext'
  OBVIOUS
<1> USE DEF config, outside, history, turns, Breaks, Yield
<1>1. pc' \in {"select", "nostreams", "hook", "done"} => cur' = NoMsg
  BY DEF CurrentStep, Handling
<1>2. \A m \in taken' \ {cur'} : Settled(m)'
  <2>1. ASSUME NEW s \in Streams, Post(s) PROVE \A m \in taken \ {cur} : Settled(m)'
    <3>1. \A m \in taken : msg'[m] = msg[m]
      BY <2>1 DEF Post, TypeOK, QueuesApart
    <3> QED
      BY <2>1, <3>1 DEF Post, SettledBeforeNext, Settled, ReplyDue, ErrorDue, AckDue
  <2>2. ASSUME NEW s \in Streams, TakeMessage(s) PROVE \A m \in taken' \ {cur'} : Settled(m)'
    <3>1. cur = NoMsg /\ NoMsg \notin taken
      BY <2>2 DEF TakeMessage, SettledBeforeNext, TypeOK, NoMsg, Ids
    <3>2. \A m \in taken' \ {cur'} : m \in taken \ {cur}
      BY <2>2, <3>1 DEF TakeMessage
    <3> QED
      BY <2>2, <3>2 DEF TakeMessage, SettledBeforeNext, Settled, ReplyDue, ErrorDue, AckDue
  <2>3. CASE Dispatch \/ PublishReply \/ PublishError
    <3> SUFFICES ASSUME NEW m \in taken \ {cur} PROVE Settled(m)'
      BY <2>3 DEF Dispatch, PublishReply, PublishError
    <3>1. Settled(m) /\ m \in Ids
      BY DEF SettledBeforeNext, TypeOK
    <3>2. /\ result'[m] = result[m] /\ errored[m] \subseteq errored'[m]
          /\ replied \subseteq replied' /\ broken \subseteq broken'
          /\ UNCHANGED <<msg, routes, acked>>
      <4>1. CASE Dispatch
        BY <3>1, <4>1 DEF Dispatch, TypeOK
      <4>2. CASE PublishReply
        BY <4>2 DEF PublishReply
      <4>3. CASE PublishError
        BY <3>1, <4>3 DEF PublishError, TypeOK
      <4> QED
        BY <2>3, <4>1, <4>2, <4>3
    <3> QED
      BY <3>1, <3>2 DEF Settled, ReplyDue, ErrorDue, AckDue
  <2>4. CASE DispatchNone
    BY <2>4 DEF DispatchNone, SettledBeforeNext, Settled, ReplyDue, ErrorDue, AckDue, TypeOK
  <2>5. CASE AckMessage
    <3>1. \A m \in taken \ {cur} : Settled(m)'
      BY <2>5 DEF AckMessage, SettledBeforeNext, Settled, ReplyDue, ErrorDue, AckDue
    <3>2. \A m : m = cur => Settled(m)'
      BY <2>5 DEF AckMessage, CurrentStep, Settled, ReplyDue, ErrorDue, AckDue
    <3> QED
      BY <2>5, <3>1, <3>2 DEF AckMessage
  <2>6. CASE UNCHANGED <<cur, msg, routes, history>>
    BY <2>6 DEF SettledBeforeNext, Settled, ReplyDue, ErrorDue, AckDue
  <2> QED
    BY <2>1, <2>2, <2>3, <2>4, <2>5, <2>6 DEF Next, vars, Post, EndStream, Signal, Startup,
      Subscribe, OpenFactory, EnterLoop, StartFails, WaitSignal, WaitFails, TakeShutdown,
      TakeNone, PollPending, Handle, RunHook
<1> QED
  BY <1>1, <1>2 DEF SettledBeforeNext

\* A result is final, so an acknowledged message never becomes a failed one.
LEMMA AckNext ==
  TypeOK /\ QueuesApart /\ CurrentStep /\ NothingEarly /\ AckXorError /\ [Next]_vars
    => AckXorError'
<1> SUFFICES ASSUME TypeOK, QueuesApart, CurrentStep, NothingEarly, AckXorError, [Next]_vars
             PROVE  AckXorError'
  OBVIOUS
<1> USE DEF config, outside, history, turns, Breaks, Yield, Handling
<1>1. ASSUME NEW s \in Streams, Post(s) PROVE AckXorError'
  <2>1. \A m \in Ids : m \in taken => msg'[m] = msg[m]
    BY <1>1 DEF Post, TypeOK, QueuesApart
  <2>2. \A m \in Ids : result[m] # "none" => m \in taken
    BY DEF NothingEarly
  <2> QED
    BY <1>1, <2>1, <2>2 DEF Post, AckXorError
<1>2. CASE Dispatch \/ DispatchNone
  <2>1. cur \in Ids /\ cur \notin acked /\ errored[cur] = {}
    BY <1>2 DEF Dispatch, DispatchNone, CurrentStep, QueuesApart, AckXorError, TypeOK
  <2> QED
    BY <1>2, <2>1 DEF Dispatch, DispatchNone, AckXorError, TypeOK
<1>3. CASE PublishError
  <2>1. /\ UNCHANGED <<msg, result, acked>>
        /\ \/ UNCHANGED errored
           \/ /\ ErrorDue(cur)
              /\ errored' = [errored EXCEPT ![cur] = @ \cup {ErrorTopic(msg[cur].subject)}]
    BY <1>3 DEF PublishError
  <2> QED
    BY <2>1 DEF AckXorError, ErrorDue, TypeOK
<1>4. CASE AckMessage
  BY <1>4 DEF AckMessage, AckXorError, AckDue, TypeOK
<1>5. CASE UNCHANGED <<msg, result, errored, acked>>
  BY <1>5 DEF AckXorError
<1> QED
  BY <1>1, <1>2, <1>3, <1>4, <1>5 DEF Next, vars, EndStream, TakeMessage, Signal, Startup,
    Subscribe, OpenFactory, EnterLoop, StartFails, WaitSignal, WaitFails, TakeShutdown,
    TakeNone, PollPending, Handle, PublishReply, RunHook

\* serve() fails before it took a message, and returns Ok after the hook.
LEMMA HookNext ==
  NothingEarly /\ HookOnlyOnSuccess /\ NothingEarly' /\ [Next]_vars => HookOnlyOnSuccess'
BY DEF NothingEarly, Starting, HookOnlyOnSuccess, Next, vars, config, outside, history, turns, Post,
  EndStream, TakeMessage, Yield, Signal, Startup, Subscribe, OpenFactory, EnterLoop, StartFails,
  WaitSignal, WaitFails, TakeShutdown, TakeNone, PollPending, Handle, Dispatch, DispatchNone,
  PublishReply, PublishError, AckMessage, RunHook

\* The inductive invariant holds throughout.
THEOREM Inductive == Spec => []IndInv
<1>1. Init => IndInv
  BY IndInit, ServiceAssumption
<1>2. IndInv /\ [Next]_vars => IndInv'
  BY TypeNext, QueuesNext, CurrentNext, EarlyNext, SettledNext, AckNext, HookNext,
    ServiceAssumption DEF IndInv
<1> QED
  BY <1>1, <1>2, PTL DEF Spec

\* Type correctness of the service loop.
THEOREM TypeCorrect == Spec => []TypeOK
BY Inductive, PTL DEF IndInv

\* Reply, error event and acknowledgement of a message have been tried before
\* the next message is taken and before the shutdown hook runs.
THEOREM EachMessageSettled == Spec => []SettledBeforeNext
BY Inductive, PTL DEF IndInv

\* No message is both acknowledged and reported as failed.
THEOREM AckedOrReported == Spec => []AckXorError
BY Inductive, PTL DEF IndInv

\* serve() fails before it handled anything, and without the shutdown hook.
THEOREM FailsEarly == Spec => []HookOnlyOnSuccess
BY Inductive, PTL DEF IndInv

\* A woken stream keeps its turn, or is polled after all the others.
LEMMA WokenTurn ==
  ASSUME ready \in Seq(Streams), NEW s \in Streams
  PROVE  /\ Len(Woken(s)) \in Nat
         /\ \A i \in DOMAIN ready : i \in DOMAIN Woken(s) /\ Woken(s)[i] = ready[i]
         /\ \A i \in DOMAIN Woken(s) :
              \/ i \in DOMAIN ready
              \/ Woken(s)[i] = s /\ i = Len(ready) + 1 /\ \A j \in DOMAIN ready : ready[j] # s
         /\ \E i \in DOMAIN Woken(s) : Woken(s)[i] = s
<1>1. CASE \E i \in DOMAIN ready : ready[i] = s
  BY <1>1 DEF Woken
<1>2. CASE ~ \E i \in DOMAIN ready : ready[i] = s
  <2>1. /\ Woken(s) = Append(ready, s) /\ Len(ready) \in Nat
        /\ Len(Append(ready, s)) = Len(ready) + 1 /\ Append(ready, s)[Len(ready) + 1] = s
        /\ \A i \in 1..Len(ready) : Append(ready, s)[i] = ready[i]
    BY <1>2 DEF Woken
  <2>2. DOMAIN ready = 1..Len(ready) /\ DOMAIN Woken(s) = 1..(Len(ready) + 1)
    BY <2>1
  <2> QED
    BY <1>2, <2>1, <2>2
<1> QED
  BY <1>1, <1>2

\* A woken stream takes no one's turn, whether or not it has a message now.
LEMMA TurnsWoken ==
  ASSUME TypeOK, TurnsKept, NEW s \in opened, ready' = Woken(s),
         \A u \in Streams \ {s} : queue'[u] = queue[u], queue'[s] # <<>> \/ queue'[s] = queue[s],
         UNCHANGED <<pc, opened, passed>>
  PROVE  TurnsKept'
<1>1. ready \in Seq(Streams) /\ s \in Streams /\ opened \subseteq Streams
  BY DEF TypeOK
<1>2. \A i \in DOMAIN ready : i \in DOMAIN ready' /\ ready'[i] = ready[i]
  BY <1>1, WokenTurn
<1>3. \A i \in DOMAIN ready' :
        \/ i \in DOMAIN ready
        \/ ready'[i] = s /\ i = Len(ready) + 1 /\ \A j \in DOMAIN ready : ready[j] # s
  BY <1>1, WokenTurn
<1>4. \A i, j \in DOMAIN ready' : ready'[i] = ready'[j] => i = j
  BY <1>2, <1>3 DEF TurnsKept
<1>5. \A i \in DOMAIN ready' : ready'[i] \in opened'
  BY <1>2, <1>3 DEF TurnsKept
<1>6. DOMAIN ready = 1..Len(ready) /\ Len(ready) \in Nat /\ DOMAIN ready' \subseteq Nat
  <2>1. ready' \in Seq(Streams)
    BY <1>1, WokenType
  <2> QED
    BY <1>1, <2>1
<1>7. ASSUME NEW u \in opened, queue'[u] # <<>>
      PROVE  \E i \in DOMAIN ready' :
               ready'[i] = u /\ \A j \in DOMAIN ready' : j < i => ready'[j] \notin passed[u]
  <2>1. CASE queue[u] # <<>>
    <3>1. PICK i \in DOMAIN ready :
            ready[i] = u /\ \A j \in DOMAIN ready : j < i => ready[j] \notin passed[u]
      BY <2>1 DEF TurnsKept
    <3>2. \A j \in DOMAIN ready' : j < i => j \in DOMAIN ready
      BY <1>6, <3>1
    <3> QED
      BY <1>2, <3>1, <3>2
  <2>2. CASE queue[u] = <<>>
    <3>1. u = s /\ passed[u] = {}
      BY <1>1, <1>7, <2>2 DEF TurnsKept
    <3>2. PICK i \in DOMAIN ready' : ready'[i] = s
      BY <1>1, WokenTurn
    <3> QED
      BY <3>1, <3>2
  <2> QED
    BY <2>1, <2>2
<1>8. \A u \in Streams : queue'[u] = <<>> => passed[u] = {}
  BY DEF TurnsKept
<1> QED
  BY <1>4, <1>5, <1>7, <1>8 DEF TurnsKept

\* A stream that yields goes behind the others and has been passed by no one since.
LEMMA TurnsTake ==
  ASSUME TypeOK, TurnsKept, TypeOK', NEW s \in Streams, TakeMessage(s)
  PROVE  TurnsKept'
<1> DEFINE n == Len(ready)
<1>1. /\ ready \in Seq(Streams) /\ n \in Nat /\ n >= 1 /\ ready[1] = s
      /\ Tail(ready) \in Seq(Streams) /\ Len(Tail(ready)) = n - 1
      /\ \A i \in 1..(n - 1) : Tail(ready)[i] = ready[i + 1]
      /\ ready' = Append(Tail(ready), s)
  BY DEF TakeMessage, TypeOK
<1>2. /\ DOMAIN ready = 1..n /\ DOMAIN ready' = 1..n
      /\ \A i \in 1..(n - 1) : ready'[i] = ready[i + 1]
      /\ ready'[n] = s
  <2>1. /\ Len(ready') = n /\ ready'[n] = s
        /\ \A i \in 1..(n - 1) : ready'[i] = Tail(ready)[i]
    BY <1>1
  <2> QED
    BY <1>1, <2>1
<1>3. /\ \A u \in Streams \ {s} : queue'[u] = queue[u]
      /\ \A u \in Streams :
           passed'[u] = IF u = s \/ queue[u] = <<>> THEN {} ELSE passed[u] \cup {s}
      /\ pc = "select" /\ pc' = "dispatch" /\ opened' = opened /\ opened \subseteq Streams
  BY DEF TakeMessage, Yield, TypeOK
<1> HIDE DEF n
<1>4. ASSUME NEW i \in DOMAIN ready', NEW j \in DOMAIN ready', ready'[i] = ready'[j]
      PROVE  i = j
  <2>1. CASE i < n /\ j < n
    <3>1. i + 1 \in DOMAIN ready /\ j + 1 \in DOMAIN ready /\ ready[i + 1] = ready[j + 1]
      BY <1>1, <1>2, <1>4, <2>1
    <3>2. i + 1 = j + 1
      BY <3>1 DEF TurnsKept
    <3> QED
      BY <1>1, <1>2, <3>2
  <2>2. \A k \in 1..(n - 1) : ready'[k] # s
    <3>1. \A k \in 1..(n - 1) : k + 1 \in DOMAIN ready /\ 1 \in DOMAIN ready /\ k + 1 # 1
      BY <1>1, <1>2
    <3> QED
      BY <1>1, <1>2, <3>1 DEF TurnsKept
  <2>3. CASE i = n \/ j = n
    <3>1. i \in 1..(n - 1) \/ i = n
      BY <1>1, <1>2
    <3>2. j \in 1..(n - 1) \/ j = n
      BY <1>1, <1>2
    <3> QED
      BY <1>2, <1>4, <2>2, <2>3, <3>1, <3>2
  <2>4. (i < n \/ i = n) /\ (j < n \/ j = n)
    BY <1>1, <1>2
  <2> QED
    BY <2>1, <2>3, <2>4
<1>5. ASSUME NEW i \in DOMAIN ready' PROVE ready'[i] \in opened'
  <2>1. 1 \in DOMAIN ready /\ (i \in 1..(n - 1) => i + 1 \in DOMAIN ready)
    BY <1>1, <1>2
  <2>2. i \in 1..(n - 1) \/ i = n
    BY <1>1, <1>2
  <2> QED
    BY <1>1, <1>2, <1>3, <2>1, <2>2 DEF TurnsKept
<1>6. ASSUME NEW u \in opened, queue'[u] # <<>>
      PROVE  \E i \in DOMAIN ready' :
               ready'[i] = u /\ \A j \in DOMAIN ready' : j < i => ready'[j] \notin passed'[u]
  <2>1. CASE u = s
    <3>1. n \in DOMAIN ready'
      BY <1>1, <1>2
    <3>2. passed'[u] = {}
      BY <1>3, <2>1
    <3> QED
      BY <1>2, <2>1, <3>1, <3>2
  <2>2. CASE u # s
    <3>1. queue[u] # <<>> /\ passed'[u] = passed[u] \cup {s}
      BY <1>3, <1>6, <2>2
    <3>2. PICK i \in DOMAIN ready :
            ready[i] = u /\ \A j \in DOMAIN ready : j < i => ready[j] \notin passed[u]
      BY <3>1 DEF TurnsKept
    <3>3. i - 1 \in 1..(n - 1) /\ ready'[i - 1] = u
      BY <1>1, <1>2, <2>2, <3>2
    <3>4. ASSUME NEW j \in DOMAIN ready', j < i - 1 PROVE ready'[j] \notin passed'[u]
      <4>1. /\ j \in 1..(n - 1) /\ j + 1 \in DOMAIN ready /\ 1 \in DOMAIN ready
            /\ j + 1 < i /\ j + 1 # 1
        BY <1>1, <1>2, <3>2, <3>3, <3>4
      <4>2. ready'[j] = ready[j + 1] /\ ready[j + 1] # s /\ ready[j + 1] \notin passed[u]
        BY <1>1, <1>2, <3>2, <4>1 DEF TurnsKept
      <4> QED
        BY <3>1, <4>2
    <3>5. i - 1 \in DOMAIN ready'
      BY <1>1, <1>2, <3>3
    <3> QED
      BY <3>3, <3>4, <3>5
  <2> QED
    BY <2>1, <2>2
<1>7. \A u \in Streams : queue'[u] = <<>> => passed'[u] = {}
  BY <1>3
<1> QED
  BY <1>3, <1>4, <1>5, <1>6, <1>7 DEF TurnsKept

\* A stream with nothing to yield leaves the turns, and nobody waits behind it longer.
LEMMA TurnsPending ==
  ASSUME TypeOK, TurnsKept, PollPending
  PROVE  TurnsKept'
<1> DEFINE n == Len(ready)
<1>1. /\ DOMAIN ready = 1..n /\ n \in Nat /\ n >= 1 /\ queue[ready[1]] = <<>>
      /\ DOMAIN ready' = 1..(n - 1)
      /\ \A i \in 1..(n - 1) : ready'[i] = ready[i + 1]
      /\ UNCHANGED <<queue, pc, opened, passed>> /\ pc = "select"
  BY DEF PollPending, outside, TypeOK
<1> HIDE DEF n
<1>2. \A i \in DOMAIN ready' : i + 1 \in DOMAIN ready /\ ready'[i] = ready[i + 1]
  BY <1>1
<1>3. \A i, j \in DOMAIN ready' : ready'[i] = ready'[j] => i = j
  <2> SUFFICES ASSUME NEW i \in DOMAIN ready', NEW j \in DOMAIN ready', ready'[i] = ready'[j]
               PROVE  i = j
    OBVIOUS
  <2>1. i + 1 = j + 1
    BY <1>2 DEF TurnsKept
  <2> QED
    BY <1>1, <2>1
<1>4. \A i \in DOMAIN ready' : ready'[i] \in opened'
  BY <1>1, <1>2 DEF TurnsKept
<1>5. ASSUME NEW u \in opened, queue[u] # <<>>
      PROVE  \E i \in DOMAIN ready' :
               ready'[i] = u /\ \A j \in DOMAIN ready' : j < i => ready'[j] \notin passed[u]
  <2>1. PICK i \in DOMAIN ready :
          ready[i] = u /\ \A j \in DOMAIN ready : j < i => ready[j] \notin passed[u]
    BY <1>5 DEF TurnsKept
  <2>2. i - 1 \in DOMAIN ready' /\ ready'[i - 1] = u
    BY <1>1, <1>5, <2>1
  <2>3. \A j \in DOMAIN ready' : j < i - 1 => j + 1 \in DOMAIN ready /\ j + 1 < i
    BY <1>1, <2>1
  <2> QED
    BY <1>2, <2>1, <2>2, <2>3
<1> QED
  BY <1>1, <1>3, <1>4, <1>5 DEF TurnsKept

\* Startup opens each stream once, and its turn comes after those opened before it.
LEMMA TurnsOpen ==
  ASSUME TypeOK, TurnsKept, TypeOK', NEW s \in Streams \ opened,
         opened' = opened \cup {s}, ready' = Append(ready, s), UNCHANGED <<queue, passed>>,
         pc \in {"subscribe", "factories"}, pc' # "subscribe"
  PROVE  TurnsKept'
<1> DEFINE n == Len(ready)
<1>1. /\ DOMAIN ready = 1..n /\ n \in Nat /\ DOMAIN ready' = 1..(n + 1)
      /\ \A i \in 1..n : ready'[i] = ready[i]
      /\ ready'[n + 1] = s
  BY DEF TypeOK
<1> HIDE DEF n
<1>2. \A i \in DOMAIN ready' : i \in DOMAIN ready \/ i = n + 1
  BY <1>1
<1>3. \A i \in DOMAIN ready : ready'[i] = ready[i] /\ ready[i] # s
  BY <1>1 DEF TurnsKept
<1>4. \A i, j \in DOMAIN ready' : ready'[i] = ready'[j] => i = j
  BY <1>1, <1>2, <1>3 DEF TurnsKept
<1>5. \A i \in DOMAIN ready' : ready'[i] \in opened'
  BY <1>1, <1>2, <1>3 DEF TurnsKept
<1>6. \A u \in Streams : passed'[u] = {}
  BY DEF TurnsKept
<1>7. \A u \in opened' : queue'[u] # <<>> => \E i \in DOMAIN ready' : ready'[i] = u
  <2> SUFFICES ASSUME NEW u \in opened', queue[u] # <<>>
               PROVE  \E i \in DOMAIN ready' : ready'[i] = u
    OBVIOUS
  <2>1. CASE u = s
    <3>1. n + 1 \in DOMAIN ready'
      BY <1>1
    <3> QED
      BY <1>1, <2>1, <3>1
  <2>2. CASE u # s
    <3>1. PICK i \in DOMAIN ready : ready[i] = u
      BY <2>2 DEF TurnsKept
    <3>2. i \in DOMAIN ready'
      BY <1>1, <3>1
    <3> QED
      BY <1>3, <3>1, <3>2
  <2> QED
    BY <2>1, <2>2
<1>8. \A u \in opened' : u \in Streams
  BY DEF TypeOK
<1> QED
  BY <1>4, <1>5, <1>6, <1>7, <1>8 DEF TurnsKept

\* The streams are dropped with the loop.
LEMMA TurnsDropped ==
  ASSUME TurnsKept, opened' = {}, ready' = <<>>, UNCHANGED <<queue, passed>>,
         pc' \in {"done", "failed"}
  PROVE  TurnsKept'
BY DEF TurnsKept

LEMMA TurnsNext ==
  ServiceAssumption /\ TypeOK /\ TypeOK' /\ TurnsKept /\ [Next]_vars => TurnsKept'
<1> SUFFICES ASSUME ServiceAssumption, TypeOK, TypeOK', TurnsKept, [Next]_vars
             PROVE  TurnsKept'
  OBVIOUS
<1> USE DEF config, outside, history, turns, Breaks
<1>1. ASSUME NEW s \in Streams, Post(s) PROVE TurnsKept'
  <2>1. queue'[s] = Append(queue[s], posted + 1) /\ queue[s] \in Seq(Ids)
    BY <1>1 DEF Post, TypeOK
  <2>2. queue'[s] # <<>>
    <3>1. Len(queue[s]) \in Nat /\ Len(queue'[s]) = Len(queue[s]) + 1
      BY <2>1
    <3> QED
      BY <3>1
  <2>3. \A u \in Streams \ {s} : queue'[u] = queue[u]
    BY <1>1 DEF Post, TypeOK
  <2>4. s \in opened /\ ready' = Woken(s) /\ UNCHANGED <<pc, opened, passed>>
    BY <1>1 DEF Post
  <2> QED
    BY <2>2, <2>3, <2>4, TurnsWoken
<1>2. ASSUME NEW s \in Streams, EndStream(s) PROVE TurnsKept'
  BY <1>2, TurnsWoken DEF EndStream
<1>3. ASSUME NEW s \in Streams, TakeMessage(s) PROVE TurnsKept'
  BY <1>3, TurnsTake
<1>4. CASE PollPending
  BY <1>4, TurnsPending
<1>5. CASE Subscribe
  <2>1. CASE PlainRoutes = {}
    BY <1>5, <2>1 DEF Subscribe, TurnsKept
  <2>2. CASE PlainRoutes # {}
    <3>1. 0 \in Streams \ opened
      BY <1>5 DEF Subscribe, TurnsKept, Streams, ServiceAssumption
    <3> QED
      BY <1>5, <2>2, <3>1, TurnsOpen DEF Subscribe
  <2> QED
    BY <2>1, <2>2
<1>6. CASE OpenFactory
  <2>1. PICK r \in FactoryRoutes \ opened : opened' = opened \cup {r} /\ ready' = Append(ready, r)
    BY <1>6 DEF OpenFactory
  <2>2. r \in Streams
    BY DEF FactoryRoutes, TypeOK, Routes, Streams
  <2> QED
    BY <1>6, <2>1, <2>2, TurnsOpen DEF OpenFactory
<1>7. CASE StartFails \/ RunHook
  BY <1>7, TurnsDropped DEF StartFails, RunHook
<1>8. CASE /\ UNCHANGED <<queue, opened, ready, passed>>
           /\ pc' \in {"subscribe", "factories"} => pc' = pc
  BY <1>8 DEF TurnsKept
<1> QED
  BY <1>1, <1>2, <1>3, <1>4, <1>5, <1>6, <1>7, <1>8 DEF Next, vars, Signal, Startup, EnterLoop,
    WaitSignal, WaitFails, TakeShutdown, TakeNone, Handle, Dispatch, DispatchNone,
    PublishReply, PublishError, AckMessage

\* Only stream.next() takes a message from a stream, from the one whose turn it is.
LEMMA YieldsInTurn ==
  ASSUME TypeOK, [Next]_vars, NEW s \in Streams, Yields(s)
  PROVE  TakeMessage(s)
<1> USE DEF config, outside, history, turns, Breaks
<1>1. Len(queue[s]) \in Nat
  BY DEF TypeOK
<1>2. ASSUME NEW u \in Streams, Post(u) PROVE FALSE
  <2>1. CASE u = s
    <3>1. queue[s] \in Seq(Ids) /\ queue'[s] = Append(queue[s], posted + 1)
      BY <1>2, <2>1 DEF Post, TypeOK
    <3>2. Len(queue'[s]) = Len(queue[s]) + 1
      BY <3>1
    <3> QED
      BY <1>1, <3>2 DEF Yields
  <2>2. CASE u # s
    BY <1>1, <1>2, <2>2 DEF Post, TypeOK, Yields
  <2> QED
    BY <2>1, <2>2
<1>3. ASSUME NEW u \in Streams, TakeMessage(u), u # s PROVE FALSE
  BY <1>1, <1>3 DEF TakeMessage, Yield, TypeOK, Yields
<1>4. CASE UNCHANGED queue
  BY <1>1, <1>4 DEF Yields
<1> QED
  BY <1>2, <1>3, <1>4 DEF Next, vars, EndStream, Signal, Startup, Subscribe, OpenFactory,
    EnterLoop, StartFails, WaitSignal, WaitFails, TakeShutdown, TakeNone, PollPending, Handle,
    Dispatch, DispatchNone, PublishReply, PublishError, AckMessage, RunHook

\* No stream yields twice past a stream that has a message waiting, for any number of
\* streams and messages and however they are woken or end (service.rs:176, 191).
THEOREM StreamsTakeTurns == Spec => FairTurns
<1>1. Init => TurnsKept
  BY DEF Init, TurnsKept
<1>2. TypeOK /\ TypeOK' /\ TurnsKept /\ [Next]_vars => TurnsKept'
  BY TurnsNext, ServiceAssumption
<1>3. TypeOK /\ TurnsKept /\ [Next]_vars
        => [\A s, u \in Streams :
              Yields(s) /\ u # s /\ u \in opened /\ queue[u] # <<>> => s \notin passed[u]]_vars
  <2> SUFFICES ASSUME TypeOK, TurnsKept, [Next]_vars, NEW s \in Streams, NEW u \in Streams,
                      Yields(s), u # s, u \in opened, queue[u] # <<>>
               PROVE  s \notin passed[u]
    OBVIOUS
  <2>1. ready \in Seq(Streams) /\ ready # <<>> /\ ready[1] = s
    BY YieldsInTurn DEF TakeMessage, TypeOK
  <2>2. PICK i \in DOMAIN ready :
          ready[i] = u /\ \A j \in DOMAIN ready : j < i => ready[j] \notin passed[u]
    BY DEF TurnsKept
  <2>3. 1 \in DOMAIN ready /\ 1 < i
    BY <2>1, <2>2
  <2> QED
    BY <2>1, <2>2, <2>3
<1> QED
  BY <1>1, <1>2, <1>3, TypeCorrect, PTL DEF Spec, FairTurns

-----------------------------------------------------------------------------
(* The service implements ServicePromise *)

\* The error event is published after the reply.
ReplyFirst == pc \in {"reply", "error"} => errored[cur] = {}

LEMMA ReplyFirstNext ==
  IndInv /\ ReplyFirst /\ [Next]_vars => ReplyFirst'
<1> SUFFICES ASSUME IndInv, ReplyFirst, [Next]_vars PROVE ReplyFirst'
  OBVIOUS
<1>1. CASE Dispatch
  <2>1. cur \in Ids /\ errored[cur] = {}
    BY <1>1 DEF Dispatch, IndInv, CurrentStep, QueuesApart, AckXorError, TypeOK, Handling
  <2> QED
    BY <1>1, <2>1 DEF Dispatch, ReplyFirst
<1>2. CASE PublishReply
  BY <1>2 DEF PublishReply, ReplyFirst
<1>3. CASE pc' \notin {"reply", "error"} \/ UNCHANGED <<pc, cur, errored>>
  BY <1>3 DEF ReplyFirst
<1> QED
  BY <1>1, <1>2, <1>3 DEF Next, vars, config, outside, history, turns, Post, EndStream, TakeMessage, Yield,
    Signal, Startup, Subscribe, OpenFactory, EnterLoop, StartFails, WaitSignal, WaitFails,
    TakeShutdown, TakeNone, PollPending, Handle, DispatchNone, PublishError, AckMessage, RunHook

\* Steps that neither move the service nor record anything of a message change
\* nothing the promise speaks of.
LEMMA PromiseStutter ==
  ASSUME UNCHANGED <<ServiceStage, cur, history, hook>>
  PROVE  UNCHANGED Promise!vars
BY DEF Promise!vars, Verdict, history

LEMMA PromiseInit == Init => Promise!Init
BY DEF Init, Promise!Init, ServiceStage, Verdict

\* stream.next() gives a message that was never taken.
LEMMA PromiseTake ==
  ASSUME IndInv, TypeOK', NEW s \in Streams, TakeMessage(s)
  PROVE  \E m \in Ids : Promise!Take(m)
<1> DEFINE m == Head(queue[s])
<1>1. m \in Ids /\ m \notin taken
  <2>1. queue[s] \in Seq(Ids) /\ queue[s] # <<>>
    BY DEF TakeMessage, IndInv, TypeOK
  <2>2. m \in Ids /\ m = queue[s][1] /\ 1 \in 1..Len(queue[s])
    BY <2>1
  <2> QED
    BY <2>2 DEF IndInv, QueuesApart
<1>2. /\ pc = "select" /\ pc' = "dispatch" /\ cur' = m /\ taken' = taken \cup {m}
      /\ UNCHANGED <<result, replied, errored, acked, hook>>
  BY DEF TakeMessage, Yield, config
<1> HIDE DEF m
<1>3. cur = NoMsg
  BY <1>2 DEF IndInv, CurrentStep, Handling
<1>4. ServiceStage = "open" /\ ServiceStage' = "open"
  BY <1>2 DEF ServiceStage
<1>5. result[m] = "none"
  BY <1>1 DEF IndInv, NothingEarly
<1>6. Verdict[m] = "new" /\ Verdict' = [Verdict EXCEPT ![m] = "taken"]
  BY <1>1, <1>2, <1>5 DEF Verdict
<1> QED
  BY <1>1, <1>2, <1>3, <1>4, <1>6 DEF Promise!Take

\* dispatch_event ends a call, or finds no route.
LEMMA PromiseJudge ==
  ASSUME IndInv, TypeOK', Dispatch \/ DispatchNone
  PROVE  \E m \in Ids : \E v \in {"ok", "err", "unrouted"} : Promise!Judge(m, v)
<1>1. /\ pc = "dispatch" /\ cur \in Ids /\ cur \in taken /\ result[cur] = "none"
      /\ result \in [Ids -> Results] /\ NoMsg \notin Ids
  BY DEF Dispatch, DispatchNone, IndInv, CurrentStep, QueuesApart, TypeOK, Handling, NoMsg, Ids
<1>2. PICK v \in {"ok", "err", "unrouted"} :
        /\ result' = [result EXCEPT ![cur] = v]
        /\ cur' = IF v = "unrouted" THEN NoMsg ELSE cur
        /\ pc' \in {"reply", "select"}
        /\ UNCHANGED <<taken, replied, errored, acked, hook>>
  BY DEF Dispatch, DispatchNone, config
<1>3. ServiceStage = "open" /\ ServiceStage' = "open"
  BY <1>1, <1>2 DEF ServiceStage
<1>4. Verdict[cur] = "taken" /\ Verdict' = [Verdict EXCEPT ![cur] = v]
  BY <1>1, <1>2 DEF Verdict
<1>5. Promise!Judge(cur, v)
  BY <1>1, <1>2, <1>3, <1>4 DEF Promise!Judge, Promise!InHand
<1> QED
  BY <1>1, <1>5

\* What handle_message does with an outcome, in this order: publish_reply,
\* publish_error, ack_message.
LEMMA PromiseOutcome ==
  ASSUME IndInv, ReplyFirst, TypeOK', PublishReply \/ PublishError \/ AckMessage
  PROVE  \/ UNCHANGED Promise!vars
         \/ \E m \in Ids : Promise!Answer(m) \/ Promise!Report(m) \/ Promise!Release(m)
<1>1. /\ pc \in {"reply", "error", "ack"} /\ cur \in Ids /\ cur \in taken
      /\ result[cur] \in {"ok", "err"} /\ NoMsg \notin Ids
      /\ errored \in [Ids -> SUBSET Topics]
  BY DEF PublishReply, PublishError, AckMessage, IndInv, CurrentStep, QueuesApart, TypeOK,
         Handling, NoMsg, Ids
<1>2. /\ UNCHANGED <<taken, result, hook>>
      /\ pc' \in {"error", "ack", "select"}
  BY DEF PublishReply, PublishError, AckMessage, Breaks, config
<1>3. ServiceStage = "open" /\ ServiceStage' = "open"
  BY <1>1, <1>2 DEF ServiceStage
<1>4. Verdict[cur] = result[cur] /\ Verdict' = Verdict
  BY <1>1, <1>2 DEF Verdict
<1>5. CASE PublishReply
  <2>1. replied' \in {replied, replied \cup {cur}} /\ UNCHANGED <<cur, errored, acked>>
    BY <1>5 DEF PublishReply, Breaks
  <2>2. cur \notin {m \in Ids : errored[m] # {}}
    BY <1>5 DEF PublishReply, ReplyFirst
  <2>3. CASE replied' = replied
    BY <1>2, <1>3, <1>4, <2>1, <2>3 DEF Promise!vars
  <2>4. CASE replied' = replied \cup {cur}
    <3>1. Promise!Answer(cur)
      BY <1>1, <1>2, <1>3, <1>4, <2>1, <2>2, <2>4 DEF Promise!Answer, Promise!InHand
    <3> QED
      BY <1>1, <3>1
  <2> QED
    BY <2>1, <2>3, <2>4
<1>6. CASE PublishError
  <2> DEFINE t == ErrorTopic(msg[cur].subject)
             reported == {m \in Ids : errored[m] # {}}
  <2>1. /\ UNCHANGED <<cur, replied, acked>>
        /\ \/ UNCHANGED errored
           \/ ErrorDue(cur) /\ errored' = [errored EXCEPT ![cur] = @ \cup {t}]
    BY <1>6 DEF PublishError, Breaks
  <2> HIDE DEF t
  <2>2. CASE UNCHANGED errored
    BY <1>2, <1>3, <1>4, <2>1, <2>2 DEF Promise!vars
  <2>3. CASE ErrorDue(cur) /\ errored' = [errored EXCEPT ![cur] = @ \cup {t}]
    <3>1. reported' = reported \cup {cur}
      BY <1>1, <2>3
    <3>2. result[cur] = "err"
      BY <2>3 DEF ErrorDue
    <3>3. Promise!Report(cur)
      BY <1>1, <1>2, <1>3, <1>4, <2>1, <3>1, <3>2 DEF Promise!Report, Promise!InHand
    <3> QED
      BY <1>1, <3>3 DEF Promise!Report, Promise!InHand
  <2> QED
    BY <2>1, <2>2, <2>3
<1>7. CASE AckMessage
  <2>1. /\ cur' = NoMsg /\ UNCHANGED <<replied, errored>>
        /\ acked' = acked \/ (result[cur] = "ok" /\ acked' = acked \cup {cur})
    BY <1>7 DEF AckMessage, Breaks, AckDue
  <2>2. acked' \in {acked} \cup {acked \cup {n \in {cur} : Verdict[cur] = "ok"}}
    BY <1>4, <2>1
  <2>3. Promise!Release(cur)
    BY <1>1, <1>2, <1>3, <1>4, <2>1, <2>2 DEF Promise!Release, Promise!InHand
  <2> QED
    BY <1>1, <2>3
<1> QED
  BY <1>5, <1>6, <1>7

\* Every step of the service is one of the promise, or none.
LEMMA PromiseNext ==
  ASSUME IndInv, ReplyFirst, TypeOK', [Next]_vars
  PROVE  [Promise!Next]_(Promise!vars)
<1> USE DEF config, outside, turns
<1>1. ASSUME NEW s \in Streams, Post(s) \/ EndStream(s) PROVE UNCHANGED Promise!vars
  BY <1>1, PromiseStutter DEF Post, EndStream, ServiceStage
<1>2. CASE Signal
  BY <1>2, PromiseStutter DEF Signal, ServiceStage
<1>3. CASE Startup
  <2>1. CASE EnterLoop /\ pc' = "select"
    <3>1. ServiceStage = "starting" /\ ServiceStage' = "open"
      BY <2>1 DEF EnterLoop, ServiceStage
    <3>2. Promise!Open
      BY <2>1, <3>1 DEF EnterLoop, Promise!Open, Promise!Move, Verdict, history
    <3> QED
      BY <3>2 DEF Promise!Next
  <2>2. CASE ~(EnterLoop /\ pc' = "select")
    BY <1>3, <2>2, PromiseStutter
    DEF Startup, Subscribe, OpenFactory, EnterLoop, ServiceStage
  <2> QED
    BY <2>1, <2>2
<1>4. CASE StartFails \/ WaitFails
  <2>1. ServiceStage = "starting" /\ ServiceStage' = "failed"
    BY <1>4 DEF StartFails, WaitFails, ServiceStage
  <2>2. Promise!Fail
    BY <1>4, <2>1 DEF StartFails, WaitFails, Promise!Fail, Promise!Move, Verdict, history
  <2> QED
    BY <2>2 DEF Promise!Next
<1>5. CASE WaitSignal \/ TakeShutdown \/ TakeNone
  <2>1. ServiceStage \in {"starting", "open"} /\ ServiceStage' = "closing"
    BY <1>5 DEF WaitSignal, TakeShutdown, TakeNone, ServiceStage
  <2>2. cur = NoMsg
    BY <1>5 DEF WaitSignal, TakeShutdown, TakeNone, IndInv, CurrentStep, Handling
  <2>3. Promise!Close
    BY <1>5, <2>1, <2>2
    DEF WaitSignal, TakeShutdown, TakeNone, Promise!Close, Promise!Move, Verdict, history
  <2> QED
    BY <2>3 DEF Promise!Next
<1>6. CASE RunHook
  <2>1. ServiceStage = "closing" /\ ServiceStage' = "done"
    BY <1>6 DEF RunHook, ServiceStage
  <2>2. Promise!RunHook
    BY <1>6, <2>1 DEF RunHook, Promise!RunHook, Promise!Move, Verdict, history
  <2> QED
    BY <2>2 DEF Promise!Next
<1>7. ASSUME NEW s \in Streams, TakeMessage(s) PROVE Promise!Next
  BY <1>7, PromiseTake DEF Promise!Next
<1>8. CASE Dispatch \/ DispatchNone
  BY <1>8, PromiseJudge DEF Promise!Next
<1>9. CASE PublishReply \/ PublishError \/ AckMessage
  BY <1>9, PromiseOutcome DEF Promise!Next
<1>10. CASE PollPending \/ UNCHANGED vars
  BY <1>10, PromiseStutter DEF PollPending, vars, ServiceStage
<1> QED
  BY <1>1, <1>2, <1>3, <1>4, <1>5, <1>6, <1>7, <1>8, <1>9, <1>10 DEF Next, Handle

\* The service implements ServicePromise, for any number of routes and messages,
\* whatever fails or ends: each step of serve() and handle_message is a step of the
\* promise or none (service.rs:143-202, 226-269).
THEOREM Refinement == Spec => ImplementsPromise
<1>1. Init => Promise!Init /\ ReplyFirst
  BY PromiseInit DEF Init, ReplyFirst
<1>2. IndInv /\ ReplyFirst /\ [Next]_vars => ReplyFirst'
  BY ReplyFirstNext
<1>3. IndInv /\ IndInv' /\ ReplyFirst /\ [Next]_vars => [Promise!Next]_(Promise!vars)
  BY PromiseNext DEF IndInv
<1> QED
  BY <1>1, <1>2, <1>3, Inductive, PTL DEF Spec, ImplementsPromise, Promise!Spec

=============================================================================
