-------------------------- MODULE RouterBuildProofs --------------------------
(***************************************************************************)
(* Proofs about RouterBuild, for every set of routers, keys and settings   *)
(* and for programs of any length.                                         *)
(*                                                                         *)
(* The first part says of each operator of CoreRouter what it does to the  *)
(* names of the routes, to the uniqueness of their keys and to the routes  *)
(* of one handler.  The second part is the inductive invariant: a handler  *)
(* whose own router is live is in that router, so a router never takes in  *)
(* a route of its own, and every route is one that was registered once.    *)
(* The third part is what that invariant gives; the last is the nesting of *)
(* the layers, which has an invariant of its own.                          *)
(***************************************************************************)
EXTENDS RouterBuild, SequenceTheorems, TLAPS

\* What a configuring method never changes of the routes.
Names(c) == {<<d.handler, d.subject, d.factory>> : d \in c.routes}

Keyed(c) == \A d, e \in c.routes : d.subject = e.subject => d = e

Uniform(c, h) ==
  \A d \in c.routes : d.handler = h => Alike(d, c)

-----------------------------------------------------------------------------
(* The core router *)

LEMMA NewIsCore == /\ NewRouter \in Core /\ Names(NewRouter) = {}
                   /\ Keyed(NewRouter) /\ \A h : Uniform(NewRouter, h)
  BY DEF NewRouter, Core, Names, Keyed, Uniform


LEMMA AddLayerCore ==
  ASSUME NEW c \in Core, NEW l \in Layer
  PROVE /\ AddLayer(c, l) \in Core
        /\ Names(AddLayer(c, l)) = Names(c)
        /\ Keyed(c) => Keyed(AddLayer(c, l))
        /\ \A h : Uniform(c, h) => Uniform(AddLayer(c, l), h)
<1> DEFINE n == AddLayer(c, l)
           F(d) == [d EXCEPT !.layers = Append(@, l)]
<1>1. /\ n.topic = c.topic /\ n.headers = c.headers /\ n.layers = Append(c.layers, l)
  BY DEF AddLayer, Core
<1>2. n.routes = {F(d) : d \in c.routes}
  BY DEF AddLayer, Core
<1>3. \A d \in c.routes : /\ d \in Route /\ F(d) \in Route
                          /\ F(d).handler = d.handler /\ F(d).subject = d.subject
                          /\ F(d).factory = d.factory
                          /\ F(d).topic = d.topic /\ F(d).headers = d.headers
                          /\ F(d).layers = Append(d.layers, l)
  <2> TAKE d \in c.routes
  <2>1. d \in Route /\ d.layers \in Seq(Layer)
    BY DEF Core, Route
  <2>2. Append(d.layers, l) \in Seq(Layer)
    BY <2>1, AppendProperties
  <2> QED
    BY <2>1, <2>2 DEF Route
<1> HIDE DEF n, F
<1>4. n \in Core
  <2>1. Append(c.layers, l) \in Seq(Layer)
    BY AppendProperties DEF Core
  <2>2. \A rs \in SUBSET Route, ls \in Seq(Layer) :
          [c EXCEPT !.layers = ls, !.routes = rs] \in Core
    BY DEF Core
  <2>3. {F(d) : d \in c.routes} \in SUBSET Route
    BY <1>3
  <2> QED
    BY <2>1, <2>2, <2>3 DEF n, F, AddLayer
<1>5. Names(n) = Names(c)
  BY <1>2, <1>3 DEF Names
<1>6. Keyed(c) => Keyed(n)
  BY <1>2, <1>3 DEF Keyed
<1>7. \A h : Uniform(c, h) => Uniform(n, h)
  BY <1>1, <1>2, <1>3 DEF Uniform, Alike
<1> QED
  BY <1>4, <1>5, <1>6, <1>7 DEF n

LEMMA ErrorTopicCore ==
  ASSUME NEW c \in Core, NEW t \in Topics
  PROVE /\ SetErrorTopic(c, t) \in Core
        /\ Names(SetErrorTopic(c, t)) = Names(c)
        /\ Keyed(c) => Keyed(SetErrorTopic(c, t))
        /\ \A h : Uniform(c, h) => Uniform(SetErrorTopic(c, t), h)
<1> DEFINE n == SetErrorTopic(c, t)
           F(d) == [d EXCEPT !.topic = t]
<1>1. /\ n.topic = t /\ n.headers = c.headers /\ n.layers = c.layers
  BY DEF SetErrorTopic, Core
<1>2. n.routes = {F(d) : d \in c.routes}
  BY DEF SetErrorTopic, Core
<1>3. \A d \in c.routes : /\ d \in Route /\ F(d) \in Route
                          /\ F(d).handler = d.handler /\ F(d).subject = d.subject
                          /\ F(d).factory = d.factory
                          /\ F(d).topic = t /\ F(d).headers = d.headers
                          /\ F(d).layers = d.layers
  BY DEF Core, Route
<1> HIDE DEF n, F
<1>4. n \in Core
  <2>1. \A rs \in SUBSET Route : [c EXCEPT !.topic = t, !.routes = rs] \in Core
    BY DEF Core
  <2>2. {F(d) : d \in c.routes} \in SUBSET Route
    BY <1>3
  <2> QED
    BY <2>1, <2>2 DEF n, F, SetErrorTopic
<1>5. Names(n) = Names(c)
  BY <1>2, <1>3 DEF Names
<1>6. Keyed(c) => Keyed(n)
  BY <1>2, <1>3 DEF Keyed
<1>7. \A h : Uniform(c, h) => Uniform(n, h)
  BY <1>1, <1>2, <1>3 DEF Uniform, Alike
<1> QED
  BY <1>4, <1>5, <1>6, <1>7 DEF n

LEMMA ErrorHeadersCore ==
  ASSUME NEW c \in Core, NEW t \in Headers
  PROVE /\ SetErrorHeaders(c, t) \in Core
        /\ Names(SetErrorHeaders(c, t)) = Names(c)
        /\ Keyed(c) => Keyed(SetErrorHeaders(c, t))
        /\ \A h : Uniform(c, h) => Uniform(SetErrorHeaders(c, t), h)
<1> DEFINE n == SetErrorHeaders(c, t)
           F(d) == [d EXCEPT !.headers = t]
<1>1. /\ n.topic = c.topic /\ n.headers = t /\ n.layers = c.layers
  BY DEF SetErrorHeaders, Core
<1>2. n.routes = {F(d) : d \in c.routes}
  BY DEF SetErrorHeaders, Core
<1>3. \A d \in c.routes : /\ d \in Route /\ F(d) \in Route
                          /\ F(d).handler = d.handler /\ F(d).subject = d.subject
                          /\ F(d).factory = d.factory
                          /\ F(d).topic = d.topic /\ F(d).headers = t
                          /\ F(d).layers = d.layers
  BY DEF Core, Route
<1> HIDE DEF n, F
<1>4. n \in Core
  <2>1. \A rs \in SUBSET Route : [c EXCEPT !.headers = t, !.routes = rs] \in Core
    BY DEF Core
  <2>2. {F(d) : d \in c.routes} \in SUBSET Route
    BY <1>3
  <2> QED
    BY <2>1, <2>2 DEF n, F, SetErrorHeaders
<1>5. Names(n) = Names(c)
  BY <1>2, <1>3 DEF Names
<1>6. Keyed(c) => Keyed(n)
  BY <1>2, <1>3 DEF Keyed
<1>7. \A h : Uniform(c, h) => Uniform(n, h)
  BY <1>1, <1>2, <1>3 DEF Uniform, Alike
<1> QED
  BY <1>4, <1>5, <1>6, <1>7 DEF n

LEMMA AddRouteCore ==
  ASSUME NEW c \in Core, NEW s \in Subjects, NEW r \in Routers,
         NEW f \in Bindings \cup {None}
  PROVE /\ AddRoute(c, s, r, f) \in Core
        /\ Names(AddRoute(c, s, r, f)) = Names(c) \cup {<<r, s, f>>}
        /\ Keyed(c) /\ Available(c, s) => Keyed(AddRoute(c, s, r, f))
        /\ Uniform(c, r) => Uniform(AddRoute(c, s, r, f), r)
<1> DEFINE n == AddRoute(c, s, r, f)
           d == Definition(c, s, r, f)
<1>1. /\ n.topic = c.topic /\ n.headers = c.headers /\ n.layers = c.layers
      /\ n.routes = c.routes \cup {d}
  BY DEF AddRoute, Core
<1>2. /\ d \in Route
      /\ d.handler = r /\ d.subject = s /\ d.factory = f
      /\ d.topic = c.topic /\ d.headers = c.headers /\ d.layers = c.layers
  BY DEF Core, Route, Definition
<1> HIDE DEF n, d
<1>3. n \in Core
  <2>1. \A rs \in SUBSET Route : [c EXCEPT !.routes = rs] \in Core
    BY DEF Core
  <2>2. c.routes \cup {d} \in SUBSET Route
    BY <1>2 DEF Core
  <2> QED
    BY <2>1, <2>2 DEF n, d, AddRoute
<1>4. Names(n) = Names(c) \cup {<<r, s, f>>}
  BY <1>1, <1>2 DEF Names
<1>5. Keyed(c) /\ Available(c, s) => Keyed(n)
  BY <1>1, <1>2 DEF Keyed, Available
<1>6. Uniform(c, r) => Uniform(n, r)
  BY <1>1, <1>2 DEF Uniform, Alike
<1> QED
  BY <1>3, <1>4, <1>5, <1>6 DEF n

LEMMA IncludedCore ==
  ASSUME NEW c \in Core, NEW o \in Core
  PROVE /\ Included(c, o) \in Core
        /\ Names(Included(c, o)) = Names(c) \cup Names(o)
        /\ Keyed(c) /\ Keyed(o) /\ CanInclude(c, o) => Keyed(Included(c, o))
        /\ \A h : Uniform(c, h) /\ (\A d \in o.routes : d.handler # h)
                  => Uniform(Included(c, o), h)
<1> DEFINE n == Included(c, o)
<1>1. /\ n.topic = c.topic /\ n.headers = c.headers /\ n.layers = c.layers
      /\ n.routes = c.routes \cup o.routes
  BY DEF Included, Core
<1> HIDE DEF n
<1>2. n \in Core
  <2>1. \A rs \in SUBSET Route : [c EXCEPT !.routes = rs] \in Core
    BY DEF Core
  <2>2. c.routes \cup o.routes \in SUBSET Route
    BY DEF Core
  <2> QED
    BY <2>1, <2>2 DEF n, Included
<1>3. Names(n) = Names(c) \cup Names(o)
  BY <1>1 DEF Names
<1>4. Keyed(c) /\ Keyed(o) /\ CanInclude(c, o) => Keyed(n)
  BY <1>1 DEF Keyed, CanInclude, Available
<1>5. \A h : Uniform(c, h) /\ (\A d \in o.routes : d.handler # h) => Uniform(n, h)
  BY <1>1 DEF Uniform, Alike
<1> QED
  BY <1>2, <1>3, <1>4, <1>5 DEF n

-----------------------------------------------------------------------------
(* Types *)

LEMMA FacadeEdits ==
  ASSUME NEW self \in Facade, NEW inner \in Core
  PROVE /\ [self EXCEPT !.inner = inner] \in Facade
        /\ Forward(self, inner) = [self EXCEPT !.inner = inner]
        /\ \A q \in Levels : [self EXCEPT !.qos = q] \in Facade
        /\ \A b \in Bindings : [self EXCEPT !.bound = b] \in Facade
        /\ \A o \in SUBSET Option :
             [self EXCEPT !.options = o, !.inner = inner] \in Facade
        /\ \A o \in SUBSET Option :
             [[self EXCEPT !.inner = inner] EXCEPT !.options = o] \in Facade
        /\ \A kind \in {"core", "mqtt", "nats", "redis"} : Wrap(kind, inner) \in Facade
<1>1. \A kind \in {"core", "mqtt", "nats", "redis"} : Wrap(kind, inner) \in Facade
  BY RouterAssumption DEF Wrap, Facade
<1>2. Forward(self, inner) = [self EXCEPT !.inner = inner]
  BY DEF Forward, MqttForward, NatsForward, RedisForward, CoreSelf
<1>3. /\ [self EXCEPT !.inner = inner] \in Facade
      /\ \A o \in SUBSET Option :
           [self EXCEPT !.options = o, !.inner = inner] \in Facade
      /\ \A o \in SUBSET Option :
           [[self EXCEPT !.inner = inner] EXCEPT !.options = o] \in Facade
  BY DEF Facade
<1>4. /\ \A q \in Levels : [self EXCEPT !.qos = q] \in Facade
      /\ \A b \in Bindings : [self EXCEPT !.bound = b] \in Facade
  BY DEF Facade
<1> QED
  BY <1>1, <1>2, <1>3, <1>4

LEMMA ForwardIs ==
  ASSUME NEW self \in Facade, NEW inner \in Core
  PROVE /\ Forward(self, inner) \in Facade
        /\ Forward(self, inner) = [self EXCEPT !.inner = inner]
  BY FacadeEdits

LEMMA ChoiceIsOption ==
  ASSUME NEW self \in Facade, NEW s \in Subjects
  PROVE /\ Choice(self, s) \in Option
        /\ Choice(self, s).subject = s
        /\ (\E o \in self.options : o.subject = s) => Choice(self, s) \in self.options
        /\ (\A o \in self.options : o.subject # s)
             => Choice(self, s) = [subject |-> s, qos |-> self.qos, group |-> None]
<1> DEFINE own == {o \in self.options : o.subject = s}
<1>1. self.options \subseteq Option /\ self.qos \in Levels
  BY DEF Facade
<1>2. CASE own = {}
  <2>1. Choice(self, s) = [subject |-> s, qos |-> self.qos, group |-> None]
    BY <1>2 DEF Choice
  <2> QED
    BY <1>1, <1>2, <2>1 DEF Option
<1>3. CASE own # {}
  <2>1. Choice(self, s) = CHOOSE o \in own : TRUE
    BY <1>3 DEF Choice
  <2>2. Choice(self, s) \in own
    BY <1>3, <2>1
  <2> QED
    BY <1>1, <1>3, <2>2
<1> QED
  BY <1>2, <1>3

\* Every step but a panic and into_service gives one router, or the including
\* one, a new value.
LEMMA SetType ==
  ASSUME TypeOK, NEW r \in Routers, NEW self \in Facade,
         routers' = [routers EXCEPT ![r] = self],
         phase # "serving", phase' = phase,
         live' \subseteq live, registered' \subseteq Asked, joined' \subseteq Join,
         calls' \in Nat
  PROVE TypeOK'
  BY DEF TypeOK

\* What include records of a route that is taken in.
LEMMA JoiningIsJoin ==
  ASSUME TypeOK, NEW r \in Routers, NEW o \in Routers, NEW d \in routers[o].inner.routes
  PROVE Joining(r, d.handler, d.subject) \in Join
<1>1. d \in Route /\ routers[r].inner.layers \in Seq(Layer)
  BY DEF TypeOK, Facade, Core
<1>2. d.handler \in Routers /\ d.subject \in Subjects /\ Len(routers[r].inner.layers) \in Nat
  BY <1>1, LenProperties DEF Route
<1>3. {j.router : j \in Joins(d.handler, d.subject)} \subseteq Routers
  BY DEF TypeOK, Join, Joins
<1> QED
  BY <1>2, <1>3 DEF Joining, Join

\* Every router keeps its shape whatever methods are called on it, and a service
\* has subscriptions with a subject, a QoS and an optional group (base.rs, mqtt.rs).
THEOREM TypeCorrect == Spec => []TypeOK
<1>1. Init => TypeOK
  <2> SUFFICES ASSUME Init PROVE TypeOK
    OBVIOUS
  <2>1. PICK kind \in Kinds : /\ routers = [r \in Routers |-> Wrap(kind, NewRouter)]
                             /\ calls = MaxCalls[kind]
    BY DEF Init
  <2>2. Wrap(kind, NewRouter) \in Facade
    BY RouterAssumption, NewIsCore DEF Wrap, Facade
  <2>3. calls \in Nat
    BY <2>1, RouterAssumption
  <2> QED
    BY <2>1, <2>2, <2>3 DEF Init, TypeOK
<1>2. TypeOK /\ [Next]_vars => TypeOK'
  <2> SUFFICES ASSUME TypeOK, [Next]_vars PROVE TypeOK'
    OBVIOUS
  <2>1. CASE UNCHANGED vars
    BY <2>1 DEF vars, history, TypeOK
  <2>2. CASE Next
    <3>1. PICK r \in Routers :
            \/ Register(r) /\ UNCHANGED calls
            \/ calls > 0 /\ Configure(r) /\ calls' = calls - 1
            \/ (Combine(r) \/ Panic(r)) /\ UNCHANGED calls
      BY <2>2 DEF Next
    <3>2. /\ routers[r] \in Facade /\ routers[r].inner \in Core
          /\ routers[r].options \in SUBSET Option
          /\ routers[r].bound \in Bindings \cup {None} /\ routers[r].qos \in Levels
          /\ calls \in Nat /\ calls' \in Nat
      BY <3>1 DEF TypeOK, Facade
    <3>3. CASE Register(r)
      <4>1. PICK s \in Subjects :
              \/ AddPlain(r, s) \/ JetStreamRoute(r, s) \/ RedisStreamRoute(r, s)
              \/ \E q \in Levels : QosRoute(r, s, q)
              \/ \E g \in Groups :
                   SharedRoute(r, s, g) \/ \E q \in Levels : SharedQosRoute(r, s, g, q)
        BY <3>3 DEF Register
      <4>2. \A f \in Bindings \cup {None} : AddRoute(routers[r].inner, s, r, f) \in Core
        BY <3>2, AddRouteCore
      <4>3. CASE AddPlain(r, s)
        <5>1. Forward(routers[r], AddRoute(routers[r].inner, s, r, None)) \in Facade
          BY <3>2, <4>2, ForwardIs
        <5> QED
          BY <3>2, <4>3, <5>1, SetType
          DEF AddPlain, Set, Building, Ask, Asked, Join, TypeOK
      <4>4. CASE AddBound(r, s)
        <5>1. [routers[r] EXCEPT !.inner = AddRoute(@, s, r, routers[r].bound)] \in Facade
          BY <3>2, <4>2, FacadeEdits
        <5> QED
          BY <3>2, <4>4, <5>1, SetType
          DEF AddBound, Set, Building, Ask, Asked, Join, TypeOK
      <4>5. ASSUME NEW q \in Levels, NEW g \in Groups \cup {None},
                   Building(r), Ask(r, s, None, q, g),
                   Set(r, [routers[r] EXCEPT
                             !.options = Insert(@, [subject |-> s, qos |-> q, group |-> g]),
                             !.inner   = AddRoute(@, s, r, None)])
            PROVE TypeOK'
        <5>1. Insert(routers[r].options, [subject |-> s, qos |-> q, group |-> g])
                \in SUBSET Option
          BY <3>2 DEF Insert, Option
        <5>2. [routers[r] EXCEPT
                 !.options = Insert(@, [subject |-> s, qos |-> q, group |-> g]),
                 !.inner   = AddRoute(@, s, r, None)] \in Facade
          BY <3>2, <4>2, <5>1, FacadeEdits
        <5> QED
          BY <3>2, <4>5, <5>2, SetType DEF Set, Building, Ask, Asked, Join, TypeOK
      <4> QED
        BY <3>2, <4>1, <4>3, <4>4, <4>5
        DEF JetStreamRoute, RedisStreamRoute, QosRoute, SharedRoute, SharedQosRoute
    <3>4. CASE Configure(r)
      <4>1. ASSUME NEW q \in Levels, SetQos(r, q) PROVE TypeOK'
        BY <3>2, <4>1, FacadeEdits, SetType
        DEF SetQos, Set, Building, history, TypeOK
      <4>2. ASSUME NEW b \in Bindings, BindStream(r, b) \/ BindBroker(r, b) PROVE TypeOK'
        BY <3>2, <4>2, FacadeEdits, SetType
        DEF BindStream, BindBroker, Set, Building, history, TypeOK
      <4>3. ASSUME NEW t \in Topics, OnError(r, t) PROVE TypeOK'
        <5>1. Forward(routers[r], SetErrorTopic(routers[r].inner, t)) \in Facade
          BY <3>2, ErrorTopicCore, ForwardIs
        <5> QED
          BY <3>2, <4>3, <5>1, SetType
          DEF OnError, Set, Building, history, TypeOK
      <4>4. ASSUME NEW h \in Headers, WithErrorHeaders(r, h) PROVE TypeOK'
        <5>1. Forward(routers[r], SetErrorHeaders(routers[r].inner, h)) \in Facade
          BY <3>2, ErrorHeadersCore, ForwardIs
        <5> QED
          BY <3>2, <4>4, <5>1, SetType
          DEF WithErrorHeaders, Set, Building, history, TypeOK
      <4>5. ASSUME NEW kind \in Kinds, FromRouter(r, kind) PROVE TypeOK'
        BY <3>2, <4>5, FacadeEdits, SetType, RouterAssumption
        DEF FromRouter, Set, Building, history, TypeOK
      <4>6. CASE AddOneLayer(r)
        <5>1. <<r, Len(routers[r].inner.layers) + 1>> \in Layer
          BY <3>2, LenProperties DEF Core, Layer
        <5>2. Forward(routers[r], AddLayer(routers[r].inner,
                      <<r, Len(routers[r].inner.layers) + 1>>)) \in Facade
          BY <3>2, <5>1, AddLayerCore, ForwardIs
        <5> QED
          BY <3>2, <4>6, <5>2, SetType
          DEF AddOneLayer, Set, Building, history, TypeOK
      <4>7. CASE IntoRouter(r)
        <5>1. registered' \subseteq Asked
          BY <4>7 DEF IntoRouter, TypeOK, Asked
        <5> QED
          BY <3>2, <4>7, <5>1, FacadeEdits, SetType DEF IntoRouter, Set, Building, TypeOK
      <4> QED
        BY <3>4, <4>1, <4>2, <4>3, <4>4, <4>5, <4>6, <4>7 DEF Configure
    <3>5. ASSUME NEW o \in Routers, Include(r, o) PROVE TypeOK'
      <4>1. routers[o] \in Facade /\ routers[o].inner \in Core
        BY DEF TypeOK, Facade
      <4>2. Included(routers[r].inner, routers[o].inner) \in Core
        BY <3>2, <4>1, IncludedCore
      <4>3. Merge(routers[r].options, routers[o].options) \in SUBSET Option
        BY <3>2, <4>1 DEF Merge, Facade
      <4>4. Forward(routers[r], Included(routers[r].inner, routers[o].inner))
              = [routers[r] EXCEPT !.inner = Included(routers[r].inner, routers[o].inner)]
        BY <3>2, <4>2, FacadeEdits
      <4>5. Both(routers[r], routers[o]) \in Facade
        BY <3>2, <4>2, <4>3, <4>4, FacadeEdits DEF Both
      <4>6. joined' \subseteq Join
        BY <3>2, <3>5, <4>1, JoiningIsJoin DEF Include, TypeOK
      <4> QED
        BY <3>2, <3>5, <4>5, <4>6, SetType DEF Include, Building, TypeOK
    <3>6. CASE IntoService(r)
      <4>1. {Choice(routers[r], d.subject) :
               d \in {e \in routers[r].inner.routes : e.factory = None}} \subseteq Option
        BY <3>2, ChoiceIsOption DEF Core, Route
      <4> QED
        BY <3>1, <3>2, <3>6, <4>1 DEF IntoService, Building, history, TypeOK
    <3>7. CASE Panic(r)
      BY <3>1, <3>2, <3>7
      DEF Panic, DuplicateRoute, DuplicateInclude, NotBound, Building, history, TypeOK
    <3> QED
      BY <3>1, <3>3, <3>4, <3>5, <3>6, <3>7 DEF Combine
  <2> QED
    BY <2>1, <2>2
<1> QED
  BY <1>1, <1>2, PTL DEF Spec

-----------------------------------------------------------------------------
(* The inductive invariant *)

N(r) == Names(routers[r].inner)

\* The routers that hold routes: those still there, and the one of the service.
Held == IF phase = "serving" THEN live \cup {service.router} ELSE live

NameOf(a) == <<a.home, a.subject, a.factory>>

KeyInv == \A r \in Held : Keyed(routers[r].inner) /\ Uniform(routers[r].inner, r)

\* The router of a handler is the one that holds its route, or was consumed.
HomeInv == \A r \in Held : \A n \in N(r) : n[1] = r \/ n[1] \notin Held

AskInv ==
  /\ \A r \in Held : \A n \in N(r) : \E a \in registered : n = NameOf(a)
  /\ \A a, b \in registered : a.home = b.home /\ a.subject = b.subject => a = b
  /\ \A a \in registered : a.qos = None => a.group = None

OnceInv ==
  phase # "panicked" => \A a \in registered :
    \E r \in Held : NameOf(a) \in N(r) /\ \A q \in Held \ {r} : NameOf(a) \notin N(q)

\* An option answers a registration that asked for it.
Answers(o, a) ==
  /\ o.subject = a.subject /\ o.group = a.group
  /\ a.qos # None => o.qos = a.qos

OptionInv ==
  \A r \in Held :
    /\ routers[r].kind # "mqtt" => routers[r].options = {}
    /\ \A o, p \in routers[r].options : o.subject = p.subject => o = p
    /\ \A o \in routers[r].options : \E n \in N(r) : n[2] = o.subject /\ n[3] = None
    /\ \A a \in registered : NameOf(a) \in N(r) /\ a.factory = None =>
         IF a.qos = None /\ a.group = None
           THEN \A o \in routers[r].options : o.subject # a.subject
           ELSE \E o \in routers[r].options : Answers(o, a)

ServiceInv ==
  phase = "serving" =>
    /\ service.router \in Routers \ live
    /\ service.qos = routers[service.router].qos
    /\ service.routes = Built(routers[service.router].inner)
    /\ service.subs =
         {Choice(routers[service.router], d.subject) :
            d \in {e \in routers[service.router].inner.routes : e.factory = None}}

Inv == TypeOK /\ ServiceInv /\ KeyInv /\ HomeInv /\ AskInv /\ OnceInv /\ OptionInv

LEMMA NamesOf ==
  ASSUME NEW c \in Core
  PROVE /\ \A s : Available(c, s) <=> \A n \in Names(c) : n[2] # s
        /\ \A o \in Core : CanInclude(c, o) <=>
             \A n \in Names(c), m \in Names(o) : n[2] # m[2]
        /\ Keyed(c) => \A m, n \in Names(c) : m[2] = n[2] => m = n
        /\ \A n \in Names(c) : n = <<n[1], n[2], n[3]>>
        /\ \A n \in Names(c) : \E d \in c.routes :
             d.handler = n[1] /\ d.subject = n[2] /\ d.factory = n[3]
        /\ \A d \in c.routes : <<d.handler, d.subject, d.factory>> \in Names(c)
<1>1. \A n \in Names(c) : \E d \in c.routes : n = <<d.handler, d.subject, d.factory>>
  BY DEF Names
<1>2. \A d \in c.routes : <<d.handler, d.subject, d.factory>> \in Names(c)
  BY DEF Names
<1>3. \A s : Available(c, s) <=> \A n \in Names(c) : n[2] # s
  <2> TAKE s
  <2>1. ASSUME Available(c, s), NEW n \in Names(c) PROVE n[2] # s
    BY <1>1, <2>1 DEF Available
  <2>2. ASSUME \A n \in Names(c) : n[2] # s, NEW d \in c.routes PROVE d.subject # s
    <3>1. <<d.handler, d.subject, d.factory>>[2] # s
      BY <1>2, <2>2
    <3> QED
      BY <3>1
  <2> QED
    BY <2>1, <2>2 DEF Available
<1>4. \A o \in Core : CanInclude(c, o) <=>
        \A n \in Names(c), m \in Names(o) : n[2] # m[2]
  <2> TAKE o \in Core
  <2>1. \A m \in Names(o) : \E d \in o.routes : m = <<d.handler, d.subject, d.factory>>
    BY DEF Names
  <2>2. \A d \in o.routes : <<d.handler, d.subject, d.factory>> \in Names(o)
    BY DEF Names
  <2>3. ASSUME CanInclude(c, o), NEW n \in Names(c), NEW m \in Names(o) PROVE n[2] # m[2]
    BY <1>3, <2>1, <2>3 DEF CanInclude
  <2>4. ASSUME \A n \in Names(c), m \in Names(o) : n[2] # m[2], NEW d \in o.routes
        PROVE Available(c, d.subject)
    <3>1. \A n \in Names(c) : n[2] # <<d.handler, d.subject, d.factory>>[2]
      BY <2>2, <2>4
    <3> QED
      BY <1>3, <3>1
  <2> QED
    BY <2>3, <2>4 DEF CanInclude
<1>5. Keyed(c) => \A m, n \in Names(c) : m[2] = n[2] => m = n
  BY <1>1 DEF Keyed
<1> QED
  BY <1>1, <1>2, <1>3, <1>4, <1>5

-----------------------------------------------------------------------------
(* Steps *)

\* Router r has a new value, and the rest of the program does not.
Revalues(r) ==
  /\ r \in live /\ live' = live /\ phase = "building" /\ phase' = "building"
  /\ \A q \in Routers \ {r} : routers'[q] = routers[q]

\* A configuring method: the names of the routes, the options and what was asked
\* stay as they are.
Quiet(r) ==
  /\ Revalues(r) /\ registered' = registered
  /\ Names(routers'[r].inner) = N(r)
  /\ Keyed(routers[r].inner) => Keyed(routers'[r].inner)
  /\ Uniform(routers[r].inner, r) => Uniform(routers'[r].inner, r)
  /\ routers'[r].options = routers[r].options
  /\ routers'[r].kind = "mqtt" \/ routers'[r].options = {}

\* A registration.
Added(r, a) ==
  /\ Revalues(r) /\ registered' = registered \cup {a}
  /\ a.home = r /\ \A n \in N(r) : n[2] # a.subject
  /\ Names(routers'[r].inner) = N(r) \cup {NameOf(a)}
  /\ Keyed(routers[r].inner) => Keyed(routers'[r].inner)
  /\ Uniform(routers[r].inner, r) => Uniform(routers'[r].inner, r)
  /\ routers'[r].kind = routers[r].kind
  /\ \/ /\ a.qos = None /\ a.group = None
        /\ routers'[r].options = routers[r].options
     \/ /\ a.qos # None /\ a.factory = None /\ routers[r].kind = "mqtt"
        /\ \E o : /\ Answers(o, a)
                  /\ routers'[r].options = Insert(routers[r].options, o)

LEMMA QuietKeeps ==
  ASSUME Inv, TypeOK', NEW r \in Routers, Quiet(r)
  PROVE Inv'
<1>0. Held = live /\ Held' = live' /\ ServiceInv'
  BY DEF Quiet, Revalues, Held, ServiceInv
<1>1. \A q \in live : Names(routers'[q].inner) = N(q) /\ routers'[q].options = routers[q].options
  BY <1>0 DEF Quiet, Revalues, N, Inv, TypeOK
<1>2. KeyInv'
  BY <1>0 DEF Quiet, Revalues, Inv, KeyInv, TypeOK
<1>3. HomeInv'
  BY <1>0, <1>1 DEF Quiet, Revalues, Inv, HomeInv, N
<1>4. AskInv'
  BY <1>0, <1>1 DEF Quiet, Revalues, Inv, AskInv, N, NameOf
<1>5. OnceInv'
  BY <1>0, <1>1 DEF Quiet, Revalues, Inv, OnceInv, N, NameOf
<1>6. OptionInv'
  <2>1. \A q \in live : routers'[q].kind # "mqtt" => routers'[q].options = {}
    BY <1>0 DEF Quiet, Revalues, Inv, OptionInv, TypeOK
  <2> QED
    BY <1>0, <1>1, <2>1 DEF Quiet, Revalues, Inv, OptionInv, N, NameOf, Answers
<1> QED
  BY <1>0, <1>2, <1>3, <1>4, <1>5, <1>6 DEF Inv

\* A key that a live router has free was never registered on it.
LEMMA FreshKey ==
  ASSUME Inv, phase = "building", NEW r \in live, NEW s, \A n \in N(r) : n[2] # s,
         NEW b \in registered
  PROVE ~(b.home = r /\ b.subject = s)
<1> SUFFICES ASSUME b.home = r, b.subject = s PROVE FALSE
  OBVIOUS
<1>1. Held = live
  BY DEF Held
<1>2. PICK q \in live : NameOf(b) \in N(q)
  BY <1>1 DEF Inv, OnceInv
<1>3. q = r
  BY <1>1, <1>2 DEF Inv, HomeInv, NameOf
<1> QED
  BY <1>2, <1>3 DEF NameOf

LEMMA AddedKeeps ==
  ASSUME Inv, TypeOK', NEW r \in Routers, NEW a \in Asked, Added(r, a)
  PROVE Inv'
<1>0. Held = live /\ Held' = live' /\ ServiceInv'
  BY DEF Added, Revalues, Held, ServiceInv
<1>1. /\ \A q \in live \ {r} : Names(routers'[q].inner) = N(q) /\ routers'[q] = routers[q]
      /\ Names(routers'[r].inner) = N(r) \cup {NameOf(a)}
      /\ r \in live /\ live' = live /\ live \subseteq Routers
      /\ phase = "building" /\ phase' = "building"
      /\ registered' = registered \cup {a} /\ a.home = r
      /\ \A n \in N(r) : n[2] # a.subject
  BY <1>0 DEF Added, Revalues, N, Inv, TypeOK
<1>2. \A b \in registered : ~(b.home = r /\ b.subject = a.subject)
  BY <1>1, FreshKey
<1>3. \A q \in live \ {r} : NameOf(a) \notin N(q)
  BY <1>0, <1>1 DEF Inv, HomeInv, NameOf
<1>4. KeyInv'
  BY <1>0, <1>1 DEF Added, Inv, KeyInv
<1>5. HomeInv'
  BY <1>0, <1>1 DEF Inv, HomeInv, N, NameOf
<1>6. AskInv'
  <2>1. \A q \in live : \A n \in Names(routers'[q].inner) : \E b \in registered' : n = NameOf(b)
    BY <1>0, <1>1 DEF Inv, AskInv
  <2>2. \A b, c \in registered' : b.home = c.home /\ b.subject = c.subject => b = c
    BY <1>0, <1>1, <1>2 DEF Inv, AskInv
  <2>3. \A b \in registered' : b.qos = None => b.group = None
    BY <1>0, <1>1 DEF Inv, AskInv, Added
  <2> QED
    BY <1>0, <1>1, <2>1, <2>2, <2>3 DEF AskInv, N, NameOf
<1>7. OnceInv'
  <2> SUFFICES ASSUME NEW b \in registered'
               PROVE \E q \in live : /\ NameOf(b) \in Names(routers'[q].inner)
                                     /\ \A p \in live \ {q} : NameOf(b) \notin Names(routers'[p].inner)
    BY <1>0, <1>1 DEF OnceInv, N, NameOf
  <2>1. CASE b = a
    BY <1>0, <1>1, <1>3, <2>1
  <2>2. CASE b \in registered
    <3>1. PICK q \in live : NameOf(b) \in N(q) /\ \A p \in live \ {q} : NameOf(b) \notin N(p)
      BY <1>0, <1>1, <2>2 DEF Inv, OnceInv
    <3>2. NameOf(b) # NameOf(a)
      BY <1>1, <1>2, <2>2 DEF NameOf
    <3> QED
      BY <1>1, <3>1, <3>2
  <2> QED
    BY <1>1, <2>1, <2>2
<1>8. OptionInv'
  <2> DEFINE opts == routers[r].options
             new  == routers'[r].options
  <2>1. /\ routers[r].kind # "mqtt" => opts = {}
        /\ \A o, p \in opts : o.subject = p.subject => o = p
        /\ \A o \in opts : \E n \in N(r) : n[2] = o.subject /\ n[3] = None
        /\ \A b \in registered : NameOf(b) \in N(r) /\ b.factory = None =>
             IF b.qos = None /\ b.group = None THEN \A o \in opts : o.subject # b.subject
             ELSE \E o \in opts : Answers(o, b)
    BY <1>0, <1>1 DEF Inv, OptionInv
  <2>2. \A o \in opts : o.subject # a.subject
    BY <1>1, <2>1
  <2>3. /\ routers'[r].kind # "mqtt" => new = {}
        /\ \A o, p \in new : o.subject = p.subject => o = p
        /\ \A o \in new : \E n \in Names(routers'[r].inner) : n[2] = o.subject /\ n[3] = None
    <3>1. CASE new = opts
      BY <1>1, <2>1, <3>1 DEF Added
    <3>2. CASE /\ a.factory = None /\ routers[r].kind = "mqtt"
               /\ \E o : Answers(o, a) /\ new = Insert(opts, o)
      <4>1. PICK o : Answers(o, a) /\ new = Insert(opts, o)
        BY <3>2
      <4>2. new = {p \in opts : p.subject # o.subject} \cup {o} /\ o.subject = a.subject
        BY <4>1 DEF Insert, Answers
      <4>3. routers'[r].kind = "mqtt"
        BY <3>2 DEF Added
      <4>4. NameOf(a)[2] = a.subject /\ NameOf(a)[3] = None
        BY <3>2 DEF NameOf
      <4> QED
        BY <1>1, <2>1, <4>2, <4>3, <4>4
    <3> QED
      BY <3>1, <3>2 DEF Added
  <2>4. \A b \in registered' : NameOf(b) \in Names(routers'[r].inner) /\ b.factory = None =>
          IF b.qos = None /\ b.group = None THEN \A o \in new : o.subject # b.subject
          ELSE \E o \in new : Answers(o, b)
    <3> SUFFICES ASSUME NEW b \in registered', NameOf(b) \in Names(routers'[r].inner),
                        b.factory = None
                 PROVE IF b.qos = None /\ b.group = None
                         THEN \A o \in new : o.subject # b.subject
                         ELSE \E o \in new : Answers(o, b)
      OBVIOUS
    <3>1. CASE b = a
      <4>1. CASE a.qos = None /\ a.group = None /\ new = opts
        BY <2>2, <3>1, <4>1
      <4>2. CASE a.qos # None /\ \E o : Answers(o, a) /\ new = Insert(opts, o)
        BY <3>1, <4>2 DEF Insert
      <4> QED
        BY <4>1, <4>2 DEF Added
    <3>2. CASE b # a
      <4>1. b \in registered /\ NameOf(b) \in N(r)
        BY <1>1, <1>2, <3>2 DEF NameOf
      <4>2. b.subject # a.subject
        BY <1>1, <4>1 DEF NameOf
      <4>3. CASE new = opts
        BY <2>1, <4>1, <4>3
      <4>4. CASE \E o : Answers(o, a) /\ new = Insert(opts, o)
        <5>1. PICK o : Answers(o, a) /\ new = Insert(opts, o)
          BY <4>4
        <5>2. new = {p \in opts : p.subject # a.subject} \cup {o} /\ o.subject = a.subject
          BY <5>1 DEF Insert, Answers
        <5> QED
          BY <2>1, <4>1, <4>2, <5>2 DEF Answers
      <4> QED
        BY <4>3, <4>4 DEF Added
    <3> QED
      BY <3>1, <3>2
  <2>5. \A q \in live \ {r} : \A b \in registered' :
          NameOf(b) \in N(q) => b \in registered
    BY <1>1, <1>3
  <2> QED
    BY <1>0, <1>1, <2>3, <2>4, <2>5 DEF Inv, OptionInv, N, NameOf, Answers
<1> QED
  BY <1>0, <1>4, <1>5, <1>6, <1>7, <1>8 DEF Inv

LEMMA IncludeKeeps ==
  ASSUME Inv, TypeOK', NEW r \in Routers, NEW o \in Routers, Include(r, o)
  PROVE Inv'
<1>0. Held = live /\ Held' = live' /\ ServiceInv'
  BY DEF Include, Building, Held, ServiceInv
<1> DEFINE c == routers[r].inner
           oc == routers[o].inner
<1>1. /\ r \in live /\ o \in live /\ r # o /\ live' = live \ {o} /\ live \subseteq Routers
      /\ phase = "building" /\ phase' = "building"
      /\ registered' = registered
      /\ routers[r] \in Facade /\ routers[o] \in Facade /\ c \in Core /\ oc \in Core
  BY <1>0 DEF Include, Building, Inv, TypeOK, Facade
<1>2. /\ Included(c, oc) \in Core
      /\ Forward(routers[r], Included(c, oc)) = [routers[r] EXCEPT !.inner = Included(c, oc)]
  BY <1>0, <1>1, IncludedCore, ForwardIs
<1>3. /\ routers'[r].inner = Included(c, oc)
      /\ routers'[r].kind = routers[r].kind
      /\ routers'[r].options = Merge(routers[r].options, routers[o].options)
      /\ \A q \in live \ {r} : routers'[q] = routers[q]
  BY <1>1, <1>2 DEF Include, Both, Facade, Inv, TypeOK
<1>4. Names(routers'[r].inner) = N(r) \cup N(o)
  BY <1>1, <1>3, IncludedCore DEF N
<1>5. \A n \in N(r), m \in N(o) : n[2] # m[2]
  BY <1>1, NamesOf DEF Include, N
<1> HIDE DEF c, oc
<1>6. KeyInv'
  <2>1. Keyed(c) /\ Keyed(oc) /\ CanInclude(c, oc) /\ Uniform(c, r)
    BY <1>0, <1>1 DEF Inv, KeyInv, Include, c, oc
  <2>2. \A d \in oc.routes : d.handler # r
    <3> SUFFICES ASSUME NEW d \in oc.routes, d.handler = r PROVE FALSE
      OBVIOUS
    <3>1. <<d.handler, d.subject, d.factory>> \in N(o)
      BY <1>1, NamesOf DEF N, oc
    <3>2. <<d.handler, d.subject, d.factory>>[1] = r
      OBVIOUS
    <3> QED
      BY <1>0, <1>1, <3>1, <3>2 DEF Inv, HomeInv
  <2>3. Keyed(Included(c, oc)) /\ Uniform(Included(c, oc), r)
    BY <1>1, <2>1, <2>2, IncludedCore
  <2> QED
    BY <1>0, <1>1, <1>3, <2>3 DEF Inv, KeyInv
<1>7. HomeInv'
  <2>1. \A n \in N(o) : n[1] \notin live \ {o}
    BY <1>0, <1>1 DEF Inv, HomeInv
  <2> QED
    BY <1>0, <1>1, <1>3, <1>4, <2>1 DEF Inv, HomeInv, N
<1>8. AskInv'
  BY <1>0, <1>1, <1>3, <1>4 DEF Inv, AskInv, N, NameOf
<1>9. OnceInv'
  <2> SUFFICES ASSUME NEW a \in registered
               PROVE \E q \in live' : /\ NameOf(a) \in Names(routers'[q].inner)
                                      /\ \A p \in live' \ {q} : NameOf(a) \notin Names(routers'[p].inner)
    BY <1>0, <1>1 DEF OnceInv, N, NameOf
  <2>1. PICK q \in live : NameOf(a) \in N(q) /\ \A p \in live \ {q} : NameOf(a) \notin N(p)
    BY <1>0, <1>1 DEF Inv, OnceInv
  <2>2. CASE q \in {r, o}
    <3>1. NameOf(a) \in Names(routers'[r].inner)
      BY <1>4, <2>1, <2>2
    <3>2. \A p \in live' \ {r} : NameOf(a) \notin Names(routers'[p].inner)
      BY <1>1, <1>3, <2>1, <2>2 DEF N
    <3> QED
      BY <1>1, <3>1, <3>2
  <2>3. CASE q \notin {r, o}
    <3>1. NameOf(a) \in Names(routers'[q].inner) /\ q \in live'
      BY <1>1, <1>3, <2>1, <2>3 DEF N
    <3>2. \A p \in live' \ {q} : NameOf(a) \notin Names(routers'[p].inner)
      BY <1>1, <1>3, <1>4, <2>1, <2>3 DEF N
    <3> QED
      BY <3>1, <3>2
  <2> QED
    BY <2>2, <2>3
<1>10. OptionInv'
  <2> DEFINE ro == routers[r].options
             oo == routers[o].options
             new == routers'[r].options
  <2>1. \A q \in {r, o} :
          /\ routers[q].kind # "mqtt" => routers[q].options = {}
          /\ \A x, p \in routers[q].options : x.subject = p.subject => x = p
          /\ \A x \in routers[q].options : \E n \in N(q) : n[2] = x.subject /\ n[3] = None
          /\ \A a \in registered : NameOf(a) \in N(q) /\ a.factory = None =>
               IF a.qos = None /\ a.group = None
                 THEN \A x \in routers[q].options : x.subject # a.subject
                 ELSE \E x \in routers[q].options : Answers(x, a)
    BY <1>0, <1>1 DEF Inv, OptionInv
  <2>2. new = {p \in ro : \A x \in oo : x.subject # p.subject} \cup oo
    BY <1>3 DEF Merge
  <2>3. \A x \in ro, y \in oo : x.subject # y.subject
    BY <1>5, <2>1
  <2>4. new = ro \cup oo
    BY <2>2, <2>3
  <2>5. routers[r].kind # "mqtt" => new = {}
    <3>1. routers[r].kind # "mqtt" => routers[o].kind # "mqtt"
      BY DEF Include
    <3> QED
      BY <2>1, <2>4, <3>1
  <2>6. \A x, p \in new : x.subject = p.subject => x = p
    BY <2>1, <2>3, <2>4
  <2>7. \A x \in new : \E n \in Names(routers'[r].inner) : n[2] = x.subject /\ n[3] = None
    BY <1>4, <2>1, <2>4
  <2>8. \A a \in registered : NameOf(a) \in Names(routers'[r].inner) /\ a.factory = None =>
          IF a.qos = None /\ a.group = None THEN \A x \in new : x.subject # a.subject
          ELSE \E x \in new : Answers(x, a)
    <3> SUFFICES ASSUME NEW a \in registered, NameOf(a) \in Names(routers'[r].inner),
                        a.factory = None
                 PROVE IF a.qos = None /\ a.group = None THEN \A x \in new : x.subject # a.subject
                       ELSE \E x \in new : Answers(x, a)
      OBVIOUS
    <3>1. NameOf(a)[2] = a.subject
      BY DEF NameOf
    <3>2. CASE NameOf(a) \in N(r)
      <4>1. \A x \in oo : x.subject # a.subject
        BY <1>5, <2>1, <3>1, <3>2
      <4> QED
        BY <2>1, <2>4, <3>2, <4>1
    <3>3. CASE NameOf(a) \in N(o)
      <4>1. \A x \in ro : x.subject # a.subject
        BY <1>5, <2>1, <3>1, <3>3
      <4> QED
        BY <2>1, <2>4, <3>3, <4>1
    <3> QED
      BY <1>4, <3>2, <3>3
  <2> QED
    BY <1>0, <1>1, <1>3, <2>5, <2>6, <2>7, <2>8 DEF Inv, OptionInv, N, NameOf, Answers
<1> QED
  BY <1>0, <1>6, <1>7, <1>8, <1>9, <1>10 DEF Inv

LEMMA PanicKeeps ==
  ASSUME Inv, TypeOK', NEW r \in Routers, Panic(r)
  PROVE Inv'
<1>0. Held = live /\ Held' = live' /\ ServiceInv'
  BY DEF Panic, DuplicateRoute, DuplicateInclude, NotBound, Building, Held, ServiceInv
<1>1. /\ routers' = routers /\ registered' = registered /\ phase' = "panicked" /\ live' \subseteq live
  BY DEF Panic, DuplicateRoute, DuplicateInclude, NotBound, history
<1> QED
  BY <1>0, <1>1 DEF Inv, KeyInv, HomeInv, AskInv, OnceInv, OptionInv, N, NameOf, Answers

LEMMA ServiceKeeps ==
  ASSUME Inv, TypeOK', NEW r \in Routers, IntoService(r)
  PROVE Inv'
<1>1. /\ routers' = routers /\ registered' = registered /\ phase' = "serving"
      /\ Held' = Held /\ phase = "building"
  BY DEF IntoService, Held, Building, history
<1>2. ServiceInv'
  BY <1>1 DEF IntoService, ServiceInv, Inv, TypeOK, Building
<1> QED
  BY <1>1, <1>2 DEF Inv, KeyInv, HomeInv, AskInv, OnceInv, OptionInv, N, NameOf, Answers

LEMMA WrapFields ==
  ASSUME NEW kind, NEW inner
  PROVE /\ Wrap(kind, inner).inner = inner /\ Wrap(kind, inner).options = {}
        /\ Wrap(kind, inner).kind = kind
  BY DEF Wrap

LEMMA ConversionKeeps ==
  ASSUME Inv, TypeOK', NEW r \in Routers, IntoRouter(r)
  PROVE Inv'
<1> DEFINE Forget(a) ==
             IF \E d \in routers[r].inner.routes : d.subject = a.subject /\ d.handler = a.home
               THEN [a EXCEPT !.qos = None, !.group = None] ELSE a
<1>0. Held = live /\ Held' = live' /\ ServiceInv' /\ phase' = phase /\ live' = live
  BY DEF IntoRouter, Set, Building, Held, ServiceInv
<1>1. /\ r \in live /\ live \subseteq Routers /\ routers[r].inner \in Core
      /\ routers'[r] = Wrap("core", routers[r].inner)
      /\ \A q \in Routers \ {r} : routers'[q] = routers[q]
  BY DEF IntoRouter, Set, Building, Inv, TypeOK, Facade
<1>2. registered' = {Forget(a) : a \in registered}
  BY DEF IntoRouter
<1>3. \A q \in live : routers'[q].inner = routers[q].inner
  BY <1>1, WrapFields
<1>4. routers'[r].options = {}
  BY <1>1, WrapFields
<1>5. \A a \in registered : /\ NameOf(Forget(a)) = NameOf(a)
                            /\ Forget(a).home = a.home /\ Forget(a).subject = a.subject
                            /\ Forget(a).factory = a.factory
  BY DEF NameOf, Inv, TypeOK, Asked
<1>6. \A a \in registered : NameOf(a) \in N(r) =>
        Forget(a).qos = None /\ Forget(a).group = None
  <2> SUFFICES ASSUME NEW a \in registered, NameOf(a) \in N(r)
               PROVE Forget(a).qos = None /\ Forget(a).group = None
    OBVIOUS
  <2>1. \E d \in routers[r].inner.routes : d.subject = NameOf(a)[2] /\ d.handler = NameOf(a)[1]
    <3>1. NameOf(a) \in Names(routers[r].inner)
      BY DEF N
    <3> QED
      BY <1>1, <3>1, NamesOf
  <2>2. \E d \in routers[r].inner.routes : d.subject = a.subject /\ d.handler = a.home
    BY <2>1 DEF NameOf
  <2>3. Forget(a) = [a EXCEPT !.qos = None, !.group = None] /\ a \in Asked
    BY <2>2 DEF Inv, TypeOK
  <2> QED
    BY <2>3 DEF Asked
<1>7. \A a \in registered : NameOf(a) \notin N(r) => Forget(a) = a
  <2> SUFFICES ASSUME NEW a \in registered, NameOf(a) \notin N(r) PROVE Forget(a) = a
    OBVIOUS
  <2> SUFFICES ASSUME NEW d \in routers[r].inner.routes,
                      d.subject = a.subject, d.handler = a.home
               PROVE FALSE
    OBVIOUS
  <2>1. <<d.handler, d.subject, d.factory>> \in N(r)
    BY <1>1, NamesOf DEF N
  <2>2. PICK b \in registered : <<d.handler, d.subject, d.factory>> = NameOf(b)
    BY <1>0, <1>1, <2>1 DEF Inv, AskInv
  <2>3. b = a
    BY <2>2 DEF Inv, AskInv, NameOf
  <2> QED
    BY <2>1, <2>2, <2>3
<1> HIDE DEF Forget
<1>8. KeyInv'
  BY <1>0, <1>3 DEF Inv, KeyInv
<1>9. HomeInv'
  BY <1>0, <1>3 DEF Inv, HomeInv, N
<1>10. AskInv'
  <2>1. \A q \in live : \A n \in N(q) : \E a \in registered' : n = NameOf(a)
    BY <1>0, <1>2, <1>5 DEF Inv, AskInv
  <2>2. \A a, b \in registered' : a.home = b.home /\ a.subject = b.subject => a = b
    BY <1>2, <1>5 DEF Inv, AskInv
  <2>3. \A a \in registered : Forget(a) = a \/ Forget(a).group = None
    BY <1>6, <1>7
  <2>4. \A b \in registered' : b.qos = None => b.group = None
    BY <1>2, <2>3 DEF Inv, AskInv
  <2> QED
    BY <1>0, <1>3, <2>1, <2>2, <2>4 DEF AskInv, N, NameOf
<1>11. OnceInv'
  <2> SUFFICES ASSUME NEW b \in registered', phase # "panicked"
               PROVE \E q \in live : /\ NameOf(b) \in N(q)
                                     /\ \A p \in live \ {q} : NameOf(b) \notin N(p)
    BY <1>0, <1>3 DEF OnceInv, N, NameOf
  <2>1. PICK a \in registered : b = Forget(a)
    BY <1>2
  <2> QED
    BY <1>0, <1>5, <2>1 DEF Inv, OnceInv
<1>12. OptionInv'
  <2>1. \A q \in live \ {r} : \A b \in registered' : NameOf(b) \in N(q) /\ b.factory = None =>
          IF b.qos = None /\ b.group = None THEN \A o \in routers[q].options : o.subject # b.subject
          ELSE \E o \in routers[q].options : Answers(o, b)
    <3> SUFFICES ASSUME NEW q \in live \ {r}, NEW b \in registered', NameOf(b) \in N(q),
                        b.factory = None
                 PROVE IF b.qos = None /\ b.group = None
                         THEN \A o \in routers[q].options : o.subject # b.subject
                         ELSE \E o \in routers[q].options : Answers(o, b)
      OBVIOUS
    <3>1. PICK a \in registered : b = Forget(a)
      BY <1>2
    <3>2. NameOf(a) \in N(q) /\ phase # "panicked"
      BY <1>5, <3>1 DEF IntoRouter, Building
    <3>3. NameOf(a) \notin N(r)
      <4>1. PICK p \in live : NameOf(a) \in N(p) /\ \A x \in live \ {p} : NameOf(a) \notin N(x)
        BY <1>0, <3>2 DEF Inv, OnceInv
      <4> QED
        BY <1>1, <3>2, <4>1
    <3>4. b = a
      BY <1>7, <3>1, <3>2, <3>3
    <3> QED
      BY <1>0, <3>2, <3>4 DEF Inv, OptionInv
  <2>2. \A b \in registered' : NameOf(b) \in N(r) => b.qos = None /\ b.group = None
    BY <1>2, <1>5, <1>6
  <2> QED
    BY <1>0, <1>1, <1>3, <1>4, <2>1, <2>2 DEF Inv, OptionInv, N, NameOf, Answers
<1> QED
  BY <1>0, <1>8, <1>9, <1>10, <1>11, <1>12 DEF Inv

LEMMA ConfigureIsQuiet ==
  ASSUME Inv, NEW r \in Routers, Configure(r), ~IntoRouter(r)
  PROVE Quiet(r)
<1> DEFINE c == routers[r].inner
<1>1. /\ routers[r] \in Facade /\ c \in Core
      /\ routers \in [Routers -> Facade]
  BY DEF Inv, TypeOK, Facade
<1>2. r \in live /\ phase = "building"
  BY DEF Configure, SetQos, BindStream, BindBroker, OnError, WithErrorHeaders, FromRouter,
         AddOneLayer, IntoRouter, Building
<1>3. routers[r].kind = "mqtt" \/ routers[r].options = {}
  BY <1>2 DEF Inv, OptionInv, Held
<1>4. ASSUME NEW inner \in Core, Set(r, Forward(routers[r], inner)), UNCHANGED registered,
             Names(inner) = Names(c), Keyed(c) => Keyed(inner),
             Uniform(c, r) => Uniform(inner, r)
      PROVE Quiet(r)
  <2>1. /\ routers'[r] = [routers[r] EXCEPT !.inner = inner]
        /\ \A q \in Routers \ {r} : routers'[q] = routers[q]
    BY <1>1, <1>4, ForwardIs DEF Set
  <2>2. /\ routers'[r].inner = inner /\ routers'[r].kind = routers[r].kind
        /\ routers'[r].options = routers[r].options
    BY <1>1, <2>1 DEF Facade
  <2> QED
    BY <1>2, <1>3, <1>4, <2>1, <2>2 DEF Quiet, Revalues, Set, N
<1>5. ASSUME NEW self, Set(r, self), UNCHANGED registered,
             self.inner = c, self.options = routers[r].options,
             self.kind = "mqtt" \/ self.options = {}
      PROVE Quiet(r)
  <2>1. routers'[r] = self /\ \A q \in Routers \ {r} : routers'[q] = routers[q]
    BY <1>1, <1>5 DEF Set
  <2> QED
    BY <1>2, <1>5, <2>1 DEF Quiet, Revalues, Set, N
<1>6. ASSUME NEW q \in Levels, SetQos(r, q) PROVE Quiet(r)
  <2> DEFINE self == [routers[r] EXCEPT !.qos = q]
  <2>1. self.inner = c /\ self.options = routers[r].options /\ self.kind = routers[r].kind
    BY <1>1 DEF Facade
  <2> QED
    BY <1>3, <1>5, <1>6, <2>1 DEF SetQos, history
<1>7. ASSUME NEW b \in Bindings, BindStream(r, b) \/ BindBroker(r, b) PROVE Quiet(r)
  <2> DEFINE self == [routers[r] EXCEPT !.bound = b]
  <2>1. self.inner = c /\ self.options = routers[r].options /\ self.kind = routers[r].kind
    BY <1>1 DEF Facade
  <2> QED
    BY <1>3, <1>5, <1>7, <2>1 DEF BindStream, BindBroker, history
<1>8. ASSUME NEW t \in Topics, OnError(r, t) PROVE Quiet(r)
  BY <1>1, <1>4, <1>8, ErrorTopicCore DEF OnError, history
<1>9. ASSUME NEW h \in Headers, WithErrorHeaders(r, h) PROVE Quiet(r)
  BY <1>1, <1>4, <1>9, ErrorHeadersCore DEF WithErrorHeaders, history
<1>10. ASSUME NEW kind \in Kinds, FromRouter(r, kind) PROVE Quiet(r)
  <2>1. routers[r].kind = "core" /\ Set(r, Wrap(kind, c)) /\ UNCHANGED registered
    BY <1>10 DEF FromRouter, history
  <2>2. routers[r].options = {}
    BY <1>3, <2>1
  <2> QED
    BY <1>5, <2>1, <2>2, WrapFields
<1>11. CASE AddOneLayer(r)
  <2> DEFINE l == <<r, Len(c.layers) + 1>>
  <2>1. l \in Layer
    BY <1>1, LenProperties DEF Core, Layer
  <2>2. Set(r, Forward(routers[r], AddLayer(c, l))) /\ UNCHANGED registered
    BY <1>11 DEF AddOneLayer, history
  <2> HIDE DEF l
  <2> QED
    BY <1>1, <1>4, <2>1, <2>2, AddLayerCore
<1> QED
  BY <1>6, <1>7, <1>8, <1>9, <1>10, <1>11 DEF Configure

LEMMA RegisterIsAdded ==
  ASSUME Inv, NEW r \in Routers, Register(r)
  PROVE \E a \in Asked : Added(r, a)
<1> DEFINE c == routers[r].inner
           Record(s, f, q, g) ==
             [home |-> r, subject |-> s, factory |-> f, qos |-> q, group |-> g]
<1>1. /\ routers[r] \in Facade /\ c \in Core
      /\ routers \in [Routers -> Facade]
      /\ routers[r].bound \in Bindings \cup {None}
  BY DEF Inv, TypeOK, Facade
<1>2. ASSUME NEW s \in Subjects, NEW f \in Bindings \cup {None},
             NEW q \in Levels \cup {None}, NEW g \in Groups \cup {None}, NEW self,
             Building(r), Available(c, s), Set(r, self), Ask(r, s, f, q, g),
             self.inner = AddRoute(c, s, r, f), self.kind = routers[r].kind,
             \/ q = None /\ g = None /\ self.options = routers[r].options
             \/ /\ q # None /\ f = None /\ routers[r].kind = "mqtt"
                /\ \E o : /\ o.subject = s /\ o.group = g /\ o.qos = q
                          /\ self.options = Insert(routers[r].options, o)
      PROVE \E a \in Asked : Added(r, a)
  <2> DEFINE a == Record(s, f, q, g)
  <2>1. /\ a \in Asked /\ a.home = r /\ a.subject = s /\ a.factory = f
        /\ a.qos = q /\ a.group = g /\ NameOf(a) = <<r, s, f>>
    BY DEF Asked, NameOf
  <2>2. registered' = registered \cup {a}
    BY <1>2 DEF Ask
  <2> HIDE DEF a
  <2>3. routers'[r] = self /\ \A p \in Routers \ {r} : routers'[p] = routers[p]
    BY <1>1, <1>2 DEF Set
  <2>4. \A n \in N(r) : n[2] # s
    BY <1>1, <1>2, NamesOf DEF N
  <2>5. Revalues(r)
    BY <1>2, <2>3 DEF Revalues, Set, Building
  <2>6. /\ Names(self.inner) = N(r) \cup {NameOf(a)}
        /\ Keyed(c) => Keyed(self.inner)
        /\ Uniform(c, r) => Uniform(self.inner, r)
    BY <1>1, <1>2, <2>1, AddRouteCore DEF N
  <2>7. \/ a.qos = None /\ a.group = None /\ self.options = routers[r].options
        \/ /\ a.qos # None /\ a.factory = None /\ routers[r].kind = "mqtt"
           /\ \E o : Answers(o, a) /\ self.options = Insert(routers[r].options, o)
    BY <1>2, <2>1 DEF Answers
  <2>8. Added(r, a)
    BY <1>2, <2>1, <2>2, <2>3, <2>4, <2>5, <2>6, <2>7 DEF Added
  <2> QED
    BY <2>1, <2>8
<1>3. PICK s \in Subjects :
        \/ AddPlain(r, s) \/ JetStreamRoute(r, s) \/ RedisStreamRoute(r, s)
        \/ \E q \in Levels : QosRoute(r, s, q)
        \/ \E g \in Groups :
             SharedRoute(r, s, g) \/ \E q \in Levels : SharedQosRoute(r, s, g, q)
  BY DEF Register
<1>4. \A f \in Bindings \cup {None} : AddRoute(c, s, r, f) \in Core
  BY <1>1, AddRouteCore
<1>5. CASE AddPlain(r, s)
  <2> DEFINE self == Forward(routers[r], AddRoute(c, s, r, None))
  <2>1. /\ self.inner = AddRoute(c, s, r, None) /\ self.kind = routers[r].kind
        /\ self.options = routers[r].options
    BY <1>1, <1>4, ForwardIs DEF Facade
  <2>2. Building(r) /\ Available(c, s) /\ Set(r, self) /\ Ask(r, s, None, None, None)
    BY <1>5 DEF AddPlain
  <2> HIDE DEF self
  <2> QED
    BY <1>2, <2>1, <2>2
<1>6. CASE AddBound(r, s)
  <2> DEFINE self == [routers[r] EXCEPT !.inner = AddRoute(@, s, r, routers[r].bound)]
  <2>1. /\ self.inner = AddRoute(c, s, r, routers[r].bound) /\ self.kind = routers[r].kind
        /\ self.options = routers[r].options
    BY <1>1 DEF Facade
  <2>2. /\ Building(r) /\ Available(c, s) /\ Set(r, self)
        /\ Ask(r, s, routers[r].bound, None, None)
    BY <1>6 DEF AddBound
  <2> HIDE DEF self
  <2> QED
    BY <1>1, <1>2, <2>1, <2>2
<1>7. ASSUME NEW q \in Levels, NEW g \in Groups \cup {None},
             Building(r), Available(c, s), routers[r].kind = "mqtt", Ask(r, s, None, q, g),
             Set(r, [routers[r] EXCEPT
                       !.options = Insert(@, [subject |-> s, qos |-> q, group |-> g]),
                       !.inner   = AddRoute(@, s, r, None)])
      PROVE \E a \in Asked : Added(r, a)
  <2> DEFINE o    == [subject |-> s, qos |-> q, group |-> g]
             self == [routers[r] EXCEPT !.options = Insert(@, o),
                                        !.inner   = AddRoute(@, s, r, None)]
  <2>1. /\ self.inner = AddRoute(c, s, r, None) /\ self.kind = routers[r].kind
        /\ self.options = Insert(routers[r].options, o)
    BY <1>1 DEF Facade
  <2>2. o.subject = s /\ o.group = g /\ o.qos = q
    OBVIOUS
  <2>3. Set(r, self)
    BY <1>7
  <2> HIDE DEF self, o
  <2> QED
    BY <1>2, <1>7, <2>1, <2>2, <2>3, RouterAssumption
<1>8. ASSUME NEW q \in Levels, QosRoute(r, s, q) PROVE \E a \in Asked : Added(r, a)
  BY <1>7, <1>8, RouterAssumption DEF QosRoute
<1>9. ASSUME NEW g \in Groups, SharedRoute(r, s, g) PROVE \E a \in Asked : Added(r, a)
  BY <1>1, <1>7, <1>9, RouterAssumption DEF SharedRoute, Facade
<1>10. ASSUME NEW g \in Groups, NEW q \in Levels, SharedQosRoute(r, s, g, q)
       PROVE \E a \in Asked : Added(r, a)
  BY <1>7, <1>10, RouterAssumption DEF SharedQosRoute
<1> QED
  BY <1>3, <1>5, <1>6, <1>8, <1>9, <1>10 DEF JetStreamRoute, RedisStreamRoute

\* The invariant that the theorems below follow from: what routers, service and
\* history have in common after any sequence of builder calls.
THEOREM Invariance == Spec => []Inv
<1>1. Init => Inv
  <2> SUFFICES ASSUME Init PROVE Inv
    OBVIOUS
  <2>1. PICK kind \in Kinds : /\ routers = [r \in Routers |-> Wrap(kind, NewRouter)]
                             /\ calls = MaxCalls[kind]
    BY DEF Init
  <2>2. Wrap(kind, NewRouter) \in Facade /\ calls \in Nat
    BY <2>1, RouterAssumption, NewIsCore DEF Wrap, Facade
  <2>3. TypeOK /\ ServiceInv /\ Held = Routers
    BY <2>1, <2>2 DEF Init, TypeOK, ServiceInv, Held
  <2>4. \A r \in Routers : /\ routers[r].inner = NewRouter /\ routers[r].options = {}
                           /\ N(r) = {}
    BY <2>1, WrapFields, NewIsCore DEF N
  <2>5. KeyInv /\ HomeInv /\ AskInv /\ OnceInv /\ OptionInv
    BY <2>3, <2>4, NewIsCore DEF Init, KeyInv, HomeInv, AskInv, OnceInv, OptionInv
  <2> QED
    BY <2>3, <2>5 DEF Inv
<1>2. Inv /\ TypeOK' /\ [Next]_vars => Inv'
  <2> SUFFICES ASSUME Inv, TypeOK', [Next]_vars PROVE Inv'
    OBVIOUS
  <2>1. CASE UNCHANGED vars
    BY <2>1 DEF vars, history, Inv, TypeOK, ServiceInv, KeyInv, HomeInv, AskInv, OnceInv, OptionInv,
                N, NameOf, Answers, Held
  <2>2. CASE Next
    <3>1. PICK r \in Routers : Register(r) \/ Configure(r) \/ Combine(r) \/ Panic(r)
      BY <2>2 DEF Next
    <3>2. CASE Register(r)
      BY <3>2, RegisterIsAdded, AddedKeeps
    <3>3. CASE Configure(r)
      BY <3>3, ConfigureIsQuiet, QuietKeeps, ConversionKeeps
    <3>4. CASE Combine(r)
      BY <3>4, IncludeKeeps, ServiceKeeps DEF Combine
    <3>5. CASE Panic(r)
      BY <3>5, PanicKeeps
    <3> QED
      BY <3>1, <3>2, <3>3, <3>4, <3>5
  <2> QED
    BY <2>1, <2>2
<1> QED
  BY <1>1, <1>2, TypeCorrect, PTL DEF Spec

-----------------------------------------------------------------------------
(* What it gives *)

LEMMA BuiltNames ==
  ASSUME NEW c \in Core
  PROVE /\ \A b \in Built(c) : \E d \in c.routes :
             b.subject = d.subject /\ b.handler = d.handler /\ b.factory = d.factory
        /\ \A d \in c.routes : \E b \in Built(c) :
             b.subject = d.subject /\ b.handler = d.handler /\ b.factory = d.factory
        /\ Keyed(c) => \A a, b \in Built(c) : a.subject = b.subject => a = b
<1> DEFINE B(d) == [subject |-> d.subject, handler |-> d.handler, factory |-> d.factory,
                    topic |-> d.topic, headers |-> d.headers, stack |-> Stack(d.layers)]
<1>1. Built(c) = {B(d) : d \in c.routes}
  BY DEF Built
<1>2. \A d : B(d).subject = d.subject /\ B(d).handler = d.handler /\ B(d).factory = d.factory
  OBVIOUS
<1> HIDE DEF B
<1>3. Keyed(c) => \A a, b \in Built(c) : a.subject = b.subject => a = b
  BY <1>1, <1>2 DEF Keyed
<1> QED
  BY <1>1, <1>2, <1>3

LEMMA HoldsNames ==
  ASSUME NEW c \in Core, NEW a
  PROVE /\ Holds(c.routes, a) <=> \E f : <<a.home, a.subject, f>> \in Names(c)
        /\ Holds(Built(c), a) <=> Holds(c.routes, a)
<1>1. Holds(Built(c), a) <=> Holds(c.routes, a)
  BY BuiltNames DEF Holds
<1>2. ASSUME Holds(c.routes, a) PROVE \E f : <<a.home, a.subject, f>> \in Names(c)
  BY <1>2 DEF Holds, Names
<1>3. ASSUME NEW f, <<a.home, a.subject, f>> \in Names(c) PROVE Holds(c.routes, a)
  BY <1>3 DEF Holds, Names
<1> QED
  BY <1>1, <1>2, <1>3

\* No two routes of a router or of the service have the same key, and an option is
\* about one plain route: the checks of route and include keep it so, through every
\* conversion and inclusion (base.rs 262-321, mqtt.rs 141-236).
THEOREM UniqueKeys == Spec => []KeysAreUnique
<1>1. Inv => KeysAreUnique
  <2> SUFFICES ASSUME Inv PROVE KeysAreUnique
    OBVIOUS
  <2>1. \A r \in live : \A d, e \in routers[r].inner.routes : d.subject = e.subject => d = e
    BY DEF Inv, KeyInv, Held, Keyed
  <2>2. phase = "serving" => \A d, e \in service.routes : d.subject = e.subject => d = e
    <3> SUFFICES ASSUME phase = "serving"
                 PROVE \A d, e \in service.routes : d.subject = e.subject => d = e
      OBVIOUS
    <3>1. routers[service.router].inner \in Core /\ Keyed(routers[service.router].inner)
      BY DEF Inv, KeyInv, ServiceInv, Held, TypeOK, Facade
    <3> QED
      BY <3>1, BuiltNames DEF Inv, ServiceInv
  <2>3. \A r \in live : \A o, p \in routers[r].options : o.subject = p.subject => o = p
    BY DEF Inv, OptionInv, Held
  <2>4. \A r \in live : \A o \in routers[r].options :
          \E d \in routers[r].inner.routes : d.subject = o.subject /\ d.factory = None
    <3> TAKE r \in live
    <3> TAKE o \in routers[r].options
    <3>1. routers[r].inner \in Core
      BY DEF Inv, TypeOK, Facade
    <3>2. \E n \in N(r) : n[2] = o.subject /\ n[3] = None
      BY DEF Inv, OptionInv, Held
    <3> QED
      BY <3>1, <3>2, NamesOf DEF N
  <2> QED
    BY <2>1, <2>2, <2>3, <2>4 DEF KeysAreUnique
<1> QED
  BY <1>1, Invariance, PTL

\* A route on the router it was registered on has that router's layers and error
\* settings, in whatever order they were given (base.rs 192-314).
THEOREM OwnUniform == Spec => []OwnRoutesUniform
<1>1. Inv => OwnRoutesUniform
  BY DEF Inv, KeyInv, Held, Uniform, OwnRoutesUniform
<1> QED
  BY <1>1, Invariance, PTL

LEMMA HoldsIs ==
  ASSUME Inv, NEW r \in Held, NEW a \in registered
  PROVE Holds(routers[r].inner.routes, a) <=> NameOf(a) \in N(r)
<1>1. routers[r].inner \in Core
  BY DEF Inv, TypeOK, ServiceInv, Held, Facade
<1>2. ASSUME NEW f, <<a.home, a.subject, f>> \in N(r) PROVE NameOf(a) \in N(r)
  <2>1. PICK b \in registered : <<a.home, a.subject, f>> = NameOf(b)
    BY <1>2 DEF Inv, AskInv
  <2>2. b = a
    BY <2>1 DEF Inv, AskInv, NameOf
  <2> QED
    BY <1>2, <2>1, <2>2
<1> QED
  BY <1>1, <1>2, HoldsNames DEF N, NameOf

\* A registered handler is in one place until the program panics, and a stream
\* route keeps the binding it was registered with (mqtt.rs 141-165,
\* redis.rs 346-372, nats.rs 186-208).
THEOREM HandlersKept == Spec => []RegisteredOnce
<1>1. Inv => RegisteredOnce
  <2> SUFFICES ASSUME Inv, NEW a \in registered
               PROVE /\ phase # "panicked" =>
                          IF phase = "serving" /\ Holds(service.routes, a)
                            THEN \A r \in live : ~Holds(routers[r].inner.routes, a)
                            ELSE \E r \in live :
                                   /\ Holds(routers[r].inner.routes, a)
                                   /\ \A q \in live \ {r} : ~Holds(routers[q].inner.routes, a)
                     /\ phase = "serving" => \A d \in service.routes :
                          d.handler = a.home /\ d.subject = a.subject => d.factory = a.factory
    BY DEF RegisteredOnce
  <2>1. phase = "serving" =>
          /\ service.router \in Held /\ service.router \notin live
          /\ Holds(service.routes, a) <=> NameOf(a) \in N(service.router)
    <3> SUFFICES ASSUME phase = "serving"
                 PROVE /\ service.router \in Held /\ service.router \notin live
                       /\ Holds(service.routes, a) <=> NameOf(a) \in N(service.router)
      OBVIOUS
    <3>1. service.router \in Held /\ service.router \in Routers \ live
      BY DEF Held, Inv, ServiceInv
    <3>2. routers[service.router].inner \in Core
      BY <3>1 DEF Inv, TypeOK, Facade
    <3>3. service.routes = Built(routers[service.router].inner)
      BY DEF Inv, ServiceInv
    <3> QED
      BY <3>1, <3>2, <3>3, HoldsIs, HoldsNames
  <2>2. \A r \in live : Holds(routers[r].inner.routes, a) <=> NameOf(a) \in N(r)
    BY HoldsIs DEF Held
  <2>3. phase # "panicked" =>
          IF phase = "serving" /\ Holds(service.routes, a)
            THEN \A r \in live : ~Holds(routers[r].inner.routes, a)
            ELSE \E r \in live :
                   /\ Holds(routers[r].inner.routes, a)
                   /\ \A q \in live \ {r} : ~Holds(routers[q].inner.routes, a)
    <3> SUFFICES ASSUME phase # "panicked"
                 PROVE IF phase = "serving" /\ Holds(service.routes, a)
                         THEN \A r \in live : NameOf(a) \notin N(r)
                         ELSE \E r \in live :
                                /\ NameOf(a) \in N(r)
                                /\ \A q \in live \ {r} : NameOf(a) \notin N(q)
      BY <2>2
    <3>1. PICK r \in Held : NameOf(a) \in N(r) /\ \A q \in Held \ {r} : NameOf(a) \notin N(q)
      BY DEF Inv, OnceInv
    <3>2. CASE phase = "serving" /\ Holds(service.routes, a)
      BY <2>1, <3>1, <3>2 DEF Held
    <3>3. CASE ~(phase = "serving" /\ Holds(service.routes, a))
      BY <2>1, <3>1, <3>3 DEF Held
    <3> QED
      BY <3>2, <3>3
  <2>4. ASSUME phase = "serving", NEW d \in service.routes,
               d.handler = a.home, d.subject = a.subject
        PROVE d.factory = a.factory
    <3>1. routers[service.router].inner \in Core /\ service.router \in Held
      BY <2>4 DEF Inv, TypeOK, ServiceInv, Facade, Held
    <3>2. PICK e \in routers[service.router].inner.routes :
            d.subject = e.subject /\ d.handler = e.handler /\ d.factory = e.factory
      BY <2>4, <3>1, BuiltNames DEF Inv, ServiceInv
    <3>3. <<a.home, a.subject, d.factory>> \in N(service.router)
      BY <2>4, <3>1, <3>2, NamesOf DEF N
    <3>4. PICK b \in registered : <<a.home, a.subject, d.factory>> = NameOf(b)
      BY <3>1, <3>3 DEF Inv, AskInv
    <3>5. b = a
      BY <3>4 DEF Inv, AskInv, NameOf
    <3> QED
      BY <3>4, <3>5 DEF NameOf
  <2> QED
    BY <2>3, <2>4
<1> QED
  BY <1>1, Invariance, PTL

\* The MQTT broker subscribes the plain routes as their registrations asked, through
\* every inclusion (mqtt.rs 141-260, brokers/mqtt.rs 54-81).
THEOREM Subscribed == Spec => []SubscribedAsAsked
<1>1. Inv => SubscribedAsAsked
  <2> SUFFICES ASSUME Inv, phase = "serving", NEW a \in registered, Holds(service.routes, a)
               PROVE IF a.factory # None THEN \A x \in service.subs : x.subject # a.subject
                     ELSE \E x \in service.subs :
                            /\ x.subject = a.subject /\ x.group = a.group
                            /\ x.qos = IF a.qos # None THEN a.qos ELSE service.qos
    BY DEF SubscribedAsAsked
  <2> DEFINE self  == routers[service.router]
             plain == {e \in self.inner.routes : e.factory = None}
  <2>1. /\ service.router \in Held /\ self \in Facade /\ self.inner \in Core
        /\ service.qos = self.qos /\ service.routes = Built(self.inner)
        /\ service.subs = {Choice(self, d.subject) : d \in plain}
        /\ Keyed(self.inner)
    BY DEF Inv, TypeOK, ServiceInv, KeyInv, Held, Facade
  <2>2. NameOf(a) \in N(service.router)
    BY <2>1, HoldsIs, HoldsNames
  <2>3. PICK d \in self.inner.routes :
          d.handler = a.home /\ d.subject = a.subject /\ d.factory = a.factory
    <3>1. NameOf(a) \in Names(self.inner)
      BY <2>2 DEF N
    <3>2. \E d \in self.inner.routes : d.handler = NameOf(a)[1] /\ d.subject = NameOf(a)[2]
                                     /\ d.factory = NameOf(a)[3]
      BY <2>1, <3>1, NamesOf
    <3> QED
      BY <3>2 DEF NameOf
  <2>4. d \in Route /\ \A e \in plain : e \in Route /\ Choice(self, e.subject).subject = e.subject
    BY <2>1, ChoiceIsOption DEF Core, Route
  <2>5. CASE a.factory # None
    <3> SUFFICES ASSUME NEW x \in service.subs, x.subject = a.subject PROVE FALSE
      BY <2>5
    <3>1. PICK e \in plain : x = Choice(self, e.subject)
      BY <2>1
    <3>2. e.subject = d.subject
      BY <2>3, <2>4, <3>1
    <3> QED
      BY <2>1, <2>3, <2>5, <3>1, <3>2 DEF Keyed
  <2>6. CASE a.factory = None
    <3> DEFINE x == Choice(self, a.subject)
    <3>1. x \in service.subs /\ x.subject = a.subject
      BY <2>1, <2>3, <2>4, <2>6
    <3>2. /\ \A o, p \in self.options : o.subject = p.subject => o = p
          /\ IF a.qos = None /\ a.group = None
               THEN \A o \in self.options : o.subject # a.subject
               ELSE \E o \in self.options : Answers(o, a)
      BY <2>1, <2>2, <2>6 DEF Inv, OptionInv
    <3>3. a.subject \in Subjects
      BY DEF Inv, TypeOK, Asked
    <3>4. CASE a.qos = None /\ a.group = None
      <4>1. x = [subject |-> a.subject, qos |-> self.qos, group |-> None]
        BY <2>1, <3>2, <3>3, <3>4, ChoiceIsOption
      <4> QED
        BY <2>1, <2>6, <3>1, <3>4, <4>1
    <3>5. CASE ~(a.qos = None /\ a.group = None)
      <4>1. PICK o \in self.options : Answers(o, a)
        BY <3>2, <3>5
      <4>2. x \in self.options
        BY <2>1, <3>3, <4>1, ChoiceIsOption DEF Answers
      <4>3. x = o
        BY <3>1, <3>2, <4>1, <4>2 DEF Answers
      <4>4. a.qos # None
        BY <3>5 DEF Inv, AskInv
      <4> QED
        BY <2>6, <3>1, <4>1, <4>3, <4>4 DEF Answers
    <3> QED
      BY <3>4, <3>5
  <2> QED
    BY <2>5, <2>6
<1> QED
  BY <1>1, Invariance, PTL

-----------------------------------------------------------------------------
(* Nesting of layers *)

\* What layers are about: the routes and what they are wrapped in.
Wraps(c) == {<<d.handler, d.subject, d.layers>> : d \in c.routes}

W(r)  == Wraps(routers[r].inner)
Ls(r) == routers[r].inner.layers

\* A layer of a router has its place in its name.
Placed(r) == \A i \in 1..Len(Ls(r)) : Ls(r)[i] = <<r, i>>

\* A route comes into a router that it has not been in, and that has layers.
JoinInv ==
  \A j \in joined :
    /\ j.at <= Len(Ls(j.router)) /\ j.router \notin j.inner
    /\ \E a \in registered : a.home = j.home /\ a.subject = j.subject

\* Layers t, from the handler outwards, are the ones route s of router h is due.
Wrapped(h, s, t) ==
  /\ \A i \in 1..Len(t) : t[i] \in Due(h, s)
  /\ \A l \in Due(h, s) : \E i \in 1..Len(t) : t[i] = l
  /\ \A i, k \in 1..Len(t) : i < k => Around(h, s, t[k], t[i])

\* Of the routers that route has been in only r is left, and it came there last.
Newest(r, h, s) ==
  /\ \A j \in Joins(h, s) : j.router = r \/ j.router \notin Held
  /\ \E j \in Joins(h, s) : j.router = r
  /\ \A j, k \in Joins(h, s) : j.router = r => k.router = r \/ k.router \in j.inner

NestInv ==
  /\ JoinInv /\ \A r \in Routers : Placed(r)
  /\ \A r \in Held : \A w \in W(r) : Wrapped(w[1], w[2], w[3]) /\ Newest(r, w[1], w[2])

\* What a route carries for its layers, and what the methods do to it.
LEMMA WrapsOf ==
  ASSUME NEW c \in Core
  PROVE /\ c.layers \in Seq(Layer) /\ Len(c.layers) \in Nat
        /\ \A w \in Wraps(c) :
             /\ w[1] \in Routers /\ w[3] \in Seq(Layer) /\ Len(w[3]) \in Nat
             /\ \E d \in c.routes : d.handler = w[1] /\ d.subject = w[2] /\ d.layers = w[3]
             /\ \E n \in Names(c) : n[1] = w[1] /\ n[2] = w[2]
<1>1. \A d \in c.routes : d.handler \in Routers /\ d.layers \in Seq(Layer)
  BY DEF Core, Route
<1>2. ASSUME NEW w \in Wraps(c)
      PROVE /\ w[1] \in Routers /\ w[3] \in Seq(Layer) /\ Len(w[3]) \in Nat
            /\ \E d \in c.routes : d.handler = w[1] /\ d.subject = w[2] /\ d.layers = w[3]
            /\ \E n \in Names(c) : n[1] = w[1] /\ n[2] = w[2]
  <2>1. PICK d \in c.routes : w = <<d.handler, d.subject, d.layers>>
    BY DEF Wraps
  <2>2. /\ <<d.handler, d.subject, d.factory>> \in Names(c)
        /\ <<d.handler, d.subject, d.factory>>[1] = w[1]
        /\ <<d.handler, d.subject, d.factory>>[2] = w[2]
    BY <2>1 DEF Names
  <2>3. w[1] = d.handler /\ w[2] = d.subject /\ w[3] = d.layers
    BY <2>1
  <2>4. w[3] \in Seq(Layer) /\ Len(w[3]) \in Nat
    BY <1>1, <2>3, LenProperties
  <2> QED
    BY <1>1, <2>2, <2>3, <2>4
<1>3. c.layers \in Seq(Layer) /\ Len(c.layers) \in Nat
  BY LenProperties DEF Core
<1> QED
  BY <1>2, <1>3

LEMMA MethodsWrap ==
  ASSUME NEW c \in Core
  PROVE /\ \A t \in Topics : /\ Wraps(SetErrorTopic(c, t)) = Wraps(c)
                             /\ SetErrorTopic(c, t).layers = c.layers
        /\ \A h \in Headers : /\ Wraps(SetErrorHeaders(c, h)) = Wraps(c)
                              /\ SetErrorHeaders(c, h).layers = c.layers
        /\ \A s \in Subjects, r \in Routers, f \in Bindings \cup {None} :
             /\ Wraps(AddRoute(c, s, r, f)) = Wraps(c) \cup {<<r, s, c.layers>>}
             /\ AddRoute(c, s, r, f).layers = c.layers
        /\ \A o \in Core : /\ Wraps(Included(c, o)) = Wraps(c) \cup Wraps(o)
                           /\ Included(c, o).layers = c.layers
        /\ \A l \in Layer : /\ AddLayer(c, l).layers = Append(c.layers, l)
                            /\ \A w \in Wraps(AddLayer(c, l)) : \E v \in Wraps(c) :
                                 w[1] = v[1] /\ w[2] = v[2] /\ w[3] = Append(v[3], l)
<1>0. \A d \in c.routes : d \in Route
  BY DEF Core
<1>1. ASSUME NEW t \in Topics
      PROVE  /\ Wraps(SetErrorTopic(c, t)) = Wraps(c) /\ SetErrorTopic(c, t).layers = c.layers
  <2> DEFINE F(d) == [d EXCEPT !.topic = t]
  <2>1. /\ SetErrorTopic(c, t).routes = {F(d) : d \in c.routes}
        /\ SetErrorTopic(c, t).layers = c.layers
    BY DEF SetErrorTopic, Core
  <2>2. \A d \in c.routes : /\ F(d).handler = d.handler /\ F(d).subject = d.subject
                            /\ F(d).layers = d.layers
    BY <1>0 DEF Route
  <2> HIDE DEF F
  <2> QED
    BY <2>1, <2>2 DEF Wraps
<1>2. ASSUME NEW h \in Headers
      PROVE  /\ Wraps(SetErrorHeaders(c, h)) = Wraps(c)
             /\ SetErrorHeaders(c, h).layers = c.layers
  <2> DEFINE F(d) == [d EXCEPT !.headers = h]
  <2>1. /\ SetErrorHeaders(c, h).routes = {F(d) : d \in c.routes}
        /\ SetErrorHeaders(c, h).layers = c.layers
    BY DEF SetErrorHeaders, Core
  <2>2. \A d \in c.routes : /\ F(d).handler = d.handler /\ F(d).subject = d.subject
                            /\ F(d).layers = d.layers
    BY <1>0 DEF Route
  <2> HIDE DEF F
  <2> QED
    BY <2>1, <2>2 DEF Wraps
<1>3. ASSUME NEW s \in Subjects, NEW r \in Routers, NEW f \in Bindings \cup {None}
      PROVE  /\ Wraps(AddRoute(c, s, r, f)) = Wraps(c) \cup {<<r, s, c.layers>>}
             /\ AddRoute(c, s, r, f).layers = c.layers
  <2>1. /\ AddRoute(c, s, r, f).routes = c.routes \cup {Definition(c, s, r, f)}
        /\ AddRoute(c, s, r, f).layers = c.layers
    BY DEF AddRoute, Core
  <2>2. /\ Definition(c, s, r, f).handler = r /\ Definition(c, s, r, f).subject = s
        /\ Definition(c, s, r, f).layers = c.layers
    BY DEF Definition
  <2> QED
    BY <2>1, <2>2 DEF Wraps
<1>4. ASSUME NEW o \in Core
      PROVE  /\ Wraps(Included(c, o)) = Wraps(c) \cup Wraps(o)
             /\ Included(c, o).layers = c.layers
  BY DEF Included, Core, Wraps
<1>5. ASSUME NEW l \in Layer
      PROVE  /\ AddLayer(c, l).layers = Append(c.layers, l)
             /\ \A w \in Wraps(AddLayer(c, l)) : \E v \in Wraps(c) :
                  w[1] = v[1] /\ w[2] = v[2] /\ w[3] = Append(v[3], l)
  <2> DEFINE F(d) == [d EXCEPT !.layers = Append(@, l)]
  <2>1. /\ AddLayer(c, l).routes = {F(d) : d \in c.routes}
        /\ AddLayer(c, l).layers = Append(c.layers, l)
    BY DEF AddLayer, Core
  <2>2. \A d \in c.routes : /\ F(d).handler = d.handler /\ F(d).subject = d.subject
                            /\ F(d).layers = Append(d.layers, l)
                            /\ <<d.handler, d.subject, d.layers>> \in Wraps(c)
    BY <1>0 DEF Route, Wraps
  <2> HIDE DEF F
  <2> SUFFICES ASSUME NEW w \in Wraps(AddLayer(c, l))
               PROVE  \E v \in Wraps(c) : w[1] = v[1] /\ w[2] = v[2] /\ w[3] = Append(v[3], l)
    BY <2>1
  <2>3. PICK d \in c.routes : w = <<F(d).handler, F(d).subject, F(d).layers>>
    BY <2>1 DEF Wraps
  <2> QED
    BY <2>2, <2>3
<1> QED
  BY <1>1, <1>2, <1>3, <1>4, <1>5

\* A route that is held was registered.
LEMMA WrapAsked ==
  ASSUME Inv, NEW r \in Held, NEW w \in W(r)
  PROVE \E a \in registered : a.home = w[1] /\ a.subject = w[2] /\ NameOf(a) \in N(r)
<1>1. routers[r].inner \in Core
  BY DEF Inv, TypeOK, ServiceInv, Held, Facade
<1>2. PICK n \in N(r) : n[1] = w[1] /\ n[2] = w[2]
  BY <1>1, WrapsOf DEF W, N
<1>3. PICK a \in registered : n = NameOf(a)
  BY <1>2 DEF Inv, AskInv
<1> QED
  BY <1>2, <1>3 DEF NameOf

\* It is in one router.
LEMMA WrapPlace ==
  ASSUME Inv, phase # "panicked", NEW r \in Held, NEW w \in W(r),
         NEW q \in Held, NEW v \in W(q), v[1] = w[1], v[2] = w[2]
  PROVE r = q
<1>1. PICK a \in registered : a.home = w[1] /\ a.subject = w[2] /\ NameOf(a) \in N(r)
  BY WrapAsked
<1>2. PICK b \in registered : b.home = v[1] /\ b.subject = v[2] /\ NameOf(b) \in N(q)
  BY WrapAsked
<1>3. a = b
  BY <1>1, <1>2 DEF Inv, AskInv
<1> QED
  BY <1>1, <1>2, <1>3 DEF Inv, OnceInv

LEMMA JoinsAre ==
  ASSUME TypeOK, NEW h, NEW s, NEW j \in Joins(h, s)
  PROVE /\ j \in joined /\ j \in Join /\ j.router \in Routers /\ j.at \in Nat
        /\ j.home = h /\ j.subject = s
        /\ Ls(j.router) \in Seq(Layer) /\ Len(Ls(j.router)) \in Nat
<1>1. j \in joined /\ j \in Join /\ j.home = h /\ j.subject = s
  BY DEF Joins, TypeOK
<1>2. j.router \in Routers /\ j.at \in Nat
  BY <1>1 DEF Join
<1>3. routers[j.router].inner \in Core
  BY <1>2 DEF TypeOK, Facade
<1> QED
  BY <1>1, <1>2, <1>3, WrapsOf DEF Ls

LEMMA DueIs ==
  ASSUME NEW h, NEW s, NEW l
  PROVE l \in Due(h, s) <=>
          \E j \in Joins(h, s) : \E n \in (j.at + 1)..Len(Ls(j.router)) : l = <<j.router, n>>
  BY DEF Due, Ls

\* A step that moves no route and no layer of the routers it has been in.
LEMMA WrappedStays ==
  ASSUME NEW h, NEW s, NEW t, Wrapped(h, s, t), Joins(h, s)' = Joins(h, s),
         \A j \in Joins(h, s) : Ls(j.router)' = Ls(j.router)
  PROVE Wrapped(h, s, t)'
<1>1. Due(h, s)' = Due(h, s)
  BY DEF Due, Ls
<1>2. \A l, m : Around(h, s, l, m)' = Around(h, s, l, m)
  BY DEF Around
<1> QED
  BY <1>1, <1>2 DEF Wrapped

LEMMA LastStays ==
  ASSUME NEW r, NEW h, NEW s, Newest(r, h, s), Joins(h, s)' = Joins(h, s), Held' \subseteq Held
  PROVE Newest(r, h, s)'
  BY DEF Newest

\* A step that leaves the layers, what routes carry and where they have been.
LEMMA NestStays ==
  ASSUME Inv, NestInv, Held' \subseteq Held, UNCHANGED joined,
         \A a \in registered : \E b \in registered' : b.home = a.home /\ b.subject = a.subject,
         \A q \in Routers : W(q)' = W(q) /\ Ls(q)' = Ls(q)
  PROVE NestInv'
<1>1. /\ Held \subseteq Routers
      /\ \A j \in joined : j.router \in Routers
  BY DEF Inv, TypeOK, ServiceInv, Held, Join
<1>2. \A h, s : /\ Joins(h, s)' = Joins(h, s)
                /\ \A j \in Joins(h, s) : Ls(j.router)' = Ls(j.router)
  BY <1>1 DEF Joins
<1>3. JoinInv'
  <2> SUFFICES ASSUME NEW j \in joined
               PROVE  /\ j.at <= Len(Ls(j.router)') /\ j.router \notin j.inner
                      /\ \E b \in registered' : b.home = j.home /\ b.subject = j.subject
    BY DEF JoinInv
  <2> QED
    BY <1>1 DEF NestInv, JoinInv
<1>4. \A q \in Routers : Placed(q)'
  BY DEF NestInv, Placed
<1>5. ASSUME NEW q \in Held', NEW w \in W(q)'
      PROVE  Wrapped(w[1], w[2], w[3])' /\ Newest(q, w[1], w[2])'
  <2>1. q \in Held /\ w \in W(q)
    BY <1>1
  <2>2. Wrapped(w[1], w[2], w[3]) /\ Newest(q, w[1], w[2])
    BY <2>1 DEF NestInv
  <2> QED
    BY <1>2, <2>2, WrappedStays, LastStays
<1> QED
  BY <1>3, <1>4, <1>5 DEF NestInv

\* A new layer goes around the routes a router has, included ones too.
LEMMA LayerNests ==
  ASSUME Inv, NestInv, NEW r \in live, AddOneLayer(r)
  PROVE NestInv'
<1>0. /\ Held = live /\ Held' = live /\ live \subseteq Routers
      /\ \A q \in Routers : routers[q] \in Facade /\ routers[q].inner \in Core
      /\ joined' = joined /\ registered' = registered /\ TypeOK
  BY DEF AddOneLayer, Building, Set, Held, Inv, TypeOK, Facade, history
<1>k. PICK k \in Nat : k = Len(Ls(r))
  BY <1>0, WrapsOf DEF Ls
<1> DEFINE c == routers[r].inner
           l == <<r, k + 1>>
<1>1. /\ Ls(r) \in Seq(Layer) /\ k \in Nat /\ l \in Layer /\ AddLayer(c, l) \in Core
  BY <1>0, <1>k, WrapsOf, AddLayerCore DEF Ls, Layer
<1>2. /\ routers'[r].inner = AddLayer(c, l)
      /\ \A q \in Routers \ {r} : routers'[q] = routers[q]
  <2>1. /\ routers'[r] = [routers[r] EXCEPT !.inner = AddLayer(c, l)]
        /\ \A q \in Routers \ {r} : routers'[q] = routers[q]
    BY <1>0, <1>1, <1>k, ForwardIs DEF AddOneLayer, Set, Inv, TypeOK, Ls
  <2> HIDE DEF c, l
  <2> QED
    BY <1>0, <2>1 DEF Facade
<1>3. /\ Ls(r)' = Append(Ls(r), l)
      /\ \A w \in W(r)' : \E v \in W(r) :
           w[1] = v[1] /\ w[2] = v[2] /\ w[3] = Append(v[3], l)
      /\ \A q \in Routers \ {r} : Ls(q)' = Ls(q) /\ W(q)' = W(q)
  <2>1. /\ AddLayer(c, l).layers = Append(c.layers, l)
        /\ \A w \in Wraps(AddLayer(c, l)) : \E v \in Wraps(c) :
             w[1] = v[1] /\ w[2] = v[2] /\ w[3] = Append(v[3], l)
    BY <1>0, <1>1, MethodsWrap
  <2> HIDE DEF l
  <2> QED
    BY <1>2, <2>1 DEF Ls, W
<1>4. /\ Len(Append(Ls(r), l)) = k + 1 /\ Append(Ls(r), l)[k + 1] = l
      /\ \A i \in 1..k : Append(Ls(r), l)[i] = Ls(r)[i]
  BY <1>1, <1>k
<1>5. \A i \in 1..k : Ls(r)[i] = <<r, i>>
  BY <1>0, <1>k DEF NestInv, Placed
<1>6. l[1] = r /\ l[2] = k + 1
  OBVIOUS
<1>7. /\ \A h, s : Joins(h, s)' = Joins(h, s)
      /\ \A h, s, x, y : Around(h, s, x, y) => Around(h, s, x, y)'
  BY <1>0 DEF Joins, Around
<1> HIDE DEF c, l
<1>8. \A q \in Routers : Placed(q)'
  <2>1. Placed(r)'
    BY <1>1, <1>3, <1>4, <1>5 DEF Placed, l
  <2> QED
    BY <1>3, <2>1 DEF NestInv, Placed
<1>9. JoinInv'
  <2> SUFFICES ASSUME NEW j \in joined PROVE j.at <= Len(Ls(j.router)')
    BY <1>0 DEF NestInv, JoinInv
  <2>1. j.at <= Len(Ls(j.router)) /\ j.at \in Nat /\ j.router \in Routers
    BY <1>0 DEF NestInv, JoinInv, TypeOK, Join
  <2> QED
    BY <1>1, <1>3, <1>4, <1>k, <2>1
<1>10. ASSUME NEW q \in live \ {r}, NEW w \in W(q)
       PROVE  Wrapped(w[1], w[2], w[3])' /\ Newest(q, w[1], w[2])'
  <2>1. Wrapped(w[1], w[2], w[3]) /\ Newest(q, w[1], w[2])
    BY <1>0 DEF NestInv
  <2>2. \A j \in Joins(w[1], w[2]) : j.router \in Routers \ {r}
    BY <1>0, <2>1, JoinsAre DEF Newest
  <2> QED
    BY <1>0, <1>3, <1>7, <2>1, <2>2, WrappedStays, LastStays
<1>11. ASSUME NEW w \in W(r)'
       PROVE  Wrapped(w[1], w[2], w[3])' /\ Newest(r, w[1], w[2])'
  <2>1. PICK v \in W(r) : w[1] = v[1] /\ w[2] = v[2] /\ w[3] = Append(v[3], l)
    BY <1>3
  <2> DEFINE h == v[1]
             s == v[2]
             t == v[3]
             n == Len(t)
             u == Append(t, l)
  <2>2. /\ t \in Seq(Layer) /\ n \in Nat /\ Wrapped(h, s, t) /\ Newest(r, h, s)
    BY <1>0, WrapsOf DEF W, NestInv
  <2>3. /\ Len(u) = n + 1 /\ u[n + 1] = l /\ \A i \in 1..n : u[i] = t[i]
    BY <2>2, <1>1
  <2>4. w[1] = h /\ w[2] = s /\ w[3] = u
    BY <2>1
  <2> HIDE DEF h, s, t, u, n
  <2>5. PICK j0 \in Joins(h, s) : j0.router = r
    BY <2>2 DEF Newest
  <2>6. j0.at \in Nat /\ j0.at <= k
    BY <1>0, <1>k, <2>5, JoinsAre DEF NestInv, JoinInv
  <2>7. \A x : x \in Due(h, s)' <=> x \in Due(h, s) \/ x = l
    <3>1. \A j \in Joins(h, s) : j.router # r => Len(Ls(j.router)') = Len(Ls(j.router))
      BY <1>0, <1>3, JoinsAre
    <3>2. ASSUME NEW x, x \in Due(h, s) PROVE x \in Due(h, s)'
      <4>0. PICK j \in Joins(h, s) : \E i \in (j.at + 1)..Len(Ls(j.router)) : x = <<j.router, i>>
        BY <3>2, DueIs
      <4>1. PICK i \in (j.at + 1)..Len(Ls(j.router)) : x = <<j.router, i>>
        BY <4>0
      <4>2. i \in (j.at + 1)..Len(Ls(j.router)')
        BY <1>0, <1>1, <1>3, <1>4, <1>k, <3>1, <4>1, JoinsAre
      <4>3. j \in Joins(h, s)'
        BY <1>7
      <4> QED
        BY <4>1, <4>2, <4>3 DEF Due, Ls
    <3>3. l \in Due(h, s)'
      <4>1. k + 1 \in (j0.at + 1)..Len(Ls(j0.router)')
        BY <1>1, <1>3, <1>4, <2>5, <2>6
      <4>2. j0 \in Joins(h, s)' /\ l = <<j0.router, k + 1>>
        BY <1>7, <2>5 DEF l
      <4> QED
        BY <4>1, <4>2 DEF Due, Ls
    <3>4. ASSUME NEW x, x \in Due(h, s)', x # l PROVE x \in Due(h, s)
      <4>0. PICK j \in Joins(h, s) : \E i \in (j.at + 1)..Len(Ls(j.router)') : x = <<j.router, i>>
        BY <1>7, <3>4 DEF Due, Ls
      <4>1. PICK i \in (j.at + 1)..Len(Ls(j.router)') : x = <<j.router, i>>
        BY <4>0
      <4>2. i \in (j.at + 1)..Len(Ls(j.router))
        <5>1. CASE j.router # r
          BY <3>1, <4>1, <5>1
        <5>2. CASE j.router = r
          <6>1. i # k + 1
            BY <3>4, <4>1, <5>2 DEF l
          <6>2. i \in (j.at + 1)..(k + 1) /\ j.at \in Nat /\ Len(Ls(j.router)) = k
            BY <1>0, <1>3, <1>4, <4>1, <1>k, <5>2, JoinsAre
          <6> QED
            BY <1>1, <6>1, <6>2
        <5> QED
          BY <5>1, <5>2
      <4> QED
        BY <4>1, <4>2, DueIs
    <3> QED
      BY <3>2, <3>3, <3>4
  <2>8. ASSUME NEW i \in 1..n PROVE Around(h, s, l, t[i])'
    <3>0. t[i] \in Due(h, s)
      BY <2>2, <2>8 DEF Wrapped, n
    <3>1. PICK j \in Joins(h, s) : \E x \in (j.at + 1)..Len(Ls(j.router)) : t[i] = <<j.router, x>>
      BY <3>0, DueIs
    <3>2. PICK x \in (j.at + 1)..Len(Ls(j.router)) : t[i] = <<j.router, x>>
      BY <3>1
    <3>3. t[i][1] = j.router /\ t[i][2] = x
      BY <3>2
    <3>4. CASE j.router = r
      <4>1. x <= k /\ x \in Int
        BY <1>0, <1>k, <3>4, JoinsAre
      <4> QED
        BY <1>1, <1>6, <3>3, <3>4, <4>1 DEF Around
    <3>5. CASE j.router # r
      <4>1. j.router \in j0.inner
        BY <2>2, <2>5, <3>5 DEF Newest
      <4> QED
        BY <1>6, <1>7, <2>5, <3>3, <4>1 DEF Around
    <3> QED
      BY <3>4, <3>5
  <2>9. \A i, m \in 1..n : i < m => Around(h, s, t[m], t[i])'
    BY <1>7, <2>2 DEF Wrapped, n
  <2>10. Wrapped(h, s, u)'
    <3>1. \A i \in 1..Len(u) : i \in 1..n \/ i = n + 1
      BY <2>2, <2>3
    <3>2. \A i \in 1..Len(u) : u[i] \in Due(h, s)'
      BY <2>2, <2>3, <2>7, <3>1 DEF Wrapped, n
    <3>3. \A x \in Due(h, s)' : \E i \in 1..Len(u) : u[i] = x
      <4>1. \A i \in 1..n : i \in 1..Len(u)
        BY <2>2, <2>3
      <4>2. n + 1 \in 1..Len(u)
        BY <2>2, <2>3
      <4>3. \A x \in Due(h, s) : \E i \in 1..n : t[i] = x
        BY <2>2 DEF Wrapped, n
      <4> QED
        BY <2>3, <2>7, <4>1, <4>2, <4>3
    <3>4. \A i, m \in 1..Len(u) : i < m => Around(h, s, u[m], u[i])'
      <4> SUFFICES ASSUME NEW i \in 1..Len(u), NEW m \in 1..Len(u), i < m
                   PROVE  Around(h, s, u[m], u[i])'
        OBVIOUS
      <4>1. i \in 1..n
        BY <2>2, <2>3
      <4> QED
        BY <2>3, <2>8, <2>9, <3>1, <4>1
    <3> QED
      BY <3>2, <3>3, <3>4 DEF Wrapped, u
  <2>11. Newest(r, h, s)'
    BY <1>0, <1>7, <2>2, LastStays
  <2> QED
    BY <2>4, <2>10, <2>11
<1> QED
  BY <1>0, <1>3, <1>8, <1>9, <1>10, <1>11 DEF NestInv

\* What a registration leaves in the history.
Registers(r, s) ==
  /\ \E a : a.home = r /\ a.subject = s /\ registered' = registered \cup {a}
  /\ joined' = joined \cup
       {[home |-> r, subject |-> s, router |-> r, at |-> 0, inner |-> {}]}

LEMMA AskRegisters ==
  ASSUME NEW r, NEW s, NEW f, NEW q, NEW g, Ask(r, s, f, q, g)
  PROVE Registers(r, s)
<1> DEFINE a == [home |-> r, subject |-> s, factory |-> f, qos |-> q, group |-> g]
<1>1. a.home = r /\ a.subject = s
  OBVIOUS
<1>2. registered' = registered \cup {a}
  BY DEF Ask
<1> QED
  BY <1>1, <1>2 DEF Ask, Registers

\* Every registration pushes one route of the router it is called on.
LEMMA RegisterPushes ==
  ASSUME Inv, NEW r \in Routers, Register(r)
  PROVE /\ r \in live /\ live' = live /\ phase = "building" /\ phase' = "building"
        /\ \A q \in Routers \ {r} : routers'[q] = routers[q]
        /\ \E s \in Subjects, f \in Bindings \cup {None} :
             /\ routers'[r].inner = AddRoute(routers[r].inner, s, r, f)
             /\ Available(routers[r].inner, s) /\ Registers(r, s)
<1> DEFINE c == routers[r].inner
<1>1. /\ routers[r] \in Facade /\ c \in Core
      /\ routers \in [Routers -> Facade]
      /\ routers[r].bound \in Bindings \cup {None}
      /\ \A s \in Subjects, f \in Bindings \cup {None} : AddRoute(c, s, r, f) \in Core
  BY AddRouteCore DEF Inv, TypeOK, Facade
<1>2. ASSUME NEW self, Building(r), Set(r, self)
      PROVE  /\ r \in live /\ live' = live /\ phase = "building" /\ phase' = "building"
             /\ \A q \in Routers \ {r} : routers'[q] = routers[q]
             /\ routers'[r] = self
  BY <1>1, <1>2 DEF Building, Set
<1>3. PICK s \in Subjects :
        \/ AddPlain(r, s) \/ JetStreamRoute(r, s) \/ RedisStreamRoute(r, s)
        \/ \E q \in Levels : QosRoute(r, s, q)
        \/ \E g \in Groups :
             SharedRoute(r, s, g) \/ \E q \in Levels : SharedQosRoute(r, s, g, q)
  BY DEF Register
<1>4. CASE AddPlain(r, s)
  <2> DEFINE self == Forward(routers[r], AddRoute(c, s, r, None))
  <2>1. self.inner = AddRoute(c, s, r, None)
    BY <1>1, ForwardIs DEF Facade
  <2>2. Building(r) /\ Set(r, self) /\ Available(c, s) /\ Registers(r, s)
    BY <1>4, AskRegisters DEF AddPlain
  <2> HIDE DEF self
  <2> QED
    BY <1>2, <2>1, <2>2
<1>5. CASE AddBound(r, s)
  <2> DEFINE self == [routers[r] EXCEPT !.inner = AddRoute(@, s, r, routers[r].bound)]
  <2>1. self.inner = AddRoute(c, s, r, routers[r].bound)
    BY <1>1 DEF Facade
  <2>2. Building(r) /\ Set(r, self) /\ Available(c, s) /\ Registers(r, s)
    BY <1>5, AskRegisters DEF AddBound
  <2> HIDE DEF self
  <2> QED
    BY <1>1, <1>2, <2>1, <2>2
<1>6. ASSUME NEW o, Building(r),
             Set(r, [routers[r] EXCEPT !.options = Insert(@, o),
                                       !.inner   = AddRoute(@, s, r, None)])
      PROVE  /\ r \in live /\ live' = live /\ phase = "building" /\ phase' = "building"
             /\ \A q \in Routers \ {r} : routers'[q] = routers[q]
             /\ routers'[r].inner = AddRoute(c, s, r, None)
  <2> DEFINE self == [routers[r] EXCEPT !.options = Insert(@, o),
                                        !.inner   = AddRoute(@, s, r, None)]
  <2>1. self.inner = AddRoute(c, s, r, None)
    BY <1>1 DEF Facade
  <2>2. Set(r, self)
    BY <1>6
  <2> HIDE DEF self
  <2> QED
    BY <1>2, <1>6, <2>1, <2>2
<1>7. CASE \/ \E q \in Levels : QosRoute(r, s, q)
           \/ \E g \in Groups :
                SharedRoute(r, s, g) \/ \E q \in Levels : SharedQosRoute(r, s, g, q)
  BY <1>6, <1>7, AskRegisters DEF QosRoute, SharedRoute, SharedQosRoute
<1> QED
  BY <1>3, <1>4, <1>5, <1>7 DEF JetStreamRoute, RedisStreamRoute

\* A new route is wrapped in the layers its router has.
LEMMA RegisterNests ==
  ASSUME Inv, NestInv, NEW r \in Routers, Register(r)
  PROVE NestInv'
<1>1. PICK s \in Subjects, f \in Bindings \cup {None} :
        /\ routers'[r].inner = AddRoute(routers[r].inner, s, r, f)
        /\ Available(routers[r].inner, s) /\ Registers(r, s)
  BY RegisterPushes
<1>2. /\ Held = live /\ Held' = live /\ live \subseteq Routers /\ r \in live
      /\ \A q \in Routers : routers[q].inner \in Core
      /\ \A q \in Routers \ {r} : routers'[q] = routers[q]
      /\ phase = "building" /\ TypeOK
  BY RegisterPushes DEF Held, Inv, TypeOK, Facade
<1>3. /\ W(r)' = W(r) \cup {<<r, s, Ls(r)>>}
      /\ \A q \in Routers : Ls(q)' = Ls(q)
      /\ \A q \in Routers \ {r} : W(q)' = W(q)
  <2>1. /\ Wraps(AddRoute(routers[r].inner, s, r, f))
             = Wraps(routers[r].inner) \cup {<<r, s, routers[r].inner.layers>>}
        /\ AddRoute(routers[r].inner, s, r, f).layers = routers[r].inner.layers
    BY <1>2, MethodsWrap
  <2> QED
    BY <1>1, <1>2, <2>1 DEF W, Ls
<1> DEFINE j1 == [home |-> r, subject |-> s, router |-> r, at |-> 0, inner |-> {}]
<1>4. /\ joined' = joined \cup {j1}
      /\ j1.home = r /\ j1.subject = s /\ j1.router = r /\ j1.at = 0 /\ j1.inner = {}
  BY <1>1 DEF Registers
<1>5. \A b \in registered : ~(b.home = r /\ b.subject = s)
  <2>1. \A n \in N(r) : n[2] # s
    BY <1>1, <1>2, NamesOf DEF N
  <2> QED
    BY <1>2, <2>1, FreshKey
<1> HIDE DEF j1
<1>6. Joins(r, s)' = {j1}
  <2>1. \A j \in joined : ~(j.home = r /\ j.subject = s)
    BY <1>5 DEF NestInv, JoinInv
  <2> QED
    BY <1>4, <2>1 DEF Joins
<1>7. \A h, x : ~(h = r /\ x = s) => Joins(h, x)' = Joins(h, x)
  BY <1>4 DEF Joins
<1>8. JoinInv'
  <2>1. Len(Ls(r)) \in Nat /\ \A j \in joined : j.router \in Routers
    BY <1>2, WrapsOf DEF Ls, TypeOK, Join
  <2>2. PICK a : a.home = r /\ a.subject = s /\ registered' = registered \cup {a}
    BY <1>1 DEF Registers
  <2> SUFFICES ASSUME NEW j \in joined'
               PROVE  /\ j.at <= Len(Ls(j.router)') /\ j.router \notin j.inner
                      /\ \E b \in registered' : b.home = j.home /\ b.subject = j.subject
    BY DEF JoinInv
  <2>3. CASE j = j1
    BY <1>2, <1>3, <1>4, <2>1, <2>2, <2>3
  <2>4. CASE j \in joined
    BY <1>3, <2>1, <2>2, <2>4 DEF NestInv, JoinInv
  <2> QED
    BY <1>4, <2>3, <2>4
<1>9. ASSUME NEW q \in live, NEW w \in W(q)
      PROVE  Wrapped(w[1], w[2], w[3])' /\ Newest(q, w[1], w[2])'
  <2>1. Wrapped(w[1], w[2], w[3]) /\ Newest(q, w[1], w[2])
    BY <1>2 DEF NestInv
  <2>2. ~(w[1] = r /\ w[2] = s)
    BY <1>2, <1>5, WrapAsked
  <2>3. Joins(w[1], w[2])' = Joins(w[1], w[2])
    BY <1>7, <2>2
  <2>4. \A j \in Joins(w[1], w[2]) : Ls(j.router)' = Ls(j.router)
    BY <1>2, <1>3, JoinsAre
  <2> QED
    BY <1>2, <2>1, <2>3, <2>4, WrappedStays, LastStays
<1>10. \A t : t = Ls(r) => Wrapped(r, s, t)' /\ Newest(r, r, s)'
  <2>0. SUFFICES ASSUME NEW t, t = Ls(r)
                 PROVE  Wrapped(r, s, t)' /\ Newest(r, r, s)'
    OBVIOUS
  <2>1. t \in Seq(Layer) /\ Len(t) \in Nat /\ \A i \in 1..Len(t) : t[i] = <<r, i>>
    BY <1>2, <2>0, WrapsOf DEF Ls, NestInv, Placed
  <2>2. Ls(r)' = t
    BY <1>2, <1>3, <2>0
  <2>3. Due(r, s)' = {<<r, n>> : n \in 1..Len(t)}
    <3>1. Due(r, s)' = UNION {{<<j.router, n>> : n \in (j.at + 1)..Len(Ls(j.router)')} :
                               j \in {j1}}
      BY <1>6 DEF Due, Ls
    <3> QED
      BY <1>4, <2>2, <3>1
  <2>4. \A i, k \in 1..Len(t) : i < k => Around(r, s, t[k], t[i])'
    <3> SUFFICES ASSUME NEW i \in 1..Len(t), NEW k \in 1..Len(t), i < k
                 PROVE  Around(r, s, t[k], t[i])'
      OBVIOUS
    <3>1. t[k][1] = t[i][1] /\ t[k][2] = k /\ t[i][2] = i
      BY <2>1
    <3> QED
      BY <3>1 DEF Around
  <2>5. Wrapped(r, s, t)'
    BY <2>1, <2>3, <2>4 DEF Wrapped
  <2>6. Newest(r, r, s)'
    BY <1>4, <1>6 DEF Newest
  <2> QED
    BY <2>5, <2>6
<1>11. \A q \in Routers : Placed(q)'
  BY <1>3 DEF NestInv, Placed
<1>12. \A q \in live : \A w \in W(q)' : Wrapped(w[1], w[2], w[3])' /\ Newest(q, w[1], w[2])'
  <2> SUFFICES ASSUME NEW q \in live, NEW w \in W(q)'
               PROVE  Wrapped(w[1], w[2], w[3])' /\ Newest(q, w[1], w[2])'
    OBVIOUS
  <2>1. CASE w \in W(q)
    BY <1>9, <2>1
  <2>2. CASE w \notin W(q)
    <3>1. q = r /\ w = <<r, s, Ls(r)>>
      BY <1>2, <1>3, <2>2
    <3>2. w[1] = r /\ w[2] = s /\ w[3] = Ls(r)
      BY <3>1
    <3> QED
      BY <1>10, <3>1, <3>2
  <2> QED
    BY <2>1, <2>2
<1> QED
  BY <1>2, <1>8, <1>11, <1>12 DEF NestInv

\* The routes taken in from a router keep their layers, and that router is gone.
LEMMA IncludeNests ==
  ASSUME Inv, NestInv, NEW r \in Routers, NEW o \in Routers, Include(r, o)
  PROVE NestInv'
<1>1. /\ Held = live /\ Held' = live \ {o} /\ live \subseteq Routers
      /\ r \in live /\ o \in live /\ r # o
      /\ \A q \in Routers : routers[q] \in Facade /\ routers[q].inner \in Core
      /\ routers' = [routers EXCEPT ![r] = Both(@, routers[o])]
      /\ phase = "building" /\ TypeOK /\ registered' = registered
  BY DEF Include, Building, Held, Inv, TypeOK, Facade
<1>2. /\ routers'[r].inner = Included(routers[r].inner, routers[o].inner)
      /\ \A q \in Routers \ {r} : routers'[q] = routers[q]
  <2>1. Included(routers[r].inner, routers[o].inner) \in Core
    BY <1>1, IncludedCore
  <2> QED
    BY <1>1, <2>1, ForwardIs DEF Both, Facade, Inv, TypeOK
<1>3. /\ W(r)' = W(r) \cup W(o)
      /\ \A q \in Routers : Ls(q)' = Ls(q)
      /\ \A q \in Routers \ {r} : W(q)' = W(q)
  BY <1>1, <1>2, MethodsWrap DEF W, Ls
<1>4. /\ joined' = joined \cup {Joining(r, w[1], w[2]) : w \in W(o)}
      /\ \A h, s : /\ Joining(r, h, s).home = h /\ Joining(r, h, s).subject = s
                   /\ Joining(r, h, s).router = r /\ Joining(r, h, s).at = Len(Ls(r))
                   /\ Joining(r, h, s).inner = {j.router : j \in Joins(h, s)}
  <2>1. {Joining(r, d.handler, d.subject) : d \in routers[o].inner.routes}
          = {Joining(r, w[1], w[2]) : w \in W(o)}
    <3>1. ASSUME NEW d \in routers[o].inner.routes
          PROVE  \E w \in W(o) : Joining(r, d.handler, d.subject) = Joining(r, w[1], w[2])
      <4>1. /\ <<d.handler, d.subject, d.layers>> \in W(o)
            /\ <<d.handler, d.subject, d.layers>>[1] = d.handler
            /\ <<d.handler, d.subject, d.layers>>[2] = d.subject
        BY DEF W, Wraps
      <4> QED
        BY <4>1
    <3>2. ASSUME NEW w \in W(o)
          PROVE  \E d \in routers[o].inner.routes : d.handler = w[1] /\ d.subject = w[2]
      BY <1>1, WrapsOf DEF W
    <3> QED
      BY <3>1, <3>2
  <2> QED
    BY <2>1 DEF Include, Joining, Ls
<1>5. Len(Ls(r)) \in Nat /\ \A j \in joined : j.router \in Routers
  BY <1>1, WrapsOf DEF Ls, TypeOK, Join
<1>6. ASSUME NEW q \in live \ {o}, NEW w \in W(q)
      PROVE  Wrapped(w[1], w[2], w[3])' /\ Newest(q, w[1], w[2])'
  <2>1. Wrapped(w[1], w[2], w[3]) /\ Newest(q, w[1], w[2])
    BY <1>1 DEF NestInv
  <2>2. \A v \in W(o) : ~(v[1] = w[1] /\ v[2] = w[2])
    BY <1>1, WrapPlace
  <2>3. Joins(w[1], w[2])' = Joins(w[1], w[2])
    BY <1>4, <2>2 DEF Joins
  <2>4. \A j \in Joins(w[1], w[2]) : Ls(j.router)' = Ls(j.router)
    BY <1>1, <1>3, JoinsAre
  <2>5. Held' \subseteq Held
    BY <1>1
  <2> QED
    BY <2>1, <2>3, <2>4, <2>5, WrappedStays, LastStays
<1>7. ASSUME NEW w \in W(o)
      PROVE  /\ Wrapped(w[1], w[2], w[3])' /\ Newest(r, w[1], w[2])'
             /\ r \notin Joining(r, w[1], w[2]).inner
  <2> DEFINE h == w[1]
             s == w[2]
             t == w[3]
  <2>1. /\ Wrapped(h, s, t) /\ Newest(o, h, s)
    BY <1>1 DEF NestInv
  <2>j. PICK jn : jn = Joining(r, h, s)
    OBVIOUS
  <2>2. Joins(h, s)' = Joins(h, s) \cup {jn}
    BY <1>4, <2>j DEF Joins
  <2>3. /\ jn.router = r /\ jn.at = Len(Ls(r)) /\ jn.inner = {j.router : j \in Joins(h, s)}
    BY <1>4, <2>j
  <2> HIDE DEF h, s, t
  <2>4. \A j \in Joins(h, s) : j.router # r /\ j.router \notin Held'
    BY <1>1, <2>1 DEF Newest
  <2>5. Due(h, s)' = Due(h, s)
    <3>1. \A j \in Joins(h, s) : Ls(j.router)' = Ls(j.router)
      BY <1>1, <1>3, JoinsAre
    <3>2. (jn.at + 1)..Len(Ls(jn.router)') = {}
      BY <1>1, <1>3, <1>5, <2>3
    <3>3. Due(h, s)' = UNION {{<<j.router, n>> : n \in (j.at + 1)..Len(Ls(j.router)')} :
                               j \in Joins(h, s) \cup {jn}}
      BY <2>2 DEF Due, Ls
    <3>4. {<<jn.router, n>> : n \in (jn.at + 1)..Len(Ls(jn.router)')} = {}
      BY <3>2
    <3>5. Due(h, s)' = UNION {{<<j.router, n>> : n \in (j.at + 1)..Len(Ls(j.router)')} :
                               j \in Joins(h, s)}
      BY <3>3, <3>4
    <3> QED
      BY <3>1, <3>5 DEF Due, Ls
  <2>6. \A x, y : Around(h, s, x, y) => Around(h, s, x, y)'
    BY <2>2 DEF Around
  <2>7. Wrapped(h, s, t)'
    BY <2>1, <2>5, <2>6 DEF Wrapped, t
  <2>8. Newest(r, h, s)'
    BY <2>2, <2>3, <2>4 DEF Newest
  <2>9. r \notin jn.inner
    BY <2>3, <2>4
  <2> QED
    BY <2>7, <2>8, <2>9, <2>j DEF h, s, t
<1>8. JoinInv'
  <2> SUFFICES ASSUME NEW j \in joined'
               PROVE  /\ j.at <= Len(Ls(j.router)') /\ j.router \notin j.inner
                      /\ \E b \in registered : b.home = j.home /\ b.subject = j.subject
    BY <1>1 DEF JoinInv
  <2>1. CASE j \in joined
    BY <1>3, <1>5, <2>1 DEF NestInv, JoinInv
  <2>2. CASE j \notin joined
    <3>1. PICK w \in W(o) : j = Joining(r, w[1], w[2])
      BY <1>4, <2>2
    <3>2. \E b \in registered : b.home = w[1] /\ b.subject = w[2]
      BY <1>1, WrapAsked
    <3> QED
      BY <1>1, <1>3, <1>4, <1>5, <1>7, <3>1, <3>2
  <2> QED
    BY <2>1, <2>2
<1>9. \A q \in Routers : Placed(q)'
  BY <1>3 DEF NestInv, Placed
<1>10. \A q \in live \ {o} : \A w \in W(q)' :
         Wrapped(w[1], w[2], w[3])' /\ Newest(q, w[1], w[2])'
  BY <1>1, <1>3, <1>6, <1>7
<1> QED
  BY <1>1, <1>8, <1>9, <1>10 DEF NestInv

\* What sets up a router otherwise leaves the layers, and what routes carry, alone.
LEMMA ConfigureNests ==
  ASSUME Inv, NestInv, NEW r \in Routers, Configure(r)
  PROVE NestInv'
<1> DEFINE c == routers[r].inner
<1>1. /\ routers[r] \in Facade /\ c \in Core /\ routers \in [Routers -> Facade]
  BY DEF Inv, TypeOK, Facade
<1>2. ASSUME NEW self, Set(r, self), Building(r), UNCHANGED joined,
             \A a \in registered : \E b \in registered' :
               b.home = a.home /\ b.subject = a.subject,
             Wraps(self.inner) = Wraps(c), self.inner.layers = c.layers
      PROVE  NestInv'
  <2>1. routers'[r] = self /\ \A q \in Routers \ {r} : routers'[q] = routers[q]
    BY <1>1, <1>2 DEF Set
  <2>2. \A q \in Routers : W(q)' = W(q) /\ Ls(q)' = Ls(q)
    BY <1>2, <2>1 DEF W, Ls
  <2>3. Held' = Held
    BY <1>2 DEF Held, Set, Building
  <2> QED
    BY <1>2, <2>2, <2>3, NestStays
<1>3. ASSUME NEW inner \in Core, Set(r, Forward(routers[r], inner)), Building(r),
             UNCHANGED history,
             Wraps(inner) = Wraps(c), inner.layers = c.layers
      PROVE  NestInv'
  <2>1. [routers[r] EXCEPT !.inner = inner].inner = inner
    BY <1>1 DEF Facade
  <2> QED
    BY <1>1, <1>2, <1>3, <2>1, ForwardIs DEF history
<1>4. ASSUME NEW q \in Levels, SetQos(r, q) PROVE NestInv'
  <2>1. [routers[r] EXCEPT !.qos = q].inner = c
    BY <1>1 DEF Facade
  <2> QED
    BY <1>2, <1>4, <2>1 DEF SetQos, history
<1>5. ASSUME NEW b \in Bindings, BindStream(r, b) \/ BindBroker(r, b) PROVE NestInv'
  <2>1. [routers[r] EXCEPT !.bound = b].inner = c
    BY <1>1 DEF Facade
  <2> QED
    BY <1>2, <1>5, <2>1 DEF BindStream, BindBroker, history
<1>6. ASSUME NEW t \in Topics, OnError(r, t) PROVE NestInv'
  BY <1>1, <1>3, <1>6, ErrorTopicCore, MethodsWrap DEF OnError
<1>7. ASSUME NEW h \in Headers, WithErrorHeaders(r, h) PROVE NestInv'
  BY <1>1, <1>3, <1>7, ErrorHeadersCore, MethodsWrap DEF WithErrorHeaders
<1>8. ASSUME NEW kind \in Kinds, FromRouter(r, kind) PROVE NestInv'
  BY <1>2, <1>8, WrapFields DEF FromRouter, history
<1>9. CASE IntoRouter(r)
  <2>1. ASSUME NEW a \in registered
        PROVE  \E b \in registered' : b.home = a.home /\ b.subject = a.subject
    <3> DEFINE Forget(b) ==
                 IF \E d \in routers[r].inner.routes :
                      d.subject = b.subject /\ d.handler = b.home
                   THEN [b EXCEPT !.qos = None, !.group = None] ELSE b
    <3>1. registered' = {Forget(b) : b \in registered}
      BY <1>9 DEF IntoRouter
    <3>2. Forget(a).home = a.home /\ Forget(a).subject = a.subject
      BY DEF Inv, TypeOK, Asked
    <3> HIDE DEF Forget
    <3> QED
      BY <3>1, <3>2
  <2>2. /\ Set(r, Wrap("core", c)) /\ Building(r) /\ UNCHANGED joined
        /\ Wrap("core", c).inner = c
    BY <1>9, WrapFields DEF IntoRouter
  <2> QED
    BY <1>2, <2>1, <2>2
<1>10. CASE AddOneLayer(r)
  BY <1>10, LayerNests DEF AddOneLayer, Building
<1> QED
  BY <1>4, <1>5, <1>6, <1>7, <1>8, <1>9, <1>10 DEF Configure

\* However routers are configured and included, the layers on their routes nest.
LEMMA NestInvariance == Spec => []NestInv
<1>1. Init => NestInv
  <2> SUFFICES ASSUME Init PROVE NestInv
    OBVIOUS
  <2>1. PICK kind \in Kinds : routers = [r \in Routers |-> Wrap(kind, NewRouter)]
    BY DEF Init
  <2>2. \A r \in Routers : routers[r].inner = NewRouter
    BY <2>1, WrapFields
  <2>3. NewRouter.layers = <<>> /\ Wraps(NewRouter) = {}
    BY DEF NewRouter, Wraps
  <2>4. Held \subseteq Routers
    BY DEF Held, Init
  <2>5. \A r \in Routers : Ls(r) = <<>> /\ W(r) = {}
    BY <2>2, <2>3 DEF Ls, W
  <2>6. joined = {}
    BY DEF Init
  <2> QED
    BY <2>4, <2>5, <2>6 DEF NestInv, JoinInv, Placed
<1>2. Inv /\ NestInv /\ [Next]_vars => NestInv'
  <2> SUFFICES ASSUME Inv, NestInv, [Next]_vars PROVE NestInv'
    OBVIOUS
  <2>1. ASSUME UNCHANGED <<routers, registered, joined>>, Held' \subseteq Held
        PROVE  NestInv'
    BY <2>1, NestStays DEF W, Ls
  <2>2. CASE UNCHANGED vars
    BY <2>1, <2>2 DEF vars, history, Held
  <2>3. CASE Next
    <3>1. PICK r \in Routers : Register(r) \/ Configure(r) \/ Combine(r) \/ Panic(r)
      BY <2>3 DEF Next
    <3>2. CASE IntoService(r)
      BY <2>1, <3>2 DEF IntoService, Building, Held, history
    <3>3. CASE Panic(r)
      BY <2>1, <3>3
      DEF Panic, DuplicateRoute, DuplicateInclude, NotBound, Building, Held, history
    <3> QED
      BY <3>1, <3>2, <3>3, RegisterNests, ConfigureNests, IncludeNests DEF Combine
  <2> QED
    BY <2>2, <2>3
<1> QED
  BY <1>1, <1>2, Invariance, PTL DEF Spec

LEMMA ReverseIs ==
  ASSUME NEW S, NEW s \in Seq(S)
  PROVE /\ Reverse(s) \in Seq(S) /\ Len(s) \in Nat /\ Len(Reverse(s)) = Len(s)
        /\ \A i \in 1..Len(s) : Reverse(s)[i] = s[Len(s) - i + 1]
BY DEF Reverse

\* Seen from the outside.
LEMMA WrappedReversed ==
  ASSUME Inv, NestInv, NEW h, NEW s, NEW t \in Seq(Layer), Wrapped(h, s, t)
  PROVE /\ ToSet(Reverse(t)) = Due(h, s)
        /\ IsInjective(Reverse(t))
        /\ \A i, k \in DOMAIN Reverse(t) :
             i < k => Around(h, s, Reverse(t)[i], Reverse(t)[k])
<1> DEFINE n == Len(t)
           u == Reverse(t)
<1>1. /\ u \in Seq(Layer) /\ n \in Nat /\ Len(u) = n
      /\ \A i \in 1..n : u[i] = t[n - i + 1]
  BY ReverseIs
<1>2. /\ \A i \in 1..n : t[i] \in Due(h, s)
      /\ \A l \in Due(h, s) : \E i \in 1..n : t[i] = l
      /\ \A i, k \in 1..n : i < k => Around(h, s, t[k], t[i])
  BY DEF Wrapped
<1> HIDE DEF n, u
<1>3. DOMAIN u = 1..n /\ \A i \in 1..n : n - i + 1 \in 1..n /\ n - (n - i + 1) + 1 = i
  BY <1>1
<1>4. ToSet(u) = Due(h, s)
  <2>1. ToSet(u) = {u[i] : i \in 1..n}
    BY <1>3 DEF ToSet
  <2>2. \A l \in Due(h, s) : \E i \in 1..n : u[i] = l
    <3> SUFFICES ASSUME NEW l \in Due(h, s) PROVE \E i \in 1..n : u[i] = l
      OBVIOUS
    <3>1. PICK i \in 1..n : t[i] = l
      BY <1>2
    <3>2. u[n - i + 1] = l
      BY <1>1, <1>3, <3>1
    <3> QED
      BY <1>3, <3>2
  <2>3. \A i \in 1..n : u[i] \in Due(h, s)
    BY <1>1, <1>2, <1>3
  <2> QED
    BY <2>1, <2>2, <2>3
<1>5. ASSUME NEW i \in 1..n, NEW k \in 1..n, i < k
      PROVE  Around(h, s, u[i], u[k])
  <2>1. n - k + 1 < n - i + 1
    BY <1>1, <1>5
  <2>2. Around(h, s, t[n - i + 1], t[n - k + 1])
    BY <1>2, <1>3, <2>1
  <2> QED
    BY <1>1, <2>2
<1>6. \A l \in Due(h, s) : ~Around(h, s, l, l)
  <2> SUFFICES ASSUME NEW l \in Due(h, s), Around(h, s, l, l) PROVE FALSE
    OBVIOUS
  <2>0. PICK j \in Joins(h, s) : \E x \in (j.at + 1)..Len(Ls(j.router)) : l = <<j.router, x>>
    BY DueIs
  <2>1. PICK x \in (j.at + 1)..Len(Ls(j.router)) : l = <<j.router, x>>
    BY <2>0
  <2>2. l[2] = x /\ ~(x > x)
    BY <2>1
  <2>3. PICK m \in Joins(h, s) : m.router = l[1] /\ l[1] \in m.inner
    BY <2>2 DEF Around
  <2> QED
    BY <2>3, JoinsAre DEF NestInv, JoinInv, Inv
<1>7. IsInjective(u)
  <2> SUFFICES ASSUME NEW i \in 1..n, NEW k \in 1..n, u[i] = u[k] PROVE i = k
    BY <1>3 DEF IsInjective
  <2>1. u[i] \in Due(h, s)
    BY <1>1, <1>2, <1>3
  <2>2. ~(i < k) /\ ~(k < i)
    BY <1>5, <1>6, <2>1
  <2> QED
    BY <2>2
<1>8. \A i, k \in DOMAIN u : i < k => Around(h, s, u[i], u[k])
  BY <1>3, <1>5
<1> QED
  BY <1>4, <1>7, <1>8 DEF u

\* A service route is wrapped in the layers it is due, in the order of the
\* inclusions: every layer of the router it was registered on, and those that each
\* router it was included into got since, none left out and none twice (base.rs:
\* layer, include, into_service).
THEOREM LayersNested == Spec => []LayersNest
<1>1. Inv /\ NestInv => LayersNest
  <2> SUFFICES ASSUME Inv, NestInv, phase = "serving", NEW d \in service.routes
               PROVE  /\ ToSet(d.stack) = Due(d.handler, d.subject)
                      /\ IsInjective(d.stack)
                      /\ \A i, k \in DOMAIN d.stack :
                           i < k => Around(d.handler, d.subject, d.stack[i], d.stack[k])
    BY DEF LayersNest
  <2> DEFINE r == service.router
             c == routers[r].inner
  <2>1. /\ r \in Held /\ service.routes = Built(c) /\ c \in Core
    BY DEF Inv, ServiceInv, TypeOK, Held, Facade
  <2>2. PICK e \in c.routes : /\ d.handler = e.handler /\ d.subject = e.subject
                              /\ d.stack = Reverse(e.layers)
    <3> DEFINE B(e) == [subject |-> e.subject, handler |-> e.handler, factory |-> e.factory,
                        topic |-> e.topic, headers |-> e.headers, stack |-> Stack(e.layers)]
    <3>1. service.routes = {B(e) : e \in c.routes}
      BY <2>1 DEF Built
    <3>2. \A e : B(e).handler = e.handler /\ B(e).subject = e.subject
                 /\ B(e).stack = Stack(e.layers)
      OBVIOUS
    <3> HIDE DEF B
    <3> QED
      BY <3>1, <3>2 DEF Stack
  <2> DEFINE w == <<e.handler, e.subject, e.layers>>
  <2>3. w \in W(r) /\ w[1] = e.handler /\ w[2] = e.subject /\ w[3] = e.layers
    BY DEF W, Wraps
  <2>4. e.layers \in Seq(Layer) /\ Wrapped(e.handler, e.subject, e.layers)
    <3> HIDE DEF w
    <3>1. w[3] \in Seq(Layer)
      BY <2>1, <2>3, WrapsOf DEF W
    <3>2. Wrapped(w[1], w[2], w[3])
      BY <2>1, <2>3 DEF NestInv
    <3> QED
      BY <2>3, <3>1, <3>2
  <2> QED
    BY <2>2, <2>4, WrappedReversed
<1> QED
  BY <1>1, Invariance, NestInvariance, PTL

=============================================================================
