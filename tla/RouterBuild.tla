----------------------------- MODULE RouterBuild -----------------------------
(***************************************************************************)
(* A program builds its routers: src/src/routing/base.rs, mqtt.rs, nats.rs *)
(* and the facade of redis.rs, with the subscription choice of             *)
(* brokers/mqtt.rs.  The builder methods may be called in any order and    *)
(* routers may be included in each other, then one becomes the service.    *)
(*                                                                         *)
(* A facade is a core router with settings of its own: the default QoS and *)
(* the subscription options (MQTT), the JetStream stream (NATS) or the     *)
(* broker of the stream routes (Redis).  A method that panics takes the    *)
(* program with it.  set_state only changes the type of later handlers and *)
(* is left out.                                                            *)
(***************************************************************************)
EXTENDS Integers, FiniteSets, CoreRouter

CONSTANTS
  Routers,      \* the routers of the program
  Kinds,        \* what programs start with: "core", "mqtt", "nats", "redis"
  Subjects, Topics, Headers,
  Levels,       \* the QoS values in use
  AtLeastOnce,  \* QoS::AtLeastOnce
  Groups,       \* groups of shared subscriptions
  Bindings,     \* JetStream streams, or Redis brokers given to with_broker
  MaxRoutes,    \* bound: registrations
  MaxCalls      \* bound: calls that configure or convert a router, for each kind

ASSUME RouterAssumption ==
  /\ Kinds \subseteq {"core", "mqtt", "nats", "redis"}
  /\ AtLeastOnce \in Levels /\ MaxRoutes \in Nat /\ MaxCalls \in [Kinds -> Nat]
  /\ None \notin Subjects \cup Topics \cup Headers \cup Levels \cup Groups \cup Bindings

VARIABLES
  routers,     \* the routers; one that was consumed keeps its last value
  live,        \* routers not yet consumed
  phase,       \* the program builds, a service was made, a method panicked
  service,     \* what into_service made
  registered,  \* history: what each registration asked for
  joined,      \* history: the routers each route has been in
  calls        \* calls left that configure or convert a router

history == <<registered, joined>>
vars == <<routers, live, phase, service, history, calls>>

Option == [subject : Subjects, qos : Levels, group : Groups \cup {None}]
Layer  == Routers \X (Nat \ {0})
Route  == [subject : Subjects, handler : Routers, factory : Bindings \cup {None},
           topic : Topics \cup {None}, headers : Headers \cup {None}, layers : Seq(Layer)]
Core   == [routes : SUBSET Route, topic : Topics \cup {None},
           headers : Headers \cup {None}, layers : Seq(Layer)]
Facade == [kind : {"core", "mqtt", "nats", "redis"}, inner : Core, qos : Levels,
           options : SUBSET Option, bound : Bindings \cup {None}]
Asked  == [home : Routers, subject : Subjects, factory : Bindings \cup {None},
           qos : Levels \cup {None}, group : Groups \cup {None}]

\* Route subject of router home came into a router that had at layers by then, from
\* those in inner.
Join   == [home : Routers, subject : Subjects, router : Routers, at : Nat,
           inner : SUBSET Routers]

TypeOK ==
  /\ routers \in [Routers -> Facade]
  /\ live \subseteq Routers
  /\ phase \in {"building", "serving", "panicked"}
  /\ registered \subseteq Asked
  /\ joined \subseteq Join
  /\ calls \in Nat
  /\ phase = "serving" =>
       /\ service.router \in Routers \ live
       /\ service.qos \in Levels /\ service.subs \subseteq Option

-----------------------------------------------------------------------------
(* Facades as values *)

\* MqttRouter::new, NatsRouter::new, RedisRouter::new and from_router.
Wrap(kind, inner) ==
  [kind |-> kind, inner |-> inner, qos |-> AtLeastOnce, options |-> {}, bound |-> None]

MqttForward(self, inner)  == [self EXCEPT !.inner = inner]
NatsForward(self, inner)  == [self EXCEPT !.inner = inner]
RedisForward(self, inner) == [self EXCEPT !.inner = inner]
CoreSelf(self, inner)     == [self EXCEPT !.inner = inner]

\* A method of the core router, called on it or forwarded by a facade.
Forward(self, inner) ==
  CASE self.kind = "mqtt"  -> MqttForward(self, inner)
    [] self.kind = "nats"  -> NatsForward(self, inner)
    [] self.kind = "redis" -> RedisForward(self, inner)
    [] OTHER               -> CoreSelf(self, inner)

\* HashMap::insert
Insert(options, o) == {p \in options : p.subject # o.subject} \cup {o}

\* Mutant of Merge: the options of the other router are dropped as well.
MergeNone(options, other) == options

\* MqttRouter::include merges the options of the other router; the default QoS
\* of the other router is dropped with it.
Merge(options, other) ==
  {p \in options : \A o \in other : o.subject # p.subject} \cup other

\* include and include_router of the facades and of the core router.
Both(self, other) ==
  [Forward(self, Included(self.inner, other.inner))
     EXCEPT !.options = Merge(self.options, other.options)]

\* MqttBroker::subscribe, for one subject.
Choice(self, subject) ==
  LET own == {o \in self.options : o.subject = subject}
  IN IF own = {} THEN [subject |-> subject, qos |-> self.qos, group |-> None]
     ELSE CHOOSE o \in own : TRUE

-----------------------------------------------------------------------------
(* Builder methods *)

Building(r) == r \in live /\ phase = "building"

Init ==
  /\ \E kind \in Kinds : /\ routers = [r \in Routers |-> Wrap(kind, NewRouter)]
                         /\ calls = MaxCalls[kind]
  /\ live = Routers
  /\ phase = "building"
  /\ service = None
  /\ registered = {}
  /\ joined = {}

Set(r, self) ==
  /\ routers' = [routers EXCEPT ![r] = self]
  /\ UNCHANGED <<live, phase, service>>

\* What a registration asked for; the router has all its layers for it.
Ask(r, subject, factory, qos, group) ==
  /\ registered' = registered \cup
       {[home |-> r, subject |-> subject, factory |-> factory, qos |-> qos, group |-> group]}
  /\ joined' = joined \cup
       {[home |-> r, subject |-> subject, router |-> r, at |-> 0, inner |-> {}]}

\* A plain route: route, routes, route_service, retained_route.
AddPlain(r, s) ==
  /\ Building(r) /\ Available(routers[r].inner, s)
  /\ Set(r, Forward(routers[r], AddRoute(routers[r].inner, s, r, None)))
  /\ Ask(r, s, None, None, None)

\* MQTT: qos_route.
QosRoute(r, s, q) ==
  /\ Building(r) /\ routers[r].kind = "mqtt" /\ Available(routers[r].inner, s)
  /\ Set(r, [routers[r] EXCEPT
               !.options = Insert(@, [subject |-> s, qos |-> q, group |-> None]),
               !.inner   = AddRoute(@, s, r, None)])
  /\ Ask(r, s, None, q, None)

\* MQTT: shared_route asks for the default QoS the router has by then.
SharedRoute(r, s, g) ==
  /\ Building(r) /\ routers[r].kind = "mqtt" /\ Available(routers[r].inner, s)
  /\ Set(r, [routers[r] EXCEPT
               !.options = Insert(@, [subject |-> s, qos |-> routers[r].qos, group |-> g]),
               !.inner   = AddRoute(@, s, r, None)])
  /\ Ask(r, s, None, routers[r].qos, g)

\* MQTT: shared_qos_route.
SharedQosRoute(r, s, g, q) ==
  /\ Building(r) /\ routers[r].kind = "mqtt" /\ Available(routers[r].inner, s)
  /\ Set(r, [routers[r] EXCEPT
               !.options = Insert(@, [subject |-> s, qos |-> q, group |-> g]),
               !.inner   = AddRoute(@, s, r, None)])
  /\ Ask(r, s, None, q, g)

\* MQTT: qos.
SetQos(r, q) ==
  /\ Building(r) /\ routers[r].kind = "mqtt"
  /\ Set(r, [routers[r] EXCEPT !.qos = q])
  /\ UNCHANGED history

\* NATS: jetstream, for the js routes that follow.
BindStream(r, b) ==
  /\ Building(r) /\ routers[r].kind = "nats"
  /\ Set(r, [routers[r] EXCEPT !.bound = b])
  /\ UNCHANGED history

\* Redis: with_broker, for the stream routes that follow.
BindBroker(r, b) ==
  /\ Building(r) /\ routers[r].kind = "redis"
  /\ Set(r, [routers[r] EXCEPT !.bound = b])
  /\ UNCHANGED history

AddBound(r, s) ==
  /\ Building(r) /\ Available(routers[r].inner, s) /\ routers[r].bound # None
  /\ Set(r, [routers[r] EXCEPT !.inner = AddRoute(@, s, r, routers[r].bound)])
  /\ Ask(r, s, routers[r].bound, None, None)

\* NATS: js_route, js_durable_route.
JetStreamRoute(r, s) == routers[r].kind = "nats" /\ AddBound(r, s)

\* Redis: x_route, x_group_route, psub_route and their _with forms.
RedisStreamRoute(r, s) == routers[r].kind = "redis" /\ AddBound(r, s)

AddOneLayer(r) ==
  LET n == Len(routers[r].inner.layers)
  IN /\ Building(r)
     /\ Set(r, Forward(routers[r], AddLayer(routers[r].inner, <<r, n + 1>>)))
     /\ UNCHANGED history

OnError(r, t) ==
  /\ Building(r)
  /\ Set(r, Forward(routers[r], SetErrorTopic(routers[r].inner, t)))
  /\ UNCHANGED history

WithErrorHeaders(r, h) ==
  /\ Building(r)
  /\ Set(r, Forward(routers[r], SetErrorHeaders(routers[r].inner, h)))
  /\ UNCHANGED history

\* The routers a route was registered on or included into.
Joins(home, subject) == {j \in joined : j.home = home /\ j.subject = subject}

Joining(r, home, subject) ==
  [home |-> home, subject |-> subject, router |-> r, at |-> Len(routers[r].inner.layers),
   inner |-> {j.router : j \in Joins(home, subject)}]

\* include of a router of the same kind, include_router of a core router.
Include(r, o) ==
  /\ Building(r) /\ Building(o) /\ r # o
  /\ routers[o].kind \in {routers[r].kind, "core"}
  /\ CanInclude(routers[r].inner, routers[o].inner)
  /\ routers' = [routers EXCEPT ![r] = Both(@, routers[o])]
  /\ live' = live \ {o}
  /\ joined' = joined \cup {Joining(r, d.handler, d.subject) : d \in routers[o].inner.routes}
  /\ UNCHANGED <<phase, service, registered>>

\* into_router: the core router goes on without the settings of the facade.
IntoRouter(r) ==
  /\ Building(r) /\ routers[r].kind # "core"
  /\ Set(r, Wrap("core", routers[r].inner))
  /\ registered' =
       {IF \E d \in routers[r].inner.routes : d.subject = a.subject /\ d.handler = a.home
          THEN [a EXCEPT !.qos = None, !.group = None] ELSE a : a \in registered}
  /\ UNCHANGED joined

\* from_router
FromRouter(r, kind) ==
  /\ Building(r) /\ routers[r].kind = "core" /\ kind \in Kinds \ {"core"}
  /\ Set(r, Wrap(kind, routers[r].inner))
  /\ UNCHANGED history

\* A key that is taken: assert_route_available.
DuplicateRoute(r, s) ==
  /\ Building(r) /\ ~Available(routers[r].inner, s)
  /\ phase' = "panicked"
  /\ UNCHANGED <<routers, live, service, history>>

DuplicateInclude(r, o) ==
  /\ Building(r) /\ Building(o) /\ r # o
  /\ routers[o].kind \in {routers[r].kind, "core"}
  /\ ~CanInclude(routers[r].inner, routers[o].inner)
  /\ phase' = "panicked"
  /\ live' = live \ {o}
  /\ UNCHANGED <<routers, service, history>>

\* A stream route on a facade that is not bound: expect.
NotBound(r) ==
  /\ Building(r) /\ routers[r].kind \in {"nats", "redis"} /\ routers[r].bound = None
  /\ phase' = "panicked"
  /\ UNCHANGED <<routers, live, service, history>>

\* into_service.  The subscriptions are those the MQTT broker makes of the plain
\* routes; a core router has neither a default QoS nor options to give it.
IntoService(r) ==
  /\ Building(r)
  /\ service' =
       [router |-> r, qos |-> routers[r].qos, routes |-> Built(routers[r].inner),
        subs   |-> {Choice(routers[r], d.subject) :
                      d \in {e \in routers[r].inner.routes : e.factory = None}}]
  /\ phase' = "serving"
  /\ live' = live \ {r}
  /\ UNCHANGED <<routers, history>>

\* Registrations, and what into_service and the panics do.
Register(r) ==
  \E s \in Subjects :
    \/ AddPlain(r, s) \/ JetStreamRoute(r, s) \/ RedisStreamRoute(r, s)
    \/ \E q \in Levels : QosRoute(r, s, q)
    \/ \E g \in Groups :
         SharedRoute(r, s, g) \/ \E q \in Levels : SharedQosRoute(r, s, g, q)

Configure(r) ==
  \/ \E q \in Levels : SetQos(r, q)
  \/ \E b \in Bindings : BindStream(r, b) \/ BindBroker(r, b)
  \/ \E t \in Topics : OnError(r, t)
  \/ \E h \in Headers : WithErrorHeaders(r, h)
  \/ \E kind \in Kinds : FromRouter(r, kind)
  \/ AddOneLayer(r) \/ IntoRouter(r)

Combine(r) ==
  \/ \E o \in Routers : Include(r, o)
  \/ IntoService(r)

Panic(r) ==
  \/ \E s \in Subjects : DuplicateRoute(r, s)
  \/ \E o \in Routers : DuplicateInclude(r, o)
  \/ NotBound(r)

Next ==
  \E r \in Routers :
    \/ Cardinality(registered) < MaxRoutes /\ Register(r) /\ UNCHANGED calls
    \/ calls > 0 /\ Configure(r) /\ calls' = calls - 1
    \/ (Combine(r) \/ Panic(r)) /\ UNCHANGED calls

Spec == Init /\ [][Next]_vars

-----------------------------------------------------------------------------
(* Properties *)

\* Whether a set of routes holds what the registration a registered.
Holds(routes, a) == \E d \in routes : d.handler = a.home /\ d.subject = a.subject

\* A route has the settings of a router.
Alike(d, r) == d.topic = r.topic /\ d.headers = r.headers /\ d.layers = r.layers

\* One handler per key, in every router and in the service, and every option is
\* about a plain route: dispatch_event takes the first route that matches and
\* MqttBroker::subscribe looks an option up by its subject.
KeysAreUnique ==
  /\ \A r \in live : \A d, e \in routers[r].inner.routes : d.subject = e.subject => d = e
  /\ phase = "serving" =>
       \A d, e \in service.routes : d.subject = e.subject => d = e
  /\ \A r \in live : \A o, p \in routers[r].options : o.subject = p.subject => o = p
  /\ \A r \in live : \A o \in routers[r].options :
       \E d \in routers[r].inner.routes : d.subject = o.subject /\ d.factory = None

\* Whatever the order of layer, on_error, error_headers and the registrations, a
\* route has the settings of the router it was registered on, as long as it is
\* there ("attached to already registered routes and ... routes added later").
OwnRoutesUniform ==
  \A r \in live : \A d \in routers[r].inner.routes :
    d.handler = r => Alike(d, routers[r].inner)

\* The layers a route is due: all those of the router it was registered on, and of
\* each router it was included into those added since.
Due(home, subject) ==
  UNION {{<<j.router, n>> : n \in (j.at + 1)..Len(routers[j.router].inner.layers)} :
           j \in Joins(home, subject)}

\* On the way to the handler of that route an event meets layer l before layer m.
Around(home, subject, l, m) ==
  \/ l[1] = m[1] /\ l[2] > m[2]
  \/ \E j \in Joins(home, subject) : j.router = l[1] /\ m[1] \in j.inner

\* A service route is wrapped in exactly the layers it is due, each once, those of a
\* router around those of the routers it came from and a later layer around an
\* earlier one, in any order of layer, include and the registrations ("attached to
\* already registered routes", "each included route keeps the layers it was defined
\* with").
LayersNest ==
  phase = "serving" => \A d \in service.routes :
    /\ ToSet(d.stack) = Due(d.handler, d.subject) /\ IsInjective(d.stack)
    /\ \A i, k \in DOMAIN d.stack :
         i < k => Around(d.handler, d.subject, d.stack[i], d.stack[k])

\* A registered handler is in one router at a time, or in the service, and keeps
\* the stream it was registered with: binding again and including into a router
\* with another binding do not move it.
RegisteredOnce ==
  \A a \in registered :
    /\ phase # "panicked" =>
         IF phase = "serving" /\ Holds(service.routes, a)
           THEN \A r \in live : ~Holds(routers[r].inner.routes, a)
           ELSE \E r \in live : /\ Holds(routers[r].inner.routes, a)
                              /\ \A q \in live \ {r} : ~Holds(routers[q].inner.routes, a)
    /\ phase = "serving" => \A d \in service.routes :
         d.handler = a.home /\ d.subject = a.subject => d.factory = a.factory

\* The plain routes of the service, and only they, are subscribed, each as its
\* registration asked: with its group, and with its QoS, which for shared_route is
\* the default of the moment; with the default of the final router when it asked for
\* none ("subscription options ... are merged").
SubscribedAsAsked ==
  phase = "serving" => \A a \in registered : Holds(service.routes, a) =>
    IF a.factory # None THEN \A c \in service.subs : c.subject # a.subject
    ELSE \E c \in service.subs :
           /\ c.subject = a.subject /\ c.group = a.group
           /\ c.qos = IF a.qos # None THEN a.qos ELSE service.qos

\* What mqtt.rs:58 and 64 say of the default QoS: a route that does not override it
\* is subscribed with the default of the router it was registered on.
RouterDefaultQos ==
  phase = "serving" /\ routers[service.router].kind = "mqtt" =>
    \A a \in registered, c \in service.subs :
      /\ Holds(service.routes, a) /\ a.subject = c.subject
      /\ a.factory = None /\ a.qos = None /\ routers[a.home].kind = "mqtt"
      => c.qos = routers[a.home].qos

=============================================================================
