----------------------------- MODULE CoreRouter -----------------------------
(***************************************************************************)
(* The core router of src/src/routing/base.rs as a value: its methods take *)
(* the router and return it, so each is an operator from routers to        *)
(* routers.  RouterBuild applies them.                                     *)
(*                                                                         *)
(* A handler (or raw service) is the name of the router it was registered  *)
(* on: with its subject that names it.  The routes are a set, since their  *)
(* order decides nothing but the order of the subscriptions.               *)
(***************************************************************************)
EXTENDS Sequences, SequencesExt

CONSTANT None      \* Option::None

\* Router::new
NewRouter == [routes |-> {}, topic |-> None, headers |-> None, layers |-> <<>>]

\* Mutant of Definition: the stream factory is not kept, as in route_handler.
DefinitionPlain(r, subject, handler, factory) ==
  [subject |-> subject, handler |-> handler, factory |-> None,
   topic |-> r.topic, headers |-> r.headers, layers |-> r.layers]

\* What a registration pushes: the settings the router has by then.
Definition(r, subject, handler, factory) ==
  [subject |-> subject, handler |-> handler, factory |-> factory,
   topic |-> r.topic, headers |-> r.headers, layers |-> r.layers]

\* assert_route_available
Available(r, subject) == \A d \in r.routes : d.subject # subject

\* route, routes, route_service and route_with_stream_factory, where the key is
\* available.
AddRoute(r, subject, handler, factory) ==
  [r EXCEPT !.routes = @ \cup {Definition(r, subject, handler, factory)}]

\* Mutant of AddLayer: the routes that are already there are not wrapped.
AddLayerLater(r, l) == [r EXCEPT !.layers = Append(@, l)]

\* Mutant of AddLayer: the routes that came from other routers are not wrapped.
AddLayerOwn(r, l) ==
  [r EXCEPT !.layers = Append(@, l),
            !.routes = {IF d.handler = l[1] THEN [d EXCEPT !.layers = Append(@, l)] ELSE d :
                          d \in @}]

AddLayer(r, l) ==
  [r EXCEPT !.layers = Append(@, l),
            !.routes = {[d EXCEPT !.layers = Append(@, l)] : d \in @}]

SetErrorTopic(r, t) ==
  [r EXCEPT !.topic = t, !.routes = {[d EXCEPT !.topic = t] : d \in @}]

SetErrorHeaders(r, h) ==
  [r EXCEPT !.headers = h, !.routes = {[d EXCEPT !.headers = h] : d \in @}]

\* Mutant of CanInclude: the keys are not looked at.
CanIncludeAny(r, other) == TRUE

\* include checks each route against those pushed before it.  The routes of the
\* other router have keys of their own, so only the first router's count.
CanInclude(r, other) == \A d \in other.routes : Available(r, d.subject)

Included(r, other) == [r EXCEPT !.routes = @ \cup other.routes]

\* What an event passes through on its way to the handler: into_service wraps the
\* service in one layer after the other, so the last is met first.
Stack(layers) == Reverse(layers)

\* into_service: the routes of the service.
Built(r) ==
  {[subject |-> d.subject, handler |-> d.handler, factory |-> d.factory,
    topic |-> d.topic, headers |-> d.headers, stack |-> Stack(d.layers)] : d \in r.routes}

=============================================================================
