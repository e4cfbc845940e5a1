------------------------------ MODULE Routing -------------------------------
(***************************************************************************)
(* How an application is put together (src/router.rs and the builder half  *)
(* of src/app.rs): method tables, routers with group middleware that are   *)
(* nested and merged into one another in any order, global middleware, and *)
(* `build`, which flattens them into one chain per route.                  *)
(*                                                                         *)
(* A path is a sequence of segments: the prefixes it was nested under and  *)
(* the path it was registered with.  Two patterns that match the same      *)
(* requests are the same sequence here.                                    *)
(***************************************************************************)
EXTENDS Naturals, Sequences, FiniteSets

CONSTANTS Routers,      \* routers a program makes
          Root,         \* App.router
          Middlewares,  \* middleware values; each is registered at most once
          Paths,        \* what a route or a prefix may be called
          Handlers,     \* request handlers
          Tables,       \* sequences of method calls that make a MethodRouter
          MaxRoutes     \* bound on the routes of a program

Methods == {"GET", "HEAD", "POST", "OPTIONS"}
Nobody == "nobody"    \* no handler, no router

ASSUME RoutingAssumption ==
  /\ Root \in Routers /\ MaxRoutes \in Nat
  /\ Nobody \notin Routers \cup Handlers
  /\ Tables \subseteq Seq(Methods \X Handlers)

VARIABLES
  phase,      \* "building", "built" or "panicked" (a route conflict)
  routers,    \* the Router values: routes and group middleware
  global,     \* App.global
  flat,       \* the FlatRoutes of the BuiltApp
  under,      \* history: the router each router was attached to
  owner,      \* history: the router, or "app", that registered a middleware
  order,      \* history: the middleware registered so far
  registered  \* history: how many routes were registered

vars == <<phase, routers, global, flat, under, owner, order, registered>>

(* ----------------------------- method tables ---------------------------- *)

Indices(table) == 1..Len(table)
Has(table, m) == \E i \in Indices(table) : table[i][1] = m

\* A bug: a duplicated method is appended like any other.
AtAppends(table, call) == Append(table, call)

\* MethodRouter::at: the last registration of a method wins.
At(table, call) ==
  IF Has(table, call[1])
  THEN [i \in Indices(table) |-> IF table[i][1] = call[1] THEN call
                                 ELSE table[i]]
  ELSE Append(table, call)

\* A chain of method calls, from the empty MethodRouter.
MethodRouter(calls) ==
  LET made[n \in 0..Len(calls)] ==
        IF n = 0 THEN <<>> ELSE At(made[n - 1], calls[n])
  IN  made[Len(calls)]

\* A bug: HEAD is only allowed where it is registered.
AllowRegistered(table) == {table[i][1] : i \in Indices(table)}

\* allow_header, as the set it lists.
Allow(table) ==
  LET registeredMethods == {table[i][1] : i \in Indices(table)}
  IN  registeredMethods \cup (IF "GET" \in registeredMethods THEN {"HEAD"} ELSE {})

\* The handler `dispatch` finds for a method, or Nobody (405).
Effective(table, m) == IF m = "HEAD" /\ ~Has(table, "HEAD") THEN "GET" ELSE m
Find(table, m) ==
  LET matches == {i \in Indices(table) : table[i][1] = Effective(table, m)}
  IN  IF matches = {} THEN Nobody
      ELSE table[CHOOSE i \in matches : \A j \in matches : i <= j][2]

(* -------------------------------- routers ------------------------------- *)

Init ==
  /\ phase = "building"
  /\ routers = [r \in Routers |-> [routes |-> <<>>, middlewares |-> <<>>]]
  /\ global = <<>>
  /\ flat = {}
  /\ under = [r \in Routers |-> Nobody]
  /\ owner = [m \in Middlewares |-> Nobody]
  /\ order = <<>> /\ registered = 0

\* Attaching a router moves it: it can be used no more.
Alive(r) == phase = "building" /\ under[r] = Nobody

\* Router::route and App::route.
Route(r, path, calls) ==
  /\ Alive(r) /\ registered < MaxRoutes
  /\ routers' = [routers EXCEPT ![r].routes =
       Append(@, [path |-> <<path>>, table |-> MethodRouter(calls),
                  middlewares |-> <<>>, calls |-> calls, home |-> r,
                  id |-> registered])]
  /\ registered' = registered + 1
  /\ UNCHANGED <<phase, global, flat, under, owner, order>>

\* Router::with; the router of an App has no group middleware.
With(r, m) ==
  /\ Alive(r) /\ r # Root /\ owner[m] = Nobody
  /\ routers' = [routers EXCEPT ![r].middlewares = Append(@, m)]
  /\ owner' = [owner EXCEPT ![m] = r]
  /\ order' = Append(order, m)
  /\ UNCHANGED <<phase, global, flat, under, registered>>

\* App::with.
WithGlobal(m) ==
  /\ phase = "building" /\ owner[m] = Nobody
  /\ global' = Append(global, m)
  /\ owner' = [owner EXCEPT ![m] = Root]
  /\ order' = Append(order, m)
  /\ UNCHANGED <<phase, routers, flat, under, registered>>

\* A bug: the group's middleware is put after what its routes carry already.
CarriedInsideOut(s, prefix) ==
  [i \in 1..Len(routers[s].routes) |->
     [routers[s].routes[i] EXCEPT
        !.path = prefix \o @, !.middlewares = @ \o routers[s].middlewares]]

\* A bug: the prefix is joined with the whole path as one more segment.
CarriedUnderOneSegment(s, prefix) ==
  [i \in 1..Len(routers[s].routes) |->
     [routers[s].routes[i] EXCEPT
        !.path = Append(prefix, @), !.middlewares = routers[s].middlewares \o @]]

\* The routes of s as they arrive in the router s is attached to: the group's
\* middleware goes around what they carry already.
Carried(s, prefix) ==
  [i \in 1..Len(routers[s].routes) |->
     [routers[s].routes[i] EXCEPT
        !.path = prefix \o @, !.middlewares = routers[s].middlewares \o @]]

Attach(r, s, prefix) ==
  /\ Alive(r) /\ Alive(s) /\ r # s /\ s # Root
  /\ routers' = [routers EXCEPT
       ![r].routes = @ \o Carried(s, prefix),
       ![s] = [routes |-> <<>>, middlewares |-> <<>>]]
  /\ under' = [under EXCEPT ![s] = r]
  /\ UNCHANGED <<phase, global, flat, owner, order, registered>>

\* Router::nest and Router::merge, and those of App.
Nest(r, path, s) == Attach(r, s, <<path>>)
Merge(r, s) == Attach(r, s, <<>>)

Mounted == routers[Root].routes

Conflict ==
  \E i, j \in 1..Len(Mounted) : i # j /\ Mounted[i].path = Mounted[j].path

\* A bug: a conflicting route is not inserted, and nobody hears of it.
BuildIgnoresConflict ==
  /\ phase = "building" /\ phase' = "built"
  /\ flat' = {[route |-> Mounted[i], chain |-> global \o Mounted[i].middlewares,
               allow |-> Allow(Mounted[i].table)] :
                i \in {k \in 1..Len(Mounted) :
                         \A j \in 1..(k - 1) : Mounted[j].path # Mounted[k].path}}
  /\ UNCHANGED <<routers, global, under, owner, order, registered>>

\* App::build: one FlatRoute per path; the matcher refuses a conflict, and the
\* program panics at startup.
Build ==
  /\ phase = "building"
  /\ IF Conflict THEN phase' = "panicked" /\ UNCHANGED flat
     ELSE /\ phase' = "built"
          /\ flat' = {[route |-> Mounted[i],
                       chain |-> global \o Mounted[i].middlewares,
                       allow |-> Allow(Mounted[i].table)] :
                        i \in 1..Len(Mounted)}
  /\ UNCHANGED <<routers, global, under, owner, order, registered>>

Terminated == phase # "building" /\ UNCHANGED vars

Next ==
  \/ \E r \in Routers :
       \/ \E path \in Paths, calls \in Tables : Route(r, path, calls)
       \/ \E m \in Middlewares : With(r, m)
       \/ \E s \in Routers : Merge(r, s) \/ \E path \in Paths : Nest(r, path, s)
  \/ \E m \in Middlewares : WithGlobal(m)
  \/ Build \/ Terminated

Spec == Init /\ [][Next]_vars

(* ------------------------------ properties ------------------------------ *)

RouteType ==
  [path : Seq(Paths), table : Seq(Methods \X Handlers),
   middlewares : Seq(Middlewares), calls : Tables, home : Routers, id : Nat]

\* The shape of the state.
TypeOK ==
  /\ phase \in {"building", "built", "panicked"}
  /\ routers \in [Routers -> [routes : Seq(RouteType),
                              middlewares : Seq(Middlewares)]]
  /\ global \in Seq(Middlewares)
  /\ \A f \in flat : f.route \in RouteType /\ f.chain \in Seq(Middlewares)
                       /\ f.allow \subseteq Methods
  /\ under \in [Routers -> Routers \cup {Nobody}]
  /\ owner \in [Middlewares -> Routers \cup {Nobody}]
  /\ order \in Seq(Middlewares) /\ registered \in 0..MaxRoutes

\* A set that holds, with a router, the one that router was attached to.
Closed(R) == \A q \in R : under[q] = Nobody \/ under[q] \in R

\* r and the routers it was attached to, one by one: the least such set.
Enclosing(r) ==
  {q \in Routers : \A R \in SUBSET Routers : r \in R /\ Closed(R) => q \in R}

\* app.rs:64 and router.rs:217: the chain of a route is the global middleware,
\* then that of the groups around it, from the outermost to its own, in the
\* order of registration within each, however the calls that register, nest and
\* merge are interleaved; each runs once, and no other group's does.
ChainIsOnion ==
  \A f \in flat :
    /\ \A m \in Middlewares :
         Cardinality({i \in 1..Len(f.chain) : f.chain[i] = m}) =
           (IF owner[m] \in Enclosing(f.route.home) THEN 1 ELSE 0)
    /\ \A i, j \in 1..Len(f.chain) :
         i < j =>
           /\ owner[f.chain[i]] \in Enclosing(owner[f.chain[j]])
           /\ owner[f.chain[i]] = owner[f.chain[j]] =>
                \E k, l \in 1..Len(order) :
                  k < l /\ order[k] = f.chain[i] /\ order[l] = f.chain[j]

\* Every route registered in the application or in a router that reached it is
\* served, once, under a path of its own.
EveryRouteIsServed ==
  phase = "built" =>
    /\ \A f, g \in flat : f.route.path = g.route.path => f = g
    /\ ((\A r \in Routers \ {Root} : Root \in Enclosing(r))
          => {f.route.id : f \in flat} = 0..(registered - 1))

\* Each method a route was given is served by the handler it was given last.
LastRegistrationWins ==
  \A f \in flat : \A i \in 1..Len(f.route.calls) :
    LET m == f.route.calls[i][1] IN
      (\A j \in (i + 1)..Len(f.route.calls) : f.route.calls[j][1] # m)
        => Find(f.route.table, m) = f.route.calls[i][2]

\* The Allow header of a route lists exactly the methods it does not answer
\* with 405.
AllowIsTruthful ==
  \A f \in flat : \A m \in Methods :
    m \in f.allow <=> Find(f.route.table, m) # Nobody
=============================================================================
