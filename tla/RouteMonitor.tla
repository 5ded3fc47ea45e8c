---------------------------- MODULE RouteMonitor ----------------------------
(***************************************************************************)
(* The registry's probes and the routes of the application that feed them: *)
(* add, include and add_probes, ProbeGroup, and _monitor_routes, which     *)
(* discover_routes and watch_router call to wrap the routes' handlers.     *)
(*                                                                         *)
(* The application is a tree: routers included or mounted under prefixes,  *)
(* and the route objects in them.  A route object is served once for each  *)
(* path that leads to it.  An included router keeps a cache of its routes  *)
(* (FastAPI 0.137), filled by the first request and emptied by             *)
(* _invalidate_included_router_caches.                                     *)
(*                                                                         *)
(* Each call runs on the event loop without awaiting anything: one step.   *)
(***************************************************************************)
EXTENDS Naturals, FiniteSets, SequencesExt, SequenceOps

CONSTANTS
    Route,         \* the HTTP and WebSocket routes
    Container,     \* what holds routes: the application, included routers, mounts
    Application,   \* the root of the tree
    Children,      \* of each container: its routes and containers, in order
    Segment,       \* what paths consist of
    Prefix,        \* of each container: the path it adds
    Included,      \* the containers that cache their routes
    Router,        \* the containers watch_router is called with
    Function,      \* the handler each route was declared with
    RouteName,     \* the name of each route's handler
    Qualified,     \* of each candidate: its name with methods and path
    HealthRoute,   \* the routes of a HealthRegistry
    LateRoute,     \* the routes that are attached while the program runs
    ManualRoute,   \* the routes whose handler has @probe.watch
    UserProbe,     \* the probes of the program itself
    UserName,      \* their names
    ManualProbe,   \* the one @probe.watch was called on
    Copy,          \* bound: the automatic probes of one name that may be in use
    Selections,    \* the candidates that path and method filters may let through
    CustomName,    \* name_fn's name for each route
    BadName,       \* a name with a character _check_probe_name refuses
    Unbuilt        \* an empty cache

\* No container holds itself, directly or not.
ASSUME TreeAssumption ==
    /\ Application \in Container /\ IsFiniteSet(Container)
    /\ Children \in [Container -> Seq(Route \cup Container)]
    /\ Prefix \in [Container -> Seq(Segment)]
    /\ Route \cap Container = {}
    /\ \E depth \in [Container -> 0 .. Cardinality(Container)] :
          \A c \in Container : \A i \in DOMAIN Children[c] :
             Children[c][i] \in Container => depth[Children[c][i]] < depth[c]
    /\ Included \cup Router \subseteq Container
ASSUME RouteAssumption ==
    /\ HealthRoute \cup LateRoute \cup ManualRoute \subseteq Route
    /\ DOMAIN RouteName = Route /\ DOMAIN CustomName = Route
    /\ \A c \in DOMAIN Qualified : c.route \in Route
    /\ \A S \in Selections : S \subseteq DOMAIN Qualified
\* A name with the route's methods and path is no other route's, and the colon in
\* it keeps it from being a handler's.
ASSUME QualifiedAssumption ==
    \A c \in DOMAIN Qualified :
        /\ \A d \in DOMAIN Qualified : Qualified[c] = Qualified[d] => c.route = d.route
        /\ \A r \in Route : Qualified[c] # RouteName[r]
VARIABLES
    registered,  \* the probes of _probes
    grouped,     \* the probes of the program's ProbeGroup
    handler,     \* the probes that wrap each route's endpoint, outermost first
    marker,      \* _fastapi_watch of each route's endpoint
    attached,    \* the routes declared so far
    cache,       \* of each included router: the endpoints it serves
    aborted,     \* ghost: the last monitoring call raised
    lost         \* ghost: probes whose group was never included

vars == <<registered, grouped, handler, marker, attached, cache, aborted, lost>>

Marker   == {"none", "manual", "router", "discover"}

\* The automatic probes: those of one name are told apart by a number.
AutoName  ==
    (Range(RouteName) \cup Range(CustomName) \cup Range(Qualified)) \ {BadName}
AutoProbe == [name : AutoName, copy : Copy]
Probe     == UserProbe \cup AutoProbe
Name(p)   == IF p \in UserProbe THEN UserName[p] ELSE p.name

\* The probes of the program are none of the automatic ones.
ASSUME ProbeAssumption == ManualProbe \in UserProbe /\ UserProbe \cap AutoProbe = {}

-----------------------------------------------------------------------------
(* _iter_app_routes: the candidates <<route, path>> in the tree's order.   *)

Candidate == [route : Route, path : Seq(Segment)]

RouteCandidate(r) == [route |-> r, path |-> << >>]
Under(child, c) == [route |-> c.route, path |-> Prefix[child] \o c.path]

\* The candidates of a container, with paths that do not yet have its prefix.
Walk[c \in Container] ==
    FlattenSeq([i \in DOMAIN Children[c] |->
        LET child == Children[c][i]
        IN IF child \in Route
           THEN <<RouteCandidate(child)>>
           ELSE [j \in DOMAIN Walk[child] |-> Under(child, Walk[child][j])]])

InTree(c) == {Walk[c][i].route : i \in DOMAIN Walk[c]}

OfRoutes(candidates, routes) ==
    Without(candidates, {c \in Range(candidates) : c.route \notin routes})

Attached(candidates) == OfRoutes(candidates, attached)
AppCandidates == Attached(Walk[Application])

\* The containers whose caches _invalidate_included_router_caches empties.
Reached[c \in Container] ==
    {c} \cup UNION {Reached[child] : child \in {Children[c][i] : i \in DOMAIN Children[c]} \cap Container}

\* watch_router: the routes the application serves with a handler of the
\* router, and the router's own routes where that finds none.
Serving(functions) == {r \in Route : Function[r] \in functions}
Served(router) == OfRoutes(AppCandidates, Serving({Function[r] : r \in InTree(router)}))
RouterCandidates(router) ==
    LET found == {Function[c.route] : c \in Range(Served(router))}
    IN Served(router) \o OfRoutes(Attached(Walk[router]), Route \ Serving(found))

-----------------------------------------------------------------------------

TypeOK ==
    /\ registered \subseteq Probe
    /\ grouped \subseteq UserProbe
    /\ handler \in [Route -> Seq(Probe)]
    /\ marker \in [Route -> Marker]
    /\ attached \subseteq Route
    /\ \A c \in Included : cache[c] = Unbuilt \/ cache[c] \in [InTree(c) -> Seq(Probe)]
    /\ aborted \in BOOLEAN
    /\ lost \subseteq AutoProbe

Init ==
    /\ registered = {}
    /\ grouped = {}
    /\ handler = [r \in Route |-> IF r \in ManualRoute THEN <<ManualProbe>> ELSE << >>]
    /\ marker = [r \in Route |-> IF r \in ManualRoute THEN "manual" ELSE "none"]
    /\ attached = Route \ LateRoute
    /\ cache = [c \in Included |-> Unbuilt]
    /\ aborted = FALSE
    /\ lost = {}

-----------------------------------------------------------------------------
(* add and include, with the probes of the program.                        *)

\* add skips a probe it has, and refuses a bad name.
Accepted(p) == UserName[p] # BadName

Add(p) ==
    /\ Accepted(p)
    /\ registered' = registered \cup {p}
    /\ UNCHANGED <<grouped, handler, marker, attached, cache, aborted, lost>>

GroupAdd(p) ==
    /\ grouped' = grouped \cup {p}
    /\ UNCHANGED <<registered, handler, marker, attached, cache, aborted, lost>>

\* include(group) adds its probes up to the first it refuses.
Include ==
    /\ \E S \in SUBSET {p \in grouped : Accepted(p)} :
         /\ registered' = registered \cup S
         /\ grouped \subseteq S \/ \E p \in grouped : ~Accepted(p)
    /\ UNCHANGED <<grouped, handler, marker, attached, cache, aborted, lost>>

-----------------------------------------------------------------------------
(* _monitor_routes.  Its loop is a fold over the candidates: s holds what  *)
(* the calls before it left, the names taken, the route objects seen, the  *)
(* new probes of the group, and whether it has stopped early.              *)

\* The options of a call: the marker it leaves, whether it replaces probes of
\* discover_routes, what passes its filters, whether name_fn names the probes,
\* and whether they are collected in a group.
Options(mark, refreshes, groups) ==
    [mark : {mark}, refresh : refreshes, passing : Selections, named : BOOLEAN, group : groups]

Replaceable(s, r) == s.marker[r] = "discover"
Replaced(s, r)    == IF Replaceable(s, r) THEN {s.handler[r][1]} ELSE {}

\* A handler's own name is qualified when another probe has it, unless it is
\* the probe being replaced.
Requalified(s, c) ==  \* fault: the route's own probe takes its name, too
    IF RouteName[c.route] \in s.taken THEN Qualified[c] ELSE RouteName[c.route]
DefaultName(s, c) ==
    LET plain == RouteName[c.route]
    IN IF plain \in s.taken /\ \A p \in Replaced(s, c.route) : p.name # plain
       THEN Qualified[c] ELSE plain

NewName(s, c, o) == IF o.named THEN CustomName[c.route] ELSE DefaultName(s, c)

Considered(s, c, o) ==
    /\ c.route \notin s.seen
    /\ c.route \notin HealthRoute
    /\ c \in o.passing

OverridesRouter(s, r, o) ==  \* fault: a refresh replaces a router's probe
    s.marker[r] = "none" \/ (s.marker[r] \in {"router", "discover"} /\ o.refresh)
Available(s, r, o) == s.marker[r] = "none" \/ (s.marker[r] = "discover" /\ o.refresh)

\* The handler below the wrapper this module installed, if it did.
Original(s, r) ==
    IF s.marker[r] \in {"router", "discover"} THEN Tail(s.handler[r]) ELSE s.handler[r]

InUse(s) ==
    s.registered \cup s.group \cup lost
        \cup UNION {Range(s.handler[r]) : r \in Route}
        \cup UNION {UNION {Range(cache[c][r]) : r \in InTree(c)} :
                       c \in {d \in Included : cache[d] # Unbuilt}}

\* The new object, if the bound leaves one that nothing refers to.
Unused(s, name) == {[name |-> name, copy |-> n] : n \in Copy} \ InUse(s)
Fresh(s, name)  == CHOOSE p \in Unused(s, name) : TRUE

\* Patch the route, drop the probe it had, and register or collect its new one.
KeepReplaced(s, r) == s.registered  \* fault: the old probe stays registered
DropReplaced(s, r) == s.registered \ Replaced(s, r)

StaleTaken(s, r, p) == s.taken  \* fault: names are compared with those before the call
Taken(s, r, p) == (s.taken \ {q.name : q \in Replaced(s, r)}) \cup {p.name}

Install(s, r, o, p) ==
    [registered |-> DropReplaced(s, r) \cup (IF o.group THEN {} ELSE {p}),
     handler    |-> [s.handler EXCEPT ![r] = <<p>> \o Original(s, r)],
     marker     |-> [s.marker EXCEPT ![r] = o.mark],
     taken      |-> Taken(s, r, p),
     seen       |-> s.seen \cup {r},
     group      |-> s.group \cup (IF o.group THEN {p} ELSE {}),
     stop       |-> "no"]

\* A route is seen once it passes the filters: excluded under one prefix, it may
\* be monitored under another.  A bad name raises.
MonitorOne(s, c, o) ==
    IF s.stop # "no" \/ ~Considered(s, c, o) THEN s
    ELSE IF ~Available(s, c.route, o) THEN [s EXCEPT !.seen = @ \cup {c.route}]
    ELSE LET name == NewName(s, c, o) IN
         IF name = BadName THEN [s EXCEPT !.stop = "raised"]
         ELSE IF Unused(s, name) = {} THEN [s EXCEPT !.stop = "bound"]
         ELSE Install(s, c.route, o, Fresh(s, name))

Before ==
    [registered |-> registered, handler |-> handler, marker |-> marker,
     taken |-> {Name(p) : p \in registered}, seen |-> {}, group |-> {}, stop |-> "no"]

MonitorAll(candidates, o) ==
    LET after[i \in 0 .. Len(candidates)] ==
            IF i = 0 THEN Before ELSE MonitorOne(after[i - 1], candidates[i], o)
    IN after[Len(candidates)]

\* A router's group is included at the end, and the caches are emptied, unless
\* the loop raised.
WithGroup(s) == s.registered \cup (IF s.stop = "raised" THEN {} ELSE s.group)

KeepCaches(s)  == cache  \* fault: routers go on with the endpoints they know
ResetCaches(s) ==
    IF s.stop = "raised" THEN cache
    ELSE [c \in Included |-> IF c \in Reached[Application] THEN Unbuilt ELSE cache[c]]

MonitorRoutes(candidates, o) ==
    /\ LET s == MonitorAll(candidates, o) IN
         /\ s.stop # "bound"  \* there were enough probes for the call
         /\ registered' = WithGroup(s)
         /\ handler' = s.handler
         /\ marker' = s.marker
         /\ cache' = ResetCaches(s)
         /\ aborted' = (s.stop = "raised")
         /\ lost' = IF s.stop = "raised" THEN lost \cup s.group ELSE lost
    /\ UNCHANGED <<grouped, attached>>

DiscoverRoutes ==
    \E o \in Options("discover", BOOLEAN, {FALSE}) : MonitorRoutes(AppCandidates, o)

WatchRouter(router) ==
    \E o \in Options("router", {TRUE}, BOOLEAN) : MonitorRoutes(RouterCandidates(router), o)

-----------------------------------------------------------------------------
(* The application (external): it declares routes and serves requests.     *)

Attach(r) ==
    /\ r \notin attached
    /\ attached' = attached \cup {r}
    /\ cache' = [c \in Included |-> IF r \in InTree(c) THEN Unbuilt ELSE cache[c]]
    /\ UNCHANGED <<registered, grouped, handler, marker, aborted, lost>>

\* The first request through an included router fills its cache.
Serve(c) ==
    /\ c \in Reached[Application]
    /\ cache[c] = Unbuilt
    /\ cache' = [cache EXCEPT ![c] = [r \in InTree(c) |-> handler[r]]]
    /\ UNCHANGED <<registered, grouped, handler, marker, attached, aborted, lost>>

Next ==
    \/ \E p \in UserProbe : Add(p) \/ GroupAdd(p)
    \/ Include
    \/ DiscoverRoutes
    \/ \E router \in Router : WatchRouter(router)
    \/ \E r \in LateRoute : Attach(r)
    \/ \E c \in Included : Serve(c)

Spec == Init /\ [][Next]_vars

-----------------------------------------------------------------------------
(* Properties.                                                             *)

Monitored == {r \in Route : marker[r] \in {"router", "discover"}}

\* Every automatic probe that is registered has a route that feeds it, and one
\* route only; no request is counted by two automatic probes.  Conversely what
\* a monitored route records is reported: its probe is registered, unless it
\* was made for a group that a bad name kept from being included.
ProbesMatchRoutes ==
    /\ \A p \in registered \cap AutoProbe :
          Cardinality({r \in Route : p \in Range(handler[r])}) = 1
    /\ \A r \in Route : Cardinality({i \in DOMAIN handler[r] : handler[r][i] \in AutoProbe}) <= 1
    /\ \A r \in Monitored : handler[r][1] \in registered \cup lost

\* Requests are served by the handlers that were installed last, through the
\* routers' caches too -- unless the last call raised before emptying them.
ServedAsMonitored ==
    \/ aborted
    \/ \A c \in Included : cache[c] = Unbuilt \/ \A r \in InTree(c) : cache[c][r] = handler[r]

\* Handlers' names are told apart: no two of the probes named after their
\* handlers have the same name.
HandlersHaveOwnNames ==
    \A p, q \in registered \cap AutoProbe :
        p.name = q.name /\ p.name \notin Range(CustomName) => p = q

\* "Priority: @probe.watch (highest) > watch_router > discover_routes": neither
\* call touches a handler of a higher or, for routers, the same priority.
PriorityHolds ==
    [][\A r \in Route : marker[r] \in {"manual", "router"} => handler'[r] = handler[r]]_vars

\* What discover_routes would do now with these filters and options.
Discovered(selection, refreshes) ==
    MonitorAll(AppCandidates, [mark |-> "discover", refresh |-> refreshes,
                               passing |-> selection, named |-> FALSE, group |-> FALSE])

\* "refresh keeps a route's own name" (test_refresh_keeps_a_routes_own_name), and
\* the results, history and alerts under it -- unless a name_fn is in use, too,
\* which frees a handler's name for a route that had to be told apart, as does the
\* group of a call that raised; and a route that is served at several paths and had
\* to be told apart is called after the first of them that passes the filters.
RefreshKeepsNames ==
    lost = {} /\ (\A r \in Monitored : handler[r][1].name \notin Range(CustomName)) =>
        \A selection \in Selections, r \in {t \in Route : marker[t] = "discover"} :
            LET old == handler[r][1].name
                new == Discovered(selection, TRUE).handler[r][1].name
                others == {Qualified[c] : c \in {d \in DOMAIN Qualified : d.route = r}}
            IN new = old \/ {old, new} \subseteq others
=============================================================================
