---------------------------- MODULE RequestMetrics ----------------------------
(***************************************************************************)
(* How an application's traffic is counted: RequestMetricsMiddleware       *)
(* around each request, a FastAPIRouteProbe around the handler, a          *)
(* PassiveProbe around a generator (a streamed body or a `yield`           *)
(* dependency) and a FastAPIWebSocketProbe around sockets.                 *)
(*                                                                         *)
(* The application and the client are the environment: handlers return,    *)
(* raise or are cancelled, sends fail, exceptions are handled or not.      *)
(* An event loop runs them all; each step ends at an await or a yield.     *)
(***************************************************************************)
EXTENDS StatsWindow, Functions

CONSTANTS
    Request,      \* requests under way at a time
    Socket,       \* sockets open at a time
    Route,        \* route templates, UNMATCHED_ROUTE included
    HealthRoute,  \* those of a HealthRegistry's own handlers
    Watched,      \* those with a watched handler
    Streamed,     \* those with a watched generator
    OtherRoute,   \* OTHER_ROUTE
    MaxRoutes,    \* max_routes
    MaxErrors,    \* max_error_rate of the probes, in percent
    HalfRoundsUp, \* does round(x, 4) round up half a unit above that rate?
    MinActive,    \* min_active_connections
    Code,         \* statuses a handler or an application may choose
    MaxArrivals   \* bound: requests and sockets in all

CLIENT_CLOSED_REQUEST == 499
MinErrorStatus == 500

ASSUME RouteAssumption ==
    /\ Route # {} /\ OtherRoute \notin Route
    /\ HealthRoute \cup Watched \cup Streamed \subseteq Route
    /\ MaxRoutes \in Nat \ {0}
ASSUME CodeAssumption == Code \subseteq 100 .. 599 /\ WindowSize \in Nat \ {0}
ASSUME JudgementAssumption ==
    MaxErrors \in 0 .. 100 /\ HalfRoundsUp \in BOOLEAN /\ MinActive \in Nat
ASSUME ArrivalsAssumption == MaxArrivals \in Nat

VARIABLES
    req,        \* each request: where it is, and the locals of __call__
    aggregate,  \* _aggregate of the middleware
    routes,     \* _routes: a function on the templates that have an entry
    gen,        \* the watched generator of each request
    seen,       \* by how much cache_info(), which counts all callers, has grown since
                \* each handler's call began
    own,        \* ghost: what the cache did in each handler's call
    handlers,   \* the route probe: outcomes, statuses, error types, cache events
    streams,    \* the generators' probe: outcomes
    open,       \* the sockets open
    sockets,    \* the WebSocket probe
    arrivals,   \* requests and sockets so far
    recorded,   \* ghost: how often the middleware recorded each request
    observed    \* ghost: how often each request's handler and generator were recorded

metricVars == <<req, aggregate, routes, gen, seen, own, handlers, streams, open, sockets,
               arrivals, recorded, observed>>

routeVars   == <<aggregate, routes, recorded>>
handlerVars == <<seen, own, handlers>>
genVars     == <<gen, streams>>
socketVars  == <<open, sockets>>

\* "idle" -> "routed" -> ("handler" -> "counted" ->) "app"; "last": the last chunk is
\* being sent.
Phase == {"idle", "routed", "handler", "counted", "app", "last", "over", "cancelled"}
Error(status) == status >= MinErrorStatus

Stats == [count : Nat, errors : Nat, streak : Nat, window : Seq({0, 1}), failed : Nat]
Info  == [hits : Nat, misses : Nat]
NoInfo == [hits |-> 0, misses |-> 0]

RequestsTypeOK ==
    /\ req \in [Request -> [phase : Phase, route : Route, status : Code \cup {499, 500},
                            started : BOOLEAN, done : BOOLEAN, gone : BOOLEAN]]
    /\ aggregate \in Stats
    /\ DOMAIN routes \subseteq Route \cup {OtherRoute}
    /\ \A key \in DOMAIN routes : routes[key] \in Stats
    /\ Cardinality(DOMAIN routes \ {OtherRoute}) <= MaxRoutes
    /\ gen \in [Request -> {"none", "running", "thrown", "suspended", "closing", "over"}]
    /\ seen \in [Request -> Info]
    /\ own \in [Request -> {"none", "hit", "miss"}]
    /\ handlers.stats \in Stats /\ streams \in Stats /\ sockets.stats \in Stats
    /\ open \subseteq Socket
    /\ arrivals \in 0 .. MaxArrivals

\* What the slot of a request holds before it has locals and after.
Slot(phase, route) ==
    [phase |-> phase, route |-> route, status |-> 500,
     started |-> FALSE, done |-> FALSE, gone |-> FALSE]

RequestsInit ==
    /\ req = [r \in Request |-> Slot("idle", CHOOSE route \in Route : TRUE)]
    /\ aggregate = NoStats
    /\ routes = << >>
    /\ gen = [r \in Request |-> "none"]
    /\ seen = [r \in Request |-> NoInfo]
    /\ own = [r \in Request |-> "none"]
    /\ handlers = [stats |-> NoStats, statuses |-> NoTally, types |-> NoTally, cache |-> {}]
    /\ streams = NoStats
    /\ open = {}
    /\ sockets = [stats |-> NoStats, active |-> 0, total |-> 0]
    /\ arrivals = 0
    /\ recorded = [r \in Request |-> 0]
    /\ observed = [r \in Request |-> [handler |-> 0, generator |-> 0]]

------------------------------------------------------------------------------
(* The middleware.                                                          *)

\* _get_or_create
Key(route) ==
    IF route \in DOMAIN routes \/ Cardinality(DOMAIN routes) < MaxRoutes THEN route ELSE OtherRoute

\* _record: of requests to health routes nothing is recorded.
Record(r, status) ==
    IF req[r].route \in HealthRoute THEN UNCHANGED routeVars
    ELSE LET key == Key(req[r].route)
             old == IF key \in DOMAIN routes THEN routes[key] ELSE NoStats
         IN  /\ aggregate' = Counted(aggregate, Error(status))
             /\ routes' = [k \in DOMAIN routes \cup {key} |->
                              IF k = key THEN Counted(old, Error(status)) ELSE routes[k]]
             /\ recorded' = [recorded EXCEPT ![r] = @ + 1]

\* A request arrives; a slot is free once the last request and its generator are over.
Arrive(r, route) ==
    /\ req[r].phase \in {"idle", "over", "cancelled"} /\ gen[r] \in {"none", "over"}
    /\ arrivals < MaxArrivals
    /\ arrivals' = arrivals + 1
    /\ req' = [req EXCEPT ![r] = Slot("routed", route)]
    /\ gen' = [gen EXCEPT ![r] = "none"]
    /\ recorded' = [recorded EXCEPT ![r] = 0]
    /\ observed' = [observed EXCEPT ![r] = [handler |-> 0, generator |-> 0]]
    /\ UNCHANGED <<aggregate, routes, handlerVars, streams, socketVars>>

\* The application has the request, not a handler, a generator or an awaited send.
InApp(r) == req[r].phase = "app" /\ gen[r] \notin {"running", "thrown"}

Unrecorded == UNCHANGED <<routeVars, handlerVars, genVars, socketVars, arrivals, observed>>

\* send_wrapper with http.response.start.  Awaiting the send touches locals only, so
\* it is one step; it fails with an OSError when the client has gone.
AppStarts(r, code, fails) ==
    /\ InApp(r) /\ ~req[r].started
    /\ req' = [req EXCEPT ![r].status = code, ![r].started = TRUE, ![r].gone = @ \/ fails]
    /\ Unrecorded

\* send_wrapper with a body chunk that is not the last: sent, nothing changes.
AppSendFails(r) ==
    /\ InApp(r) /\ req[r].started /\ ~req[r].done
    /\ req' = [req EXCEPT ![r].gone = TRUE]
    /\ Unrecorded

\* send_wrapper with the last body chunk
AppSendsLast(r) ==
    /\ InApp(r) /\ req[r].started /\ ~req[r].done
    /\ req' = [req EXCEPT ![r].phase = "last", ![r].done = TRUE]
    /\ Unrecorded

\* The send of the last chunk returns or raises: recorded either way.
LastSent(r) ==
    /\ req[r].phase = "last"
    /\ Record(r, req[r].status)
    /\ req' = [req EXCEPT ![r].phase = "app"]
    /\ UNCHANGED <<handlerVars, genVars, socketVars, arrivals, observed>>

AppReturns(r) ==
    /\ InApp(r)
    /\ IF req[r].done THEN UNCHANGED routeVars ELSE Record(r, req[r].status)
    /\ req' = [req EXCEPT ![r] = Slot("over", @.route)]
    /\ UNCHANGED <<handlerVars, genVars, socketVars, arrivals, observed>>

\* The status of a request whose application raised; disconnect: a ClientDisconnect.
Failure(r, disconnect) ==
    IF ~(req[r].gone \/ disconnect) THEN 500
    ELSE IF req[r].started THEN req[r].status ELSE CLIENT_CLOSED_REQUEST

\* Mutated form: what is raised after the last chunk records the request again.
TwiceRaises(r, disconnect) ==
    /\ InApp(r)
    /\ Record(r, Failure(r, disconnect))
    /\ req' = [req EXCEPT ![r] = Slot("over", @.route)]
    /\ UNCHANGED <<handlerVars, genVars, socketVars, arrivals, observed>>

AppRaises(r, disconnect) ==
    /\ InApp(r)
    /\ IF req[r].done THEN UNCHANGED routeVars ELSE Record(r, Failure(r, disconnect))
    /\ req' = [req EXCEPT ![r] = Slot("over", @.route)]
    /\ UNCHANGED <<handlerVars, genVars, socketVars, arrivals, observed>>

\* The task is cancelled: no `except Exception` sees it, and only the send of the
\* last chunk records in a finally.  A handler or generator that runs ends with it.
Cancelled(r) ==
    /\ req[r].phase \notin {"idle", "over", "cancelled"}
    /\ IF req[r].phase = "last" THEN Record(r, req[r].status) ELSE UNCHANGED routeVars
    /\ req' = [req EXCEPT ![r] = Slot("cancelled", @.route)]
    /\ seen' = [seen EXCEPT ![r] = NoInfo]
    /\ own' = [own EXCEPT ![r] = "none"]
    /\ gen' = [gen EXCEPT ![r] = IF @ \in {"running", "thrown"} THEN "over" ELSE @]
    /\ UNCHANGED <<handlers, streams, socketVars, arrivals, observed>>

------------------------------------------------------------------------------
(* The watched handler (async_wrapper, sync_wrapper).                       *)

\* No watched handler, or it was not called: a route without one, an unmatched or
\* invalid request.
SkipHandler(r) ==
    /\ req[r].phase = "routed"
    /\ req' = [req EXCEPT ![r].phase = "app"]
    /\ Unrecorded

HandlerStarts(r) ==
    /\ req[r].phase = "routed" /\ req[r].route \in Watched
    /\ req' = [req EXCEPT ![r].phase = "handler"]
    /\ UNCHANGED <<routeVars, handlerVars, genVars, socketVars, arrivals, observed>>

\* The handler's cache counts the call, before it awaits the value it misses.
CacheCounts(r, what) ==
    /\ req[r].phase = "handler"
    /\ req' = [req EXCEPT ![r].phase = "counted"]
    /\ own' = [own EXCEPT ![r] = what]
    /\ seen' = [q \in Request |->
                  IF req[q].phase \notin {"handler", "counted"} THEN seen[q]
                  ELSE IF what = "hit" THEN [seen[q] EXCEPT !.hits = @ + 1]
                  ELSE [seen[q] EXCEPT !.misses = @ + 1]]
    /\ UNCHANGED <<routeVars, handlers, genVars, socketVars, arrivals, observed>>

\* Mutated form: what other calls counted is not noticed.
HitsAttributed(r) ==
    {[said |-> IF seen[r].hits > 0 THEN "hit" ELSE "miss", was |-> own[r]]}

\* _record_cache_delta: a call is attributed only if nothing else was counted meanwhile.
\* The events are kept as a set, each with what it was (ghost).
Attributed(r) ==
    IF seen[r].hits + seen[r].misses # 1 THEN {}
    ELSE {[said |-> IF seen[r].hits = 1 THEN "hit" ELSE "miss", was |-> own[r]]}

\* PassiveProbe._record with the status the route probe classified
Observe(probe, status, types) ==
    [stats    |-> Counted(probe.stats, Error(status)),
     statuses |-> Tallied(probe.statuses, status \div 100),
     types    |-> IF Error(status) /\ types THEN Tallied(probe.types, "exception") ELSE probe.types,
     cache    |-> probe.cache]

HandlerReturns(r, code) ==
    /\ req[r].phase = "counted"
    /\ req' = [req EXCEPT ![r].phase = "app"]
    /\ handlers' = [Observe(handlers, code, FALSE) EXCEPT !.cache = @ \cup Attributed(r)]
    /\ observed' = [observed EXCEPT ![r].handler = @ + 1]
    /\ seen' = [seen EXCEPT ![r] = NoInfo]
    /\ own' = [own EXCEPT ![r] = "none"]
    /\ UNCHANGED <<routeVars, genVars, socketVars, arrivals>>

\* A ClientDisconnect (499; an HTTPException below 500 counts alike) or any other
\* exception (500), perhaps before the cache saw the call.
HandlerRaises(r, code) ==
    /\ req[r].phase \in {"handler", "counted"}
    /\ req' = [req EXCEPT ![r].phase = "app"]
    /\ handlers' = Observe(handlers, code, TRUE)
    /\ observed' = [observed EXCEPT ![r].handler = @ + 1]
    /\ seen' = [seen EXCEPT ![r] = NoInfo]
    /\ own' = [own EXCEPT ![r] = "none"]
    /\ UNCHANGED <<routeVars, genVars, socketVars, arrivals>>

------------------------------------------------------------------------------
(* The watched generator (async_gen_wrapper, gen_wrapper).                  *)

GenStep(r, from, to) ==
    /\ gen[r] = from
    /\ gen' = [gen EXCEPT ![r] = to]
    /\ UNCHANGED <<req, routeVars, handlerVars, streams, socketVars, arrivals, observed>>

GenStarts(r) ==
    /\ req[r].phase = "app" /\ ~req[r].done /\ req[r].route \in Streamed
    /\ GenStep(r, "none", "running")
GenYields(r)  == GenStep(r, "running", "suspended") \/ GenStep(r, "thrown", "suspended")
GenResumes(r) == req[r].phase = "app" /\ GenStep(r, "suspended", "running")
GenThrown(r)  == req[r].phase = "app" /\ GenStep(r, "suspended", "thrown")

\* Closed early, by its consumer or, when it was abandoned, by the event loop.
GenCloses(r) == GenStep(r, "suspended", "closing")

\* A cancellation that reaches it at a yield or as it closes ends it unrecorded.
GenDropped(r) ==
    /\ req[r].phase = "cancelled"
    /\ GenStep(r, "suspended", "over") \/ GenStep(r, "closing", "over")

GenOver(r, isError) ==
    /\ gen' = [gen EXCEPT ![r] = "over"]
    /\ streams' = Counted(streams, isError)
    /\ observed' = [observed EXCEPT ![r].generator = @ + 1]
    /\ UNCHANGED <<req, routeVars, handlerVars, socketVars, arrivals>>

\* It returns, or closes without an exception.
GenReturns(r) == gen[r] \in {"running", "thrown", "closing"} /\ GenOver(r, FALSE)

\* An exception of its own.
GenRaises(r) == gen[r] \in {"running", "thrown", "closing"} /\ GenOver(r, TRUE)

\* The exception thrown in comes back out unchanged: the caller's, not the generator's.
GenRethrows(r) == gen[r] = "thrown" /\ GenOver(r, FALSE)

------------------------------------------------------------------------------
(* The watched socket (FastAPIWebSocketProbe.watch).                        *)

SocketOpens(s) ==
    /\ s \notin open /\ arrivals < MaxArrivals
    /\ arrivals' = arrivals + 1
    /\ open' = open \cup {s}
    /\ sockets' = [sockets EXCEPT !.active = @ + 1, !.total = @ + 1]
    /\ UNCHANGED <<req, routeVars, handlerVars, genVars, observed>>

\* Returned, disconnected or cancelled (no error), or raised.
SocketCloses(s, isError) ==
    /\ s \in open
    /\ open' = open \ {s}
    /\ sockets' = [sockets EXCEPT !.active = @ - 1, !.stats = Counted(@, isError)]
    /\ UNCHANGED <<req, routeVars, handlerVars, genVars, arrivals, observed>>

------------------------------------------------------------------------------
(* What the probes' checks make of it (they only read, without awaiting): the *)
(* recent calls decide, whatever came before.  max_avg_rtt_ms is unset.     *)

Judged(stats, exceeds) ==
    IF stats.count = 0 THEN "no_data" ELSE IF exceeds THEN "unhealthy" ELSE "healthy"

\* The snapshot's rate is rounded to four decimals.
AggregateStatus == Judged(aggregate, ExceedsRounded(aggregate, MaxErrors, HalfRoundsUp))
HandlerStatus   == Judged(handlers.stats, ExceedsRate(handlers.stats, MaxErrors))

\* Open sockets have not had the chance to fail, but they are data.
SocketStatus ==
    IF sockets.total = 0 THEN "no_data"
    ELSE IF ExceedsRate(sockets.stats, MaxErrors) \/ sockets.active < MinActive
         THEN "unhealthy" ELSE "healthy"

------------------------------------------------------------------------------
RequestsNext ==
    \/ \E r \in Request :
          \/ \E route \in Route : Arrive(r, route)
          \/ \E code \in Code, fails \in BOOLEAN : AppStarts(r, code, fails)
          \/ \E code \in Code : HandlerReturns(r, code)
          \/ \E code \in {CLIENT_CLOSED_REQUEST, 500} : HandlerRaises(r, code)
          \/ AppSendFails(r) \/ AppSendsLast(r) \/ LastSent(r)
          \/ AppReturns(r) \/ Cancelled(r)
          \/ \E disconnect \in BOOLEAN : AppRaises(r, disconnect)
          \/ SkipHandler(r) \/ HandlerStarts(r)
          \/ \E what \in {"hit", "miss"} : CacheCounts(r, what)
          \/ GenStarts(r) \/ GenYields(r) \/ GenResumes(r) \/ GenThrown(r)
          \/ GenCloses(r) \/ GenDropped(r)
          \/ GenReturns(r) \/ GenRaises(r) \/ GenRethrows(r)
    \/ \E s \in Socket : SocketOpens(s) \/ \E isError \in BOOLEAN : SocketCloses(s, isError)

RequestsSpec == RequestsInit /\ [][RequestsNext]_metricVars

------------------------------------------------------------------------------
\* Each request is recorded once, however its sends, its handler and its client
\* end, unless it was cancelled; its handler and its generator are, too.
RecordedOnce ==
    \A r \in Request :
        LET counts == IF req[r].route \in HealthRoute THEN 0 ELSE 1
        IN  /\ recorded[r] <= counts
            /\ req[r].phase = "over" => recorded[r] = counts
            /\ recorded[r] = 1 => req[r].done \/ req[r].phase \in {"over", "cancelled"}
            /\ observed[r].handler <= 1 /\ observed[r].generator <= 1
            /\ observed[r].handler = 1 => req[r].phase \notin {"routed", "handler", "counted"}
            /\ observed[r].generator = 1 => gen[r] = "over"

Total(field) == SumFunction([key \in DOMAIN routes |-> routes[key][field]])

\* The probes are failing exactly when too many of the last calls failed, or too few
\* sockets are open; nobody's old calls, and no call that is still going on, decide.
\* (The middleware's, whose rate is rounded, may overlook up to 0.005 percent.)
StatusesAgree ==
    LET Failures(stats) == Cardinality({i \in DOMAIN stats.window : stats.window[i] = 1})
        Failing(stats)  == 100 * Failures(stats) > MaxErrors * Len(stats.window)
    IN  /\ AggregateStatus = "unhealthy" => Failing(aggregate)
        /\ 20000 * Failures(aggregate) > (200 * MaxErrors + 1) * Len(aggregate.window)
              => AggregateStatus = "unhealthy"
        /\ (HandlerStatus = "unhealthy") = Failing(handlers.stats)
        /\ (AggregateStatus = "no_data") = (DOMAIN routes = {})
        /\ (SocketStatus = "unhealthy") =
              (sockets.total > 0 /\ (Failing(sockets.stats) \/ Cardinality(open) < MinActive))

\* Every counter says what the calls it is about would: incremental counts agree
\* with their windows, the routes fit their table and add up to the aggregate,
\* the open sockets are counted, a cache event is that of the call it was recorded
\* for, and the probes' statuses follow.
CountsAgree ==
    /\ StatsAgree(aggregate) /\ StatsAgree(handlers.stats)
    /\ StatsAgree(streams) /\ StatsAgree(sockets.stats)
    /\ \A key \in DOMAIN routes : StatsAgree(routes[key])
    /\ TallyAgrees(handlers.statuses) /\ TallyAgrees(handlers.types)
    /\ Cardinality(DOMAIN routes \ {OtherRoute}) <= MaxRoutes
    /\ Total("count") = aggregate.count /\ Total("errors") = aggregate.errors
    /\ sockets.active = Cardinality(open)
    /\ sockets.total = sockets.active + sockets.stats.count
    /\ \A event \in handlers.cache : event.said = event.was
    /\ StatusesAgree
==============================================================================
