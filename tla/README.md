# fastapi-watch in TLA+

Models, model-checking runs and proofs for
[`src/fastapi_watch`](../src/src/fastapi_watch): a health-check registry for
FastAPI. It runs probes, caches their results, suspends failing ones behind a
circuit breaker, tells alerters about status changes and writes history to a
storage backend, all on one asyncio event loop with a small thread pool for
blocking calls.

Paths such as `registry.py:1797` are relative to `src/src/fastapi_watch/`.
The correspondence of every definition to source lines is in `PROJECT.json`
(`map`).

## 1. Inventory

| Component | State it keeps | Operations | Talks to |
|---|---|---|---|
| **Check runs and results** (`registry.py` 1387-1936) | `_inflight`, `_abandoned_checks`, `_startup_inflight`, `_last_results`, `_probe_last_run`, `_circuit_err_count`, `_circuit_open_until`, `_poll_interval_ms` | `_get_results`, `_execute_probes`, `_shared_run`, `_run_probe`, `_guarded_check`, `_cancel_check`, `_check_or_cached`, `_check_startup_probes`, `reset_circuit`, `set_poll_interval`, `_forget_unregistered` | probes (await), storage (`get_latest`, writes), alert pipeline (each result of a run) |
| **Alert pipeline** (`registry.py` 2392-2634) | `_probe_states`, `_alerted_states`, `_alert_last_sent_at`, `_alert_pending`, `_alert_queue`, `_alert_worker`, maintenance flags | `_fire_state_changes`, `_send_to_alerters`, `_alert_loop`, `_send_due_alerts`, `_dispatch_alert`, maintenance, its part of `_shutdown` | check runs (called by), alerters (await), storage (`claim_alert`, `append_alert`) |
| **Background storage writes** (`registry.py` 1500-1581, 1938-1980) | `_unwritten`, `_result_writers`, `_unwritten_alerts`, `_alert_writer`, `_written_names`, `_forget_task` | `_store_result`, `_drain_results`, `_store_alert`, `_drain_alerts`, `_forget_unregistered`, `_flush_writes` | storage backends |
| **Thread pool and SingleFlight** (`_executor.py`) | `_work`, `_idle`, `_threads`, `_shutdown`, `SingleFlight._future` | `submit`, `_worker`, `shutdown`, `SingleFlight.run`, `run_render` | probes with blocking clients |
| **Poll loop, streams, shutdown** (`registry.py` 1872-1891, 1997-2203, 2293-2386) | `_active_connections`, `_poll_task`, `_shutting_down`, slots | `_on_connect`, `_on_disconnect`, `_ensure_background_polling`, `_event_stream`, signal handler, `_shutdown` | everything above |
| **Cross-replica alert claims** (`registry.py` 2523-2595, `redis_storage.py` 35-39, 396-410) | a key per probe in Redis | `claim_alert` | alert pipeline of each replica |
| **Storage backends** (`storage.py`, `redis_storage.py`) | latest, history, alerts, index of names | `set_latest`, `append_history`, `append_alert`, `forget`, reads | background writes, endpoints |
| **Request metrics** (`middleware.py`) | `_aggregate`, `_routes`, the locals of each `__call__` | `__call__`, `send_wrapper`, `_record`, `_get_or_create` | the application, `RequestMetricsProbe` (reads) |
| **Passive statistics** (`probes/base.py`, `probes/route.py`, `probes/websocket.py`) | rolling windows with incremental counters, cache events | `watch`, `_record`, `_record_cache_delta`, `_record_close` | watched handlers and generators, check runs (`check`) |
| **Alerters and webhooks** (`registry.py` 2597-2630, `alerts.py` 73-80, 220-367) | the tasks of a dispatch, the alert pool's queue and threads; of each request the timer, the sockets and `expired` | `_dispatch_alert`, `_post_json`, `_connect_within`, `_Deadline` | alert pipeline (called by), thread pool, receivers |
| **Route monitoring and registration** (`registry.py` 120-260, 966-1000, 1120-1304, `probe_group.py`) | `_probes`, the routes' endpoints and markers, the caches of included routers | `add`, `include`, `discover_routes`, `watch_router`, `_monitor_routes`, `ProbeGroup` | check runs (what there is to check), passive statistics (what the wrappers record) |
| **HTTP routes** (`registry.py` 1346-1373, 2205-2287, 2636-3050) | `_unknown_requests`, `_maintenance_active`, `_maintenance_until` | `/ready`, `/status`, their streams, `/maintenance`, `_unmatched_filters` | check runs (await), streams |
| Event loop probe, driver probes, auth, dashboard page, Prometheus text | little or none | one request to a dependency; request parsing and formatting | check runs |

How they meet: a health request (or a pass of the poll loop, or a stream)
starts or joins **shared runs**; a run checks its probe under a deadline,
keeps the result in the process, hands it to the **storage writers** and then
to the **alert pipeline**, and ends. Everything but the thread pool runs on the
event loop, so the code between two awaits is atomic. An action of a model is
that code.

Hard behaviours, and what makes each component correct:

- *Check runs.* A check may hang and ignore its cancellation; a request may
  disconnect while its shielded runs go on; probes are replaced while checked;
  results are cleared while awaited. Correct when no object is checked twice
  at once, a request is always answered, with a result of every registered
  probe, an open circuit suspends its probe, and a failure that is over is
  forgotten.
- *Alerts.* Flapping, coalescing, a bounded queue, callbacks awaited between a
  status change and its alert, maintenance, shutdown, restart. Correct when
  the alerts of a probe form one chain of transitions, the worker's wait is
  never longer than the next coalesced alert, the rate limit holds and the
  final status is announced.
- *Storage writes.* Slow or failing calls, newest-wins coalescing, `forget()`
  racing a write. Correct when nothing waits without a writer, the backend
  never goes back in time, records stay in order, and data written is data
  that will be forgotten.
- *Streams.* Responses and generators end separately; the poll loop is started
  and cancelled from six places. Correct when the limit holds, polling goes on
  exactly as long as somebody streams, and a signal ends every stream.
- *Replicas.* Changes noticed at different times, claims that fail, lapse or
  outlive the replica that made them. Correct when each change is sent once
  and the last alert is of the true status.
- *Traffic.* A request ends in many ways (last chunk, return, exception, lost client,
  cancellation) and overlapping calls share a cache's counters. Correct when each
  request is recorded once and each counter equals a recount of its window.
- *Thread pool.* Real threads: `put`, `acquire` and `release` interleave.
  Correct when a probe occupies at most one thread, no call waits behind a
  hung one below the cap, and queued calls are made.
- *Webhooks.* The event loop, pool threads and a timer per request: the timer
  fires while a socket is connected and handed over, and a dispatch gives up on
  requests that are queued or running. Correct when an expired request is cut
  off, receivers get alerts in order and nothing is held up for ever.
- *Routes.* Handlers are wrapped, and wrapped again, by calls in any order, some
  of which fail half way, while routers serve endpoints they cached. Correct when
  probes and monitored routes stay in one-to-one correspondence, requests reach
  the handlers installed last, and priorities and names hold.
- *Health endpoints.* A request judges its filters and reads its results after
  awaits, in which probes report, come and go. Correct when a 200 of `/ready` is
  earned and a 404 is deserved.

## 2. Modules

| Module | Models | Status |
|---|---|---|
| `CheckRunner` | check runs, the startup run, the breaker, results held and answered | done |
| `CheckRunner_proofs` | its theorems | done |
| `AlertPipeline` | status changes, coalescing, queue, worker, maintenance, restart | done |
| `AlertPipeline_proofs` | its theorems | done |
| `StorageWriter` | background writers, `forget()`, shutdown flush | done |
| `ThreadPool` | `_DaemonThreadPool`, `SingleFlight` | done |
| `ReplicaAlerts` | `claim_alert` and its use by replicas that share a storage | done |
| `Streams` | SSE streams, slots, the poll task, signal and shutdown | done |
| `Retention` | collections bounded by count and age | done |
| `ProbeStorage` | what a storage backend promises: the abstract store | done |
| `MemoryStorage` | `InMemoryProbeStorage` | done |
| `RedisStorage` | `RedisProbeStorage` | done |
| `StorageBackends` | composes the two, each implementing `ProbeStorage` | done |
| `StorageBackends_proofs` | its theorems: the two refinements, the index, the types | done |
| `StatsWindow` | rolling windows counted incrementally | done |
| `RequestMetrics` | the metrics middleware with a watched handler, generator and socket | done |
| `RouteMonitor` | `add`, `include`, groups, `discover_routes`, `watch_router` | done |
| `RouteMonitor_proofs` | its theorems | done |
| `Endpoints` | `/ready`, `/status`, filters, maintenance, unknown names | done |
| `Webhooks` | dispatch to several alerters, webhook requests and their deadlines | done |
| `Delivery_proofs` | theorems of `Webhooks`, `ThreadPool` and `ReplicaAlerts` | done |
| `Background_proofs` | theorems of `Streams` and `StorageWriter` | done |
| `Http_proofs` | theorems of `Endpoints` and `RequestMetrics` | done |
| `SequenceOps` | leaving elements out of a sequence | done |
| `SequenceOps_proofs` | its laws; inductions and folds | done |

A module of proofs may be about several components, which therefore name their parts
apart: `PoolSpec`, `ReplicaSpec`, `WriterSpec`, `RequestsSpec`.

`MC<Module>` extends a module with the model values and symmetries of its
`.cfg` files; it defines nothing that models code.

### CheckRunner

State: `run[p]` is where the shared run of object `p` (its task in `_inflight`)
stands; `stray` counts the checks of an object that outlived their grace
period and `abandoned` says whether `_abandoned_checks` has a key for it: the
two are separate because the claim "at most one per probe" is about their
relation. `held`, `age`, `errs`, `open` are the per-name dictionaries;
`phase`, `waiting`, `answer` describe each request. `asked` is a ghost: the
objects registered during the whole of a request whose results were not emptied
meanwhile.

Actions: `Request`/`Answer`/`EndRequest` are `_get_results` before and after
its await; `StartRuns` is every other way to start runs (`run_all`, a pass of
the poll loop, `_unmatched_filters`). `Begin*`, `Lookup*`, `CheckReturns`,
`Deadline`, `GraceStops`, `GraceOver`, `RunEnds`, `RunForgotten` are the steps
of `_run_probe` between its awaits, in order; `Startup*` those of
`_check_startup_probes`, which bypasses the breaker. `Discover`,
`ForgetUnregistered`, `ResetCircuit`, `SetPollInterval` are operator calls,
`HealthChanges` the environment. `options` is what the application chose: storage in
memory, where a result is `latest` at once, or another one, which is written in
the background by writers that may lag and fail (`StorageWriter`) and by other
replicas, so that `get_latest` may find any result there (`Readable`), an older one of
this process included (`by = "storage"`); and the probes without a deadline.

Time is not a clock: `Deadline`, `GraceOver`, `CooldownOver`, `IntervalOver`
are the moments a timer fires, in any order. A healthy dependency answers
before its deadline (`Deadline` needs `health # "up"`), and with
`probe_timeout=None` there is none (`options.unbounded`).

### AlertPipeline

State as in the code, with monotonic times kept as distances from now, so
that no clock needs a bound. `fire[n]` is a result whose callbacks are being
awaited; `told` is a ghost, the last status handed to the alerters.
`ObserveSame`, `ObserveChange` and `CallbacksDone` are `_fire_state_changes`
(before and after the callbacks), each ending in `_send_to_alerters`;
`WorkerTop` is `_send_due_alerts` with the computation of the timeout (there
is no await between them), `WorkerWoken`, `WorkerTakes`, `WorkerTimeout`,
`WorkerDispatched` the rest of `_alert_loop`. `ShutdownBegins`, `Drained`,
`DrainTimeout`, `Restart` are the alert part of `_shutdown` and the next
lifespan; `Signal` is the chained SIGTERM handler.

### StorageWriter

Results and alert records are numbered. `writing[n]` is what the writer task
of `n` holds, `unwritten[n]` what waits. A writer makes two calls
(`LatestLands`, `HistoryLands`) and either may have taken effect or not when
`WriterReturns`. A call that raised will not take effect any more, one that timed out may:
`asyncio.wait_for` gives up the wait, not what the backend does with a command
already sent or a thread already running. `GivenUp` therefore moves any of the calls
still pending into `late`, from where they land at any time, after later calls too
(`LateResultLands`, `LateForgetLands`, `LateAlertLands`). `raced` is a ghost, the
names written by a run that ended while `forget()` of them was under way, or by a
late call after it.

### ThreadPool

Calls are submitted from the event loop one at a time (`_lock`); `Put` and the
choice between an idle worker and a new one are separate steps, as the threads
see them. `shutdown` is stepwise: the workers go on taking items while it
drains the queue.

### ReplicaAlerts

One probe, several replicas, one key in Redis. `seen` is each replica's
`_alerted_states`, `pending` its queue, whose head is being claimed, `sending`
what it dispatches. A claim is one Lua script, hence one step: `ClaimWins`,
`ClaimRefused`, or `ClaimFails`, after which the replica sends anyway and the
key may or may not have been set. `Lapse` is the end of the window; `Restart`
loses everything a replica knew. `lastSent` and `times` are ghosts of what went
out; `orderly` says that replicas kept up so far, the premise under which the
documentation gives the window its length.

### Streams

`phase[s]` covers both halves of a stream: its response, which holds a slot from
`_open_stream` on, and its generator, which counts itself in
`_active_connections` once it starts. The two end separately: a task cancelled
inside the generator runs its `finally`; one cancelled while it sends leaves the
generator suspended at its `yield` (`"dropped"`), and the event loop closes it
later (`Finalize`); a response outlives its generator by its last send
(`"closing"`). `poll` is what `_poll_task` refers to; `Connected`, `Disconnected`
and `Ensured` are the functions that change it, composed in the order in which
one uninterrupted piece of code calls them. `lost` says that a loop runs which
`_poll_task` no longer refers to. `signals` is what a SIGTERM does: nothing before the
handler is installed, which happens once; set the flag and cancel the tasks on the loop
it was installed on; or only set the flag, if it was installed outside a loop
(`set_started()` in sync code) or that loop is closed (a later lifespan on a new one,
`Restart`). The server is external: it hands over requests
until the lifespan's end begins and ends it when no response is still to start
(uvicorn drains connections first). Probes with an interval of their own are only
added.

### StorageBackends

`ProbeStorage` is the abstract store: what `get_latest`, `get_history` and
`get_alerts` show, as sequences of ages, and how each call and the passing of time
change it. `MemoryStorage` and `RedisStorage` have the state of the classes;
`Shown*` are their reads and the refinement mapping. In memory counts are bounded on
writes and ages on reads, partly by removing (`ReadLatest`, `ReadAlerts`); the Redis
backend does both in the transaction of a write, again on reads, and lets whole
keys expire. `StorageBackends` makes the same calls on both. A refinement alone would
accept a lost write as a stutter, so `MemoryKeepsPromise` and `RedisKeepsPromise` add
that each call has the effect promised of it (`MemoryCalls`, `RedisCalls`).

The in-memory backend counts ages from the write, the Redis one from the check, so
`age` (how old the result is when written) is 0 in one mapping and up to `MaxLag` in
the other: a late result sorts behind newer ones only in Redis. `wait` is what a
Redis call spent between taking its `now` and its transaction. A key's expiry is
`left`; Redis removes a key once it has passed (external, `Later`).

### RequestMetrics

`StatsWindow` has the counters of `_RouteStats`, `PassiveProbe` and the WebSocket
probe, which are kept alike (the code writes them out three times), and the tables
of statuses and error types. `RequestMetrics` is traffic through them: `req[r]`
holds the locals of `RequestMetricsMiddleware.__call__` and where the request is;
`App*` are what the application does with the wrapped `send`, `LastSent` the
`finally` around the last chunk, `AppReturns` and `AppRaises` the end of
`__call__`. `Handler*` and `Gen*` are the wrappers of `watch` around a cached
handler and a generator (a streamed body or a `yield` dependency), `Socket*` that
around a WebSocket handler. The application, the client and the handler's cache
are the environment. A cancelled request is not recorded: `except Exception` does
not see a `CancelledError`, and only the send of the last chunk has a `finally`.
`recorded` and `observed` are ghosts that count what was recorded; `seen` is what
`cache_info()` grew by since each call of the handler began, and a cache event
carries, as a ghost, what the call it was recorded for had found. `AggregateStatus`,
`HandlerStatus` and `SocketStatus` are the statuses the probes' checks derive; the
first judges a rate rounded to four decimals (`ExceedsRounded`), the others the
exact one. Limits are whole percents.

### RouteMonitor

`Walk` is `_iter_app_routes` over a tree of routers: a route is met once for each
path that leads to it, and a candidate is a route with such a path. `handler[r]` is
the chain of probes around a route's endpoint, outermost first, and `marker[r]` its
`_fastapi_watch`. One call of `_monitor_routes` is one step, since it never awaits:
`MonitorAll` folds `MonitorOne`, the body of its loop, over the candidates, with the
locals of the loop in a record. A call that raises keeps what the loop did before
(`aborted`), and the probes of a group that was not included are `lost`, both ghosts.
`cache[c]` is what an included router serves: FastAPI fills it at the first request
(external, `Serve`) and `ResetCaches` empties it. Automatic probes of one name are
told apart by `copy`, which has no counterpart in the code. `RouterCandidates` also
has the fallback to the router's own routes, which the instance does not reach,
as `Add` and `Include` have bad names, which the user's probe does not have there.
Which routes a filter lets through (`Selections`) and the names `name_fn` gives are
inputs. `watch_router` finds the application's routes by handler: a route outside
the router that serves the same function is monitored, too.

### Endpoints

`phase` follows one request: `asked` until its handler starts, `probing` while
`_unmatched_filters` awaits the probes that have not reported, `waiting` while
`_get_results` awaits its runs. `Decide` is everything from the filters to the next
await. Meanwhile probes report (`Reports`: what a run does is `CheckRunner`'s
subject, so a report and the end of its run are one step), are registered, dropped
and forgotten, the interval changes, and maintenance and the grace period begin and
end. `maint.until` is where the window's end stands against the clock, and `aged` how
many of the unknown names are an hour old. `requested`, a ghost, orders the names
by the time they were asked for, which the code reads from the order of a dict.
`throughout`, `known` and `cleared` are ghosts for the properties.

### Webhooks

The event loop (`Dispatch`, `AllNotified`, `GiveUp`) is `_dispatch_alert` for one alert
after the other; `GiveUp` stands for its timeout and for the cancellation of the
worker. `stage[p]` is where the pool thread of a post (an alerter and an alert)
stands in `_post_json`, `_connect_within` and `_Deadline.watch`; the timer is a
thread of its own whose `Expire` (under the lock) and `ShutDown` (after it) may come
between any two of them. `queue` is the pool's: cancelling a task leaves its
post there, and the thread that takes it skips it (`SkipCancelled`). `conn` is the connection, which `socket.shutdown` on a
duplicate cuts for both. The receiver is external: it may take the request while the
connection is open and owes no answer.

## 3. Runs

| Run | Properties | Shows |
|---|---|---|
| `checks` | `AtMostOneCheck` `WaitersHaveRuns` `OpenCircuitSuspends` `AnswersAreComplete` `RequestsAreAnswered` `FailuresClear` | A probe with a circuit breaker and a startup probe of the same dependency, under one name, with in-memory storage or one written in the background and shared, with deadlines or without: no object is checked twice at once, no joined run is a lost wake-up, an open circuit suspends its probe, answers leave no probe out, hung checks that have a deadline keep no request waiting, and a failure that is over is forgotten. |
| `alerts_safety` | `ChainIsContiguous` `NoLostWakeup` `FlapLimited` | Two probes share the queue and the worker, one of them may be forgotten, and the application may run again: alerts form contiguous chains, the worker never sleeps past a coalesced alert, and no two alerts of a probe are queued within the interval. |
| `alerts_live` | `CoalescedIsSent` `FinalStateAnnounced` | One probe with three statuses, through restarts: a coalesced change is sent or undone without any further check, except when the queue is full, alerts are off or the worker of its lifespan is gone, and as long as checks go on the alerters are in the end told the final status. |
| `replicas` | `SentOnce` `FinalIsSent` | Two replicas, three statuses and four changes, with claims that lapse: each change is sent once as long as replicas keep up, through restarts too, and unless one restarts or a claim fails the last alert is of the true status however they lag. |
| `storage` | `NoResultLeftBehind` `TrackedUnlessRaced` `AlertsStoredInOrder` `StoreNeverGoesBack` | Results of two names and alert records through a backend whose calls fail, time out and may take effect late, with unregistration, forget() and a flush at shutdown: the newest result is always on its way, only forget() or a call that had timed out takes the backend back in time, what is kept will be forgotten, and records are written in order, none twice. |
| `streams` | `StreamsLimited` `PollingFollowsStreams` `PollingIsOwned` `StreamsEnd` | Three streams over two slots while the poll interval is switched, signals arrive, with a handler installed on the loop, off it or on a former one, and lifespans end and begin: the limit holds, polling goes on exactly as long as somebody streams, no poll loop is lost or outlives the shutdown, and after a signal every stream ends, or where the handler only sets the flag every one that is not blocked. |
| `backends` | `IndexCovers` `MemoryKeepsPromise` `RedisKeepsPromise` | Two probes, both backends under the same calls, with results that are old when written and calls that wait for a connection: each backend implements the abstract store call by call, and the index of names lists whatever a read is to show. |
| `requests` | `RecordedOnce` `CountsAgree` | Two requests at a time, three arrivals, through starts, chunks, exceptions, lost clients and cancellations, with a cached handler, a streaming generator and a socket: each request is recorded once, and every counter, window, table and probe status agrees with the calls it is about. |
| `pool` | `OneThreadPerOwner` `NoWaitBelowCap` `CallsAreMade` | Three probes and two workers: a probe holds at most one thread, below the cap a queued call always has a worker coming for it, and every queued call is made or cancelled as long as calls return, through cancellations and a shutdown. |
| `routes` | `ProbesMatchRoutes` `ServedAsMonitored` `HandlersHaveOwnNames` `RefreshKeepsNames` `PriorityHolds` | discover_routes and watch_router in any order and with any options over a tree with a router mounted twice, same-named handlers, a handler watched by hand, a late route and a name_fn that raises: probes and routed handlers stay in one-to-one correspondence, are served, keep the priorities and keep their names. |
| `endpoints` | `UnknownAreMostRecent` `ReadyIsEarned` `FiltersAreExact` | A request for each endpoint with names and tags, known, mistyped and self-reported, while probes report, are dropped, registered and forgotten, and maintenance, the grace period and the interval change: a 200 of /ready is earned, and filters are refused exactly when they are wrong. |
| `webhooks` | `CutAtDeadline` `ReceivedInOrder` `AlertsFlow` | Two alerts to two receivers, one without a timeout, over two threads, with a timer that may fire between any two steps of a request: an expired request is cut off, receivers get the alerts in order, and neither dispatches nor threads are held for ever. |

**Bounds.** `checks` has one request at a time, one regular and one startup probe.
Joins still happen: `StartRuns` starts the runs a request joins, and a request may
join the run that the one before it, disconnected, has left behind. The two probes
share a name, so that they share the breaker and the results besides the
object-keyed state. Its `Options` are both kinds of storage, with a deadline for both
probes and for none. `Threshold = 2` is the least for which
a failure may leave the circuit closed; `errs` saturates there, as nothing reads
it beyond. Alert intervals of 2 ticks give a tick inside the interval and one at
its end; three statuses are the least for which a coalesced change may end
elsewhere than it started; a queue of two places is full after as many
changes; in `alerts_live`, which follows one probe through restarts, one place is.
`storage` makes four results and alert records in all (`MaxMade`), in every mixture:
three results of one name put one in the writer, one in waiting, and
one that replaces it, or a write that timed out behind two later ones, and leave one
more for the other name, which is also there for `forget()` to spare; four alert
records overflow a backlog of two behind the one being written. One call at
a time is late (`MaxLate`): every property speaks of one name, or of the alerts, and of
its newest write against any late one. Two
replicas are enough for a claim to be someone else's. Three streams on two
slots have one refused while one ends. Three owners on two workers exceed the
cap. Two entries of history with a time-to-live of two ticks, written up to a tick
late, are evicted by count, by age and by their key's expiry (`Margin`); the
alerts go through the same operators with a time-to-live of 0, so that both
regimes are taken. `MaxKept` bounds the entries in Redis before a write, so that one
collection is full at a time. Three arrivals on two slots
have two requests overlap and a third fill a window of two and evict from it; two counted
routes over a table of one use `<other>`. `MaxErrors` is 50, so that a
window of two with one error is at the bound. `routes` has two routes of the
application's own, and a sub-application mounted twice with a router of two, so that
a route object is met twice; two handlers have one name; one route has a
`HealthRegistry`'s handler, one `@probe.watch`, one is attached late, and `name_fn`
gives one a bad name. `Copy` (three probes per name) is enough for the probe a route
has, the one that replaces it and one that only a cache still refers to. `endpoints`
has one request at a time, which meets every other step in between its two awaits;
one probe declares a tag and the other reports a tag of its own; `MaxUnknown = 2` is
exceeded by three unknown names. `webhooks` has two alerts, two receivers and two
threads, so that the second alert meets the first one's requests in the queue and
on the threads; `MaxAddress = 1` lets a host fail to resolve and an attempt fail.
In a window of two a rate rounded to four decimals
decides as the exact one does: `requests` takes `HalfRoundsUp = FALSE`, and the proof
covers the windows where it matters. `MaxArrivals`, `MaxQueue`, `MaxMade`, `MaxAlerts` and `MaxChanges` bound counters the
code leaves unbounded and guard only the action that increases them; a monitoring call
that would need more than `Copy` probes of one name (`stop = "bound"`) is not taken.

**Symmetry** is used in safety runs only, on replicas, on the names of
`backends` and `storage` and the request slots of `requests`, which no definition distinguishes.

**Deadlock** is checked except for the thread pool, whose end is a deadlock (after
`shutdown()` and with every worker hung or ended nothing happens), and for
`requests` and `webhooks`, whose traffic and alerts end after `MaxArrivals` and
`MaxAlerts`.

**Fairness.** The event loop runs each ready coroutine and fires each timer:
`WF` of the steps of runs, of the worker, of streams and of time. It is never
assumed that a check returns, that a cancelled one stops, that a client
disconnects or reads what it is sent, that a stream's results arrive, or that a thread's call returns, except
where a specification names it: `RecoverySpec` (`checks`) adds to `FairSpec`
that a check left behind ends once its dependency answers again, and that
clients ask again (the kubelet, a stream); `ChecksGoOn`, the premise of
`FinalStateAnnounced`, that probes are checked again and again; `ReturningSpec`
that blocking calls return. `webhooks` assumes nothing of receivers: timers fire,
threads are scheduled, and the system resolver gives up. Under `RecoverySpec` a
dependency may still stay down and its checks hang for ever: requests and the
startup run are answered then too, since the deadline and the grace period end
every wait, unless a check they await has no deadline (`Unbounded`, section 4). Two
other waits of a run are assumed to end: `get_latest`, by `storage_timeout` or, where that
is `None`, by the backend; and the application's `on_state_change` callbacks, which
`registry.py:2428-2430` awaits without a bound (`RunEnds`). The steps of one run are fair
together (`RunStep`), because exactly one of them is enabled whenever the event
loop has something to do for it; `GraceStops`, which depends on the check, is
not among them.

## 4. Divergences

Where the code and what its documents say of it part, found while modelling.
No run is expected to fail: the runs check what does hold, and the properties
named here that no run checks are defined in the modules.

- `CoalescedIsNeverLost` (`AlertPipeline`). `_send_due_alerts` (`registry.py:2518`)
  deletes the marker of a coalesced change before it queues the alert; when the queue
  is full the alert is refused, and only another check of the probe sends it, while
  `src/DOCS.md:1612` says "The final state is never lost (it is sent even if the probe
  is not checked again)". `CoalescedIsSent` is what holds.
- `AnswersAreOwn` (`CheckRunner`, `inMemory = FALSE`). While a circuit is open and no
  result is held (cleared by `set_poll_interval`), `_check_or_cached`
  (`registry.py:1798`) serves the storage's `get_latest`, which may be another
  replica's, or an older one of this process whose successors were not written (so
  that a passing result is shown while the circuit is open), keeps it in `_last_results` and answers with it, while
  `registry.py:1908-1911` says of other replicas' results that "those must not decide
  this process's readiness". (The text of `storage.py:15-16` allows the read.)
- `AtMostOneStray` (`CheckRunner`). An object that is a startup probe and a
  regular probe may leave two checks running, of which one key is kept, while
  `registry.py:786-787` says "At most one per probe: none is started meanwhile."
- `set_poll_interval(0)` empties `_last_results` (`registry.py:1398`) while a request
  awaits runs that have just ended: the answer leaves their probes out, while
  `registry.py:1898` promises "the current result of every registered probe". When
  it leaves out all of them, `/ready` answers 200 with an empty, "healthy" report
  (`models.py` 72-89). `AnswersAreComplete` and `ReadyIsEarned` except results
  emptied while a request was under way (`asked`, `cleared`).
- `RefailureIsSent` (`ReplicaAlerts`). A probe that fails, recovers and fails again
  inside the window alerts once when the claim of the recovery failed: its alert
  is sent without the key being set (`registry.py:2539`), which still has the first
  failure's status, so the second failure is refused as already sent, while
  `src/DOCS.md:1614` says "A probe that fails, recovers and fails again inside the
  window alerts each time."
- `NoStrandedAlert` (`AlertPipeline`). A check that ends after the drain queues its
  alert while `_shutting_down` keeps the worker from starting; the next lifespan
  only clears the flags, and the alert waits until another status change starts
  a worker. `CoalescedIsSent` and `FinalStateAnnounced` are therefore stated for when
  somebody attends to what is left (`Attended`).
- `TrackedUntilForgotten` (`StorageWriter`). A run that ends while `forget()` of its
  name is in flight writes data that `_written_names -= stale` then no longer
  tracks, while `registry.py:1960-1962` says "A name stays tracked until
  `forget()` succeeds ... and until any background write of it has landed". A write that
  timed out, and lands after `forget()`, is not tracked either: its writer has ended.
  `TrackedUnlessRaced` is what holds.
- A storage call that timed out (`registry.py:1578`) may take effect after a later one:
  the latest result of a name then goes back until its next write, and an alert record is
  stored after a newer one. `StoreNeverGoesBack` and `AlertsStoredInOrder` except
  exactly these calls; no document promises more.
- `StreamsEnd` (`Streams`). Where the signal handler has no running loop to hand the
  cancellation to (installed by `set_started()` in sync code, or on the loop of a
  former lifespan: `registry.py:1321-1324`, 2054), it only sets the flag, while
  `registry.py:2040-2041` says "the flag alone still stops every stream within one
  500 ms tick". A stream whose client does not read, or that awaits a hung check, does
  not look at the flag; `StreamsEnd` excepts those (`Blocked`).
- With `probe_timeout=None` a check without a `timeout` of its own is awaited as long as it
  hangs (`registry.py:1668-1669`, documented at 642-643), and so are the requests that
  share its run. `RequestsAreAnswered` excepts them.
- `RequestMetricsProbe` judges a rate rounded to four decimals (`middleware.py:104`, 487),
  the probes of handlers and sockets judge the exact one: in a window of 301 with 298
  errors and a limit of 0.99 it is healthy. `StatusesAgree` gives it that margin.
- The size bound in `redis_storage.py:127-136` counts the names "written within the
  last `result_ttl_seconds`", but the history of a name stays until `_EXPIRY_MARGIN_MS`
  after that (`Expiry` in `RedisStorage`), and its index entry until the next write.
- `CancelledAreDropped` (`ThreadPool`). A call cancelled in the queue stays there
  until a worker gets it, while `_executor.py:153-154` says it "is dropped from the
  queue".
- A replica that lags behind more than one change re-sends a change the other
  announced: `SentOnce` holds while every change finds the one before dealt with
  (`orderly`).
- A bad name, or an exception of `name_fn`, ends `_monitor_routes` in its loop
  (`registry.py:1271`): the routes before it stay wrapped. With `group=True` their probes
  were never included (`lost`): they record and nobody reports them. The caches of
  included routers are not emptied (`aborted`): those that have served requests go on
  with the handlers of before.
- `RefreshKeepsNames` holds of handlers' names only. With a `name_fn` for some calls,
  a name may become free and a route that was told apart from it gives up the name
  its results are kept under.
- A handler's name is qualified once, with the route's methods and path
  (`registry.py:1268`): routes whose descriptions have the same slug still share a name,
  and `add()` only warns. In `routes` the qualified names differ.
- `_recent_unknown_requests` (`registry.py:2270`) lists names that have been registered
  since they were asked for, until an hour has passed.
- A check that timed out or raised has no tags of its own, and the declared ones
  are put in (`registry.py:1465-1487`): `/ready?tag=x`, where only the probe's own results
  carry `x`, is judged without it while it fails.
- A webhook with `timeout=None` has no deadline (`alerts.py:229`, `Unlimited`): a receiver
  that never answers holds one of the pool's threads for ever. `AlertsFlow`
  excepts it; the dispatches of all alerters end all the same.

## 5. Proofs

`CheckRunner_proofs` proves, for every set of probes, names, requests and every
threshold:

- `TypeCorrect`: `Spec => []TypeOK`.
- `CheckedOnce`: `Spec => []AtMostOneCheck`, under `Disjoint`: no
  object is both in `Registrable` and in `StartupProbe`. An
  object that is both may have two checks at once (section 4). `AtMostOneCheck` is
  not inductive: that a check begins only when `~abandoned[p]` bounds nothing
  unless the key is there whenever a check is. `CheckInv` adds that an object
  has one stray check when it has a key and none otherwise, that no run checks
  an object with a key, and that runs belong to registrable objects, startup
  checks to startup probes.
- `WaitersAreWoken`: `Spec => []WaitersHaveRuns`; inductive with the type.
- `CircuitSuspends`: `Spec => []OpenCircuitSuspends`, under `UniqueNames` (no
  name is used by two objects), for any storage. `CircuitInv` adds the in-memory
  storage's latest result to the one held: neither passes while the circuit is open,
  so an awaited `get_latest` brings no passing result back. Of another storage
  nothing is assumed, and what is read from it is excepted (section 4).
- `AnswersAreWhole`: `Spec => []AnswersAreComplete`. `AnswerInv` says of a probe
  registered throughout a request (`asked`) that it has a result as soon as the request
  no longer waits for its run, and keeps it; a run that has recorded has it
  before it ends, so a request that joins it late loses nothing.

`AlertPipeline_proofs` proves, for any finite set of names, any statuses, interval and
queue:

- `TypeCorrect`: `Spec => []TypeOK`. What a check does to the queue, the markers and
  `_alerted_states` is stated once (`TellsCases`: nothing, an alert queued, a
  change marked, a marker taken away), and what the worker's sends do likewise.
- `WakesInTime`: `Spec => []NoLostWakeup`; inductive with the type.
- `FlappingIsLimited`: `Spec => FlapLimited`, an action property. The worker sends a
  coalesced alert without testing the rate; `MarkInv` is why it need not: a marker
  falls due exactly when the interval since the last alert ends.
- `AlertsTellOneStory`: `Spec => []ChainIsContiguous`. The property speaks of the
  subsequence of one probe's alerts in a queue shared by all, which a filter of the
  sequence would hide from the provers. `ChainInv` states it by places: the first of a
  probe's alerts starts at `told`, each starts where the one before it ends, the last
  ends at `alerted`, and without one the two agree. That there is a first and a last
  place comes from the least elements of sets of naturals (`NatLeast`).

`Background_proofs` proves, of `StorageWriter`, for any number of names, results and
alert records and any bound of the backlog:

- `NewestIsOnItsWay`: `WriterSpec => []NoResultLeftBehind`, and `LatestOnlyNewer`:
  `WriterSpec => StoreNeverGoesBack`, both from `ResultInv`: the backend has no result newer
  than the one being written, and that is no newer than the last one produced. `LateInv`
  keeps this when a late call lands: it is older than the one being written.
- `KeptIsTracked`: `WriterSpec => []TrackedUnlessRaced`. `TrackedInv`: races aside, what is
  being written is tracked, and a name under `forget()` has no writer; a late call that
  lands on a name no longer tracked is a race, too.
- `AlertsInOrder`: `WriterSpec => []AlertsStoredInOrder`. `AlertInv`: the backlog is strictly
  increasing and newer than what is stored, being written or still late, whichever
  record is dropped for want of room.
- `WriterTypeCorrect`: `WriterSpec => []WriterTypeOK`, from the three invariants and the
  bound of the backlog (`BacklogBounded`).

`Delivery_proofs` proves, of `ThreadPool`, for any finite set of threads and any
set of probes:

- `PoolTypeCorrect`: `PoolSpec => []PoolTypeOK`, from `PoolInv`.
- `OwnerHasOneThread`: `PoolSpec => []OneThreadPerOwner`. `CallInv` follows the call of a
  probe: once in the queue and live while its future is queued, with one thread while
  it runs, so that a new call is made only when neither is there.
- `NoWaitBehindHung`: `PoolSpec => []NoWaitBelowCap`. `WaitInv` is an equation: below the
  cap, the threads waiting for an item, with the one item being submitted, are as many
  as the idle permits and the queued items. `NoWaitBelowCap` alone is not
  inductive: an idle permit without its thread would let `submit` start none.

`Delivery_proofs` proves, of `ReplicaAlerts`, for every set of replicas and
statuses and every number of changes:

- `ReplicaTypeCorrect`: `ReplicaSpec => []ReplicaTypeOK`.
- `FinalStatusIsSent`: `ReplicaSpec => []FinalIsSent`. `FinalInv` adds that the last alert a
  replica has queued is of the status it has seen and, as long as no claim failed
  and no replica restarted, that a held key has the status last sent, and that
  this is what its sender has seen once the sender has nothing queued.
- `SentAtMostOnce`: `ReplicaSpec => []SentOnce`. `OnceInv` says of an orderly history that
  every queued alert is of the current change, that none was sent of a later
  one, and that once the current one was sent the key holds its status until all
  have dealt with it.

`Background_proofs` proves, of `Streams`, for any finite set of streams and any
number of slots:

- `PollingHasAnOwner`: `Spec => []PollingIsOwned`. `EndInv` adds why: once the
  lifespan's end begins no generator is still to start, `_shutting_down` is set,
  and so nothing can put a running loop into `_poll_task` while `_shutdown` waits
  for the old one and then drops the reference.
- `SlotsAreLimited`: `Spec => []StreamsLimited`. `CountInv` says that `_stream_slots`
  and `_active_connections` are the sizes of the sets of streams they count, which
  needs the phase of every stream, and that the first is within the limit. The one
  lemma about sizes is `PhaseCounted`.
- `PollingServesStreams`: `Spec => []PollingFollowsStreams`, from `EndInv`, `CountInv`
  and `PollInv`: a registry-wide interval is polled while `_active_connections` is
  positive, which a generator that was dropped at its `yield` keeps up, and a
  cancelled loop is in `_poll_task` only during a shutdown.
- `TypeCorrect`: `Spec => []TypeOK`, which says that the counters are sizes and that only
  streams under way are still to be cancelled (`StreamTypes`).

`Delivery_proofs` proves, of `Webhooks`, for any number of alerters, alerts,
addresses and threads:

- `ExpiredAreCut`: `Spec => []CutAtDeadline`. `DeadlineInv` follows the two threads of a
  request: from the connection on its socket is there, once it is handed over the
  deadline has a duplicate of it, and while the exchange goes on a timer at work has
  copied that duplicate unless the connection is shut already.
- `ReceiversSeeOrder`: `Spec => []ReceivedInOrder`. `OrderInv`: a post that waits for a
  thread or has one belongs to the alert that is being dispatched, unless its
  dispatch gave up on it, because giving up cancels what is still queued.
- `TypeCorrect`: `Spec => []TypeOK`, for any finite set of alerters (`SetToSeqIs`: the
  posts of a dispatch are queued in some order).

`StorageBackends_proofs` proves, for any probes, bounds of the counts, times-to-live
(0, which is none, included), delays and margin:

- `MemoryImplements`: `Spec => MemoryKeepsPromise`, and `RedisImplements`:
  `Spec => RedisKeepsPromise`. Initial states map to initial states, every call has
  exactly the effect `ProbeStorage` promises of it on what is shown, and the
  passing of time (a tick, a key that goes) maps to its tick or to a stutter.
- `IndexFindsShown`: `Spec => []IndexCovers`.
- `StorageTypes`: `Spec => []TypeOK`: what is kept, not only what is shown, stays
  ordered by age and within its count, and expiries and ages in their ranges.

The first three rest on one idea. An ordered collection is known by how many of its newest
entries are still fresh, so that bounding by count and bounding by age both keep a
number of the newest (`WithinIsNewest`) and may be done in either order, early or late
(`NewestOfNewest`, `FreshOfAged`), before or after an insertion (`ShownInsert`). In
memory, where ages beyond the time-to-live are not told apart, nothing else is
needed. `RedisInv` adds to each key that an entry's age and the time its key still has
come to the time-to-live at least: a key that expires has nothing left to show.
`IndexInv` says the same of the index, and (`Covered`) that no entry is newer than its
name's score by more than the wait of a call, unless it is about to expire.

`RouteMonitor_proofs` proves, for any tree of routers, any routes, handlers, filters and
names, and any number of probes:

- `RouteTypes`: `Spec => []TypeOK`. A cache has the routes its router leads to
  (`WalkType`, by the depth of the tree).
- `ServedIsInstalled`: `Spec => []ServedAsMonitored`. `CacheInv` adds that a router which
  the application does not reach, and whose cache no call empties, has none: it serves
  nothing.
- `ProbesFollowRoutes`: `Spec => []ProbesMatchRoutes`. `Between` relates probes and
  routes both ways: each monitored route has one automatic probe, its outermost (`Wrapped`),
  each has its own, and each registered one has a route (`Fed`). Within a call the loop
  also keeps the group's probes, so `Fed` takes them as an argument: a route of the group
  is monitored but not yet registered.
- `NamesTellHandlersApart`: `Spec => []HandlersHaveOwnNames`, from `Called` (a probe is
  called after its handler, with or without methods and path, or by `name_fn`), `Apart`
  and, within a call, `Known`: the loop's set of names has those of all automatic probes but
  `name_fn`'s. The set may lose a name that two of `name_fn`'s probes share; that is why
  `Known` and the property except them.
- `RefreshKeepsRouteNames`: `Spec => []RefreshKeepsNames`, under `CustomApart`: `name_fn`
  gives no probe the name of a handler. Without it a call with `name_fn` may take a
  handler's name, be refreshed without `name_fn`, and so free the name for a route
  that had to be told apart. `Told`: a route called by its methods and path leaves its
  handler's name to a probe that has it, or to a route `name_fn` renamed. `Same`
  is what a refresh keeps, round by round, of the names there were.
- `PriorityIsKept`: `Spec => PriorityHolds`, an action property (`Spared`).

A call is a fold over the candidates. `FoldIn` says of it what every round keeps;
`MonitorOneIs` reduces a round to two cases, none of the probes is touched or one is
installed, and everything above is proved of the two.

`Http_proofs` proves, of `Endpoints`, for any probes, tags and requests:

- `ReadinessIsEarned`: `Spec => ReadyIsEarned`, and `FiltersAreJudgedExactly`:
  `Spec => FiltersAreExact`, two action properties of the step that answers, from
  `AskInv`: a probe registered throughout the request is awaited as long as it has no
  result, unless results were cleared meanwhile, and what the filters name was known when
  they were judged.
- `UnknownNamesAreTheLatest`: `Spec => []UnknownAreMostRecent`, for any bound of the table.
  The table is a fold of `Remember` over the names of a request, the clock one operation on
  all of them: `RemembersAll` shows that the two agree, evictions included, when the names
  differ. `UnknownInv` adds that no name is twice in the table.
- `EndpointTypes`: `Spec => []TypeOK`.

Of `RequestMetrics` it proves, for any requests, routes and sockets, windows of any size
and any bound of the table:

- `RequestsAreRecordedOnce`: `RequestsSpec => []RecordedOnce`. `RecordInv` ties what was
  recorded to `done`, the local by which the code knows whether the last chunk was
  sent; `ObserveInv` does so for the handler and the generator.
- `CountersAgree`: `RequestsSpec => []CountsAgree`. Of the status from the rounded rate it says
  that it is unhealthy only if too many calls failed, and always if they exceed the
  limit by half a unit of the fourth decimal (`RoundedFollows`). A window's errors, streaks and tables are
  counted as items enter and leave: `Where` and `Times` recount them after an
  append that drops the oldest (`CountedAgrees`, `TalliedAgrees`), and `SumChanges` the
  totals of the table of routes when one entry changes or is new. `CacheInv` is
  why a cache event is attributed to the right call: it is kept only if the counters of the
  cache grew by it alone, and the call's own event is among what they grew by.
- `RequestsTypeCorrect`: `RequestsSpec => []RequestsTypeOK`.

Each proof has one step per action. Where the theorem of the type stands before the
others, the type is proved first and used as a hypothesis of them; where it stands
last (`Streams`, `StorageWriter`, `Webhooks`, `RequestMetrics`, `Endpoints`) it follows
from the invariants proved before it. Assumptions are those the modules state of their
constants, which TLC evaluates on every run: finite sets of names, streams and threads,
since there are as many as the application has registered, connected or configured; that
a wake-up or a stop is not an alert or a call; that the tree of routers has no cycle;
that the name with a route's methods and path is no other route's (section 4) nor a
handler's.

**Induction.** The library's induction theorems take the predicate as an operator, which
the installed provers cannot instantiate. `SequenceOps_proofs` does without: a set stands
for the predicate, and the least counterexample, which the well-foundedness of `<` on the
naturals gives (`NatLeast`), contradicts the step (`Upto`, `BySequence`). A
recursive function or a fold exists because finitely many steps can be chained
(`Iterates`), and what every step keeps the fold keeps. The modules with theorems
therefore write recursion as functions, and leave out elements of a sequence with
`Without`, whose laws `SequenceOps_proofs` proves, instead of `SelectSeq`.

**Only model-checked.** Every invariant and action property that a run checks has its
theorem. What stays with TLC:

- liveness (`RequestsAreAnswered`, `FailuresClear`, `CoalescedIsSent`,
  `FinalStateAnnounced`, `StreamsEnd`, `CallsAreMade`, `AlertsFlow`): fairness and
  `ENABLED` are outside the prover.

## 6. Not modelled, and why

- `RequestMetricsMiddleware(per_route=False)`: the table of routes is always kept. Without it
  the aggregate is recorded alone.
- A handler cache whose `cache_info()` has no `misses` (`base.py:459-460`): the hit or miss is
  then taken from the hits alone, so overlapping calls are attributed wrongly.
  `CountsAgree` is claimed for `lru_cache` and `alru_cache`, which count both.
- Two regular probes with one name (`add()` warns; `discover_routes` qualifies):
  `CheckRunner` allows it through `NameOf`; in `checks` a regular and a startup probe
  share one. Two regular ones would share a breaker: one may be checked while the
  failures of the other hold it open, so `OpenCircuitSuspends` is not claimed for them.
- Calls of the registry from other threads than the event loop's, and a second
  event loop in one process (`_alert_queue_on`).
- Results with `no_data`, which are kept but never counted or stored, and
  per-probe poll intervals: `age` elapses per name at any time.
- Exceptions of user callbacks: caught and logged, so equal to returning.
- `_fit` (truncation of details to a byte budget), percentiles, averages,
  payload formats, TLS, URL validation, HTML and Prometheus text: data, wording
  and arithmetic the properties do not distinguish.
- Patterns of paths and methods, and the texts of qualified names: which routes pass
  the filters and what they would be called are constants of `RouteMonitor`. Routes
  whose endpoint cannot be assigned (`registry.py:1289`) are left out.
- `/live`, `/history`, `/alerts`, `/probes`, `/metrics`: they read what other modules
  keep. The dashboard appears in `Endpoints` only as `ListUnknown`, and `/startup` as
  `CheckRunner`'s `StartupRequest`.
- `EventLoopProbe`'s sampler and `_close_probes`: planned. On another event loop that
  still lives, `_ensure_sampler` replaces the sampler without stopping it; that
  takes two loops in one process, see above.
- `set_poll_interval` called from another thread, which cancels the poll task and cannot
  start the next (`registry.py:1405`).
- Driver probes: one request each through a client library. A check that
  passes, fails or hangs stands for them.
- Authentication and stream tokens: request parsing without state.

## 7. Plan

All the modules above are done, with the theorems of section 5. What would come next,
in this order:

1. `EventLoopProbe`: the sampler across `check` and `aclose`, and `_close_probes`.
2. `RouteMonitor` composed with `CheckRunner`'s `Discover`: probes replaced while they
   are checked, with the names monitoring gives them.
3. An order of dispatch across replicas (the hazard no property covers), which the
   code does not promise.
