----------------------------- MODULE CheckRunner -----------------------------
(***************************************************************************)
(* How HealthRegistry checks probes and keeps their results.               *)
(*                                                                         *)
(* Health requests share the run of a probe that is already in flight;     *)
(* every check is bounded by a deadline, cancelled, given a grace period   *)
(* and, when it ignores the cancellation, abandoned and never doubled;     *)
(* a circuit breaker suspends a probe that keeps failing; the results kept *)
(* in this process answer the requests.  The event loop runs one coroutine *)
(* at a time, so an action is the code between two awaits.                 *)
(*                                                                         *)
(* Time is not a clock here.  The actions Deadline, GraceOver,             *)
(* CooldownOver and IntervalOver stand for the moment a timer expires, so  *)
(* every order of the timers and of the steps between them is a behaviour. *)
(* A result is reduced to what the breaker and readiness tell apart:       *)
(* whether it passes (is_passing) and which process checked it.            *)
(***************************************************************************)
EXTENDS Naturals, FiniteSets

CONSTANTS
    Probe,         \* probe objects (the keys id(probe) of the registry)
    Name,          \* probe names (the keys of the per-name dictionaries)
    NameOf,        \* the name of each probe object
    Registrable,   \* the objects add() may register as regular probes
    Route,         \* those created and replaced by discover_routes(refresh=True)
    StartupProbe,  \* the constructor's startup_probes
    CircuitProbe,  \* the objects with circuit_breaker_enabled
    Threshold,     \* circuit_breaker_threshold
    Options,       \* the options an application may construct the registry with
    IntervalCalls, \* what set_poll_interval is called with: FALSE is 0 or None
    Client,        \* concurrent health requests
    NoResult       \* no result is held under a name

ASSUME NameAssumption == NameOf \in [Probe -> Name]
ASSUME ProbeAssumption ==
    /\ Registrable \subseteq Probe
    /\ Route \subseteq Registrable
    /\ StartupProbe \subseteq Probe
    /\ CircuitProbe \subseteq Probe
ASSUME ThresholdAssumption == Threshold \in Nat \ {0}
\* inMemory: storage is an InMemoryProbeStorage; unbounded: the objects checked
\* without a deadline (probe_timeout=None, and no timeout of their own).
ASSUME OptionsAssumption == Options \subseteq [inMemory : BOOLEAN, unbounded : SUBSET Probe]
ASSUME FlagAssumption == IntervalCalls \subseteq BOOLEAN
ASSUME NoResultAssumption ==
    NoResult \notin [status : {"pass", "fail"}, by : {"self", "storage"}]

VARIABLES
    registered,  \* _probes, as a set of objects
    run,         \* _inflight: where the shared run of each object stands
    startup,     \* where each startup probe's part of the startup run stands
    startupRun,  \* _startup_inflight
    stray,       \* checks of an object that outlived their grace period
    abandoned,   \* _abandoned_checks: does it have a key for the object?
    held,        \* _last_results
    age,         \* _probe_last_run, against the probe's interval
    errs,        \* _circuit_err_count, saturated at Threshold
    open,        \* loop.time() < _circuit_open_until[name]
    polled,      \* _poll_interval_ms is not None
    options,     \* the options this registry was constructed with
    latest,      \* the in-memory storage's latest result of each name
    health,      \* whether the dependency behind each name lets a check pass,
                 \* fail or hang (environment)
    phase,       \* of each client's request
    waiting,     \* the runs a request still awaits
    asked,       \* ghost: objects registered during the whole of a request
                 \* whose results were not cleared meanwhile
    answer       \* the results a request reports

vars == <<registered, run, startup, startupRun, stray, abandoned, held, age,
          errs, open, polled, options, latest, health, phase, waiting, asked, answer>>

checkVars   == <<startup, startupRun, stray, abandoned>>
circuitVars == <<errs, open>>
settings    == <<polled, options>>
resultVars  == <<held, age, latest>>
clientVars  == <<phase, waiting, asked, answer>>

\* "begin": the task is created; "lookup": awaits the storage's get_latest;
\* "check": awaits probe.check(); "grace": has cancelled it and awaits its end;
\* "record": awaits the storage write and the state-change callbacks;
\* "done": the task has ended and its done-callback is still to run.
RunPhase     == {"none", "begin", "lookup", "check", "grace", "record", "done"}
StartupPhase == {"none", "begin", "check", "grace", "done"}
Checking     == {"check", "grace"}

Status == {"pass", "fail"}
\* Checked by this process, or read back from a storage written in the background.
Result == [status : Status, by : {"self", "storage"}]
Own(s) == [status |-> s, by |-> "self"]

TypeOK ==
    /\ registered \subseteq Registrable
    /\ run \in [Probe -> RunPhase]
    /\ startup \in [Probe -> StartupPhase]
    /\ startupRun \in BOOLEAN
    /\ stray \in [Probe -> Nat]
    /\ abandoned \in [Probe -> BOOLEAN]
    /\ held \in [Name -> Result \cup {NoResult}]
    /\ age \in [Name -> {"never", "recent", "elapsed"}]
    /\ errs \in [Name -> 0 .. Threshold]
    /\ open \in [Name -> BOOLEAN]
    /\ polled \in BOOLEAN
    /\ options \in Options
    /\ latest \in [Name -> Result \cup {NoResult}]
    /\ health \in [Name -> {"up", "down", "hung"}]
    /\ phase \in [Client -> {"idle", "waiting", "answered"}]
    /\ waiting \in [Client -> SUBSET Probe]
    /\ asked \in [Client -> SUBSET Probe]
    /\ answer \in [Client -> [Name -> Result \cup {NoResult}]]

Init ==
    /\ registered = Registrable \ Route
    /\ run = [p \in Probe |-> "none"]
    /\ startup = [p \in Probe |-> "none"]
    /\ startupRun = FALSE
    /\ stray = [p \in Probe |-> 0]
    /\ abandoned = [p \in Probe |-> FALSE]
    /\ held = [n \in Name |-> NoResult]
    /\ age = [n \in Name |-> "never"]
    /\ errs = [n \in Name |-> 0]
    /\ open = [n \in Name |-> FALSE]
    /\ polled \in BOOLEAN
    /\ options \in Options
    /\ latest = [n \in Name |-> NoResult]
    /\ health = [n \in Name |-> "up"]
    /\ phase = [c \in Client |-> "idle"]
    /\ waiting = [c \in Client |-> {}]
    /\ asked = [c \in Client |-> {}]
    /\ answer = [c \in Client |-> [n \in Name |-> NoResult]]

-----------------------------------------------------------------------------
(* Requests: _get_results, the body of every health endpoint.              *)

\* _needs_run: single-fetch probes run fresh unless a stream may reuse a
\* recent result, polled ones when their interval has elapsed.
NeedsRun(p, reuse) ==
    LET n == NameOf[p] IN
    \/ age[n] = "never"
    \/ held[n] = NoResult
    \/ age[n] = "elapsed"
    \/ ~polled /\ ~reuse

\* The runs a request awaits, the ones it starts included.  A run whose task
\* has ended but is not yet forgotten is joined at no cost.
NoJoinAwaited(toRun) == {p \in toRun : run[p] = "none"}  \* fault: joins none
Awaited(toRun) == {p \in toRun : run[p] # "done"}

\* A run that has kept its result but is not forgotten yet is joined even if
\* set_poll_interval has cleared that result since.
Cleared(p) == run[p] \in {"record", "done"} /\ held[NameOf[p]] = NoResult

\* Start a request: join the runs in flight, start the ones missing.
Request(c, reuse) ==
    LET toRun == {p \in registered : NeedsRun(p, reuse)} IN
    /\ phase[c] = "idle"
    /\ phase' = [phase EXCEPT ![c] = "waiting"]
    /\ waiting' = [waiting EXCEPT ![c] = Awaited(toRun)]
    /\ asked' = [asked EXCEPT ![c] = {p \in registered : ~Cleared(p)}]
    /\ run' = [p \in Probe |->
                 IF p \in toRun /\ run[p] = "none" THEN "begin" ELSE run[p]]
    /\ UNCHANGED <<registered, checkVars, circuitVars, resultVars, settings,
                   health, answer>>

\* Runs are also started by run_all, by a pass of the poll loop and by a
\* request whose tag filter needs the probes that have not reported yet.
Due        == {p \in registered : polled /\ age[NameOf[p]] # "recent"}
Unreported == {p \in registered : held[NameOf[p]] = NoResult}

StartRuns(toRun) ==
    /\ toRun # {}
    /\ run' = [p \in Probe |->
                 IF p \in toRun /\ run[p] = "none" THEN "begin" ELSE run[p]]
    /\ UNCHANGED <<registered, checkVars, circuitVars, resultVars, settings,
                   health, clientVars>>

\* Every run is over: read the results of the probes registered now.
Answer(c) ==
    /\ phase[c] = "waiting"
    /\ waiting[c] = {}
    /\ phase' = [phase EXCEPT ![c] = "answered"]
    /\ answer' = [answer EXCEPT ![c] =
                    [n \in Name |-> IF \E p \in registered : NameOf[p] = n
                                    THEN held[n] ELSE NoResult]]
    /\ UNCHANGED <<registered, run, checkVars, circuitVars, resultVars, settings,
                   health, waiting, asked>>

\* The request ends: it is answered, or its client disconnects while it
\* waits (the shielded runs carry on).
EndRequest(c) ==
    /\ phase[c] # "idle"
    /\ phase' = [phase EXCEPT ![c] = "idle"]
    /\ waiting' = [waiting EXCEPT ![c] = {}]
    /\ asked' = [asked EXCEPT ![c] = {}]
    /\ answer' = [answer EXCEPT ![c] = [n \in Name |-> NoResult]]
    /\ UNCHANGED <<registered, run, checkVars, circuitVars, resultVars, settings,
                   health>>

-----------------------------------------------------------------------------
(* One shared run: _run_probe, _check_or_cached and _guarded_check.        *)

\* Keep a result in this process: _last_results and _probe_last_run.
Keep(n, result) ==
    /\ held' = [held EXCEPT ![n] = result]
    /\ age' = [age EXCEPT ![n] = "recent"]

\* The breaker's bookkeeping after a check.
CountOutcome(p, s) ==
    LET n == NameOf[p]
        count == IF errs[n] = Threshold THEN Threshold ELSE errs[n] + 1
    IN \/ /\ p \notin CircuitProbe
          /\ UNCHANGED circuitVars
       \/ /\ p \in CircuitProbe
          /\ s = "pass"
          /\ errs' = [errs EXCEPT ![n] = 0]
          /\ open' = [open EXCEPT ![n] = FALSE]
       \/ /\ p \in CircuitProbe
          /\ s = "fail"
          /\ errs' = [errs EXCEPT ![n] = count]
          /\ open' = [open EXCEPT ![n] = @ \/ count = Threshold]

\* A checked result is kept first and then written: to the in-memory storage at
\* once, to any other by a background writer (StorageWriter), which may lag, fail
\* and be overtaken by other replicas'.
Record(p, result) ==
    /\ run' = [run EXCEPT ![p] = "record"]
    /\ Keep(NameOf[p], result)
    /\ latest' = IF options.inMemory THEN [latest EXCEPT ![NameOf[p]] = result]
                                     ELSE latest

\* What get_latest may find: in memory, the result written last; elsewhere a
\* result of another replica, or one of this process, the newest or an older one.
Readable(n) ==
    IF options.inMemory THEN {latest[n]} \ {NoResult}
                        ELSE [status : Status, by : {"storage"}]

\* A check's outcome: count it, keep it.
Conclude(p, s) == CountOutcome(p, s) /\ Record(p, Own(s))

\* Fault: an open circuit with no result to serve lets the check through.
CacheSuspended(p) == p \in CircuitProbe /\ open[NameOf[p]] /\ held[NameOf[p]] # NoResult
Suspended(p) == p \in CircuitProbe /\ open[NameOf[p]]

\* The run's task starts.  While the circuit is open the result held is served
\* again (and not written again); a check still abandoned is not doubled.
BeginCached(p) ==
    /\ run[p] = "begin"
    /\ Suspended(p)
    /\ held[NameOf[p]] # NoResult
    /\ run' = [run EXCEPT ![p] = "record"]
    /\ Keep(NameOf[p], held[NameOf[p]])
    /\ UNCHANGED <<registered, checkVars, circuitVars, settings, latest, health,
                   clientVars>>

BeginLookup(p) ==
    /\ run[p] = "begin"
    /\ Suspended(p)
    /\ held[NameOf[p]] = NoResult
    /\ run' = [run EXCEPT ![p] = "lookup"]
    /\ UNCHANGED <<registered, checkVars, circuitVars, resultVars, settings,
                   health, clientVars>>

BeginRefused(p) ==
    /\ run[p] = "begin"
    /\ ~Suspended(p)
    /\ abandoned[p]
    /\ Conclude(p, "fail")
    /\ UNCHANGED <<registered, checkVars, settings, health, clientVars>>

BeginCheck(p) ==
    /\ run[p] = "begin"
    /\ ~Suspended(p)
    /\ ~abandoned[p]
    /\ run' = [run EXCEPT ![p] = "check"]
    /\ UNCHANGED <<registered, checkVars, circuitVars, resultVars, settings,
                   health, clientVars>>

\* get_latest answered with a stored result.
LookupFound(p) ==
    /\ run[p] = "lookup"
    /\ run' = [run EXCEPT ![p] = "record"]
    /\ \E result \in Readable(NameOf[p]) : Keep(NameOf[p], result)
    /\ UNCHANGED <<registered, checkVars, circuitVars, settings, latest, health,
                   clientVars>>

\* get_latest found nothing (any more), failed or timed out: "circuit breaker open".
LookupMissed(p) ==
    /\ run[p] = "lookup"
    /\ Record(p, Own("fail"))
    /\ UNCHANGED <<registered, checkVars, circuitVars, settings, health, clientVars>>

\* The outcomes of a check that returns by itself: a hung one does not, as long
\* as its dependency hangs.
Outcomes(p) ==
    CASE health[NameOf[p]] = "up"   -> {"pass"}
      [] health[NameOf[p]] = "down" -> {"fail"}
      [] OTHER                      -> {}

CheckReturns(p) ==
    /\ run[p] = "check"
    /\ \E s \in Outcomes(p) : Conclude(p, s)
    /\ UNCHANGED <<registered, checkVars, settings, health, clientVars>>

\* The probe's timeout, if it has one: cancel the check and wait for its cleanup.
Deadline(p) ==
    /\ run[p] = "check"
    /\ p \notin options.unbounded
    /\ health[NameOf[p]] # "up"
    /\ run' = [run EXCEPT ![p] = "grace"]
    /\ UNCHANGED <<registered, checkVars, circuitVars, resultVars, settings,
                   health, clientVars>>

GraceStops(p) ==
    /\ run[p] = "grace"
    /\ Conclude(p, "fail")
    /\ UNCHANGED <<registered, checkVars, settings, health, clientVars>>

\* The check ignored its cancellation: leave it running and remember it.
ForgetfulAbandon(p) ==  \* fault: the check left running is not remembered
    /\ stray' = [stray EXCEPT ![p] = @ + 1]
    /\ UNCHANGED abandoned
Abandon(p) ==
    /\ stray' = [stray EXCEPT ![p] = @ + 1]
    /\ abandoned' = [abandoned EXCEPT ![p] = TRUE]

UnboundedGrace(p) ==  \* fault: the wait for a cancelled check has no bound
    /\ run[p] = "grace"
    /\ health[NameOf[p]] # "hung"
    /\ Abandon(p)
    /\ Conclude(p, "fail")
    /\ UNCHANGED <<registered, startup, startupRun, settings, health, clientVars>>
GraceOver(p) ==
    /\ run[p] = "grace"
    /\ Abandon(p)
    /\ Conclude(p, "fail")
    /\ UNCHANGED <<registered, startup, startupRun, settings, health, clientVars>>

\* An abandoned check ends at last; its done-callback pops the object's key.
strayRest == <<registered, run, startup, startupRun, circuitVars, resultVars,
               settings, health, clientVars>>
RefusedStrayStops(p) ==  \* fault: its key stays
    /\ stray[p] > 0
    /\ stray' = [stray EXCEPT ![p] = @ - 1]
    /\ UNCHANGED <<abandoned, strayRest>>
StrayStops(p) ==
    /\ stray[p] > 0
    /\ stray' = [stray EXCEPT ![p] = @ - 1]
    /\ abandoned' = [abandoned EXCEPT ![p] = FALSE]
    /\ UNCHANGED strayRest

\* The writes and callbacks are over: the task ends and its waiters wake up.
RunEnds(p) ==
    /\ run[p] = "record"
    /\ run' = [run EXCEPT ![p] = "done"]
    /\ waiting' = [c \in Client |-> waiting[c] \ {p}]
    /\ UNCHANGED <<registered, checkVars, circuitVars, resultVars, settings,
                   health, phase, asked, answer>>

\* Its done-callback drops the task from _inflight.
EarlyRunForgotten(p) ==  \* fault: while the task still records its result
    /\ run[p] \in {"record", "done"}
    /\ run' = [run EXCEPT ![p] = "none"]
    /\ UNCHANGED <<registered, checkVars, circuitVars, resultVars, settings,
                   health, clientVars>>
RunForgotten(p) ==
    /\ run[p] = "done"
    /\ run' = [run EXCEPT ![p] = "none"]
    /\ UNCHANGED <<registered, checkVars, circuitVars, resultVars, settings,
                   health, clientVars>>

\* What the event loop and its timers do with a run by themselves.
RunStep(p) ==
    \/ BeginCached(p) \/ BeginLookup(p) \/ BeginRefused(p) \/ BeginCheck(p)
    \/ LookupFound(p) \/ LookupMissed(p)
    \/ CheckReturns(p) \/ Deadline(p) \/ GraceOver(p)
    \/ RunEnds(p) \/ RunForgotten(p)

-----------------------------------------------------------------------------
(* The startup run: _check_startup_probes, shared by /startup requests.    *)
(* It bypasses the circuit breaker and keeps no result.                    *)

startupRest == <<registered, run, circuitVars, resultVars, settings, health,
                 clientVars>>

SetStartup(p, s) == startup' = [startup EXCEPT ![p] = s]

StartupRequest ==
    /\ ~startupRun
    /\ StartupProbe # {}
    /\ startupRun' = TRUE
    /\ startup' = [p \in Probe |-> IF p \in StartupProbe THEN "begin" ELSE "none"]
    /\ UNCHANGED <<stray, abandoned, startupRest>>

StartupBegin(p) ==
    /\ startup[p] = "begin"
    /\ SetStartup(p, IF abandoned[p] THEN "done" ELSE "check")
    /\ UNCHANGED <<startupRun, stray, abandoned, startupRest>>

StartupReturns(p) ==
    /\ startup[p] = "check"
    /\ Outcomes(p) # {}
    /\ SetStartup(p, "done")
    /\ UNCHANGED <<startupRun, stray, abandoned, startupRest>>

StartupDeadline(p) ==
    /\ startup[p] = "check"
    /\ p \notin options.unbounded
    /\ health[NameOf[p]] # "up"
    /\ SetStartup(p, "grace")
    /\ UNCHANGED <<startupRun, stray, abandoned, startupRest>>

StartupGraceStops(p) ==
    /\ startup[p] = "grace"
    /\ SetStartup(p, "done")
    /\ UNCHANGED <<startupRun, stray, abandoned, startupRest>>

StartupGraceOver(p) ==
    /\ startup[p] = "grace"
    /\ Abandon(p)
    /\ SetStartup(p, "done")
    /\ UNCHANGED <<startupRun, startupRest>>

\* Every startup probe has answered: the gather ends and is forgotten.
StartupEnds ==
    /\ startupRun
    /\ \A p \in StartupProbe : startup[p] = "done"
    /\ startupRun' = FALSE
    /\ startup' = [p \in Probe |-> "none"]
    /\ UNCHANGED <<stray, abandoned, startupRest>>

StartupStep(p) ==
    \/ StartupBegin(p) \/ StartupReturns(p)
    \/ StartupDeadline(p) \/ StartupGraceOver(p)

-----------------------------------------------------------------------------
(* Timers, operator calls and the environment.                             *)

CooldownOver(n) ==
    /\ open[n]
    /\ open' = [open EXCEPT ![n] = FALSE]
    /\ UNCHANGED <<registered, run, checkVars, errs, resultVars, settings, health,
                   clientVars>>

IntervalOver(n) ==
    /\ age[n] = "recent"
    /\ age' = [age EXCEPT ![n] = "elapsed"]
    /\ UNCHANGED <<registered, run, checkVars, circuitVars, held, latest,
                   settings, health, clientVars>>

\* reset_circuit(probe_name)
ResetCircuit(n) ==
    /\ open' = [open EXCEPT ![n] = FALSE]
    /\ errs' = [errs EXCEPT ![n] = 0]
    /\ UNCHANGED <<registered, run, checkVars, resultVars, settings, health,
                   clientVars>>

\* set_poll_interval(ms), 0 or None: single-fetch, and the results are cleared.
SetPollInterval(on) ==
    /\ polled' = on
    /\ held' = IF on THEN held ELSE [n \in Name |-> NoResult]
    /\ asked' = IF on THEN asked ELSE [c \in Client |-> {}]
    /\ UNCHANGED <<registered, run, checkVars, circuitVars, age, options, latest,
                   health, phase, waiting, answer>>

\* discover_routes(): a new route probe, or one in place of an old one
\* (refresh=True).  A new object has no run and no check of its own.
Discover(old, q) ==
    /\ old \subseteq registered \cap Route
    /\ Cardinality(old) <= 1
    /\ q \in Route \ registered
    /\ run[q] = "none"
    /\ stray[q] = 0
    /\ registered' = (registered \ old) \cup {q}
    /\ asked' = [c \in Client |-> asked[c] \ old]
    /\ UNCHANGED <<run, checkVars, circuitVars, resultVars, settings, health,
                   phase, waiting, answer>>

\* _forget_unregistered: what it drops inside the process, the in-memory storage
\* included, whose forget() does not suspend.
ForgetUnregistered ==
    LET gone == {n \in Name : \A p \in registered : NameOf[p] # n} IN
    /\ held' = [n \in Name |-> IF n \in gone THEN NoResult ELSE held[n]]
    /\ age' = [n \in Name |-> IF n \in gone THEN "never" ELSE age[n]]
    /\ errs' = [n \in Name |-> IF n \in gone THEN 0 ELSE errs[n]]
    /\ open' = [n \in Name |-> n \notin gone /\ open[n]]
    /\ latest' = [n \in Name |-> IF n \in gone THEN NoResult ELSE latest[n]]
    /\ UNCHANGED <<registered, run, checkVars, settings, health, clientVars>>

HealthChanges(n, h) ==
    /\ health[n] # h
    /\ health' = [health EXCEPT ![n] = h]
    /\ UNCHANGED <<registered, run, checkVars, circuitVars, resultVars, settings,
                   clientVars>>

Next ==
    \/ \E c \in Client, reuse \in BOOLEAN : Request(c, reuse)
    \/ \E c \in Client : Answer(c) \/ EndRequest(c)
    \/ StartRuns(registered) \/ StartRuns(Due) \/ StartRuns(Unreported)
    \/ \E p \in Probe : RunStep(p) \/ StartupStep(p)
    \/ \E p \in Probe : GraceStops(p) \/ StartupGraceStops(p) \/ StrayStops(p)
    \/ StartupRequest \/ StartupEnds
    \/ \E n \in Name : CooldownOver(n) \/ IntervalOver(n) \/ ResetCircuit(n)
    \/ \E on \in IntervalCalls : SetPollInterval(on)
    \/ \E old \in SUBSET Route, q \in Route : Discover(old, q)
    \/ ForgetUnregistered
    \/ \E n \in Name, h \in {"up", "down", "hung"} : HealthChanges(n, h)

Spec == Init /\ [][Next]_vars

-----------------------------------------------------------------------------
(* Fairness.  The event loop runs every ready coroutine and fires every    *)
(* timer, so the steps of runs and requests are weakly fair; a check that  *)
(* hangs is not obliged to end, nor a cancelled or a stray one to stop.    *)
(* Two steps of a run depend on others: the storage answers a lookup or    *)
(* storage_timeout ends it, and the application's on_state_change          *)
(* callbacks, awaited before RunEnds without any bound, are assumed to     *)
(* return.                                                                 *)

LoopFairness ==
    /\ \A p \in Probe : WF_vars(RunStep(p)) /\ WF_vars(StartupStep(p))
    /\ WF_vars(StartupEnds)
    /\ \A c \in Client : WF_vars(Answer(c))

FairSpec == Spec /\ LoopFairness

\* In addition: cooldowns and intervals elapse, clients that got an answer ask
\* again (the kubelet, a stream), and a stray check ends once its dependency
\* answers again.
RecoveryFairness ==
    /\ \A n \in Name : WF_vars(CooldownOver(n)) /\ WF_vars(IntervalOver(n))
    /\ \A c \in Client :
         /\ WF_vars(phase[c] = "answered" /\ EndRequest(c))
         /\ WF_vars(Request(c, FALSE))
    /\ \A p \in Probe : WF_vars(health[NameOf[p]] = "up" /\ StrayStops(p))

RecoverySpec == FairSpec /\ RecoveryFairness

-----------------------------------------------------------------------------
(* Properties.                                                             *)

\* The checks of one object that are running: those of its runs and of the
\* startup run, and the ones that were left behind.
Running(p) ==
    stray[p] + (IF run[p] \in Checking THEN 1 ELSE 0)
             + (IF startup[p] \in Checking THEN 1 ELSE 0)

\* A probe is never checked twice at once, whatever mixture of requests,
\* timeouts, ignored cancellations and late ends comes before: what
\* _shared_run, _cancel_check and _abandoned_checks are for.
AtMostOneCheck == \A p \in Probe : Running(p) <= 1

\* "At most one per probe: none is started meanwhile" (__init__, of
\* _abandoned_checks): an object has at most one check left running.
AtMostOneStray == \A p \in Probe : stray[p] <= 1

\* A request only ever waits for a run that is still under way, so the end
\* of that run wakes it: joining in _shared_run loses no wake-up.
WaitersHaveRuns ==
    \A c \in Client, p \in Probe : p \in waiting[c] => run[p] \notin {"none", "done"}

\* While a circuit is open its probe is not being checked, it took Threshold
\* counted failures to open, and a request reads no passing result of a check
\* of this process: with the in-memory storage it reads no passing result at
\* all; with another one only what get_latest found there once
\* set_poll_interval had cleared the results.
\* (For names used by one object: see the README on names shared by two.)
OpenCircuitSuspends ==
    \A p \in CircuitProbe :
        LET result == held[NameOf[p]] IN
        open[NameOf[p]] =>
            /\ run[p] \notin Checking
            /\ errs[NameOf[p]] = Threshold
            /\ result # NoResult /\ (options.inMemory \/ result.by = "self")
                 => result.status = "fail"

\* An answer reports every probe that was registered for the whole request
\* (the docstring of _get_results: the current result of every registered
\* probe).  A probe left out cannot make a report unhealthy.
AnswersAreComplete ==
    \A c \in Client : phase[c] = "answered" =>
        \A p \in asked[c] : answer[c][NameOf[p]] # NoResult

\* An answer holds results checked by this process only: other replicas'
\* results "must not decide this process's readiness" (_get_results).
AnswersAreOwn ==
    \A c \in Client, n \in Name :
        answer[c][n] # NoResult => answer[c][n].by = "self"

\* A check that hangs and has no deadline: it is awaited as long as it hangs.
Unbounded(p) == p \in options.unbounded /\ health[NameOf[p]] = "hung"

\* A request is answered whatever its checks do, hung ones included; so is
\* /startup, whose run ends.  Only a request that comes to wait for a check
\* that hangs without a deadline may wait for ever.
RequestsAreAnswered ==
    /\ \A c \in Client :
         phase[c] = "waiting" ~>
             \/ phase[c] # "waiting"
             \/ \E p \in waiting[c] : run[p] = "check" /\ Unbounded(p)
    /\ startupRun ~>
           ~startupRun \/ \E p \in StartupProbe : startup[p] = "check" /\ Unbounded(p)

\* Once a dependency stays up, its failure is eventually gone for good: no
\* open circuit, abandoned check or cached result keeps reporting it.
FailuresClear ==
    \A n \in Name :
        <>[](health[n] = "up")
            => <>[](held[n] # NoResult => held[n].status = "pass")
=============================================================================
