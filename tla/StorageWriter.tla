---------------------------- MODULE StorageWriter ----------------------------
(***************************************************************************)
(* How results and alert records reach the storage backend, and how the    *)
(* data of probes no longer registered leaves it.                          *)
(*                                                                         *)
(* A backend other than the in-memory one is written in the background by  *)
(* one task per probe name (_store_result, _drain_results) and one for the *)
(* alert records (_store_alert, _drain_alerts).  Any call may fail or time *)
(* out, and one that timed out was given up on, not undone: the backend    *)
(* may still carry it out, after later calls (late).                       *)
(* _forget_unregistered asks the backend to forget the names this process  *)
(* wrote (_written_names) and no longer registers.                         *)
(* Results are numbered in the order their runs end, alerts likewise.      *)
(***************************************************************************)
EXTENDS Naturals, Sequences, FiniteSets

CONSTANTS
    Name,         \* probe names
    MaxUnwritten, \* _MAX_UNWRITTEN_ALERTS
    MaxMade,      \* bound: the results and alert records made, together
    MaxLate       \* bound: calls given up on that are still to take effect

ASSUME BoundAssumption == MaxUnwritten \in Nat \ {0} /\ MaxMade \in Nat /\ MaxLate \in Nat

None == 0  \* no result; results and alerts are numbered from 1

VARIABLES
    registered, \* the names of _probes
    running,    \* names with a run in flight
    newest,     \* the last result of each name
    unwritten,  \* _unwritten
    writing,    \* what the writer of each name is writing, None without one
    pending,    \* which of that writer's calls have not taken effect yet
    late,       \* calls given up on that may still take effect
    latest,     \* the backend's latest result of each name
    history,    \* the names with results in the backend's history
    tracked,    \* _written_names
    forgetting, \* the names of the forget() call in flight, {} without one
    forgot,     \* has that call taken effect in the backend?
    alerts,     \* the last alert record's number
    backlog,    \* _unwritten_alerts
    alertWrite, \* the record its writer is writing, None without one
    stored,     \* the alert record the backend stored last
    closing,    \* of the shutdown: "open", "flushing", "closed"
    made,       \* the results and alert records so far (to bound them)
    cut,        \* ghost: the flush timed out and its writers were cancelled
    raced       \* ghost: names written again while forget() was under way or
                \* after it, by a run that ended meanwhile or by a late call

writerVars == <<registered, running, newest, unwritten, writing, pending, late, latest,
                history, tracked, forgetting, forgot, alerts, backlog, alertWrite,
                stored, closing, made, cut, raced>>

storeVars  == <<latest, history>>
forgetVars == <<forgetting, forgot>>
alertVars  == <<alerts, backlog, alertWrite, stored>>
closeVars  == <<closing, cut>>
resultVars == <<made, newest, unwritten, writing, raced>>
callVars   == <<pending, late>>

\* The calls of a writer, and those that may be late: the names and the result or
\* alert record they are about.
ResultCalls == {"latest", "history"}
Call == [op : ResultCalls \cup {"forget", "alert"}, names : SUBSET Name, result : Nat]
CallOf(op, names, result) == [op |-> op, names |-> names, result |-> result]

WriterTypeOK ==
    /\ registered \subseteq Name
    /\ running \subseteq Name
    /\ newest \in [Name -> Nat]
    /\ unwritten \in [Name -> Nat]
    /\ writing \in [Name -> Nat]
    /\ pending \in [Name -> SUBSET ResultCalls]
    /\ late \subseteq Call
    /\ latest \in [Name -> Nat]
    /\ history \subseteq Name
    /\ tracked \subseteq Name
    /\ forgetting \subseteq Name
    /\ forgot \in BOOLEAN
    /\ alerts \in Nat
    /\ backlog \in Seq(1 .. alerts)
    /\ Len(backlog) <= MaxUnwritten
    /\ alertWrite \in 0 .. alerts
    /\ stored \in 0 .. alerts
    /\ closing \in {"open", "flushing", "closed"}
    /\ made \in 0 .. MaxMade
    /\ cut \in BOOLEAN
    /\ raced \subseteq Name

WriterInit ==
    /\ registered = Name
    /\ running = {}
    /\ newest = [n \in Name |-> None]
    /\ unwritten = [n \in Name |-> None]
    /\ writing = [n \in Name |-> None]
    /\ pending = [n \in Name |-> {}]
    /\ late = {}
    /\ latest = [n \in Name |-> None]
    /\ history = {}
    /\ tracked = {}
    /\ forgetting = {}
    /\ forgot = FALSE
    /\ alerts = 0
    /\ backlog = << >>
    /\ alertWrite = None
    /\ stored = None
    /\ closing = "open"
    /\ made = 0
    /\ cut = FALSE
    /\ raced = {}

-----------------------------------------------------------------------------
(* Results: the end of _run_probe, _store_result, _drain_results.          *)

RunStarts(n) ==
    /\ n \in registered \ running
    /\ running' = running \cup {n}
    /\ UNCHANGED <<registered, resultVars, callVars, storeVars, tracked,
                   forgetVars, alertVars, closeVars>>

\* While its name's writer is behind, only the newest result is kept.
NewestWaits(n, result) == result

\* A run ends with a result that has data (its probe may have been unregistered
\* meanwhile).  Without a writer one starts and takes the result.
RunEnds(n) ==
    /\ n \in running
    /\ made < MaxMade
    /\ made' = made + 1
    /\ running' = running \ {n}
    /\ newest' = [newest EXCEPT ![n] = @ + 1]
    /\ tracked' = tracked \cup {n}
    /\ raced' = IF n \in forgetting THEN raced \cup {n} ELSE raced \ {n}
    /\ IF writing[n] = None
       THEN /\ writing' = [writing EXCEPT ![n] = newest'[n]]
            /\ pending' = [pending EXCEPT ![n] = ResultCalls]
            /\ unwritten' = [unwritten EXCEPT ![n] = None]
       ELSE /\ unwritten' = [unwritten EXCEPT ![n] = NewestWaits(n, newest'[n])]
            /\ UNCHANGED <<writing, pending>>
    /\ UNCHANGED <<registered, late, storeVars, forgetVars, alertVars, closeVars>>

\* One of the writer's two calls takes effect in the backend.
LatestLands(n) ==
    /\ "latest" \in pending[n]
    /\ pending' = [pending EXCEPT ![n] = @ \ {"latest"}]
    /\ latest' = [latest EXCEPT ![n] = writing[n]]
    /\ UNCHANGED <<registered, running, resultVars, late, history, tracked,
                   forgetVars, alertVars, closeVars>>

HistoryLands(n) ==
    /\ "history" \in pending[n]
    /\ pending' = [pending EXCEPT ![n] = @ \ {"history"}]
    /\ history' = history \cup {n}
    /\ UNCHANGED <<registered, running, resultVars, late, latest, tracked,
                   forgetVars, alertVars, closeVars>>

\* Of calls that were given up on, some may still take effect later.
GivenUp(calls) ==
    \E some \in SUBSET calls :
        /\ late' = late \cup some
        /\ Cardinality(late') <= MaxLate

\* The calls of a writer that have not taken effect.
Unlanded(n) == {CallOf(op, {n}, writing[n]) : op \in pending[n]}

\* Both calls have returned, each with success, an error or a timeout (and has
\* taken effect, never will, or still may): write the newest result waiting, or end.
EndsEarly(n) == None  \* fault: the writer ends with a result waiting
NextResult(n) == unwritten[n]

WriterReturns(n) ==
    /\ writing[n] # None
    /\ writing' = [writing EXCEPT ![n] = NextResult(n)]
    /\ unwritten' = [unwritten EXCEPT ![n] = IF NextResult(n) = None THEN @ ELSE None]
    /\ pending' = [pending EXCEPT ![n] = IF NextResult(n) = None THEN {} ELSE ResultCalls]
    /\ GivenUp(Unlanded(n))
    /\ UNCHANGED <<registered, running, made, newest, raced, storeVars, tracked, forgetVars,
                   alertVars, closeVars>>

-----------------------------------------------------------------------------
(* Alert records: _store_alert, _drain_alerts.                             *)

\* The deque drops its oldest record when it is full.
NewestFirst(q, x) ==                                  \* fault: the wrong end
    <<x>> \o (IF Len(q) < MaxUnwritten THEN q ELSE Tail(q))
Pushed(q, x) == IF Len(q) < MaxUnwritten THEN Append(q, x) ELSE Append(Tail(q), x)

AlertRecorded ==
    /\ made < MaxMade
    /\ made' = made + 1
    /\ alerts' = alerts + 1
    /\ LET waiting == Pushed(backlog, alerts') IN
       IF alertWrite = None
       THEN /\ alertWrite' = Head(waiting)
            /\ backlog' = Tail(waiting)
       ELSE /\ backlog' = waiting
            /\ UNCHANGED alertWrite
    /\ UNCHANGED <<registered, running, newest, unwritten, writing, raced, callVars,
                   storeVars, tracked, forgetVars, stored, closeVars>>

UnlandedAlert == IF alertWrite = None THEN {} ELSE {CallOf("alert", {}, alertWrite)}

\* append_alert returns: it has taken effect, never will, or still may; then the
\* next record.
AlertWriterReturns ==
    /\ alertWrite # None
    /\ \/ stored' = alertWrite /\ UNCHANGED late
       \/ UNCHANGED stored /\ GivenUp(UnlandedAlert)
    /\ alertWrite' = IF backlog = << >> THEN None ELSE Head(backlog)
    /\ backlog' = IF backlog = << >> THEN backlog ELSE Tail(backlog)
    /\ UNCHANGED <<registered, running, resultVars, pending, storeVars, tracked,
                   alerts, forgetVars, closeVars>>

-----------------------------------------------------------------------------
(* _forget_unregistered and the storage's forget(names).                   *)

\* discover_routes(refresh=True) drops a route probe, or registers it anew.
Unregister(n) ==
    /\ n \in registered
    /\ registered' = registered \ {n}
    /\ UNCHANGED <<running, resultVars, callVars, storeVars, tracked, forgetVars,
                   alertVars, closeVars>>

Register(n) ==
    /\ n \notin registered
    /\ registered' = registered \cup {n}
    /\ UNCHANGED <<running, resultVars, callVars, storeVars, tracked, forgetVars,
                   alertVars, closeVars>>

HastyStale == tracked \ registered  \* fault: a write still on its way is ignored
Stale == {n \in tracked \ registered : writing[n] = None}

EveryName(names) == Name      \* fault: the data of every name is deleted
Deleted(names)   == names

ForgetCalled ==
    /\ closing = "open"
    /\ forgetting = {}
    /\ Stale # {}
    /\ forgetting' = Stale
    /\ forgot' = FALSE
    /\ UNCHANGED <<registered, running, resultVars, callVars, storeVars, tracked,
                   alertVars, closeVars>>

\* The backend deletes what it keeps of the names.
Delete(names) ==
    /\ latest' = [n \in Name |-> IF n \in Deleted(names) THEN None ELSE latest[n]]
    /\ history' = history \ Deleted(names)

ForgetLands ==
    /\ forgetting # {}
    /\ ~forgot
    /\ forgot' = TRUE
    /\ Delete(forgetting)
    /\ UNCHANGED <<registered, running, resultVars, callVars, tracked, forgetting,
                   alertVars, closeVars>>

\* The call returns: the names are no longer tracked.
ForgetReturns ==
    /\ forgetting # {}
    /\ forgot
    /\ tracked' = tracked \ forgetting
    /\ forgetting' = {}
    /\ forgot' = FALSE
    /\ UNCHANGED <<registered, running, resultVars, callVars, storeVars, alertVars,
                   closeVars>>

\* The forget() call in flight, unless it has taken effect.
UnlandedForget == IF forgetting = {} \/ forgot THEN {} ELSE {CallOf("forget", forgetting, None)}

\* It fails or times out, whether it takes effect or not: retried at a later pass.
ForgetFails ==
    /\ forgetting # {}
    /\ GivenUp(UnlandedForget)
    /\ forgetting' = {}
    /\ forgot' = FALSE
    /\ UNCHANGED <<registered, running, resultVars, pending, storeVars, tracked,
                   alertVars, closeVars>>

-----------------------------------------------------------------------------
(* Calls that take effect after they were given up on (asyncio.wait_for    *)
(* ends the wait, not what the backend does).                              *)

LateResultLands(call) ==
    /\ call \in late
    /\ call.op \in ResultCalls
    /\ latest' = [n \in Name |->
                    IF call.op = "latest" /\ n \in call.names THEN call.result ELSE latest[n]]
    /\ history' = IF call.op = "history" THEN history \cup call.names ELSE history
    /\ raced' = raced \cup {n \in call.names :
                              n \notin tracked \/ (n \in forgetting /\ forgot)}
    /\ late' = late \ {call}
    /\ UNCHANGED <<registered, running, made, newest, unwritten, writing, pending, tracked,
                   forgetVars, alertVars, closeVars>>

\* Two late calls that forget the same names are one record, which may stay.
LateForgetLands(call) ==
    /\ call \in late
    /\ call.op = "forget"
    /\ Delete(call.names)
    /\ late' \in {late, late \ {call}}
    /\ UNCHANGED <<registered, running, resultVars, pending, tracked, forgetVars,
                   alertVars, closeVars>>

LateAlertLands(call) ==
    /\ call \in late
    /\ call.op = "alert"
    /\ stored' = call.result
    /\ late' = late \ {call}
    /\ UNCHANGED <<registered, running, resultVars, pending, storeVars, tracked,
                   forgetVars, alerts, backlog, alertWrite, closeVars>>

-----------------------------------------------------------------------------
(* _shutdown: the forget task is cancelled, then _flush_writes.            *)

FlushBegins ==
    /\ closing = "open"
    /\ closing' = "flushing"
    /\ GivenUp(UnlandedForget)
    /\ forgetting' = {}
    /\ forgot' = FALSE
    /\ UNCHANGED <<registered, running, resultVars, pending, storeVars, tracked,
                   alertVars, cut>>

Idle == alertWrite = None /\ \A n \in Name : writing[n] = None

Flushed ==
    /\ closing = "flushing"
    /\ Idle
    /\ closing' = "closed"
    /\ UNCHANGED <<registered, running, resultVars, callVars, storeVars, tracked,
                   forgetVars, alertVars, cut>>

\* After _WRITE_FLUSH_TIMEOUT_S the writers are cancelled.
FlushTimeout ==
    /\ closing = "flushing"
    /\ ~Idle
    /\ closing' = "closed"
    /\ cut' = TRUE
    /\ GivenUp((UNION {Unlanded(n) : n \in Name}) \cup UnlandedAlert)
    /\ writing' = [n \in Name |-> None]
    /\ pending' = [n \in Name |-> {}]
    /\ alertWrite' = None
    /\ UNCHANGED <<registered, running, made, newest, unwritten, raced, storeVars, tracked,
                   forgetVars, alerts, backlog, stored>>

WriterNext ==
    \/ \E n \in Name :
         \/ RunStarts(n) \/ RunEnds(n)
         \/ LatestLands(n) \/ HistoryLands(n) \/ WriterReturns(n)
         \/ Unregister(n) \/ Register(n)
    \/ AlertRecorded \/ AlertWriterReturns
    \/ ForgetCalled \/ ForgetLands \/ ForgetReturns \/ ForgetFails
    \/ \E call \in late :
         LateResultLands(call) \/ LateForgetLands(call) \/ LateAlertLands(call)
    \/ FlushBegins \/ Flushed \/ FlushTimeout

WriterSpec == WriterInit /\ [][WriterNext]_writerVars

-----------------------------------------------------------------------------
(* Properties.                                                             *)

\* The newest result is always on its way: what waits is the newest one and
\* has a writer, also if it arrived while the writer was about to end (unless
\* shutdown cut it short), and when nothing waits the writer has the newest.
NoResultLeftBehind ==
    \A n \in Name :
        /\ unwritten[n] # None =>
              unwritten[n] = newest[n] /\ (~cut => writing[n] # None)
        /\ writing[n] # None /\ unwritten[n] = None => writing[n] = newest[n]

\* A late call, given up on, by which the latest result of n becomes this one.
ByLateCall(n, result) ==
    \E call \in late :
        /\ n \in call.names
        /\ \/ call.op = "latest" /\ call.result = result
           \/ call.op = "forget" /\ result = None

\* The backend's latest result goes back in time only by forget(), or by a call
\* that timed out and takes effect after all: whatever was retried, dropped or
\* forgotten meanwhile, the writer never overtakes itself.
StoreNeverGoesBack ==
    [][\A n \in Name :
         \/ latest'[n] >= latest[n]
         \/ latest'[n] = None /\ n \in forgetting
         \/ ByLateCall(n, latest'[n])]_writerVars

\* Alert records are stored in the order of the changes and never twice,
\* whichever are dropped while the backend is behind or failing: what is stored
\* and what may still be stored late is older than what is being written, and that
\* is older than what waits.  (Only a call that timed out comes after later ones.)
AlertsStoredInOrder ==
    alertWrite # None => /\ stored < alertWrite
                         /\ \A call \in late : call.op = "alert" => call.result < alertWrite
                         /\ \A i \in DOMAIN backlog : alertWrite < backlog[i]

Kept(n) == latest[n] # None \/ n \in history

\* "A name stays tracked until forget() succeeds, so a failed call is retried,
\* and until any background write of it has landed" (_forget_unregistered):
\* what this process wrote and the backend keeps, it will still ask to forget.
TrackedUntilForgotten == \A n \in Name : Kept(n) => n \in tracked

\* The same, except for a name whose run ended while forget() was under way and one
\* of which a call that had timed out wrote after forget() had deleted it.
TrackedUnlessRaced == \A n \in Name \ raced : Kept(n) => n \in tracked
=============================================================================
