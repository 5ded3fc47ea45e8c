------------------------------- MODULE Streams -------------------------------
(***************************************************************************)
(* SSE streams and the poll loop they keep alive: _open_stream reserves a  *)
(* slot, _event_stream runs inside the response's task, _on_connect and    *)
(* _on_disconnect start and cancel _poll_loop, and set_poll_interval, the  *)
(* signal handler and _shutdown do so beside them.                         *)
(*                                                                         *)
(* A stream's response and its generator end separately: a task that is    *)
(* cancelled while it sends leaves the generator suspended at its yield,   *)
(* and the event loop closes it later.  A cancelled poll loop ends by      *)
(* itself, so only the loops that were not cancelled are kept.             *)
(*                                                                         *)
(* The server (external) hands over requests while the lifespan lasts and  *)
(* ends it when no response is still to begin.                             *)
(***************************************************************************)
EXTENDS Integers, FiniteSets

CONSTANTS
    Stream,    \* stream connections, each used again once it is over
    MaxStreams \* max_stream_connections

ASSUME MaxStreamsAssumption == MaxStreams \in Nat
ASSUME StreamAssumption == IsFiniteSet(Stream)

VARIABLES
    phase,     \* of each stream: where its response and its generator stand
    once,      \* the streams that end after the event they are sending
    doomed,    \* the streams whose task was cancelled and has not noticed
    slots,     \* _stream_slots
    active,    \* _active_connections
    poll,      \* _poll_task
    lost,      \* does a poll loop run that _poll_task does not refer to?
    polled,    \* is _poll_interval_ms set?
    custom,    \* _has_custom_intervals()
    stopping,  \* _shutting_down
    hook,      \* is _cancel_background_tasks scheduled on the loop?
    signals,   \* what a SIGTERM or SIGINT does: "none", "loop", "flag" (see Signal)
    life       \* of the application: "up", "ending", "down"

vars == <<phase, once, doomed, slots, active, poll, lost, polled, custom,
          stopping, hook, signals, life>>

pollVars == <<active, poll, lost>>
setVars  == <<polled, custom>>
lifeVars == <<stopping, hook, signals, life>>

Phase == {"off",      \* no request
          "open",     \* a slot is reserved, the generator has not started
          "checking", \* the generator awaits _get_results
          "sending",  \* it is suspended at a yield, the task sends the event
          "sleeping", \* it waits for the next event, waking every 0.5 s
          "closing",  \* it is over, the response is being finished
          "dropped"}  \* the response is over, the generator still at its yield

Streaming == {s \in Stream : phase[s] \in {"checking", "sending", "sleeping"}}
Holding   == {s \in Stream : phase[s] \notin {"off", "dropped"}}

TypeOK ==
    /\ phase \in [Stream -> Phase]
    /\ once \subseteq Stream
    /\ doomed \subseteq Streaming
    /\ slots = Cardinality(Holding)
    /\ active = Cardinality({s \in Stream : phase[s] \in
                                {"checking", "sending", "sleeping", "dropped"}})
    /\ poll \in {"none", "running", "cancelled", "ended"}
    /\ lost \in BOOLEAN
    /\ polled \in BOOLEAN
    /\ custom \in BOOLEAN
    /\ stopping \in BOOLEAN
    /\ hook \in BOOLEAN
    /\ signals \in {"none", "loop", "flag"}
    /\ life \in {"up", "ending", "down"}

Init ==
    /\ phase = [s \in Stream |-> "off"]
    /\ once = {}
    /\ doomed = {}
    /\ slots = 0
    /\ active = 0
    /\ poll = "none"
    /\ lost = FALSE
    /\ polled \in BOOLEAN
    /\ custom \in BOOLEAN
    /\ stopping = FALSE
    /\ hook = FALSE
    /\ signals \in {"none", "flag"}  \* "flag": set_started() came before the loop
    /\ life = "up"

-----------------------------------------------------------------------------
(* The poll task, as a function of what it was.                            *)

Done(p) == p \in {"none", "ended"}

\* _on_connect, with n connections including this one.
Connected(p, n) == IF n = 1 /\ Done(p) /\ (polled \/ custom) THEN "running" ELSE p

\* _on_disconnect, with n connections left.
AnyDisconnect(p, n) == IF custom THEN p ELSE "none"  \* fault: not only the last
Disconnected(p, n)  == IF n = 0 /\ ~custom THEN "none" ELSE p

\* _ensure_background_polling, at every health request and event.
Ensured(p) == IF custom /\ ~stopping /\ Done(p) THEN "running" ELSE p

-----------------------------------------------------------------------------
(* One stream.                                                             *)

Goes(s, p) == phase' = [phase EXCEPT ![s] = p]

\* _open_stream: the slot is taken before the response starts.
LateLimit == active < MaxStreams  \* fault: generators are counted, not requests
HasSlot   == slots < MaxStreams

Open(s) ==
    /\ life = "up"
    /\ phase[s] = "off"
    /\ HasSlot
    /\ slots' = slots + 1
    /\ Goes(s, "open")
    /\ UNCHANGED <<once, doomed, pollVars, setVars, lifeVars>>

\* The top of the generator's loop: the next event, unless it is to stop.
NextEvent(s, p) ==
    /\ ~stopping
    /\ Goes(s, "checking")
    /\ once' = IF polled \/ custom THEN once ELSE once \cup {s}
    /\ poll' = Ensured(p)

\* The generator's finally clause, with n connections left.
Finally(s, p, n) ==
    /\ active' = n
    /\ poll' = Disconnected(p, n)
    /\ once' = once \ {s}
    /\ doomed' = doomed \ {s}

\* _install_early_shutdown_hook, called once, on the running loop.
Installed == IF signals = "none" THEN "loop" ELSE signals

\* The generator starts; an expired token or a shutdown ends it at once.
Start(s) ==
    /\ phase[s] = "open"
    /\ \/ NextEvent(s, Connected(poll, active + 1)) /\ active' = active + 1 /\ UNCHANGED doomed
       \/ Goes(s, "closing") /\ Finally(s, Connected(poll, active + 1), active)
    /\ signals' = Installed
    /\ UNCHANGED <<slots, lost, setVars, stopping, hook, life>>

\* The results are there: yield an event, the only one if a filter matched none.
Results(s) ==
    /\ phase[s] = "checking"
    /\ s \notin doomed
    /\ Goes(s, "sending")
    /\ once' \in {once, once \cup {s}}
    /\ UNCHANGED <<doomed, slots, pollVars, setVars, lifeVars>>

\* The event is sent: the generator goes on.
Sent(s) ==
    /\ phase[s] = "sending"
    /\ s \notin doomed
    /\ IF s \in once
       THEN Goes(s, "closing") /\ Finally(s, poll, active - 1)
       ELSE Goes(s, "sleeping") /\ UNCHANGED <<once, doomed, active, poll>>
    /\ UNCHANGED <<slots, lost, setVars, lifeVars>>

\* The sleep is over: end (stopping, expired, the client is gone), send a
\* keepalive comment, or check again.  It may also just sleep on.
Wake(s) ==
    /\ phase[s] = "sleeping"
    /\ s \notin doomed
    /\ \/ Goes(s, "closing") /\ Finally(s, poll, active - 1)
       \/ NextEvent(s, poll) /\ UNCHANGED <<active, doomed>>
       \/ ~stopping /\ Goes(s, "sending") /\ UNCHANGED <<once, active, poll, doomed>>
    /\ UNCHANGED <<slots, lost, setVars, lifeVars>>

\* The response's task is cancelled, because its client is gone or by the
\* registry: inside the generator, the finally clause runs; inside the send,
\* the generator stays at its yield.
Interrupted(s) ==
    /\ s \in Streaming
    /\ slots' = slots - 1
    /\ IF phase[s] = "sending"
       THEN /\ Goes(s, "dropped")
            /\ once' = once \ {s}
            /\ doomed' = doomed \ {s}
            /\ UNCHANGED <<active, poll>>
       ELSE Goes(s, "off") /\ Finally(s, poll, active - 1)
    /\ UNCHANGED <<lost, setVars, lifeVars>>

\* A response ends after its generator, or before it started.
Close(s) ==
    /\ phase[s] \in {"open", "closing"}
    /\ slots' = slots - 1
    /\ Goes(s, "off")
    /\ UNCHANGED <<once, doomed, pollVars, setVars, lifeVars>>

\* The event loop closes a dropped generator.
Finalize(s) ==
    /\ phase[s] = "dropped"
    /\ Goes(s, "off")
    /\ Finally(s, poll, active - 1)
    /\ UNCHANGED <<slots, lost, setVars, lifeVars>>

-----------------------------------------------------------------------------
(* Everything else that starts and stops polling.                          *)

\* set_started(), called on the loop (at the lifespan's start, as a rule).
SetStarted ==
    /\ life = "up"
    /\ signals' = Installed
    /\ poll' = Ensured(poll)
    /\ UNCHANGED <<phase, once, doomed, slots, active, lost, setVars, stopping, hook, life>>

\* Any other health request.
HealthRequest ==
    /\ life = "up"
    /\ poll' = Ensured(poll)
    /\ UNCHANGED <<phase, once, doomed, slots, active, lost, setVars, lifeVars>>

\* add() of a probe with an interval of its own.
AddCustom ==
    /\ life = "up"
    /\ custom' = TRUE
    /\ UNCHANGED <<phase, once, doomed, slots, pollVars, polled, lifeVars>>

\* set_poll_interval(0 or None)
PollOff ==
    /\ life = "up"
    /\ polled' = FALSE
    /\ poll' = IF custom THEN poll ELSE "none"
    /\ UNCHANGED <<phase, once, doomed, slots, active, lost, custom, lifeVars>>

\* set_poll_interval(ms): a loop under way is replaced.
Restarted(p) == IF active > 0 THEN "running" ELSE p

PollOn ==
    /\ life = "up"
    /\ polled' = TRUE
    /\ poll' = Restarted(poll)
    /\ UNCHANGED <<phase, once, doomed, slots, active, lost, custom, lifeVars>>

\* SIGTERM or SIGINT, once the handler is installed: it sets the flag and, if it
\* was installed on the loop that still runs, hands the cancellation of tasks to it.
Signal ==
    /\ life = "up"
    /\ signals # "none"
    /\ stopping' = TRUE
    /\ hook' = (hook \/ signals = "loop")
    /\ UNCHANGED <<phase, once, doomed, slots, pollVars, setVars, signals, life>>

\* _cancel_background_tasks
PollingOnly  == UNCHANGED doomed  \* fault: streams are left to see the flag
CancelStreams == doomed' = Streaming

CancelBackgroundTasks ==
    /\ hook
    /\ hook' = FALSE
    /\ CancelStreams
    /\ poll' = "none"
    /\ UNCHANGED <<phase, once, slots, active, lost, setVars, stopping, signals, life>>

\* _shutdown, up to its wait for the poll task.
TrustsHook == poll' = IF ~stopping /\ poll = "running" THEN "cancelled" ELSE poll
                      \* fault: after a signal, polling was cancelled already
CancelPolling == poll' = IF poll = "running" THEN "cancelled" ELSE poll

ShutdownBegins ==
    /\ life = "up"
    /\ \A s \in Stream : phase[s] # "open"
    /\ stopping' = TRUE
    /\ doomed' = Streaming
    /\ CancelPolling
    /\ life' = IF poll = "none" THEN "down" ELSE "ending"
    /\ UNCHANGED <<phase, once, slots, active, lost, setVars, hook, signals>>

PollEnds ==
    /\ poll = "cancelled"
    /\ poll' = "ended"
    /\ UNCHANGED <<phase, once, doomed, slots, active, lost, setVars, lifeVars>>

\* _shutdown goes on once the task has ended, and forgets whatever
\* _poll_task refers to by then.
PollAwaited ==
    /\ life = "ending"
    /\ poll # "cancelled"
    /\ lost' = (lost \/ poll = "running")
    /\ poll' = "none"
    /\ life' = "down"
    /\ UNCHANGED <<phase, once, doomed, slots, active, setVars, stopping, hook, signals>>

\* A new lifespan; the event loop is done with the streams of the last one.  On
\* a loop of its own, the handler's loop is closed: it only sets the flag.
Restart ==
    /\ life = "down"
    /\ ~hook
    /\ \A s \in Stream : phase[s] = "off"
    /\ life' = "up"
    /\ stopping' = FALSE
    /\ signals' \in {signals, IF signals = "loop" THEN "flag" ELSE signals}
    /\ UNCHANGED <<phase, once, doomed, slots, pollVars, setVars, hook>>

Next ==
    \/ \E s \in Stream :
         \/ Open(s) \/ Start(s) \/ Results(s) \/ Sent(s) \/ Wake(s)
         \/ Interrupted(s) \/ Close(s) \/ Finalize(s)
    \/ SetStarted \/ HealthRequest \/ AddCustom \/ PollOff \/ PollOn
    \/ Signal \/ CancelBackgroundTasks
    \/ ShutdownBegins \/ PollEnds \/ PollAwaited \/ Restart

Spec == Init /\ [][Next]_vars

(* Fairness: the event loop starts generators, wakes them, delivers        *)
(* cancellations and runs what is scheduled.  A client may never read on,  *)
(* and a check without a deadline may hang: Sent, Close and Results are    *)
(* not fair.                                                               *)
FairSpec ==
    /\ Spec
    /\ \A s \in Stream : /\ WF_vars(Start(s)) /\ WF_vars(Wake(s))
                         /\ WF_vars(s \in doomed /\ Interrupted(s))
    /\ WF_vars(CancelBackgroundTasks)

-----------------------------------------------------------------------------
(* Properties.                                                             *)

\* "At most max_stream_connections streams are open at once", through bursts of
\* requests whose generators have not started, and disconnects.
StreamsLimited == Cardinality(Holding) <= MaxStreams

\* Probes on the registry-wide interval "are polled while at least one SSE
\* client is connected", whoever disconnects and whatever interval is set, and
\* "the loop stops when the last one disconnects": without intervals of their
\* own, nothing is polled for nobody (a dropped generator still counts).
PollingFollowsStreams ==
    /\ polled /\ ~stopping /\ Streaming # {} => poll = "running"
    /\ poll = "running" /\ ~custom => active > 0

\* No poll loop ever runs that nothing can cancel, and none outlives _shutdown,
\* whatever was started after a signal's handler cancelled the first.
PollingIsOwned == ~lost /\ (life = "down" => poll = "none")

\* A stream that reads no flag: its client does not read what it is sent, or it
\* awaits results.
Blocked(s) == phase[s] \in {"sending", "checking"}

\* After a signal no stream goes on, so that the server can drain them, even one
\* that is blocked; where the handler only sets the flag, all that are not.
StreamsEnd ==
    stopping ~> \/ ~stopping
                \/ Streaming = {}
                \/ signals = "flag" /\ life = "up" /\ \A s \in Streaming : Blocked(s)
=============================================================================
