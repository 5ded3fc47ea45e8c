---------------------------- MODULE AlertPipeline ----------------------------
(***************************************************************************)
(* From a probe's new status to the alerters: _fire_state_changes records  *)
(* the change and runs the callbacks, _send_to_alerters queues an alert or *)
(* coalesces it (alert_min_interval_s), _alert_loop sends what is queued   *)
(* and what has fallen due, and _shutdown drains the queue.                *)
(*                                                                         *)
(* Time advances by Tick.  A stored monotonic time is kept as its distance *)
(* from now, so the model has no clock to bound: since[n] is the time      *)
(* since the last alert of n, due[n] and timer are the times left.         *)
(* Dispatching an alert is one attempt, whatever the alerters answer.      *)
(* Cross-replica claims are off (alert_dedupe_window_s=None).              *)
(***************************************************************************)
EXTENDS Integers, Sequences, FiniteSets, SequencesExt

CONSTANTS
    Name,       \* probe names
    Status,     \* the statuses of results that have data
    Healthy,    \* the status taken for a name without a result yet
    Interval,   \* alert_min_interval_s in ticks, 0 for none
    QueueCap,   \* maxsize of the alert queue
    Removable,  \* the names that may be unregistered and forgotten
    Restarts,   \* TRUE: the application's lifespan may run again
    Wake,       \* the None item that only wakes the worker
    NoTime,     \* no pending marker, or a worker that waits without a timeout
    Quiet       \* no result of the name is being announced

ASSUME StatusAssumption == Healthy \in Status
ASSUME IntervalAssumption == Interval \in Nat
ASSUME QueueAssumption == QueueCap \in Nat \ {0}
ASSUME RemovableAssumption == Removable \subseteq Name /\ Restarts \in BOOLEAN
ASSUME NoTimeAssumption == NoTime \notin Nat
ASSUME NameAssumption == IsFiniteSet(Name)

VARIABLES
    state,     \* _probe_states
    alerted,   \* _alerted_states: the status alerters were last sent
    since,     \* now - _alert_last_sent_at, saturated at Interval
    due,       \* _alert_pending - now, or NoTime
    fire,      \* a result whose callbacks are running, per name
    queue,     \* _alert_queue
    worker,    \* _alert_worker: where its loop stands
    timer,     \* the timeout left of the worker's wait
    maint,     \* _in_maintenance()
    stopping,  \* _shutting_down
    life,      \* of the application: "up", "draining" or "down"
    told       \* ghost: the last status handed to the alerters

vars == <<state, alerted, since, due, fire, queue, worker, timer, maint,
          stopping, life, told>>

sendVars == <<alerted, since, due, queue>>
lifeVars == <<maint, stopping, life>>

Alert  == [probe : Name, old : Status, new : Status]
Firing == [status : Status, old : Status, muted : BOOLEAN]
ASSUME WakeAssumption == Wake \notin Alert

TypeOK ==
    /\ state \in [Name -> Status]
    /\ alerted \in [Name -> Status]
    /\ since \in [Name -> 0 .. Interval]
    /\ due \in [Name -> 0 .. Interval \cup {NoTime}]
    /\ fire \in [Name -> Firing \cup {Quiet}]
    /\ queue \in Seq(Alert \cup {Wake})
    /\ Len(queue) <= QueueCap
    /\ worker \in {"none", "top", "wait", "dispatch"}
    /\ timer \in 0 .. Interval \cup {NoTime}
    /\ maint \in BOOLEAN
    /\ stopping \in BOOLEAN
    /\ life \in {"up", "draining", "down"}
    /\ told \in [Name -> Status]

Init ==
    /\ state = [n \in Name |-> Healthy]
    /\ alerted = [n \in Name |-> Healthy]
    /\ since = [n \in Name |-> Interval]
    /\ due = [n \in Name |-> NoTime]
    /\ fire = [n \in Name |-> Quiet]
    /\ queue = << >>
    /\ worker = "none"
    /\ timer = NoTime
    /\ maint = FALSE
    /\ stopping = FALSE
    /\ life = "up"
    /\ told = [n \in Name |-> Healthy]

Full     == Len(queue) >= QueueCap

-----------------------------------------------------------------------------
(* _send_to_alerters(name, status, transition), from a check.              *)

\* _ensure_alert_worker: never once shutting down.
EnsureWorker == worker' = IF worker = "none" /\ ~stopping THEN "top" ELSE worker

\* The alert queued for a status that differs from the last one sent.  A real
\* transition has the same form when it starts there, and is replaced if not.
AlertOf(n, s) == [probe |-> n, old |-> alerted[n], new |-> s]

\* Back where alerters last saw it: any coalesced change is moot.
SendNothing(n, s) ==
    /\ s = alerted[n]
    /\ due' = [due EXCEPT ![n] = NoTime]
    /\ UNCHANGED <<alerted, since, queue, worker>>

RateLimited(n) == Interval > 0 /\ since[n] < Interval

\* Within the interval of the last alert: leave a marker and wake the worker
\* so that it waits no longer than that.
WakeWorker(n) ==
    /\ EnsureWorker
    /\ queue' = IF Full THEN queue ELSE Append(queue, Wake)

EarlyMark(n) == Interval - since[n] - 1       \* fault: one tick too soon
MarkTime(n) == Interval - since[n]

SendLater(n, s) ==
    /\ s # alerted[n]
    /\ RateLimited(n)
    /\ IF due[n] # NoTime
       THEN UNCHANGED <<due, queue, worker>>
       ELSE /\ due' = [due EXCEPT ![n] = MarkTime(n)]
            /\ WakeWorker(n)
    /\ UNCHANGED <<alerted, since>>

LossySendNow(n, s) ==  \* fault: an alert the full queue refused counts as sent
    /\ s # alerted[n]
    /\ ~RateLimited(n)
    /\ EnsureWorker
    /\ queue' = IF Full THEN queue ELSE Append(queue, AlertOf(n, s))
    /\ alerted' = [alerted EXCEPT ![n] = s]
    /\ since' = [since EXCEPT ![n] = 0]
    /\ due' = [due EXCEPT ![n] = NoTime]
SendNow(n, s) ==
    /\ s # alerted[n]
    /\ ~RateLimited(n)
    /\ EnsureWorker
    /\ IF Full
       THEN UNCHANGED sendVars
       ELSE /\ queue' = Append(queue, AlertOf(n, s))
            /\ alerted' = [alerted EXCEPT ![n] = s]
            /\ since' = [since EXCEPT ![n] = 0]
            /\ due' = [due EXCEPT ![n] = NoTime]

SendToAlerters(n, s, muted) ==
    \/ muted /\ UNCHANGED <<sendVars, worker>>
    \/ ~muted /\ (SendNothing(n, s) \/ SendLater(n, s) \/ SendNow(n, s))

-----------------------------------------------------------------------------
(* _fire_state_changes, called with each result of a run.  Runs of a name  *)
(* follow each other (CheckRunner), so there is one at a time per name.    *)

\* The status did not change: no record, no callback, nothing is awaited.
ObserveSame(n) ==
    /\ fire[n] = Quiet
    /\ SendToAlerters(n, state[n], maint)
    /\ UNCHANGED <<state, fire, timer, lifeVars, told>>

\* It changed: the record is stored and the callbacks are awaited.  Whether
\* alerters are muted was decided before.
ObserveChange(n, s) ==
    /\ fire[n] = Quiet
    /\ s # state[n]
    /\ state' = [state EXCEPT ![n] = s]
    /\ fire' = [fire EXCEPT ![n] = [status |-> s, old |-> state[n], muted |-> maint]]
    /\ UNCHANGED <<sendVars, worker, timer, lifeVars, told>>

\* The callbacks are done (a failing one is logged): tell the alerters.
CallbacksDone(n) ==
    /\ fire[n] # Quiet
    /\ SendToAlerters(n, fire[n].status, fire[n].muted)
    /\ fire' = [fire EXCEPT ![n] = Quiet]
    /\ UNCHANGED <<state, timer, lifeVars, told>>

-----------------------------------------------------------------------------
(* _alert_loop.                                                            *)

\* The names _send_due_alerts queues an alert for: their marker fell due and
\* their current status still differs from the one last sent.
Due       == {n \in Name : due[n] # NoTime /\ due[n] <= 0}
DueToSend == IF maint THEN {} ELSE {n \in Due : state[n] # alerted[n]}

\* The markers that fell due are deleted first, whatever becomes of them.
Unmarked == [n \in Name |-> IF n \in Due THEN NoTime ELSE due[n]]

\* _next_pending_alert_delay
UntimedDelay(marks) == NoTime  \* fault: the worker waits for an item only
LastDelay(marks) ==            \* fault: it waits for the last marker
    LET pending == {n \in Name : marks[n] # NoTime}
    IN IF pending = {} THEN NoTime ELSE Max({marks[n] : n \in pending})
NextDelay(marks) ==
    LET pending == {n \in Name : marks[n] # NoTime}
    IN IF pending = {} THEN NoTime ELSE Min({marks[n] : n \in pending})

\* _send_due_alerts, in any order, as far as the queue has room; then wait.
WorkerTop ==
    /\ worker = "top"
    /\ LET room == Min({QueueCap - Len(queue), Cardinality(DueToSend)}) IN
       \E sent \in {S \in SUBSET DueToSend : Cardinality(S) = room} :
         /\ \E order \in SetToSeqs(sent) :
              queue' = queue \o [i \in DOMAIN order |-> AlertOf(order[i], state[order[i]])]
         /\ alerted' = [n \in Name |-> IF n \in sent THEN state[n] ELSE alerted[n]]
         /\ since' = [n \in Name |-> IF n \in sent THEN 0 ELSE since[n]]
         /\ due' = Unmarked
    /\ timer' = NextDelay(due')
    /\ worker' = "wait"
    /\ UNCHANGED <<state, fire, lifeVars, told>>

\* queue.get(): a wake-up only starts the loop over.
WorkerWoken ==
    /\ worker = "wait"
    /\ queue # << >>
    /\ Head(queue) = Wake
    /\ queue' = Tail(queue)
    /\ worker' = "top"
    /\ timer' = NoTime
    /\ UNCHANGED <<state, alerted, since, due, fire, lifeVars, told>>

WorkerTakes ==
    /\ worker = "wait"
    /\ queue # << >>
    /\ Head(queue) # Wake
    /\ queue' = Tail(queue)
    /\ told' = [told EXCEPT ![Head(queue).probe] = Head(queue).new]
    /\ worker' = "dispatch"
    /\ timer' = NoTime
    /\ UNCHANGED <<state, alerted, since, due, fire, lifeVars>>

\* _dispatch_alert is over: every alerter has answered, failed or timed out.
WorkerDispatched ==
    /\ worker = "dispatch"
    /\ worker' = "top"
    /\ UNCHANGED <<state, alerted, since, due, fire, queue, timer, lifeVars, told>>

\* The wait times out: a coalesced alert is due.
WorkerTimeout ==
    /\ worker = "wait"
    /\ timer # NoTime
    /\ timer <= 0
    /\ worker' = "top"
    /\ timer' = NoTime
    /\ UNCHANGED <<state, alerted, since, due, fire, queue, lifeVars, told>>

WorkerStep == WorkerTop \/ WorkerWoken \/ WorkerTakes \/ WorkerDispatched \/ WorkerTimeout

-----------------------------------------------------------------------------
(* Time, maintenance, registration, shutdown and restart.                  *)

CountDown(t) == IF t = NoTime \/ t = 0 THEN t ELSE t - 1

Tick ==
    /\ Interval > 0
    /\ since' = [n \in Name |-> Min({since[n] + 1, Interval})]
    /\ due' = [n \in Name |-> CountDown(due[n])]
    /\ timer' = CountDown(timer)
    /\ UNCHANGED <<state, alerted, fire, queue, worker, lifeVars, told>>

\* set_maintenance; clear_maintenance or the end of the window.
SetMaintenance ==
    /\ ~maint
    /\ maint' = TRUE
    /\ UNCHANGED <<state, sendVars, fire, worker, timer, stopping, life, told>>

MaintenanceEnds ==
    /\ maint
    /\ maint' = FALSE
    /\ UNCHANGED <<state, sendVars, fire, worker, timer, stopping, life, told>>

\* _forget_unregistered drops the per-name state of a name not registered.
Forget(n) ==
    /\ state' = [state EXCEPT ![n] = Healthy]
    /\ alerted' = [alerted EXCEPT ![n] = Healthy]
    /\ since' = [since EXCEPT ![n] = Interval]
    /\ due' = [due EXCEPT ![n] = NoTime]
    /\ UNCHANGED <<fire, queue, worker, timer, lifeVars, told>>

\* SIGTERM: the chained handler only sets the flag.
Signal ==
    /\ life = "up"
    /\ ~stopping
    /\ stopping' = TRUE
    /\ UNCHANGED <<state, sendVars, fire, worker, timer, maint, life, told>>

\* _shutdown, up to its wait for the queue.  With alerts queued and no worker
\* one is started; with neither there is nothing to wait for.
DrainWorker == worker' = IF worker = "none" /\ queue # << >> THEN "top" ELSE worker

ShutdownBegins ==
    /\ life = "up"
    /\ stopping' = TRUE
    /\ DrainWorker
    /\ life' = IF worker = "none" /\ queue = << >> THEN "down" ELSE "draining"
    /\ UNCHANGED <<state, sendVars, fire, timer, maint, told>>

StopWorker ==
    /\ life = "draining"
    /\ life' = "down"
    /\ worker' = "none"
    /\ timer' = NoTime
    /\ UNCHANGED <<state, sendVars, fire, maint, stopping, told>>

\* queue.join() returns once every item taken is done with, or times out.
Drained      == queue = << >> /\ worker # "dispatch" /\ StopWorker
DrainTimeout == (queue # << >> \/ worker = "dispatch") /\ StopWorker

\* A new lifespan in the same process.
Restart ==
    /\ Restarts
    /\ life = "down"
    /\ life' = "up"
    /\ stopping' = FALSE
    /\ UNCHANGED <<state, sendVars, fire, worker, timer, maint, told>>

Next ==
    \/ \E n \in Name : ObserveSame(n) \/ CallbacksDone(n)
    \/ \E n \in Name, s \in Status : ObserveChange(n, s)
    \/ WorkerStep
    \/ Tick
    \/ SetMaintenance \/ MaintenanceEnds
    \/ \E n \in Removable : Forget(n)
    \/ Signal \/ ShutdownBegins \/ Drained \/ DrainTimeout \/ Restart

Spec == Init /\ [][Next]_vars

-----------------------------------------------------------------------------
(* Fairness: the event loop runs the worker and the callbacks, and time    *)
(* passes.  That checks go on (a poll loop, a kubelet) is not assumed here. *)

FairSpec ==
    /\ Spec
    /\ WF_vars(WorkerStep)
    /\ WF_vars(Tick)
    /\ \A n \in Name : WF_vars(CallbacksDone(n))

-----------------------------------------------------------------------------
(* Properties.                                                             *)

\* The places of n's alerts in the queue, and the status alerters will have
\* been told once the alerts before place i are sent.
Places(n) == {i \in DOMAIN queue : queue[i] # Wake /\ queue[i].probe = n}
ToldBefore(n, i) ==
    LET earlier == {j \in Places(n) : j < i}
    IN IF earlier = {} THEN told[n] ELSE queue[Max(earlier)].new

\* The alerts of a probe tell one story: each starts from the status the one
\* before it ended with and changes it, and the last one ends where
\* _alerted_states stands -- through coalescing, maintenance, a full queue
\* and callbacks that run while the worker sends.
ChainIsContiguous ==
    \A n \in Name \ Removable :
        /\ \A i \in Places(n) : /\ queue[i].old = ToldBefore(n, i)
                                /\ queue[i].new # queue[i].old
        /\ ToldBefore(n, QueueCap + 1) = alerted[n]

\* A worker that waits will be woken in time for every coalesced alert: by an
\* item in the queue, or by its timeout at the latest when the alert is due.
NoLostWakeup ==
    \A n \in Name : worker = "wait" /\ due[n] # NoTime =>
        queue # << >> \/ (timer # NoTime /\ timer <= due[n])

\* Two alerts of a probe are never queued within alert_min_interval_s, by a
\* check or by the worker (which does not test the rate again).
FlapLimited ==
    [][\A n \in Name \ Removable : alerted'[n] # alerted[n] => since[n] = Interval]_vars

\* An alert that is queued while the application runs has a worker to send it.
\* "Each lifespan starts the registry afresh" (_hook_shutdown) says so of an
\* application run twice, too.
NoStrandedAlert == queue # << >> /\ life = "up" /\ ~stopping => worker # "none"

\* The application runs outside maintenance, and its alerts are attended to: a
\* new lifespan does not start the worker for what an earlier one left behind.
Attended == worker # "none" \/ (queue = << >> /\ \A n \in Name : due[n] = NoTime)
Calm == ~maint /\ life = "up" /\ ~stopping /\ Attended

\* Every probe is checked again and again.
ChecksGoOn == \A n \in Name : WF_vars(ObserveSame(n))

\* Once statuses are stable and maintenance is over, the alerters are told the
\* final ones, as long as checks go on (a full queue only delays it).
FinalStateAnnounced == ChecksGoOn =>
    \A final \in [Name -> Status] :
        <>[](state = final /\ Calm) =>
            <>[](\A n \in Name \ Removable : told[n] = final[n])

\* A coalesced change is sent, or undone, even if no check follows -- unless
\* the queue is full or the application is in maintenance or stopping.
CoalescedIsSent ==
    \A n \in Name : due[n] # NoTime ~> (alerted[n] = state[n] \/ ~Calm \/ Full)

\* "The final state is never lost (it is sent even if the probe is not checked
\* again)": the same without the exception of a full queue.
CoalescedIsNeverLost ==
    \A n \in Name : due[n] # NoTime ~> (alerted[n] = state[n] \/ ~Calm)
=============================================================================
