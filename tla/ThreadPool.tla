------------------------------ MODULE ThreadPool ------------------------------
(***************************************************************************)
(* _DaemonThreadPool and SingleFlight: the blocking calls of probes, made  *)
(* by at most |Worker| daemon threads.                                     *)
(*                                                                         *)
(* SingleFlight.run submits from the event loop, one call at a time, while *)
(* the workers run on their own: submit's put and its choice between an    *)
(* idle worker and a new one are two steps.  A call is live until its      *)
(* future is cancelled in the queue; the worker that gets it then skips it.*)
(***************************************************************************)
EXTENDS Naturals, Sequences, FiniteSets

CONSTANTS
    Owner,    \* the SingleFlight objects, one per probe
    Worker,   \* the threads the pool may start (_MAX_WORKERS of them)
    MaxQueue, \* bound: items in the work queue
    Nobody,   \* no call is being submitted, or a worker makes none
    Stop      \* the None item that ends the workers

ASSUME WorkerAssumption == IsFiniteSet(Worker) /\ Worker # {}
ASSUME NobodyAssumption == Nobody \notin Owner
ASSUME QueueAssumption == MaxQueue \in Nat

Call == [owner : Owner, live : BOOLEAN]
ASSUME StopAssumption == Stop \notin Call

VARIABLES
    work,       \* _work
    idle,       \* the permits of _idle
    started,    \* _threads
    thread,     \* what each thread is doing
    making,     \* the owner of the call each thread is making
    submitting, \* the owner whose submit() holds _lock
    future,     \* of each owner: "free", "queued" or "running"
    shutdown    \* where shutdown() stands: _shutdown is set unless "no"

poolVars == <<work, idle, started, thread, making, submitting, future, shutdown>>

PoolTypeOK ==
    /\ work \in Seq(Call \cup {Stop})
    /\ idle \in Nat
    /\ started \subseteq Worker
    /\ thread \in [Worker -> {"none", "get", "run", "release", "ended"}]
    /\ making \in [Worker -> Owner \cup {Nobody}]
    /\ submitting \in Owner \cup {Nobody}
    /\ future \in [Owner -> {"free", "queued", "running"}]
    /\ shutdown \in {"no", "draining", "stopping", "over"}

PoolInit ==
    /\ work = << >>
    /\ idle = 0
    /\ started = {}
    /\ thread = [w \in Worker |-> "none"]
    /\ making = [w \in Worker |-> Nobody]
    /\ submitting = Nobody
    /\ future = [o \in Owner |-> "free"]
    /\ shutdown = "no"

-----------------------------------------------------------------------------
(* SingleFlight.run and submit.                                            *)

\* Otherwise run() raises StillRunning and submits nothing.
QueuedOnlyBusy(o) == future[o] = "queued"  \* fault: a running call is not busy
Busy(o) == future[o] # "free"

Put(o) ==
    /\ submitting = Nobody
    /\ shutdown = "no"
    /\ ~Busy(o)
    /\ Len(work) < MaxQueue
    /\ work' = Append(work, [owner |-> o, live |-> TRUE])
    /\ future' = [future EXCEPT ![o] = "queued"]
    /\ submitting' = o
    /\ UNCHANGED <<idle, started, thread, making, shutdown>>

\* Hand the item to an idle worker if there is one, start another otherwise.
ReusedPermit == UNCHANGED idle  \* fault: the idle worker stays on offer
TakePermit == idle' = idle - 1

SomeIdle    == idle > 0

HandToIdle ==
    /\ submitting # Nobody
    /\ SomeIdle
    /\ TakePermit
    /\ submitting' = Nobody
    /\ UNCHANGED <<work, started, thread, making, future, shutdown>>

StartWorker ==
    /\ submitting # Nobody
    /\ ~SomeIdle
    /\ submitting' = Nobody
    /\ \E w \in Worker \ started :
         /\ started' = started \cup {w}
         /\ thread' = [thread EXCEPT ![w] = "get"]
    /\ UNCHANGED <<work, idle, making, future, shutdown>>

\* At the cap the item waits its turn.
LeaveQueued ==
    /\ submitting # Nobody
    /\ ~SomeIdle
    /\ started = Worker
    /\ submitting' = Nobody
    /\ UNCHANGED <<work, idle, started, thread, making, future, shutdown>>

\* The check that awaits the call is cancelled.  A call already running goes on
\* and keeps its owner busy; a queued one is cancelled where it stands.
CancelQueued(o) ==
    /\ submitting = Nobody
    /\ future[o] = "queued"
    /\ future' = [future EXCEPT ![o] = "free"]
    /\ work' = [i \in DOMAIN work |->
                  IF work[i] # Stop /\ work[i].owner = o
                  THEN [owner |-> o, live |-> FALSE] ELSE work[i]]
    /\ UNCHANGED <<idle, started, thread, making, submitting, shutdown>>

-----------------------------------------------------------------------------
(* _worker and _run.                                                       *)

GetCall(w) ==
    /\ thread[w] = "get"
    /\ work # << >>
    /\ Head(work) # Stop
    /\ Head(work).live
    /\ work' = Tail(work)
    /\ thread' = [thread EXCEPT ![w] = "run"]
    /\ making' = [making EXCEPT ![w] = Head(work).owner]
    /\ future' = [future EXCEPT ![Head(work).owner] = "running"]
    /\ UNCHANGED <<idle, started, submitting, shutdown>>

EndsThread(w) == thread' = [thread EXCEPT ![w] = "ended"]  \* fault: the worker gives up
SkipsCall(w)  == thread' = [thread EXCEPT ![w] = "release"]

GetCancelled(w) ==
    /\ thread[w] = "get"
    /\ work # << >>
    /\ Head(work) # Stop
    /\ ~Head(work).live
    /\ work' = Tail(work)
    /\ SkipsCall(w)
    /\ UNCHANGED <<idle, started, making, submitting, future, shutdown>>

\* The shutdown signal is passed on to the next worker.
GetStop(w) ==
    /\ thread[w] = "get"
    /\ work # << >>
    /\ Head(work) = Stop
    /\ work' = Append(Tail(work), Stop)
    /\ thread' = [thread EXCEPT ![w] = "ended"]
    /\ UNCHANGED <<idle, started, making, submitting, future, shutdown>>

CallReturns(w) ==
    /\ thread[w] = "run"
    /\ thread' = [thread EXCEPT ![w] = "release"]
    /\ making' = [making EXCEPT ![w] = Nobody]
    /\ future' = [future EXCEPT ![making[w]] = "free"]
    /\ UNCHANGED <<work, idle, started, submitting, shutdown>>

Release(w) ==
    /\ thread[w] = "release"
    /\ idle' = idle + 1
    /\ thread' = [thread EXCEPT ![w] = "get"]
    /\ UNCHANGED <<work, started, making, submitting, future, shutdown>>

-----------------------------------------------------------------------------
(* shutdown(cancel_futures): refuse calls, cancel the queued ones if asked *)
(* to (while the workers go on taking them), then end the workers.         *)

ShutdownBegins(cancel) ==
    /\ submitting = Nobody
    /\ shutdown = "no"
    /\ shutdown' = IF cancel THEN "draining" ELSE "stopping"
    /\ UNCHANGED <<work, idle, started, thread, making, submitting, future>>

DrainOne ==
    /\ shutdown = "draining"
    /\ work # << >>
    /\ work' = Tail(work)
    /\ future' = IF Head(work).live THEN [future EXCEPT ![Head(work).owner] = "free"]
                                    ELSE future
    /\ UNCHANGED <<idle, started, thread, making, submitting, shutdown>>

Drained ==
    /\ shutdown = "draining"
    /\ work = << >>
    /\ shutdown' = "stopping"
    /\ UNCHANGED <<work, idle, started, thread, making, submitting, future>>

SendStop ==
    /\ shutdown = "stopping"
    /\ work' = Append(work, Stop)
    /\ shutdown' = "over"
    /\ UNCHANGED <<idle, started, thread, making, submitting, future>>

Submit == HandToIdle \/ StartWorker \/ LeaveQueued
Step(w) == GetCall(w) \/ GetCancelled(w) \/ GetStop(w) \/ Release(w)

PoolNext ==
    \/ \E o \in Owner : Put(o) \/ CancelQueued(o)
    \/ Submit
    \/ \E w \in Worker : Step(w) \/ CallReturns(w)
    \/ \E cancel \in BOOLEAN : ShutdownBegins(cancel)
    \/ DrainOne \/ Drained \/ SendStop

PoolSpec == PoolInit /\ [][PoolNext]_poolVars

-----------------------------------------------------------------------------
(* Fairness: the loop finishes submit, the scheduler runs the threads, and *)
(* (only for ReturningSpec) every call returns in the end.                 *)

FairPoolSpec == PoolSpec /\ WF_poolVars(Submit) /\ \A w \in Worker : WF_poolVars(Step(w))
ReturningSpec == FairPoolSpec /\ \A w \in Worker : WF_poolVars(CallReturns(w))

-----------------------------------------------------------------------------
(* Properties.                                                             *)

Ready == {w \in Worker : thread[w] \in {"get", "release"}}

\* "A hung dependency ties up one pool thread rather than one per poll": a
\* probe that is checked again and again occupies one worker at most.
OneThreadPerOwner ==
    \A v, w \in Worker : thread[v] = "run" /\ thread[w] = "run" /\ making[v] = making[w]
                         => v = w

\* Below the cap no call waits behind a hung one: there is a worker about to
\* take each queued item, whatever the race between put, acquire and release.
NoWaitBelowCap ==
    started # Worker /\ submitting = Nobody /\ shutdown = "no" => Len(work) <= Cardinality(Ready)

\* "A call that was cancelled while still queued is dropped from the queue"
\* (SingleFlight): the queue holds one call per owner at most.
CancelledAreDropped ==
    Cardinality({i \in DOMAIN work : work[i] # Stop}) <= Cardinality(Owner)

\* A queued call is made, or cancelled, as long as the calls before it return.
CallsAreMade == \A o \in Owner : future[o] = "queued" ~> future[o] # "queued"
=============================================================================
