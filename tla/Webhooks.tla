------------------------------- MODULE Webhooks -------------------------------
(***************************************************************************)
(* Sending an alert: _dispatch_alert calls every alerter at once and gives *)
(* up on them after _NOTIFY_TIMEOUT_S; a webhook alerter posts from one of *)
(* the few threads of its own pool; a _Deadline cuts the request off when  *)
(* its time budget is spent.                                               *)
(*                                                                         *)
(* Three kinds of thread meet here: the event loop, which dispatches the   *)
(* alerts one after the other; the pool threads, which resolve, connect    *)
(* and exchange; and one timer per request, which may fire between any two *)
(* of their steps.  The pool itself is ThreadPool's subject: here a queue  *)
(* and a number of threads.  A receiver may refuse, trickle or never       *)
(* answer: nothing is assumed of it.                                       *)
(***************************************************************************)
EXTENDS Naturals, FiniteSets, SequencesExt

CONSTANTS
    Alerter,
    Unlimited,  \* the alerters built with timeout=None
    MaxThreads, \* the pool's _MAX_WORKERS
    MaxAddress, \* bound: the addresses a webhook's host resolves to
    MaxAlerts   \* bound: the alerts sent

ASSUME AlerterAssumption == IsFiniteSet(Alerter) /\ Unlimited \subseteq Alerter
ASSUME BoundAssumption ==
    MaxThreads \in Nat \ {0} /\ MaxAddress \in Nat /\ MaxAlerts \in Nat

Post == Alerter \X (1 .. MaxAlerts)

VARIABLES
    alert,       \* the last alert taken from the queue of alerts
    dispatching, \* its _dispatch_alert awaits the alerters
    queue,       \* the pool's queue of posts
    stage,       \* where each post stands
    left,        \* the addresses it has not tried yet
    spent,       \* deadline.remaining() <= 0
    timer,       \* its deadline's timer
    watched,     \* _socks: the deadline holds a duplicate of its socket
    copied,      \* the timer's copy of _socks holds it
    conn,        \* its connection
    received,    \* the alerts each receiver got, in order
    abandoned    \* ghost: posts running when their dispatch gave up on them

vars == <<alert, dispatching, queue, stage, left, spent, timer, watched, copied,
          conn, received, abandoned>>
loopVars     == <<alert, dispatching, queue, abandoned>>
deadlineVars == <<spent, timer, copied>>

Running == {"resolve", "connect", "watch", "cut", "exchange", "close", "release"}

TypeOK ==
    /\ alert \in 0 .. MaxAlerts /\ dispatching \in BOOLEAN
    /\ queue \in Seq(Post)
    /\ stage \in [Post -> Running \cup {"none", "queued", "dropped", "ended"}]
    /\ left \in [Post -> 0 .. MaxAddress]
    /\ spent \in [Post -> BOOLEAN] /\ watched \in [Post -> BOOLEAN]
    /\ copied \in [Post -> BOOLEAN]
    /\ timer \in [Post -> {"none", "armed", "shutting", "done"}]
    /\ conn \in [Post -> {"none", "open", "shut"}]
    /\ received \in [Alerter -> Seq(1 .. MaxAlerts)]
    /\ abandoned \subseteq Post

Init ==
    /\ alert = 0 /\ dispatching = FALSE
    /\ queue = << >>
    /\ stage = [p \in Post |-> "none"]
    /\ left = [p \in Post |-> 0]
    /\ spent = [p \in Post |-> FALSE] /\ watched = [p \in Post |-> FALSE]
    /\ copied = [p \in Post |-> FALSE]
    /\ timer = [p \in Post |-> "none"]
    /\ conn = [p \in Post |-> "none"]
    /\ received = [a \in Alerter |-> << >>]
    /\ abandoned = {}

To(p, s) == stage' = [stage EXCEPT ![p] = s]

-----------------------------------------------------------------------------
(* The event loop: _dispatch_alert.                                        *)

\* One task per alerter, each of which submits its post.
Dispatch ==
    /\ ~dispatching
    /\ alert < MaxAlerts
    /\ alert' = alert + 1
    /\ dispatching' = TRUE
    /\ queue' = queue \o SetToSeq(Alerter \X {alert + 1})
    /\ stage' = [p \in Post |-> IF p[2] = alert + 1 THEN "queued" ELSE stage[p]]
    /\ UNCHANGED <<left, deadlineVars, watched, conn, received, abandoned>>

Current == Alerter \X {alert}

AllNotified ==
    /\ dispatching
    /\ \A p \in Current : stage[p] = "ended"
    /\ dispatching' = FALSE
    /\ UNCHANGED <<alert, queue, stage, left, deadlineVars, watched, conn,
                   received, abandoned>>

\* Give up after _NOTIFY_TIMEOUT_S, or when the worker is cancelled: cancel the
\* tasks.  A post still queued will be skipped; one that runs goes on unheeded.
LeavesQueued == UNCHANGED stage  \* fault: the tasks are not cancelled
CancelTasks ==
    stage' = [p \in Post |-> IF p \in Current /\ stage[p] = "queued"
                             THEN "dropped" ELSE stage[p]]

AwaitsCancelled ==  \* fault: it waits for what it has cancelled, as wait_for does
    /\ dispatching
    /\ \A p \in Current : stage[p] \notin Running
    /\ \E p \in Current : stage[p] # "ended"
    /\ dispatching' = FALSE
    /\ CancelTasks
    /\ UNCHANGED <<alert, queue, left, deadlineVars, watched, conn, received, abandoned>>
GiveUp ==
    /\ dispatching
    /\ \E p \in Current : stage[p] # "ended"
    /\ dispatching' = FALSE
    /\ CancelTasks
    /\ abandoned' = abandoned \cup {p \in Current : stage[p] \in Running}
    /\ UNCHANGED <<alert, queue, left, deadlineVars, watched, conn, received>>

-----------------------------------------------------------------------------
(* A pool thread: _post_json, _connect_within and watch.                   *)

\* A thread is free and takes the first item of the pool's queue.
Takes(p) ==
    /\ queue # << >>
    /\ p = Head(queue)
    /\ Cardinality({q \in Post : stage[q] \in Running}) < MaxThreads
    /\ queue' = Tail(queue)

\* _DaemonThreadPool._run: a call that was cancelled in the queue is not made.
SkipCancelled(p) ==
    /\ Takes(p)
    /\ stage[p] = "dropped"
    /\ UNCHANGED <<alert, dispatching, stage, left, deadlineVars, watched, conn,
                   received, abandoned>>

Begin(p) ==
    /\ Takes(p)
    /\ stage[p] = "queued"
    /\ To(p, "resolve")
    /\ timer' = [timer EXCEPT ![p] = "armed"]
    /\ UNCHANGED <<alert, dispatching, left, spent, watched, copied, conn,
                   received, abandoned>>

\* getaddrinfo returns: it fails, or there are addresses to try.
Resolve(p) ==
    /\ stage[p] = "resolve"
    /\ \E n \in 0 .. MaxAddress :
          /\ left' = [left EXCEPT ![p] = n]
          /\ To(p, IF n = 0 THEN "close" ELSE "connect")
    /\ UNCHANGED <<loopVars, deadlineVars, watched, conn, received>>

\* No attempt is begun once the budget is spent, and none outlasts it by more
\* than what was left of it.
ConnectGivesUp(p) ==
    /\ stage[p] = "connect"
    /\ spent[p] \/ left[p] = 0
    /\ To(p, "close")
    /\ UNCHANGED <<loopVars, left, deadlineVars, watched, conn, received>>

ConnectFails(p) ==
    /\ stage[p] = "connect"
    /\ ~spent[p] /\ left[p] > 0
    /\ left' = [left EXCEPT ![p] = @ - 1]
    /\ UNCHANGED <<loopVars, stage, deadlineVars, watched, conn, received>>

Connects(p) ==
    /\ stage[p] = "connect"
    /\ ~spent[p] /\ left[p] > 0
    /\ To(p, "watch")
    /\ conn' = [conn EXCEPT ![p] = "open"]
    /\ UNCHANGED <<loopVars, left, deadlineVars, watched, received>>

\* watch: under the lock, the socket is added and the deadline looked at.
NeverExpired(p) == FALSE  \* fault: watch does not look whether it is too late
Expired(p) == timer[p] \in {"shutting", "done"}

Watch(p) ==
    /\ stage[p] = "watch"
    /\ watched' = [watched EXCEPT ![p] = TRUE]
    /\ To(p, IF Expired(p) THEN "cut" ELSE "exchange")
    /\ UNCHANGED <<loopVars, left, deadlineVars, conn, received>>

Cut(p) ==
    /\ stage[p] = "cut"
    /\ conn' = [conn EXCEPT ![p] = "shut"]
    /\ To(p, "exchange")
    /\ UNCHANGED <<loopVars, left, deadlineVars, watched, received>>

\* The request reaches the receiver, now or never.
Receive(p) ==
    /\ stage[p] = "exchange"
    /\ conn[p] = "open"
    /\ p[2] \notin Range(received[p[1]])
    /\ received' = [received EXCEPT ![p[1]] = Append(@, p[2])]
    /\ UNCHANGED <<loopVars, stage, left, deadlineVars, watched, conn>>

\* A response, an error or a socket operation's own timeout.
ExchangeEnds(p) ==
    /\ stage[p] = "exchange"
    /\ conn[p] = "open"
    /\ To(p, "close")
    /\ UNCHANGED <<loopVars, left, deadlineVars, watched, conn, received>>

\* Shutting the connection down makes the blocked call fail at once.
ExchangeCut(p) ==
    /\ stage[p] = "exchange"
    /\ conn[p] = "shut"
    /\ To(p, "close")
    /\ UNCHANGED <<loopVars, left, deadlineVars, watched, conn, received>>

\* deadline.close(): cancel the timer, then release the duplicates.  A timer
\* that is running at that moment ends by itself.
CancelTimer(p) ==
    /\ stage[p] = "close"
    /\ To(p, "release")
    /\ timer' = [timer EXCEPT ![p] = IF @ = "shutting" THEN @ ELSE "none"]
    /\ UNCHANGED <<loopVars, left, spent, copied, watched, conn, received>>

ReleaseDeadline(p) ==
    /\ stage[p] = "release"
    /\ To(p, "ended")
    /\ watched' = [watched EXCEPT ![p] = FALSE]
    /\ conn' = [conn EXCEPT ![p] = "none"]
    /\ left' = [left EXCEPT ![p] = 0]
    /\ spent' = [spent EXCEPT ![p] = FALSE]
    /\ UNCHANGED <<loopVars, timer, copied, received>>

-----------------------------------------------------------------------------
(* The clock and the timer thread: _Deadline._expire.                      *)

deadlineRest == <<loopVars, stage, left, watched, received>>

SpendBudget(p) ==
    /\ timer[p] = "armed"
    /\ p[1] \notin Unlimited
    /\ ~spent[p]
    /\ spent' = [spent EXCEPT ![p] = TRUE]
    /\ UNCHANGED <<timer, copied, conn, deadlineRest>>

\* Under the lock: expired is set and _socks copied.
Expire(p) ==
    /\ timer[p] = "armed"
    /\ spent[p]
    /\ timer' = [timer EXCEPT ![p] = "shutting"]
    /\ copied' = [copied EXCEPT ![p] = watched[p]]
    /\ UNCHANGED <<spent, conn, deadlineRest>>

ShutDown(p) ==
    /\ timer[p] = "shutting"
    /\ timer' = [timer EXCEPT ![p] = IF stage[p] = "ended" THEN "none" ELSE "done"]
    /\ copied' = [copied EXCEPT ![p] = FALSE]
    /\ conn' = [conn EXCEPT ![p] = IF copied[p] /\ @ = "open" THEN "shut" ELSE @]
    /\ UNCHANGED <<spent, deadlineRest>>

-----------------------------------------------------------------------------
LoopStep == Dispatch \/ AllNotified \/ GiveUp
ThreadStep(p) ==
    \/ SkipCancelled(p) \/ Begin(p) \/ Resolve(p)
    \/ ConnectGivesUp(p) \/ ConnectFails(p) \/ Connects(p)
    \/ Watch(p) \/ Cut(p) \/ ExchangeCut(p) \/ CancelTimer(p) \/ ReleaseDeadline(p)
ReceiverStep(p) == Receive(p) \/ ExchangeEnds(p)
TimerStep(p) == SpendBudget(p) \/ Expire(p) \/ ShutDown(p)

Next == LoopStep \/ \E p \in Post : ThreadStep(p) \/ ReceiverStep(p) \/ TimerStep(p)

\* The loop's timers and the deadlines' fire, threads are scheduled and the
\* system resolver gives up in the end.  Receivers owe nothing.
Fairness ==
    /\ WF_vars(Dispatch) /\ WF_vars(AllNotified) /\ WF_vars(GiveUp)
    /\ \A p \in Post : WF_vars(ThreadStep(p)) /\ WF_vars(TimerStep(p))

Spec == Init /\ [][Next]_vars
FairSpec == Spec /\ Fairness

-----------------------------------------------------------------------------
(* Properties.                                                             *)

\* "When the budget runs out this shuts the connection down" (_Deadline):
\* once the timer has run, no exchange goes on over an open connection, even
\* if it ran while the socket was being connected and handed over.
CutAtDeadline ==
    \A p \in Post : timer[p] = "done" /\ stage[p] = "exchange" => conn[p] = "shut"

\* A receiver gets the alerts in the order in which they were raised; only a
\* request that was running when its dispatch gave up on it may come later.
ReceivedInOrder ==
    \A a \in Alerter : \A i, j \in DOMAIN received[a] :
        i < j /\ received[a][i] > received[a][j] => <<a, received[a][j]>> \in abandoned

\* A slow or hung integration "cannot delay ... every later alert": every
\* dispatch ends, and every post gives its thread back unless it was given no
\* timeout.
AlertsFlow ==
    /\ dispatching ~> ~dispatching
    /\ \A p \in Post : p[1] \notin Unlimited => (stage[p] \in Running ~> stage[p] = "ended")
=============================================================================
