------------------------ MODULE AlertPipeline_proofs ------------------------
(***************************************************************************)
(* For any names, statuses, interval and queue: a probe's alerts tell one  *)
(* story, keep the interval, and the worker wakes for coalesced ones.      *)
(***************************************************************************)
EXTENDS AlertPipeline, SequenceOps_proofs

-----------------------------------------------------------------------------
(* Least and greatest elements.                                            *)

LEMMA MinIsLeast ==
    ASSUME NEW T \in SUBSET Nat, T # {}
    PROVE  Min(T) \in T /\ \A y \in T : Min(T) <= y
BY NatLeast DEF Min

LEMMA MinOfTwo ==
    ASSUME NEW a \in Nat, NEW b \in Nat
    PROVE  Min({a, b}) = IF a <= b THEN a ELSE b
<1>1. Min({a, b}) \in {a, b} /\ Min({a, b}) <= a /\ Min({a, b}) <= b
  BY MinIsLeast
<1> QED BY <1>1

\* So has a bounded one a greatest.
LEMMA MaxIsGreatest ==
    ASSUME NEW k \in Nat, NEW T \in SUBSET (1 .. k), T # {}
    PROVE  Max(T) \in T /\ \A y \in T : y <= Max(T)
<1> DEFINE U == {k - x : x \in T}
<1>1. U \in SUBSET Nat /\ U # {}
  <2>1. \A x \in T : k - x \in Nat
    OBVIOUS
  <2> QED BY <2>1
<1>2. PICK u \in U : \A v \in U : u <= v
  BY <1>1, NatLeast
<1>3. PICK x \in T : u = k - x
  BY <1>2
<1>4. \A y \in T : k - x <= k - y
  BY <1>2, <1>3
<1>5. \A y \in T : x >= y
  BY <1>4
<1> QED BY <1>5 DEF Max

-----------------------------------------------------------------------------
(* The actions that tell the alerters something, from a check.             *)

Tells(n) == \E s \in Status, muted \in BOOLEAN : SendToAlerters(n, s, muted)

CheckStep(n) == ObserveSame(n) \/ CallbacksDone(n) \/ \E s \in Status : ObserveChange(n, s)

OtherStep ==
    \/ Tick \/ SetMaintenance \/ MaintenanceEnds
    \/ \E n \in Removable : Forget(n)
    \/ Signal \/ ShutdownBegins \/ Drained \/ DrainTimeout \/ Restart

LEMMA NextSteps == Next <=> (\E n \in Name : CheckStep(n)) \/ WorkerStep \/ OtherStep
BY DEF Next, CheckStep, OtherStep

Item == Alert \cup {Wake}

\* The queue takes an item if it has room.
LEMMA Queued ==
    ASSUME NEW q \in Seq(Item), Len(q) <= QueueCap, NEW e \in Item, ~(Len(q) >= QueueCap)
    PROVE  /\ Append(q, e) \in Seq(Item) /\ Append(q, e) # << >>
           /\ Len(q) \in Nat /\ Len(Append(q, e)) = Len(q) + 1 /\ Len(q) + 1 <= QueueCap
           /\ Append(q, e)[Len(q) + 1] = e
           /\ \A i \in 1 .. Len(q) : Append(q, e)[i] = q[i]
BY AppendProperties, LenProperties, QueueAssumption

LEMMA TailOfQueue ==
    ASSUME NEW q \in Seq(Item), q # << >>
    PROVE  /\ Tail(q) \in Seq(Item)
           /\ Len(q) \in Nat \ {0} /\ Len(Tail(q)) = Len(q) - 1
           /\ Head(q) = q[1] /\ Head(q) \in Item
           /\ \A i \in 1 .. Len(Tail(q)) : Tail(q)[i] = q[i + 1]
BY HeadTailProperties, EmptySeq

-----------------------------------------------------------------------------
(* The type.                                                               *)

LEMMA AlertsTyped ==
    ASSUME TypeOK, NEW n \in Name, NEW s \in Status
    PROVE  AlertOf(n, s) \in Item /\ AlertOf(n, s) # Wake
<1>1. AlertOf(n, s) \in Alert
  BY DEF TypeOK, AlertOf, Alert
<1> QED BY <1>1, WakeAssumption DEF Item

LEMMA TypeInit == Init => TypeOK
<1> SUFFICES ASSUME Init PROVE TypeOK
  OBVIOUS
<1>1. queue \in Seq(Alert \cup {Wake}) /\ Len(queue) <= QueueCap
  BY QueueAssumption, EmptySeq DEF Init
<1>2. Healthy \in Status /\ Interval \in 0 .. Interval
  BY StatusAssumption, IntervalAssumption
<1> QED BY <1>1, <1>2 DEF Init, TypeOK

SendTypes ==
    /\ alerted \in [Name -> Status]
    /\ since \in [Name -> 0 .. Interval]
    /\ due \in [Name -> 0 .. Interval \cup {NoTime}]
    /\ queue \in Seq(Alert \cup {Wake})
    /\ Len(queue) <= QueueCap
    /\ worker \in {"none", "top", "wait", "dispatch"}

LEMMA TypeSend ==
    ASSUME TypeOK, NEW n \in Name, Tells(n)
    PROVE  SendTypes'
<1> USE DEF SendTypes, sendVars
<1>0. SendTypes
  BY DEF TypeOK
<1>1. PICK s \in Status, muted \in BOOLEAN : SendToAlerters(n, s, muted)
  BY DEF Tells
<1>2. CASE UNCHANGED <<sendVars, worker>>
  BY <1>0, <1>2
<1>3. CASE SendNothing(n, s)
  BY <1>0, <1>3 DEF SendNothing
<1>4. CASE SendLater(n, s)
  <2>1. Interval - since[n] \in 0 .. Interval
    BY <1>0, IntervalAssumption
  <2>2. Wake \in Item /\ Item = Alert \cup {Wake}
    BY DEF Item
  <2>3. queue' = queue \/ (queue' = Append(queue, Wake) /\ ~Full)
    BY <1>4 DEF SendLater, WakeWorker
  <2>4. queue' \in Seq(Alert \cup {Wake}) /\ Len(queue') <= QueueCap
    <3>1. queue \in Seq(Item) /\ Len(queue) <= QueueCap
      BY <1>0, <2>2
    <3>2. CASE queue' = Append(queue, Wake) /\ ~Full
      <4>1. queue' \in Seq(Item) /\ Len(queue') <= QueueCap
        BY <2>2, <3>1, <3>2, Queued DEF Full
      <4> QED BY <2>2, <4>1
    <3> QED BY <2>2, <2>3, <3>1, <3>2
  <2>5. worker' \in {worker, "top"}
    BY <1>4 DEF SendLater, WakeWorker, EnsureWorker
  <2>6. due' = due \/ due' = [due EXCEPT ![n] = Interval - since[n]]
    BY <1>4 DEF SendLater, MarkTime
  <2> QED BY <1>0, <1>4, <2>1, <2>4, <2>5, <2>6 DEF SendLater
<1>5. CASE SendNow(n, s)
  <2>1. CASE Full
    <3>1. UNCHANGED <<alerted, since, due, queue>> /\ worker' \in {worker, "top"}
      BY <1>5, <2>1 DEF SendNow, EnsureWorker
    <3> QED BY <1>0, <3>1
  <2>2. CASE ~Full
    <3>1. queue' = Append(queue, AlertOf(n, s))
      BY <1>5, <2>2 DEF SendNow
    <3>2. queue' \in Seq(Alert \cup {Wake}) /\ Len(queue') <= QueueCap
      BY <1>0, <2>2, <3>1, AlertsTyped, Queued DEF Full, Item
    <3>3. /\ alerted' = [alerted EXCEPT ![n] = s]
          /\ since' = [since EXCEPT ![n] = 0]
          /\ due' = [due EXCEPT ![n] = NoTime]
          /\ worker' \in {worker, "top"}
      BY <1>5, <2>2 DEF SendNow, EnsureWorker
    <3>4. 0 \in 0 .. Interval
      BY IntervalAssumption
    <3> QED BY <1>0, <3>2, <3>3, <3>4
  <2> QED BY <2>1, <2>2
<1> QED BY <1>1, <1>2, <1>3, <1>4, <1>5 DEF SendToAlerters

-----------------------------------------------------------------------------
(* The worker's pass over the markers: it queues one alert for each of the *)
(* names in sent, in some order, after what is queued already.             *)

Passes(sent, k, order) ==
    /\ order \in [1 .. k -> sent]
    /\ \A i, j \in 1 .. k : order[i] = order[j] => i = j
    /\ \A n \in sent : \E i \in 1 .. k : order[i] = n
    /\ queue' \in Seq(Item)
    /\ Len(queue') = Len(queue) + k
    /\ Len(queue') <= QueueCap
    /\ \A i \in 1 .. Len(queue) : queue'[i] = queue[i]
    /\ \A i \in 1 .. k : queue'[Len(queue) + i] = AlertOf(order[i], state[order[i]])
    /\ alerted' = [n \in Name |-> IF n \in sent THEN state[n] ELSE alerted[n]]
    /\ since' = [n \in Name |-> IF n \in sent THEN 0 ELSE since[n]]

LEMMA TopPasses ==
    ASSUME TypeOK, WorkerTop
    PROVE  \E sent \in SUBSET DueToSend, k \in Nat : \E order : Passes(sent, k, order)
<1> DEFINE room == Min({QueueCap - Len(queue), Cardinality(DueToSend)})
<1>0. /\ queue \in Seq(Item) /\ Len(queue) \in Nat /\ Len(queue) <= QueueCap
      /\ QueueCap \in Nat
      /\ IsFiniteSet(DueToSend) /\ Cardinality(DueToSend) \in Nat /\ DueToSend \subseteq Name
  <2>1. queue \in Seq(Item) /\ Len(queue) <= QueueCap /\ QueueCap \in Nat
    BY QueueAssumption DEF TypeOK, Item
  <2>2. DueToSend \subseteq Name
    BY DEF DueToSend, Due
  <2> QED BY <2>1, <2>2, LenProperties, NameAssumption, FS_Subset, FS_CardinalityType
<1>1. room \in Nat /\ room <= QueueCap - Len(queue)
  <2>1. QueueCap - Len(queue) \in Nat
    BY <1>0
  <2> QED BY <1>0, <2>1, MinOfTwo
<1> HIDE DEF room
<1>2. PICK sent \in SUBSET DueToSend :
        /\ Cardinality(sent) = room
        /\ \E order \in SetToSeqs(sent) :
             queue' = queue \o [i \in DOMAIN order |-> AlertOf(order[i], state[order[i]])]
        /\ alerted' = [n \in Name |-> IF n \in sent THEN state[n] ELSE alerted[n]]
        /\ since' = [n \in Name |-> IF n \in sent THEN 0 ELSE since[n]]
  BY DEF WorkerTop, room
<1>3. PICK order \in SetToSeqs(sent) :
        queue' = queue \o [i \in DOMAIN order |-> AlertOf(order[i], state[order[i]])]
  BY <1>2
<1> DEFINE f == [i \in DOMAIN order |-> AlertOf(order[i], state[order[i]])]
<1>4. /\ order \in [1 .. room -> sent]
      /\ \A i, j \in 1 .. room : order[i] = order[j] => i = j
  BY <1>2 DEF SetToSeqs
<1>5. \A n \in sent : \E i \in 1 .. room : order[i] = n
  <2>1. order \in Injection(1 .. room, sent)
    BY <1>4 DEF Injection, IsInjective
  <2>2. IsFiniteSet(sent)
    BY <1>0, FS_Subset
  <2>3. Cardinality(1 .. room) = room
    BY <1>1, FS_Interval
  <2>4. order \in Surjection(1 .. room, sent)
    BY <1>2, <2>1, <2>2, <2>3, FS_Injection
  <2> QED BY <2>4 DEF Surjection
<1>6. f \in Seq(Item) /\ Len(f) = room /\ \A i \in 1 .. room : f[i] = AlertOf(order[i], state[order[i]])
  <2>1. \A n \in sent : n \in Name /\ state[n] \in Status
    BY <1>0 DEF TypeOK
  <2>2. f \in [1 .. room -> Item]
    BY <1>4, <2>1, AlertsTyped
  <2>3. f \in Seq(Item)
    BY <1>1, <2>2, SeqDef
  <2>4. Len(f) = room
    BY <1>1, <2>2, <2>3, LenProperties
  <2> QED BY <1>4, <2>3, <2>4
<1> HIDE DEF f
<1>7. /\ queue' \in Seq(Item) /\ Len(queue') = Len(queue) + room
      /\ \A i \in 1 .. Len(queue) : queue'[i] = queue[i]
      /\ \A i \in 1 .. room : queue'[Len(queue) + i] = f[i]
  <2>1. queue' = queue \o f
    BY <1>3 DEF f
  <2>2. /\ queue \o f \in Seq(Item) /\ Len(queue \o f) = Len(queue) + Len(f)
        /\ \A i \in 1 .. Len(queue) + Len(f) :
              (queue \o f)[i] = IF i <= Len(queue) THEN queue[i] ELSE f[i - Len(queue)]
    BY <1>0, <1>6, ConcatProperties
  <2>3. ASSUME NEW i \in 1 .. room PROVE queue'[Len(queue) + i] = f[i]
    <3>1. /\ Len(queue) + i \in 1 .. Len(queue) + Len(f) /\ ~(Len(queue) + i <= Len(queue))
          /\ (Len(queue) + i) - Len(queue) = i
      BY <1>0, <1>1, <1>6
    <3> QED BY <2>1, <2>2, <3>1
  <2> QED BY <1>0, <1>1, <1>6, <2>1, <2>2, <2>3
<1>8. Len(queue') <= QueueCap
  BY <1>0, <1>1, <1>7
<1>9. Passes(sent, room, order)
  BY <1>2, <1>4, <1>5, <1>6, <1>7, <1>8 DEF Passes
<1> QED BY <1>1, <1>9

\* The delay to the next marker is that of a pending one, and no later than
\* any of them.
LEMMA NextDelayIsLeast ==
    ASSUME NEW marks, marks \in [Name -> 0 .. Interval \cup {NoTime}]
    PROVE  /\ NextDelay(marks) \in 0 .. Interval \cup {NoTime}
           /\ \A n \in Name : marks[n] # NoTime =>
                 NextDelay(marks) # NoTime /\ NextDelay(marks) <= marks[n]
<1> DEFINE pending == {n \in Name : marks[n] # NoTime}
           times == {marks[n] : n \in pending}
<1>1. CASE pending = {}
  BY <1>1 DEF NextDelay
<1>2. CASE pending # {}
  <2>1. NextDelay(marks) = Min(times)
    BY <1>2 DEF NextDelay
  <2>2. times \in SUBSET (0 .. Interval) /\ times # {}
    BY <1>2
  <2>3. times \in SUBSET Nat /\ NoTime \notin Nat
    BY <2>2, IntervalAssumption, NoTimeAssumption
  <2>4. Min(times) \in times /\ \A t \in times : Min(times) <= t
    BY <2>2, <2>3, MinIsLeast
  <2>5. Min(times) \in 0 .. Interval /\ Min(times) # NoTime
    BY <2>2, <2>3, <2>4
  <2>6. \A n \in Name : marks[n] # NoTime => marks[n] \in times
    OBVIOUS
  <2> HIDE DEF times
  <2> QED BY <2>1, <2>4, <2>5, <2>6
<1> QED BY <1>1, <1>2

LEMMA TypeTop == TypeOK /\ WorkerTop => TypeOK'
<1> SUFFICES ASSUME TypeOK, WorkerTop PROVE TypeOK'
  OBVIOUS
<1>1. PICK sent \in SUBSET DueToSend, k \in Nat : \E order : Passes(sent, k, order)
  BY TopPasses
<1>2. /\ queue' \in Seq(Alert \cup {Wake}) /\ Len(queue') <= QueueCap
      /\ alerted' = [n \in Name |-> IF n \in sent THEN state[n] ELSE alerted[n]]
      /\ since' = [n \in Name |-> IF n \in sent THEN 0 ELSE since[n]]
  BY <1>1 DEF Passes, Item
<1>3. due' \in [Name -> 0 .. Interval \cup {NoTime}]
  BY DEF WorkerTop, Unmarked, TypeOK
<1>4. timer' \in 0 .. Interval \cup {NoTime}
  <2>1. timer' = NextDelay(due')
    BY DEF WorkerTop
  <2> QED BY <1>3, <2>1, NextDelayIsLeast
<1>5. alerted' \in [Name -> Status] /\ since' \in [Name -> 0 .. Interval]
  BY <1>2, IntervalAssumption DEF TypeOK
<1>6. UNCHANGED <<state, fire, maint, stopping, life, told>> /\ worker' = "wait"
  BY DEF WorkerTop, lifeVars
<1> QED BY <1>2, <1>3, <1>4, <1>5, <1>6 DEF TypeOK

\* A marker, or the worker's timeout, that is one tick closer.
LEMMA CountedDown ==
    ASSUME NEW t \in 0 .. Interval \cup {NoTime}
    PROVE  /\ CountDown(t) \in 0 .. Interval \cup {NoTime}
           /\ CountDown(t) = NoTime <=> t = NoTime
BY IntervalAssumption, NoTimeAssumption DEF CountDown

LEMMA TypeNext == TypeOK /\ [Next]_vars => TypeOK'
<1> SUFFICES ASSUME TypeOK, [Next]_vars PROVE TypeOK'
  OBVIOUS
<1>1. ASSUME NEW n \in Name, ObserveSame(n) PROVE TypeOK'
  <2>1. Tells(n) /\ UNCHANGED <<state, fire, timer, maint, stopping, life, told>>
    BY <1>1 DEF ObserveSame, Tells, TypeOK, lifeVars
  <2> QED BY <2>1, TypeSend DEF TypeOK, SendTypes
<1>2. ASSUME NEW n \in Name, CallbacksDone(n) PROVE TypeOK'
  <2>1. fire[n].status \in Status /\ fire[n].muted \in BOOLEAN
    BY <1>2 DEF CallbacksDone, TypeOK, Firing
  <2>2. Tells(n) /\ UNCHANGED <<state, timer, maint, stopping, life, told>>
    BY <1>2, <2>1 DEF CallbacksDone, Tells, lifeVars
  <2>3. fire' \in [Name -> Firing \cup {Quiet}]
    BY <1>2 DEF CallbacksDone, TypeOK
  <2> QED BY <2>2, <2>3, TypeSend DEF TypeOK, SendTypes
<1>3. ASSUME NEW n \in Name, NEW s \in Status, ObserveChange(n, s) PROVE TypeOK'
  <2>1. [status |-> s, old |-> state[n], muted |-> maint] \in Firing
    BY DEF TypeOK, Firing
  <2> QED BY <1>3, <2>1 DEF ObserveChange, TypeOK, sendVars, lifeVars
<1>4. CASE WorkerStep
  <2>1. queue # << >> => Tail(queue) \in Seq(Alert \cup {Wake}) /\ Len(Tail(queue)) <= QueueCap
    BY TailOfQueue, QueueAssumption DEF TypeOK, Item
  <2>2. CASE WorkerWoken
    BY <2>1, <2>2 DEF WorkerWoken, TypeOK, lifeVars
  <2>3. CASE WorkerTakes
    <3>1. Head(queue) \in Alert
      BY <2>3, TailOfQueue DEF WorkerTakes, TypeOK, Item
    <3> QED BY <2>1, <2>3, <3>1 DEF WorkerTakes, TypeOK, lifeVars, Alert
  <2>4. CASE WorkerDispatched
    BY <2>4 DEF WorkerDispatched, TypeOK, lifeVars
  <2>5. CASE WorkerTimeout
    BY <2>5 DEF WorkerTimeout, TypeOK, lifeVars
  <2> QED BY <1>4, <2>2, <2>3, <2>4, <2>5, TypeTop DEF WorkerStep
<1>5. CASE Tick
  <2>1. \A n \in Name : Min({since[n] + 1, Interval}) \in 0 .. Interval
    <3> SUFFICES ASSUME NEW n \in Name
                 PROVE  Min({since[n] + 1, Interval}) \in 0 .. Interval
      OBVIOUS
    <3>1. since[n] + 1 \in Nat /\ Interval \in Nat
      BY IntervalAssumption DEF TypeOK
    <3> QED BY <3>1, MinOfTwo
  <2> QED BY <1>5, <2>1, CountedDown DEF Tick, TypeOK, lifeVars
<1>6. CASE SetMaintenance \/ MaintenanceEnds \/ Signal \/ Restart
  BY <1>6 DEF SetMaintenance, MaintenanceEnds, Signal, Restart, TypeOK, sendVars
<1>7. ASSUME NEW n \in Removable, Forget(n) PROVE TypeOK'
  <2>1. Healthy \in Status /\ Interval \in 0 .. Interval
    BY StatusAssumption, IntervalAssumption
  <2> QED BY <1>7, <2>1 DEF Forget, TypeOK, lifeVars
<1>8. CASE ShutdownBegins
  BY <1>8 DEF ShutdownBegins, DrainWorker, TypeOK, sendVars
<1>9. CASE StopWorker
  BY <1>9 DEF StopWorker, TypeOK, sendVars
<1>10. CASE UNCHANGED vars
  BY <1>10 DEF vars, TypeOK
<1> QED BY <1>1, <1>2, <1>3, <1>4, <1>5, <1>6, <1>7, <1>8, <1>9, <1>10
        DEF Next, Drained, DrainTimeout

\* The pipeline's state always has the shape TypeOK gives; in particular the
\* queue never outgrows its bound, whatever the worker adds to it.
THEOREM TypeCorrect == Spec => []TypeOK
BY TypeInit, TypeNext, PTL DEF Spec

-----------------------------------------------------------------------------
(* What a check tells the alerters, by what becomes of it.                 *)

Nothing(n) == UNCHANGED sendVars

Unmarks(n) ==
    /\ due' = [due EXCEPT ![n] = NoTime]
    /\ UNCHANGED <<alerted, since, queue>>

Marks(n) ==
    /\ due' = [due EXCEPT ![n] = Interval - since[n]]
    /\ queue' # << >>
    /\ \/ queue' = queue
       \/ queue' = Append(queue, Wake) /\ ~(Len(queue) >= QueueCap)
    /\ UNCHANGED <<alerted, since>>

Queues(n) ==
    \E s \in Status :
        /\ s # alerted[n]
        /\ since[n] = Interval
        /\ ~(Len(queue) >= QueueCap)
        /\ queue' = Append(queue, AlertOf(n, s))
        /\ alerted' = [alerted EXCEPT ![n] = s]
        /\ since' = [since EXCEPT ![n] = 0]
        /\ due' = [due EXCEPT ![n] = NoTime]

LEMMA TellsCases ==
    ASSUME TypeOK, NEW n \in Name, Tells(n)
    PROVE  /\ Nothing(n) \/ Unmarks(n) \/ Marks(n) \/ Queues(n)
           /\ worker' = worker \/ (worker = "none" /\ worker' = "top")
<1> USE DEF sendVars
<1>1. PICK s \in Status, muted \in BOOLEAN : SendToAlerters(n, s, muted)
  BY DEF Tells
<1>2. CASE UNCHANGED <<sendVars, worker>>
  BY <1>2 DEF Nothing
<1>3. CASE SendNothing(n, s)
  BY <1>3 DEF SendNothing, Unmarks
<1>4. CASE SendLater(n, s)
  <2>1. CASE due[n] # NoTime
    BY <1>4, <2>1 DEF SendLater, Nothing
  <2>2. CASE due[n] = NoTime
    <3>1. worker' = worker \/ (worker = "none" /\ worker' = "top")
      BY <1>4, <2>2 DEF SendLater, WakeWorker, EnsureWorker
    <3>2. due' = [due EXCEPT ![n] = Interval - since[n]] /\ UNCHANGED <<alerted, since>>
      BY <1>4, <2>2 DEF SendLater, MarkTime
    <3>3. queue' = IF Len(queue) >= QueueCap THEN queue ELSE Append(queue, Wake)
      BY <1>4, <2>2 DEF SendLater, WakeWorker, Full
    <3>4. queue \in Seq(Item) /\ Wake \in Item /\ Len(queue) <= QueueCap
      BY DEF TypeOK, Item
    <3>5. queue' # << >>
      BY <3>3, <3>4, QueueAssumption, EmptySeq, Queued
    <3> QED BY <3>1, <3>2, <3>3, <3>5 DEF Marks
  <2> QED BY <2>1, <2>2
<1>5. CASE SendNow(n, s)
  <2>1. worker' = worker \/ (worker = "none" /\ worker' = "top")
    BY <1>5 DEF SendNow, EnsureWorker
  <2>2. CASE Full
    BY <1>5, <2>1, <2>2 DEF SendNow, Nothing
  <2>3. CASE ~Full
    <3>1. since[n] = Interval
      BY <1>5, IntervalAssumption DEF SendNow, RateLimited, TypeOK
    <3> QED BY <1>5, <2>1, <2>3, <3>1 DEF SendNow, Queues, Full
  <2> QED BY <2>2, <2>3
<1> QED BY <1>1, <1>2, <1>3, <1>4, <1>5 DEF SendToAlerters

\* A check tells the alerters something, or records a change and awaits its
\* callbacks.
LEMMA CheckTells ==
    ASSUME TypeOK, NEW n \in Name, CheckStep(n)
    PROVE  /\ Tells(n) \/ UNCHANGED <<sendVars, worker>>
           /\ UNCHANGED <<timer, lifeVars, told>>
<1>1. CASE ObserveSame(n)
  BY <1>1 DEF ObserveSame, Tells, TypeOK
<1>2. CASE CallbacksDone(n)
  BY <1>2 DEF CallbacksDone, Tells, TypeOK, Firing
<1>3. CASE \E s \in Status : ObserveChange(n, s)
  BY <1>3 DEF ObserveChange
<1> QED BY <1>1, <1>2, <1>3 DEF CheckStep

-----------------------------------------------------------------------------
(* The worker wakes in time.                                               *)

LEMMA WakeupInit == Init => NoLostWakeup
BY DEF Init, NoLostWakeup

LEMMA WakeupNext == TypeOK /\ NoLostWakeup /\ [Next]_vars => NoLostWakeup'
<1> SUFFICES ASSUME TypeOK, NoLostWakeup, [Next]_vars PROVE NoLostWakeup'
  OBVIOUS
<1>0. due \in [Name -> 0 .. Interval \cup {NoTime}] /\ Interval \in Nat /\ NoTime \notin Nat
  BY IntervalAssumption, NoTimeAssumption DEF TypeOK
<1> USE DEF NoLostWakeup, sendVars, lifeVars
<1>1. ASSUME NEW n \in Name, CheckStep(n) PROVE NoLostWakeup'
  <2>1. timer' = timer /\ (worker' = worker \/ (worker = "none" /\ worker' = "top"))
    BY <1>1, CheckTells, TellsCases
  <2>2. CASE UNCHANGED <<sendVars, worker>>
    BY <2>1, <2>2
  <2>3. CASE Tells(n)
    <3>1. CASE Nothing(n)
      BY <2>1, <3>1 DEF Nothing
    <3>2. CASE Unmarks(n)
      BY <1>0, <2>1, <3>2 DEF Unmarks
    <3>3. CASE Marks(n)
      BY <3>3 DEF Marks
    <3>4. CASE Queues(n)
      <4>1. queue' # << >>
        <5>1. queue \in Seq(Item) /\ Len(queue) <= QueueCap
          BY DEF TypeOK, Item
        <5> QED BY <3>4, <5>1, AlertsTyped, Queued DEF Queues
      <4> QED BY <4>1
    <3> QED BY <2>3, <3>1, <3>2, <3>3, <3>4, TellsCases
  <2> QED BY <1>1, <2>2, <2>3, CheckTells
<1>2. CASE WorkerStep
  <2>1. CASE WorkerTop
    <3>1. due' \in [Name -> 0 .. Interval \cup {NoTime}] /\ timer' = NextDelay(due')
      BY <1>0, <2>1 DEF WorkerTop, Unmarked
    <3> QED BY <3>1, NextDelayIsLeast
  <2>2. CASE WorkerWoken \/ WorkerTakes \/ WorkerDispatched \/ WorkerTimeout
    BY <2>2 DEF WorkerWoken, WorkerTakes, WorkerDispatched, WorkerTimeout
  <2> QED BY <1>2, <2>1, <2>2 DEF WorkerStep
<1>3. CASE Tick
  <2>1. timer \in 0 .. Interval \cup {NoTime}
    BY DEF TypeOK
  <2>2. \A n \in Name : due'[n] # NoTime /\ timer # NoTime /\ timer <= due[n]
          => timer' # NoTime /\ timer' <= due'[n]
    BY <1>0, <1>3, <2>1 DEF Tick, CountDown
  <2>3. \A n \in Name : due'[n] # NoTime => due[n] # NoTime
    BY <1>0, <1>3 DEF Tick, CountDown
  <2>4. queue' = queue /\ worker' = worker
    BY <1>3 DEF Tick
  <2> QED BY <2>2, <2>3, <2>4
<1>4. CASE SetMaintenance \/ MaintenanceEnds \/ Signal \/ Restart
  BY <1>4 DEF SetMaintenance, MaintenanceEnds, Signal, Restart
<1>5. ASSUME NEW n \in Removable, Forget(n) PROVE NoLostWakeup'
  BY <1>0, <1>5 DEF Forget
<1>6. CASE ShutdownBegins
  BY <1>6 DEF ShutdownBegins, DrainWorker
<1>7. CASE StopWorker
  BY <1>7 DEF StopWorker
<1>8. CASE UNCHANGED vars
  BY <1>8 DEF vars
<1> QED BY <1>1, <1>2, <1>3, <1>4, <1>5, <1>6, <1>7, <1>8, NextSteps
        DEF OtherStep, Drained, DrainTimeout

\* A worker that waits is woken in time for every coalesced alert: for any
\* number of names, any interval and any queue, whatever is marked or removed
\* while it waits.
THEOREM WakesInTime == Spec => []NoLostWakeup
BY WakeupInit, WakeupNext, TypeCorrect, PTL DEF Spec

-----------------------------------------------------------------------------
(* The interval between alerts: a marker falls due when the interval since *)
(* the last alert is over.                                                 *)

MarkInv == \A n \in Name : due[n] # NoTime => since[n] + due[n] = Interval

LEMMA MarkInit == Init => MarkInv
BY DEF Init, MarkInv

LEMMA MarkNext == TypeOK /\ MarkInv /\ [Next]_vars => MarkInv'
<1> SUFFICES ASSUME TypeOK, MarkInv, [Next]_vars PROVE MarkInv'
  OBVIOUS
<1>0. /\ due \in [Name -> 0 .. Interval \cup {NoTime}] /\ Interval \in Nat /\ NoTime \notin Nat
      /\ since \in [Name -> 0 .. Interval]
  BY IntervalAssumption, NoTimeAssumption DEF TypeOK
<1> USE DEF MarkInv, sendVars
<1>1. ASSUME NEW n \in Name, CheckStep(n) PROVE MarkInv'
  <2>1. CASE UNCHANGED sendVars
    BY <2>1
  <2>2. CASE Tells(n)
    BY <1>0, <2>2, TellsCases DEF Nothing, Unmarks, Marks, Queues
  <2> QED BY <1>1, <2>1, <2>2, CheckTells
<1>2. CASE WorkerTop
  <2>1. PICK sent \in SUBSET DueToSend : since' = [n \in Name |-> IF n \in sent THEN 0 ELSE since[n]]
    BY <1>2 DEF WorkerTop
  <2>2. due' = Unmarked /\ sent \subseteq Due
    BY <1>2, <2>1 DEF WorkerTop, DueToSend
  <2> QED BY <1>0, <2>1, <2>2 DEF Unmarked
<1>3. CASE UNCHANGED <<since, due>>
  BY <1>3
<1>4. CASE Tick
  <2>1. ASSUME NEW n \in Name, due'[n] # NoTime
        PROVE  since'[n] + due'[n] = Interval
    <3>1. since[n] \in Nat /\ since[n] + 1 \in Nat /\ since[n] <= Interval
      BY <1>0
    <3>2. since'[n] = IF since[n] + 1 <= Interval THEN since[n] + 1 ELSE Interval
      BY <1>0, <1>4, <3>1, MinOfTwo DEF Tick
    <3>3. due'[n] = CountDown(due[n])
      BY <1>0, <1>4 DEF Tick
    <3> QED BY <1>0, <2>1, <3>1, <3>2, <3>3 DEF CountDown
  <2> QED BY <2>1
<1>5. ASSUME NEW n \in Removable, Forget(n) PROVE MarkInv'
  BY <1>0, <1>5 DEF Forget
<1> QED BY <1>1, <1>2, <1>3, <1>4, <1>5, NextSteps
        DEF WorkerStep, WorkerWoken, WorkerTakes, WorkerDispatched, WorkerTimeout,
            OtherStep, SetMaintenance, MaintenanceEnds, Signal, ShutdownBegins,
            Drained, DrainTimeout, StopWorker, Restart, vars

\* What any step does to the status last sent of a name that stays registered.
LEMMA AlertedChanges ==
    ASSUME TypeOK, MarkInv, [Next]_vars, NEW n \in Name \ Removable
    PROVE  alerted'[n] # alerted[n] => since[n] = Interval
<1>0. /\ alerted \in [Name -> Status] /\ since \in [Name -> 0 .. Interval]
      /\ due \in [Name -> 0 .. Interval \cup {NoTime}] /\ Interval \in Nat
  BY IntervalAssumption DEF TypeOK
<1>1. ASSUME NEW m \in Name, CheckStep(m) PROVE alerted'[n] # alerted[n] => since[n] = Interval
  BY <1>0, <1>1, CheckTells, TellsCases DEF Nothing, Unmarks, Marks, Queues, sendVars
<1>2. CASE WorkerTop
  <2>1. PICK sent \in SUBSET DueToSend :
          alerted' = [m \in Name |-> IF m \in sent THEN state[m] ELSE alerted[m]]
    BY <1>2 DEF WorkerTop
  <2>2. n \in sent => since[n] = Interval
    BY <1>0, <2>1 DEF DueToSend, Due, MarkInv
  <2> QED BY <1>0, <2>1, <2>2
<1>3. CASE alerted' = alerted
  BY <1>3
<1>4. ASSUME NEW m \in Removable, Forget(m) PROVE alerted'[n] = alerted[n]
  BY <1>0, <1>4 DEF Forget
<1> QED BY <1>1, <1>2, <1>3, <1>4, NextSteps
        DEF WorkerStep, WorkerWoken, WorkerTakes, WorkerDispatched, WorkerTimeout,
            OtherStep, Tick, SetMaintenance, MaintenanceEnds, Signal, ShutdownBegins,
            Drained, DrainTimeout, StopWorker, Restart, vars, sendVars

\* Two alerts of a probe are never queued within alert_min_interval_s: for any
\* interval, although the worker does not test the rate again.
THEOREM FlappingIsLimited == Spec => FlapLimited
<1>1. ASSUME TypeOK, MarkInv, [Next]_vars
      PROVE  [\A n \in Name \ Removable : alerted'[n] # alerted[n] => since[n] = Interval]_vars
  BY <1>1, AlertedChanges
<1> QED BY <1>1, MarkInit, MarkNext, TypeCorrect, PTL DEF Spec, FlapLimited

-----------------------------------------------------------------------------
(* The story of a probe, in terms that a step leaves alone or extends: of  *)
(* the first of its alerts, of two that follow each other, and of the last.*)

FirstOf(n, i)    == i \in Places(n) /\ \A k \in Places(n) : ~(k < i)
Follows(n, j, i) == /\ j \in Places(n) /\ i \in Places(n) /\ j < i
                    /\ \A k \in Places(n) : ~(j < k /\ k < i)
LastOf(n, i)     == i \in Places(n) /\ \A k \in Places(n) : ~(i < k)

Chain(n) ==
    /\ \A i \in Places(n) : FirstOf(n, i) => queue[i].old = told[n]
    /\ \A i, j \in Places(n) : Follows(n, j, i) => queue[i].old = queue[j].new
    /\ \A i \in Places(n) : queue[i].new # queue[i].old
    /\ \A i \in Places(n) : LastOf(n, i) => queue[i].new = alerted[n]
    /\ Places(n) = {} => told[n] = alerted[n]

ChainInv == \A n \in Name \ Removable : Chain(n)

LEMMA PlacesAre ==
    ASSUME TypeOK, NEW n \in Name
    PROVE  /\ Len(queue) \in Nat
           /\ Places(n) = {i \in 1 .. Len(queue) : queue[i] # Wake /\ queue[i].probe = n}
<1>1. queue \in Seq(Item)
  BY DEF TypeOK, Item
<1> QED BY <1>1, LenProperties DEF Places

LEMMA PlacesNext ==
    ASSUME TypeOK', NEW n \in Name
    PROVE  /\ Len(queue') \in Nat
           /\ Places(n)' = {i \in 1 .. Len(queue') : queue'[i] # Wake /\ queue'[i].probe = n}
<1>1. queue' \in Seq(Item)
  BY DEF TypeOK, Item
<1> QED BY <1>1, LenProperties DEF Places

\* The queue grew, by items of other probes or wake-ups.
LEMMA ChainKept ==
    ASSUME TypeOK, TypeOK', NEW n \in Name, Chain(n),
           told'[n] = told[n], alerted'[n] = alerted[n],
           Len(queue) <= Len(queue'),
           \A i \in 1 .. Len(queue) : queue'[i] = queue[i],
           \A i \in 1 .. Len(queue') : i > Len(queue) => queue'[i] = Wake \/ queue'[i].probe # n
    PROVE  Chain(n)'
<1>1. /\ Len(queue) \in Nat
      /\ Places(n) = {i \in 1 .. Len(queue) : queue[i] # Wake /\ queue[i].probe = n}
  BY PlacesAre
<1>2. /\ Len(queue') \in Nat
      /\ Places(n)' = {i \in 1 .. Len(queue') : queue'[i] # Wake /\ queue'[i].probe = n}
  BY PlacesNext
<1>3. Places(n)' = Places(n)
  BY <1>1, <1>2
<1>4. \A i \in Places(n) : queue'[i] = queue[i]
  BY <1>1
<1>5. \A i, j : /\ FirstOf(n, i)' <=> FirstOf(n, i)
                /\ LastOf(n, i)' <=> LastOf(n, i)
                /\ Follows(n, j, i)' <=> Follows(n, j, i)
  BY <1>3 DEF FirstOf, LastOf, Follows
<1> QED BY <1>3, <1>4, <1>5 DEF Chain

\* One alert of the probe was added, from the status it was last sent.
LEMMA ChainGrows ==
    ASSUME TypeOK, TypeOK', NEW n \in Name, Chain(n),
           told'[n] = told[n], alerted'[n] # alerted[n],
           Len(queue) <= Len(queue'),
           \A i \in 1 .. Len(queue) : queue'[i] = queue[i],
           NEW p \in 1 .. Len(queue'), p > Len(queue),
           queue'[p] = AlertOf(n, alerted'[n]),
           \A i \in 1 .. Len(queue') : i > Len(queue) /\ i # p => queue'[i] = Wake \/ queue'[i].probe # n
    PROVE  Chain(n)'
<1>1. /\ Len(queue) \in Nat
      /\ Places(n) = {i \in 1 .. Len(queue) : queue[i] # Wake /\ queue[i].probe = n}
  BY PlacesAre
<1>2. /\ Len(queue') \in Nat
      /\ Places(n)' = {i \in 1 .. Len(queue') : queue'[i] # Wake /\ queue'[i].probe = n}
  BY PlacesNext
<1>3. queue'[p] # Wake /\ queue'[p].probe = n /\ queue'[p].old = alerted[n] /\ queue'[p].new = alerted'[n]
  <2>1. alerted'[n] \in Status
    BY DEF TypeOK
  <2> QED BY <2>1, AlertsTyped DEF AlertOf
<1>4. Places(n)' = Places(n) \cup {p} /\ \A i \in Places(n) : i < p /\ ~(p < i) /\ i # p
  BY <1>1, <1>2, <1>3
<1>5. \A i \in Places(n) : queue'[i] = queue[i]
  BY <1>1
<1>6. \A i \in Places(n)' : FirstOf(n, i)' => queue'[i].old = told'[n]
  <2>1. \A i \in Places(n) : FirstOf(n, i)' => FirstOf(n, i)
    BY <1>4 DEF FirstOf
  <2>2. FirstOf(n, p)' => Places(n) = {}
    BY <1>4 DEF FirstOf
  <2> QED BY <1>3, <1>4, <1>5, <2>1, <2>2 DEF Chain
<1>7. \A i, j \in Places(n)' : Follows(n, j, i)' => queue'[i].old = queue'[j].new
  <2>1. \A i, j \in Places(n) : Follows(n, j, i)' => Follows(n, j, i)
    BY <1>4 DEF Follows
  <2>2. \A j \in Places(n) : Follows(n, j, p)' => LastOf(n, j)
    BY <1>4 DEF Follows, LastOf
  <2>3. \A i \in Places(n)' : ~Follows(n, p, i)'
    BY <1>2, <1>4 DEF Follows
  <2> QED BY <1>3, <1>4, <1>5, <2>1, <2>2, <2>3 DEF Chain
<1>8. \A i \in Places(n)' : queue'[i].new # queue'[i].old
  BY <1>3, <1>4, <1>5 DEF Chain
<1>9. \A i \in Places(n)' : LastOf(n, i)' => queue'[i].new = alerted'[n]
  BY <1>3, <1>4 DEF LastOf
<1>10. Places(n)' # {}
  BY <1>4
<1> QED BY <1>6, <1>7, <1>8, <1>9, <1>10 DEF Chain

\* The worker took the first item: a wake-up, another probe's alert, or the
\* first of this probe's.
LEMMA ChainTaken ==
    ASSUME TypeOK, TypeOK', NEW n \in Name, Chain(n),
           queue # << >>, queue' = Tail(queue), alerted'[n] = alerted[n],
           told'[n] = IF queue[1] # Wake /\ queue[1].probe = n THEN queue[1].new ELSE told[n]
    PROVE  Chain(n)'
<1>1. /\ Len(queue) \in Nat
      /\ Places(n) = {i \in 1 .. Len(queue) : queue[i] # Wake /\ queue[i].probe = n}
  BY PlacesAre
<1>2. /\ Len(queue') \in Nat
      /\ Places(n)' = {i \in 1 .. Len(queue') : queue'[i] # Wake /\ queue'[i].probe = n}
  BY PlacesNext
<1>3. /\ Len(queue) # 0 /\ Len(queue') = Len(queue) - 1
      /\ \A i \in 1 .. Len(queue') : queue'[i] = queue[i + 1]
  BY TailOfQueue DEF TypeOK, Item
<1>4. \A i \in Places(n)' : i + 1 \in Places(n) /\ queue'[i] = queue[i + 1] /\ i \in Nat /\ i >= 1
  BY <1>1, <1>2, <1>3
<1>5. \A i \in Places(n) : i \in Nat /\ i >= 1 /\ (i = 1 \/ i - 1 \in Places(n)')
  BY <1>1, <1>2, <1>3
<1>6. 1 \in Places(n) <=> queue[1] # Wake /\ queue[1].probe = n
  BY <1>1, <1>3
<1>7. \A i \in Places(n)' : FirstOf(n, i)' => queue'[i].old = told'[n]
  <2> SUFFICES ASSUME NEW i \in Places(n)', FirstOf(n, i)' PROVE queue'[i].old = told'[n]
    OBVIOUS
  <2>1. \A k \in Places(n) : k = 1 \/ ~(k < i + 1)
    BY <1>4, <1>5 DEF FirstOf
  <2>2. CASE 1 \in Places(n)
    <3>1. Follows(n, 1, i + 1)
      BY <1>4, <1>5, <2>1, <2>2 DEF Follows
    <3>2. i + 1 \in Places(n) /\ queue'[i] = queue[i + 1] /\ told'[n] = queue[1].new
      BY <1>4, <1>6, <2>2
    <3>3. queue[i + 1].old = queue[1].new
      BY <2>2, <3>1, <3>2 DEF Chain
    <3> QED BY <3>2, <3>3
  <2>3. CASE 1 \notin Places(n)
    <3>1. FirstOf(n, i + 1)
      BY <1>4, <2>1, <2>3 DEF FirstOf
    <3>2. i + 1 \in Places(n) /\ queue'[i] = queue[i + 1] /\ told'[n] = told[n]
      BY <1>4, <1>6, <2>3
    <3>3. queue[i + 1].old = told[n]
      BY <3>1, <3>2 DEF Chain
    <3> QED BY <3>2, <3>3
  <2> QED BY <2>2, <2>3
<1>8. \A i, j \in Places(n)' : Follows(n, j, i)' => queue'[i].old = queue'[j].new
  <2> SUFFICES ASSUME NEW i \in Places(n)', NEW j \in Places(n)', Follows(n, j, i)'
               PROVE  queue'[i].old = queue'[j].new
    OBVIOUS
  <2>1. \A k \in Places(n) : ~(j + 1 < k /\ k < i + 1)
    <3> SUFFICES ASSUME NEW k \in Places(n), j + 1 < k, k < i + 1 PROVE FALSE
      OBVIOUS
    <3>1. i \in Nat /\ j \in Nat /\ k \in Nat
      BY <1>4, <1>5
    <3>2. k - 1 \in Places(n)'
      BY <1>4, <1>5
    <3>3. j < k - 1 /\ k - 1 < i
      BY <3>1
    <3> QED BY <3>2, <3>3 DEF Follows
  <2>2. Follows(n, j + 1, i + 1)
    BY <1>4, <2>1 DEF Follows
  <2>3. /\ i + 1 \in Places(n) /\ j + 1 \in Places(n)
        /\ queue'[i] = queue[i + 1] /\ queue'[j] = queue[j + 1]
    BY <1>4
  <2>4. queue[i + 1].old = queue[j + 1].new
    BY <2>2, <2>3 DEF Chain
  <2> QED BY <2>3, <2>4
<1>9. \A i \in Places(n)' : queue'[i].new # queue'[i].old
  BY <1>4 DEF Chain
<1>10. \A i \in Places(n)' : LastOf(n, i)' => queue'[i].new = alerted'[n]
  <2> SUFFICES ASSUME NEW i \in Places(n)', LastOf(n, i)' PROVE queue'[i].new = alerted'[n]
    OBVIOUS
  <2>1. \A k \in Places(n) : ~(i + 1 < k)
    <3> SUFFICES ASSUME NEW k \in Places(n), i + 1 < k PROVE FALSE
      OBVIOUS
    <3>1. k - 1 \in Places(n)'
      BY <1>4, <1>5
    <3> QED BY <1>4, <1>5, <3>1 DEF LastOf
  <2>2. LastOf(n, i + 1)
    BY <1>4, <2>1 DEF LastOf
  <2> QED BY <1>4, <2>2 DEF Chain
<1>11. Places(n)' = {} => told'[n] = alerted'[n]
  <2>1. CASE 1 \in Places(n) /\ Places(n)' = {}
    <3>1. LastOf(n, 1)
      BY <1>5, <2>1 DEF LastOf
    <3> QED BY <1>6, <2>1, <3>1 DEF Chain
  <2>2. CASE 1 \notin Places(n) /\ Places(n)' = {}
    <3>1. Places(n) = {}
      BY <1>5, <2>2
    <3> QED BY <1>6, <2>2, <3>1 DEF Chain
  <2> QED BY <2>1, <2>2
<1> QED BY <1>7, <1>8, <1>9, <1>10, <1>11 DEF Chain

-----------------------------------------------------------------------------
(* Every step keeps the story of a probe that stays registered.            *)

LEMMA ChainInit == Init => ChainInv
BY EmptySeq DEF Init, ChainInv, Chain, Places, FirstOf, Follows, LastOf

\* Nothing the story is made of changes.
LEMMA ChainSame ==
    ASSUME ChainInv, UNCHANGED <<queue, told, alerted>>
    PROVE  ChainInv'
BY DEF ChainInv, Chain, Places, FirstOf, Follows, LastOf

LEMMA ChainCheck ==
    ASSUME TypeOK, TypeOK', ChainInv, NEW m \in Name, CheckStep(m)
    PROVE  ChainInv'
<1>0. told' = told /\ queue \in Seq(Item) /\ Len(queue) <= QueueCap /\ Len(queue) \in Nat
  BY CheckTells, LenProperties DEF TypeOK, Item
<1>1. CASE UNCHANGED <<alerted, queue>>
  BY <1>0, <1>1, ChainSame
<1>2. CASE Marks(m) /\ queue' # queue
  <2>1. /\ Len(queue') = Len(queue) + 1 /\ queue'[Len(queue) + 1] = Wake
        /\ \A i \in 1 .. Len(queue) : queue'[i] = queue[i]
    BY <1>0, <1>2, Queued DEF Marks, Item
  <2>2. \A i \in 1 .. Len(queue') : i > Len(queue) => queue'[i] = Wake
    BY <1>0, <2>1
  <2>3. ASSUME NEW n \in Name \ Removable PROVE Chain(n)'
    BY <1>0, <1>2, <2>1, <2>2, <2>3, ChainKept DEF ChainInv, Marks
  <2> QED BY <2>3 DEF ChainInv
<1>3. CASE Queues(m)
  <2>1. PICK s \in Status :
          /\ s # alerted[m]
          /\ ~(Len(queue) >= QueueCap)
          /\ queue' = Append(queue, AlertOf(m, s))
          /\ alerted' = [alerted EXCEPT ![m] = s]
    BY <1>3 DEF Queues
  <2>2. /\ Len(queue') = Len(queue) + 1 /\ queue'[Len(queue) + 1] = AlertOf(m, s)
        /\ \A i \in 1 .. Len(queue) : queue'[i] = queue[i]
    BY <1>0, <2>1, AlertsTyped, Queued
  <2>3. /\ \A i \in 1 .. Len(queue') : i > Len(queue) => i = Len(queue) + 1
        /\ Len(queue) + 1 \in 1 .. Len(queue')
    BY <1>0, <2>2
  <2>4. alerted \in [Name -> Status]
    BY DEF TypeOK
  <2>5. ASSUME NEW n \in Name \ Removable PROVE Chain(n)'
    <3>1. CASE n = m
      <4>1. alerted'[n] = s /\ s # alerted[n]
        BY <2>1, <2>4, <3>1
      <4> QED BY <1>0, <2>2, <2>3, <3>1, <4>1, ChainGrows DEF ChainInv
    <3>2. CASE n # m
      <4>1. alerted'[n] = alerted[n]
        BY <2>1, <2>4, <3>2
      <4>2. AlertOf(m, s).probe = m
        BY DEF AlertOf
      <4> QED BY <1>0, <2>2, <2>3, <3>2, <4>1, <4>2, ChainKept DEF ChainInv
    <3> QED BY <3>1, <3>2
  <2> QED BY <2>5 DEF ChainInv
<1> QED BY <1>1, <1>2, <1>3, CheckTells, TellsCases
        DEF Nothing, Unmarks, Marks, sendVars

LEMMA ChainTop ==
    ASSUME TypeOK, TypeOK', ChainInv, WorkerTop
    PROVE  ChainInv'
<1>0. told' = told /\ Len(queue) \in Nat
  BY LenProperties DEF WorkerTop, TypeOK
<1>1. PICK sent \in SUBSET DueToSend, k \in Nat : \E order : Passes(sent, k, order)
  BY TopPasses
<1>2. PICK order : Passes(sent, k, order)
  BY <1>1
<1>3. /\ order \in [1 .. k -> sent]
      /\ \A i, j \in 1 .. k : order[i] = order[j] => i = j
      /\ \A n \in sent : \E i \in 1 .. k : order[i] = n
      /\ Len(queue') = Len(queue) + k
      /\ \A i \in 1 .. Len(queue) : queue'[i] = queue[i]
      /\ \A i \in 1 .. k : queue'[Len(queue) + i] = AlertOf(order[i], state[order[i]])
      /\ alerted' = [n \in Name |-> IF n \in sent THEN state[n] ELSE alerted[n]]
  BY <1>2 DEF Passes
<1>4. \A i \in 1 .. Len(queue') : i > Len(queue) =>
        /\ i - Len(queue) \in 1 .. k
        /\ queue'[i].probe = order[i - Len(queue)]
        /\ queue'[i] = AlertOf(order[i - Len(queue)], state[order[i - Len(queue)]])
  <2> SUFFICES ASSUME NEW i \in 1 .. Len(queue'), i > Len(queue)
               PROVE  /\ i - Len(queue) \in 1 .. k
                      /\ queue'[i].probe = order[i - Len(queue)]
                      /\ queue'[i] = AlertOf(order[i - Len(queue)], state[order[i - Len(queue)]])
    OBVIOUS
  <2>1. i - Len(queue) \in 1 .. k /\ Len(queue) + (i - Len(queue)) = i
    BY <1>0, <1>3
  <2>2. queue'[i] = AlertOf(order[i - Len(queue)], state[order[i - Len(queue)]])
    BY <1>3, <2>1
  <2> QED BY <2>1, <2>2 DEF AlertOf
<1>5. ASSUME NEW n \in Name \ Removable PROVE Chain(n)'
  <2>1. CASE n \in sent
    <3>1. alerted'[n] = state[n] /\ state[n] # alerted[n]
      BY <1>1, <1>3, <2>1 DEF DueToSend
    <3>2. PICK j \in 1 .. k : order[j] = n
      BY <1>3, <2>1
    <3> DEFINE p == Len(queue) + j
    <3>3. p \in 1 .. Len(queue') /\ p > Len(queue) /\ Len(queue) <= Len(queue')
      BY <1>0, <1>3
    <3>4. queue'[p] = AlertOf(n, alerted'[n])
      BY <1>3, <3>1, <3>2
    <3>5. \A i \in 1 .. Len(queue') : i > Len(queue) /\ i # p => queue'[i].probe # n
      <4> SUFFICES ASSUME NEW i \in 1 .. Len(queue'), i > Len(queue), i # p
                   PROVE  queue'[i].probe # n
        OBVIOUS
      <4>1. i - Len(queue) # j /\ i - Len(queue) \in 1 .. k
        BY <1>0, <1>4
      <4>2. order[i - Len(queue)] # order[j]
        <5> DEFINE l == i - Len(queue)
        <5>1. l \in 1 .. k /\ l # j
          BY <4>1
        <5> HIDE DEF l
        <5>2. order[l] # order[j]
          BY <1>3, <5>1
        <5> QED BY <5>2 DEF l
      <4> QED BY <1>4, <3>2, <4>2
    <3> HIDE DEF p
    <3> QED BY <1>0, <1>3, <3>1, <3>3, <3>4, <3>5, ChainGrows DEF ChainInv
  <2>2. CASE n \notin sent
    <3>1. alerted'[n] = alerted[n]
      BY <1>3, <2>2
    <3>2. \A i \in 1 .. Len(queue') : i > Len(queue) => queue'[i].probe # n
      BY <1>3, <1>4, <2>2
    <3>3. Len(queue) <= Len(queue')
      BY <1>0, <1>3
    <3> QED BY <1>0, <1>3, <3>1, <3>2, <3>3, ChainKept DEF ChainInv
  <2> QED BY <2>1, <2>2
<1> QED BY <1>5 DEF ChainInv

LEMMA ChainNext == TypeOK /\ TypeOK' /\ ChainInv /\ [Next]_vars => ChainInv'
<1> SUFFICES ASSUME TypeOK, TypeOK', ChainInv, [Next]_vars PROVE ChainInv'
  OBVIOUS
<1>1. ASSUME NEW m \in Name, CheckStep(m) PROVE ChainInv'
  BY <1>1, ChainCheck
<1>2. CASE WorkerStep
  <2>1. CASE WorkerTop
    BY <2>1, ChainTop
  <2>2. CASE WorkerWoken
    <3>1. queue # << >> /\ queue[1] = Wake /\ queue' = Tail(queue) /\ UNCHANGED <<told, alerted>>
      BY <2>2, TailOfQueue DEF WorkerWoken, TypeOK, Item
    <3> QED BY <3>1, ChainTaken DEF ChainInv
  <2>3. CASE WorkerTakes
    <3>1. /\ queue # << >> /\ queue[1] # Wake /\ queue' = Tail(queue) /\ alerted' = alerted
          /\ told' = [told EXCEPT ![queue[1].probe] = queue[1].new]
      BY <2>3, TailOfQueue DEF WorkerTakes, TypeOK, Item
    <3>2. told \in [Name -> Status]
      BY DEF TypeOK
    <3>3. \A n \in Name : told'[n] = IF queue[1].probe = n THEN queue[1].new ELSE told[n]
      BY <3>1, <3>2
    <3> QED BY <3>1, <3>3, ChainTaken DEF ChainInv
  <2>4. CASE WorkerDispatched \/ WorkerTimeout
    BY <2>4, ChainSame DEF WorkerDispatched, WorkerTimeout
  <2> QED BY <1>2, <2>1, <2>2, <2>3, <2>4 DEF WorkerStep
<1>3. ASSUME NEW m \in Removable, Forget(m) PROVE ChainInv'
  <2>1. queue' = queue /\ told' = told /\ alerted' = [alerted EXCEPT ![m] = Healthy]
    BY <1>3 DEF Forget
  <2>2. \A n \in Name \ Removable : alerted'[n] = alerted[n]
    BY <2>1 DEF TypeOK
  <2> QED BY <2>1, <2>2 DEF ChainInv, Chain, Places, FirstOf, Follows, LastOf
<1>4. CASE UNCHANGED <<queue, told, alerted>>
  BY <1>4, ChainSame
<1> QED BY <1>1, <1>2, <1>3, <1>4, NextSteps
        DEF OtherStep, Tick, SetMaintenance, MaintenanceEnds, Signal, ShutdownBegins,
            Drained, DrainTimeout, StopWorker, Restart, vars, sendVars

\* What the story means for any two alerts of a probe, in terms of the last of
\* the earlier ones.
LEMMA ChainImplies == TypeOK /\ ChainInv => ChainIsContiguous
<1> SUFFICES ASSUME TypeOK, ChainInv, NEW n \in Name \ Removable
             PROVE  /\ \A i \in Places(n) : /\ queue[i].old = ToldBefore(n, i)
                                            /\ queue[i].new # queue[i].old
                    /\ ToldBefore(n, QueueCap + 1) = alerted[n]
  BY DEF ChainIsContiguous
<1>0. /\ Len(queue) \in Nat /\ Places(n) \subseteq 1 .. Len(queue)
      /\ Len(queue) <= QueueCap /\ QueueCap \in Nat
  BY PlacesAre, QueueAssumption DEF TypeOK
<1>1. Chain(n)
  BY DEF ChainInv
<1>2. ASSUME NEW i \in Nat PROVE LET earlier == {j \in Places(n) : j < i} IN
        earlier # {} => /\ Max(earlier) \in Places(n) /\ Max(earlier) < i
                        /\ \A j \in Places(n) : ~(Max(earlier) < j /\ j < i)
                        /\ ToldBefore(n, i) = queue[Max(earlier)].new
  <2> DEFINE earlier == {j \in Places(n) : j < i}
  <2> SUFFICES ASSUME earlier # {}
               PROVE  /\ Max(earlier) \in Places(n) /\ Max(earlier) < i
                      /\ \A j \in Places(n) : ~(Max(earlier) < j /\ j < i)
                      /\ ToldBefore(n, i) = queue[Max(earlier)].new
    OBVIOUS
  <2>1. earlier \in SUBSET (1 .. Len(queue))
    BY <1>0
  <2> HIDE DEF earlier
  <2>2. Max(earlier) \in earlier /\ \A j \in earlier : j <= Max(earlier)
    BY <1>0, <2>1, MaxIsGreatest
  <2>3. ASSUME NEW j \in Places(n), Max(earlier) < j, j < i PROVE FALSE
    <3>1. j \in earlier
      BY <2>3 DEF earlier
    <3>2. j <= Max(earlier)
      BY <2>2, <3>1
    <3>3. j \in 1 .. Len(queue) /\ Max(earlier) \in 1 .. Len(queue)
      BY <2>1, <2>2, <3>1
    <3> QED BY <1>0, <2>3, <3>2, <3>3
  <2> QED BY <2>2, <2>3 DEF earlier, ToldBefore
<1>3. ASSUME NEW i \in Places(n) PROVE queue[i].old = ToldBefore(n, i)
  <2>0. i \in Nat
    BY <1>0
  <2>1. CASE {j \in Places(n) : j < i} = {}
    <3>1. FirstOf(n, i)
      BY <2>1 DEF FirstOf
    <3> QED BY <1>1, <2>1, <3>1 DEF Chain, ToldBefore
  <2>2. CASE {j \in Places(n) : j < i} # {}
    <3>1. PICK j \in Places(n) : Follows(n, j, i) /\ ToldBefore(n, i) = queue[j].new
      BY <1>2, <2>0, <2>2 DEF Follows
    <3> QED BY <1>1, <3>1 DEF Chain
  <2> QED BY <2>1, <2>2
<1>4. ToldBefore(n, QueueCap + 1) = alerted[n]
  <2> DEFINE end == QueueCap + 1
  <2>0. end \in Nat /\ \A j \in Places(n) : j < end
    BY <1>0
  <2> HIDE DEF end
  <2>1. CASE Places(n) = {}
    BY <1>1, <2>1 DEF Chain, ToldBefore
  <2>2. CASE Places(n) # {}
    <3>1. {j \in Places(n) : j < end} # {}
      BY <2>0, <2>2
    <3>2. PICK j \in Places(n) : LastOf(n, j) /\ ToldBefore(n, end) = queue[j].new
      BY <1>2, <2>0, <3>1 DEF LastOf
    <3> QED BY <1>1, <3>2 DEF Chain, end
  <2> QED BY <2>1, <2>2
<1> QED BY <1>1, <1>3, <1>4 DEF Chain

\* The alerts of a probe that stays registered tell one story, for any number
\* of probes and statuses, any interval and any queue: each starts from the
\* status the one before it ended with and changes it, and the last ends where
\* _alerted_states stands.
THEOREM AlertsTellOneStory == Spec => []ChainIsContiguous
BY ChainInit, ChainNext, ChainImplies, TypeCorrect, PTL DEF Spec
=============================================================================
