-------------------------- MODULE Delivery_proofs ---------------------------
(***************************************************************************)
(* Theorems about the delivery of alerts: the deadline of a post and the   *)
(* order of the posts (Webhooks), the threads that make the calls          *)
(* (ThreadPool), and the claims by which one replica sends each change     *)
(* (ReplicaAlerts).                                                        *)
(***************************************************************************)
EXTENDS Webhooks, ThreadPool, ReplicaAlerts,
        SequenceTheorems, FiniteSetTheorems, TLAPS

-----------------------------------------------------------------------------
(***************************************************************************)
(* Webhooks.                                                               *)
(* For any number of alerters, alerts, addresses and pool threads: once a  *)
(* request's timer has run, its exchange goes on over no open connection,  *)
(* and receivers get the alerts in order, but for posts that were given up.*)
(***************************************************************************)

\* From the connection on the socket is there, and once it is handed over the
\* deadline holds a duplicate of it; while the exchange goes on, a timer at work
\* has copied that duplicate, unless the connection is shut already.
DeadlineInv ==
    /\ DOMAIN stage = Post /\ DOMAIN timer = Post /\ DOMAIN conn = Post
    /\ DOMAIN watched = Post /\ DOMAIN copied = Post
    /\ \A p \in Post :
          /\ stage[p] \in {"watch", "cut", "exchange"} => conn[p] \in {"open", "shut"}
          /\ stage[p] \in {"cut", "exchange"} => watched[p]
          /\ stage[p] = "exchange" =>
                /\ timer[p] = "shutting" => copied[p] \/ conn[p] = "shut"
                /\ timer[p] = "done" => conn[p] = "shut"

LEMMA DeadlineInvInit == Init => DeadlineInv
BY DEF Init, DeadlineInv

LEMMA DeadlineInvCuts == DeadlineInv => CutAtDeadline
BY DEF DeadlineInv, CutAtDeadline

\* The dispatches move posts to stages without a socket.
LEMMA DeadlineInvLoop == DeadlineInv /\ LoopStep => DeadlineInv'
<1> SUFFICES ASSUME DeadlineInv, LoopStep PROVE DeadlineInv'
  OBVIOUS
<1> USE DEF DeadlineInv, deadlineVars
<1>1. CASE Dispatch
  BY <1>1 DEF Dispatch
<1>2. CASE AllNotified
  BY <1>2 DEF AllNotified
<1>3. CASE GiveUp
  BY <1>3 DEF GiveUp, CancelTasks
<1> QED BY <1>1, <1>2, <1>3 DEF LoopStep

\* The pool threads: watch is where a socket meets a timer that may have run.
LEMMA DeadlineInvThread ==
    ASSUME DeadlineInv, NEW p \in Post, ThreadStep(p)
    PROVE  DeadlineInv'
<1> USE DEF DeadlineInv, deadlineVars, loopVars, To
<1>1. CASE Begin(p)
  BY <1>1 DEF Begin
<1>2. CASE Resolve(p)
  BY <1>2 DEF Resolve
<1>3. CASE ConnectGivesUp(p)
  BY <1>3 DEF ConnectGivesUp
<1>4. CASE ConnectFails(p)
  BY <1>4 DEF ConnectFails
<1>5. CASE Connects(p)
  BY <1>5 DEF Connects
<1>6. CASE Watch(p)
  BY <1>6 DEF Watch, Expired
<1>7. CASE Cut(p)
  BY <1>7 DEF Cut
<1>8. CASE ExchangeCut(p)
  BY <1>8 DEF ExchangeCut
<1>9. CASE CancelTimer(p)
  BY <1>9 DEF CancelTimer
<1>10. CASE ReleaseDeadline(p)
  BY <1>10 DEF ReleaseDeadline
<1>11. CASE SkipCancelled(p)
  BY <1>11 DEF SkipCancelled
<1> QED BY <1>1, <1>2, <1>3, <1>4, <1>5, <1>6, <1>7, <1>8, <1>9, <1>10, <1>11 DEF ThreadStep

LEMMA DeadlineInvReceiver ==
    ASSUME DeadlineInv, NEW p \in Post, ReceiverStep(p)
    PROVE  DeadlineInv'
<1> USE DEF DeadlineInv, deadlineVars, loopVars, To
<1>1. CASE Receive(p)
  BY <1>1 DEF Receive
<1>2. CASE ExchangeEnds(p)
  BY <1>2 DEF ExchangeEnds
<1> QED BY <1>1, <1>2 DEF ReceiverStep

\* The timer: what it copies under the lock it shuts down after it.
LEMMA DeadlineInvTimer ==
    ASSUME DeadlineInv, NEW p \in Post, TimerStep(p)
    PROVE  DeadlineInv'
<1> USE DEF DeadlineInv, deadlineRest, loopVars
<1>1. CASE SpendBudget(p)
  BY <1>1 DEF SpendBudget
<1>2. CASE Expire(p)
  BY <1>2 DEF Expire
<1>3. CASE ShutDown(p)
  BY <1>3 DEF ShutDown
<1> QED BY <1>1, <1>2, <1>3 DEF TimerStep

\* An expired request is cut off, however its timer, the pool thread that
\* connects and hands over its socket, and the dispatch that gave up on it
\* interleave (_Deadline.watch and _Deadline._expire).
THEOREM ExpiredAreCut == Spec => []CutAtDeadline
<1>1. DeadlineInv /\ [Next]_vars => DeadlineInv'
  <2> SUFFICES ASSUME DeadlineInv, [Next]_vars PROVE DeadlineInv'
    OBVIOUS
  <2>1. CASE LoopStep
    BY <2>1, DeadlineInvLoop
  <2>2. ASSUME NEW p \in Post, ThreadStep(p) PROVE DeadlineInv'
    BY <2>2, DeadlineInvThread
  <2>3. ASSUME NEW p \in Post, ReceiverStep(p) PROVE DeadlineInv'
    BY <2>3, DeadlineInvReceiver
  <2>4. ASSUME NEW p \in Post, TimerStep(p) PROVE DeadlineInv'
    BY <2>4, DeadlineInvTimer
  <2>5. CASE UNCHANGED vars
    BY <2>5 DEF vars, DeadlineInv
  <2> QED BY <2>1, <2>2, <2>3, <2>4, <2>5 DEF Next
<1> QED BY <1>1, DeadlineInvInit, DeadlineInvCuts, PTL DEF Spec

-----------------------------------------------------------------------------
(* Receivers get the alerts in the order in which they were raised.        *)

\* A post that waits for a thread or has one belongs to the alert that is being
\* dispatched, unless its dispatch gave up on it; so what is received now is
\* no older than what was received before.
OrderInv ==
    /\ alert \in Nat
    /\ DOMAIN stage = Post
    /\ received \in [Alerter -> Seq(1 .. MaxAlerts)]
    /\ \A p \in Post : stage[p] \in Running \cup {"queued"} /\ p \notin abandoned =>
          dispatching /\ p[2] = alert
    /\ \A p \in abandoned : p[2] \in Nat /\ p[2] <= alert
    /\ \A a \in Alerter : \A i \in DOMAIN received[a] : received[a][i] <= alert
    /\ ReceivedInOrder

LEMMA PostIs == \A p \in Post : /\ p[1] \in Alerter /\ p[2] \in 1 .. MaxAlerts
                                /\ p = <<p[1], p[2]>>
                                /\ p[2] = alert => p \in Current
BY DEF Post, Current

LEMMA CurrentIs == \A p \in Current : p[2] = alert
BY DEF Current

LEMMA OrderInvInit == Init => OrderInv
<1> SUFFICES ASSUME Init PROVE OrderInv
  OBVIOUS
<1>1. << >> \in Seq(1 .. MaxAlerts) /\ DOMAIN << >> = {}
  BY EmptySeq
<1>2. \A a \in Alerter : received[a] = << >>
  BY DEF Init
<1>3. received \in [Alerter -> Seq(1 .. MaxAlerts)]
  BY <1>1 DEF Init
<1>4. alert = 0 /\ abandoned = {} /\ DOMAIN stage = Post /\ \A p \in Post : stage[p] = "none"
  BY DEF Init
<1> QED BY <1>1, <1>2, <1>3, <1>4 DEF OrderInv, ReceivedInOrder, Running

\* The steps after which no post is under way that was not before.
LEMMA OrderKept ==
    ASSUME OrderInv, DOMAIN stage' = Post, UNCHANGED <<alert, dispatching, received, abandoned>>,
           \A p \in Post : stage'[p] \in Running \cup {"queued"} => stage[p] \in Running \cup {"queued"}
    PROVE  OrderInv'
BY DEF OrderInv, ReceivedInOrder

LEMMA OrderLoop == OrderInv /\ LoopStep => OrderInv'
<1> SUFFICES ASSUME OrderInv, LoopStep PROVE OrderInv'
  OBVIOUS
<1>1. CASE Dispatch
  <2>1. alert \in Nat /\ alert' = alert + 1 /\ dispatching' /\ UNCHANGED <<received, abandoned>>
    BY <1>1 DEF Dispatch, OrderInv
  <2>2. /\ DOMAIN stage' = Post
        /\ \A p \in Post : stage'[p] = IF p[2] = alert + 1 THEN "queued" ELSE stage[p]
    BY <1>1 DEF Dispatch
  <2>3. \A p \in Post : stage[p] \in Running \cup {"queued"} => p \in abandoned
    BY <1>1 DEF Dispatch, OrderInv
  <2>4. \A p \in abandoned : p[2] \in Nat /\ p[2] <= alert'
    <3>1. \A p \in abandoned : p[2] \in Nat /\ p[2] <= alert
      BY DEF OrderInv
    <3>2. ASSUME NEW p \in abandoned PROVE p[2] \in Nat /\ p[2] <= alert'
      BY <1>1, <2>1, <3>1 DEF Dispatch
    <3> QED BY <3>2
  <2>5. ASSUME NEW a \in Alerter, NEW i \in DOMAIN received[a] PROVE received[a][i] <= alert'
    <3>1. received[a][i] \in 1 .. MaxAlerts /\ received[a][i] <= alert
      BY LenProperties, ElementOfSeq DEF OrderInv
    <3> QED BY <2>1, <3>1
  <2>6. ReceivedInOrder'
    BY <2>1 DEF OrderInv, ReceivedInOrder
  <2>7. \A p \in Post : p \notin abandoned' /\ stage'[p] \in Running \cup {"queued"} =>
           dispatching' /\ p[2] = alert'
    BY <2>1, <2>2, <2>3
  <2>8. alert' \in Nat /\ received' \in [Alerter -> Seq(1 .. MaxAlerts)]
    BY <2>1 DEF OrderInv
  <2>9. \A a \in Alerter : \A i \in DOMAIN received'[a] : received'[a][i] <= alert'
    BY <2>1, <2>5
  <2> QED BY <2>1, <2>2, <2>4, <2>6, <2>7, <2>8, <2>9 DEF OrderInv
<1>2. CASE AllNotified
  <2>1. UNCHANGED <<alert, stage, received, abandoned>> /\ \A p \in Current : stage[p] = "ended"
    BY <1>2 DEF AllNotified
  <2>2. \A p \in Post : stage[p] \in Running \cup {"queued"} => p \in abandoned
    BY <2>1, PostIs DEF OrderInv, Running
  <2> QED BY <2>1, <2>2 DEF OrderInv, ReceivedInOrder
<1>3. CASE GiveUp
  <2>1. /\ UNCHANGED <<alert, received>>
        /\ abandoned' = abandoned \cup {p \in Current : stage[p] \in Running}
        /\ DOMAIN stage' = Post
        /\ \A p \in Post : stage'[p] = IF p \in Current /\ stage[p] = "queued"
                                       THEN "dropped" ELSE stage[p]
    BY <1>3 DEF GiveUp, CancelTasks
  <2>2. \A p \in Post : stage'[p] \in Running \cup {"queued"} => p \in abandoned'
    BY <2>1, PostIs DEF OrderInv, Running
  <2>3. \A p \in abandoned' : p[2] \in Nat /\ p[2] <= alert
    BY <2>1, CurrentIs DEF OrderInv
  <2>4. ReceivedInOrder'
    BY <2>1 DEF OrderInv, ReceivedInOrder
  <2> QED BY <2>1, <2>2, <2>3, <2>4 DEF OrderInv
<1> QED BY <1>1, <1>2, <1>3 DEF LoopStep

\* A thread only takes posts that were queued.
LEMMA OrderThread ==
    ASSUME OrderInv, NEW p \in Post, ThreadStep(p)
    PROVE  OrderInv'
<1> USE DEF deadlineVars, loopVars, To
<1>1. DOMAIN stage = Post
  BY DEF OrderInv
<1>2. CASE SkipCancelled(p)
  BY <1>1, <1>2, OrderKept DEF SkipCancelled
<1>3. CASE Begin(p)
  BY <1>1, <1>3, OrderKept DEF Begin, Running
<1>4. CASE Resolve(p) \/ ConnectGivesUp(p) \/ ConnectFails(p) \/ Connects(p)
  BY <1>1, <1>4, OrderKept DEF Resolve, ConnectGivesUp, ConnectFails, Connects, Running
<1>5. CASE Watch(p) \/ Cut(p) \/ ExchangeCut(p) \/ CancelTimer(p) \/ ReleaseDeadline(p)
  BY <1>1, <1>5, OrderKept DEF Watch, Cut, ExchangeCut, CancelTimer, ReleaseDeadline, Running
<1> QED BY <1>2, <1>3, <1>4, <1>5 DEF ThreadStep

LEMMA OrderReceiver ==
    ASSUME OrderInv, NEW p \in Post, ReceiverStep(p)
    PROVE  OrderInv'
<1> USE DEF deadlineVars, loopVars, To
<1>1. CASE ExchangeEnds(p)
  BY <1>1, OrderKept DEF ExchangeEnds, OrderInv, Running
<1>2. CASE Receive(p)
  <2> DEFINE r == p[1]
  <2>0. r \in Alerter /\ p[2] \in 1 .. MaxAlerts /\ p = <<r, p[2]>>
    BY PostIs
  <2>1. /\ received' = [received EXCEPT ![r] = Append(received[r], p[2])]
        /\ UNCHANGED <<alert, dispatching, stage, abandoned>>
        /\ stage[p] = "exchange"
    BY <1>2 DEF Receive
  <2>2. p \notin abandoned => p[2] = alert
    BY <2>1 DEF OrderInv, Running
  <2>3. p[2] <= alert
    BY <2>0, <2>2 DEF OrderInv
  <2>4. \A a \in Alerter : received[a] \in Seq(1 .. MaxAlerts)
    BY DEF OrderInv
  <2>5. /\ received'[r] = Append(received[r], p[2])
        /\ \A a \in Alerter : a # r => received'[a] = received[a]
        /\ received' \in [Alerter -> Seq(1 .. MaxAlerts)]
    BY <2>0, <2>1, <2>4, AppendProperties DEF OrderInv
  <2>6. /\ Len(received[r]) \in Nat
        /\ DOMAIN received[r] = 1 .. Len(received[r])
        /\ DOMAIN received'[r] = 1 .. Len(received[r]) + 1
        /\ received'[r][Len(received[r]) + 1] = p[2]
        /\ \A i \in 1 .. Len(received[r]) : received'[r][i] = received[r][i]
    BY <2>0, <2>4, <2>5, AppendProperties, LenProperties
  <2>7. ASSUME NEW i \in DOMAIN received[r] PROVE received[r][i] <= alert
    BY <2>0 DEF OrderInv
  <2> HIDE DEF r
  <2>8. ASSUME NEW a \in Alerter, NEW i \in DOMAIN received'[a] PROVE received'[a][i] <= alert
    <3>1. CASE a = r
      <4>1. CASE i = Len(received[r]) + 1
        BY <2>3, <2>6, <3>1, <4>1
      <4>2. CASE i # Len(received[r]) + 1
        <5>1. i \in DOMAIN received[r]
          BY <2>6, <2>8, <3>1, <4>2
        <5> QED BY <2>6, <2>7, <3>1, <5>1
      <4> QED BY <4>1, <4>2
    <3>2. CASE a # r
      BY <2>5, <2>8, <3>2 DEF OrderInv
    <3> QED BY <3>1, <3>2
  <2>9. ASSUME NEW a \in Alerter, NEW i \in DOMAIN received'[a], NEW j \in DOMAIN received'[a],
               i < j, received'[a][i] > received'[a][j]
        PROVE  <<a, received'[a][j]>> \in abandoned
    <3>1. CASE a # r
      BY <2>5, <2>9, <3>1 DEF OrderInv, ReceivedInOrder
    <3>2. CASE a = r /\ j = Len(received[r]) + 1
      <4>1. p[2] # alert
        <5>1. received'[a][i] <= alert /\ alert \in Nat /\ received'[a][i] \in 1 .. MaxAlerts
          <6>1. received'[a] \in Seq(1 .. MaxAlerts)
            BY <2>5
          <6> QED BY <2>8, <2>9, <6>1, LenProperties, ElementOfSeq DEF OrderInv
        <5> QED BY <2>6, <2>9, <3>2, <5>1
      <4> QED BY <2>0, <2>2, <2>6, <3>2, <4>1
    <3>3. CASE a = r /\ j # Len(received[r]) + 1
      <4>1. i \in DOMAIN received[r] /\ j \in DOMAIN received[r]
        BY <2>6, <2>9, <3>3
      <4> QED BY <2>6, <2>9, <3>3, <4>1 DEF OrderInv, ReceivedInOrder
    <3> QED BY <3>1, <3>2, <3>3
  <2> QED BY <2>1, <2>5, <2>8, <2>9 DEF OrderInv, ReceivedInOrder
<1> QED BY <1>1, <1>2 DEF ReceiverStep

\* Each receiver gets the alerts in the order in which they were raised, except
\* a request that was running when its dispatch gave up on it: for any number
\* of alerters and threads, however posts wait, hang, fail or are cut off.
THEOREM ReceiversSeeOrder == Spec => []ReceivedInOrder
<1>1. OrderInv /\ [Next]_vars => OrderInv'
  <2> SUFFICES ASSUME OrderInv, [Next]_vars PROVE OrderInv'
    OBVIOUS
  <2>1. ASSUME NEW p \in Post, TimerStep(p) PROVE OrderInv'
    <3>1. UNCHANGED <<alert, dispatching, stage, received, abandoned>>
      BY <2>1 DEF TimerStep, SpendBudget, Expire, ShutDown, deadlineRest, loopVars
    <3> QED BY <3>1, OrderKept DEF OrderInv
  <2>2. CASE UNCHANGED vars
    BY <2>2, OrderKept DEF vars, OrderInv
  <2> QED BY <2>1, <2>2, OrderLoop, OrderThread, OrderReceiver DEF Next
<1>2. OrderInv => ReceivedInOrder
  BY DEF OrderInv
<1> QED BY <1>1, <1>2, OrderInvInit, PTL DEF Spec

-----------------------------------------------------------------------------
(* Types.                                                                  *)

LEMMA SetToSeqIs ==
    ASSUME NEW S, IsFiniteSet(S)
    PROVE  SetToSeq(S) \in Seq(S)
<1>1. Cardinality(S) \in Nat /\ ExistsBijection(1 .. Cardinality(S), S)
  BY FS_CardinalityType
<1>2. \E f \in [1 .. Cardinality(S) -> S] : IsInjective(f)
  BY <1>1 DEF ExistsBijection, Bijection, Injection
<1>3. SetToSeq(S) \in [1 .. Cardinality(S) -> S]
  BY <1>2 DEF SetToSeq
<1> QED BY <1>1, <1>3, SeqDef

Stages == Running \cup {"none", "queued", "dropped", "ended"}

\* What is dispatched is an alert.
PostTypes == TypeOK /\ (dispatching => alert # 0)

LEMMA TypeInit == Init => PostTypes
<1> SUFFICES ASSUME Init PROVE PostTypes
  OBVIOUS
<1>1. << >> \in Seq(Post) /\ << >> \in Seq(1 .. MaxAlerts)
  BY EmptySeq
<1>2. queue \in Seq(Post) /\ received \in [Alerter -> Seq(1 .. MaxAlerts)]
  BY <1>1 DEF Init
<1>3. 0 \in 0 .. MaxAlerts /\ 0 \in 0 .. MaxAddress
  BY BoundAssumption
<1>4. alert \in 0 .. MaxAlerts /\ left \in [Post -> 0 .. MaxAddress]
  BY <1>3 DEF Init
<1> QED BY <1>2, <1>4 DEF Init, TypeOK, PostTypes

LEMMA TypeLoop ==
    ASSUME PostTypes, LoopStep
    PROVE  PostTypes'
<1> USE DEF PostTypes, TypeOK, deadlineVars
<1>1. CASE Dispatch
  <2>1. alert' \in 0 .. MaxAlerts /\ alert' # 0 /\ alert + 1 \in 1 .. MaxAlerts
    BY <1>1, BoundAssumption DEF Dispatch
  <2>2. queue' \in Seq(Post)
    <3>1. IsFiniteSet(Alerter \X {alert + 1}) /\ Alerter \X {alert + 1} \subseteq Post
      BY <2>1, AlerterAssumption, FS_Singleton, FS_Product DEF Post
    <3>2. SetToSeq(Alerter \X {alert + 1}) \in Seq(Alerter \X {alert + 1})
      BY <3>1, SetToSeqIs
    <3>3. SetToSeq(Alerter \X {alert + 1}) \in Seq(Post)
      BY <3>1, <3>2, SeqMonotonic
    <3> QED BY <1>1, <3>3, ConcatProperties DEF Dispatch
  <2>3. stage' \in [Post -> Stages]
    BY <1>1 DEF Dispatch, Stages
  <2> QED BY <1>1, <2>1, <2>2, <2>3 DEF Dispatch, Stages
<1>2. CASE AllNotified
  BY <1>2 DEF AllNotified
<1>3. CASE GiveUp
  <2>1. stage' \in [Post -> Stages]
    BY <1>3 DEF GiveUp, CancelTasks, Stages
  <2>2. {p \in Current : stage[p] \in Running} \subseteq Post
    <3>1. alert \in 1 .. MaxAlerts
      BY <1>3, BoundAssumption DEF GiveUp
    <3> QED BY <3>1 DEF Current, Post
  <2>3. abandoned' \subseteq Post
    BY <1>3, <2>2 DEF GiveUp
  <2> QED BY <1>3, <2>1, <2>3 DEF GiveUp, Stages
<1> QED BY <1>1, <1>2, <1>3 DEF LoopStep

LEMMA TypePost ==
    ASSUME TypeOK, NEW p \in Post, ThreadStep(p) \/ ReceiverStep(p) \/ TimerStep(p)
    PROVE  TypeOK' /\ UNCHANGED <<alert, dispatching>>
<1> USE DEF TypeOK, To, loopVars, deadlineVars, deadlineRest, Running
<1>0. p[1] \in Alerter /\ p[2] \in 1 .. MaxAlerts /\ MaxAddress \in Nat
  BY BoundAssumption DEF Post
<1>1. ASSUME Takes(p) PROVE queue' \in Seq(Post)
  BY <1>1, HeadTailProperties DEF Takes
<1>2. CASE SkipCancelled(p)
  BY <1>1, <1>2 DEF SkipCancelled
<1>3. CASE Begin(p)
  BY <1>1, <1>3 DEF Begin
<1>4. CASE Resolve(p)
  BY <1>4 DEF Resolve
<1>5. CASE ConnectGivesUp(p) \/ Connects(p) \/ Watch(p) \/ Cut(p) \/ ExchangeCut(p)
  BY <1>5 DEF ConnectGivesUp, Connects, Watch, Cut, ExchangeCut
<1>6. CASE ConnectFails(p)
  <2>1. left[p] - 1 \in 0 .. MaxAddress
    BY <1>0, <1>6 DEF ConnectFails
  <2> QED BY <1>6, <2>1 DEF ConnectFails
<1>7. CASE CancelTimer(p) \/ ExchangeEnds(p)
  BY <1>7 DEF CancelTimer, ExchangeEnds
<1>8. CASE ReleaseDeadline(p)
  BY <1>0, <1>8 DEF ReleaseDeadline
<1>9. CASE Receive(p)
  <2>1. Append(received[p[1]], p[2]) \in Seq(1 .. MaxAlerts)
    BY <1>0, AppendProperties
  <2> QED BY <1>0, <1>9, <2>1 DEF Receive
<1>10. CASE SpendBudget(p) \/ Expire(p) \/ ShutDown(p)
  BY <1>10 DEF SpendBudget, Expire, ShutDown
<1> QED BY <1>2, <1>3, <1>4, <1>5, <1>6, <1>7, <1>8, <1>9, <1>10
        DEF ThreadStep, ReceiverStep, TimerStep

\* The state of the dispatches, of the posts and of their timers always has the
\* shape TypeOK gives.
THEOREM TypeCorrect == Spec => []TypeOK
<1>1. PostTypes /\ [Next]_vars => PostTypes'
  <2>1. PostTypes /\ UNCHANGED vars => PostTypes'
    BY DEF vars, PostTypes, TypeOK
  <2>2. ASSUME PostTypes, NEW p \in Post, ThreadStep(p) \/ ReceiverStep(p) \/ TimerStep(p)
        PROVE  PostTypes'
    BY <2>2, TypePost DEF PostTypes
  <2> QED BY <2>1, <2>2, TypeLoop DEF Next
<1>2. PostTypes => TypeOK
  BY DEF PostTypes
<1> QED BY <1>1, <1>2, TypeInit, PTL DEF Spec

-----------------------------------------------------------------------------
(***************************************************************************)
(* ThreadPool.                                                             *)
(* For any number of probes and of threads: a probe's calls occupy one     *)
(* thread at most, and below the cap no call waits behind another.         *)
(***************************************************************************)

Item == Call \cup {Stop}

\* The types, a queue without Stop until the workers are to end, and no thread
\* at work that was not started.
PoolInv ==
    /\ work \in Seq(Item)
    /\ idle \in Nat
    /\ started \subseteq Worker
    /\ thread \in [Worker -> {"none", "get", "run", "release", "ended"}]
    /\ making \in [Worker -> Owner \cup {Nobody}]
    /\ submitting \in Owner \cup {Nobody}
    /\ future \in [Owner -> {"free", "queued", "running"}]
    /\ shutdown \in {"no", "draining", "stopping", "over"}
    /\ shutdown # "over" => \A i \in 1 .. Len(work) : work[i] # Stop
    /\ \A w \in Worker \ started : thread[w] = "none"

-----------------------------------------------------------------------------
(* What the actions do to the queue.                                       *)

LEMMA TailOfWork ==
    ASSUME work \in Seq(Item), work # << >>
    PROVE  /\ Tail(work) \in Seq(Item)
           /\ Len(work) \in Nat \ {0} /\ Len(Tail(work)) = Len(work) - 1
           /\ Head(work) = work[1] /\ Head(work) \in Item
           /\ \A i \in 1 .. Len(Tail(work)) : Tail(work)[i] = work[i + 1]
BY HeadTailProperties, EmptySeq

LEMMA AppendToWork ==
    ASSUME NEW q \in Seq(Item), NEW e \in Item
    PROVE  /\ Append(q, e) \in Seq(Item)
           /\ Len(q) \in Nat /\ Len(Append(q, e)) = Len(q) + 1
           /\ Append(q, e)[Len(q) + 1] = e
           /\ \A i \in 1 .. Len(q) : Append(q, e)[i] = q[i]
BY AppendProperties, LenProperties

LEMMA CallsAreItems ==
    ASSUME NEW o \in Owner, NEW b \in BOOLEAN
    PROVE  /\ [owner |-> o, live |-> b] \in Item
           /\ [owner |-> o, live |-> b] # Stop
<1>1. [owner |-> o, live |-> b] \in Call
  BY DEF Call
<1> QED BY <1>1, StopAssumption DEF Item

LEMMA CancelledWork ==
    ASSUME work \in Seq(Item), NEW o \in Owner, CancelQueued(o)
    PROVE  /\ work' \in Seq(Item)
           /\ Len(work') = Len(work) /\ Len(work) \in Nat
           /\ \A i \in 1 .. Len(work) :
                 work'[i] = IF work[i] # Stop /\ work[i].owner = o
                            THEN [owner |-> o, live |-> FALSE] ELSE work[i]
<1> DEFINE f == [i \in DOMAIN work |->
                   IF work[i] # Stop /\ work[i].owner = o
                   THEN [owner |-> o, live |-> FALSE] ELSE work[i]]
<1>1. work' = f
  BY DEF CancelQueued
<1>2. Len(work) \in Nat /\ DOMAIN work = 1 .. Len(work)
      /\ \A i \in 1 .. Len(work) : work[i] \in Item
  BY LenProperties, ElementOfSeq
<1>3. f \in [1 .. Len(work) -> Item]
  BY <1>2 DEF Item, Call
<1>4. f \in Seq(Item)
  BY <1>2, <1>3, SeqDef
<1>5. Len(f) = Len(work)
  BY <1>2, <1>4, LenProperties
<1> QED BY <1>1, <1>2, <1>4, <1>5

LEMMA PoolInvInit == PoolInit => PoolInv
BY EmptySeq DEF PoolInit, PoolInv

LEMMA PoolInvNext == PoolInv /\ [PoolNext]_poolVars => PoolInv'
<1> SUFFICES ASSUME PoolInv, [PoolNext]_poolVars PROVE PoolInv'
  OBVIOUS
<1> USE DEF PoolInv
<1>1. ASSUME NEW o \in Owner, Put(o) PROVE PoolInv'
  <2> DEFINE e == [owner |-> o, live |-> TRUE]
  <2>1. e \in Item /\ e # Stop
    BY CallsAreItems
  <2> QED BY <1>1, <2>1, AppendToWork DEF Put
<1>2. ASSUME NEW o \in Owner, CancelQueued(o) PROVE PoolInv'
  <2>1. [owner |-> o, live |-> FALSE] # Stop
    BY CallsAreItems
  <2>2. /\ work' \in Seq(Item) /\ Len(work') = Len(work)
        /\ \A i \in 1 .. Len(work) : work[i] # Stop => work'[i] # Stop
    BY <1>2, <2>1, CancelledWork
  <2>3. future' \in [Owner -> {"free", "queued", "running"}]
        /\ UNCHANGED <<idle, started, thread, making, submitting, shutdown>>
    BY <1>2 DEF CancelQueued
  <2> QED BY <2>2, <2>3
<1>3. CASE Submit
  BY <1>3 DEF Submit, HandToIdle, StartWorker, LeaveQueued, SomeIdle, TakePermit
<1>4. ASSUME NEW w \in Worker, Step(w) PROVE PoolInv'
  <2>1. CASE GetCall(w)
    BY <1>4, <2>1, TailOfWork DEF GetCall, Item, Call
  <2>2. CASE GetCancelled(w)
    BY <1>4, <2>2, TailOfWork DEF GetCancelled, SkipsCall
  <2>3. CASE GetStop(w)
    <3>1. Stop \in Item
      BY DEF Item
    <3>2. shutdown = "over"
      BY <2>3, TailOfWork DEF GetStop
    <3> QED BY <2>3, <3>1, <3>2, TailOfWork, AppendToWork DEF GetStop
  <2>4. CASE Release(w)
    BY <2>4 DEF Release
  <2> QED BY <1>4, <2>1, <2>2, <2>3, <2>4 DEF Step
<1>5. ASSUME NEW w \in Worker, CallReturns(w) PROVE PoolInv'
  BY <1>5 DEF CallReturns
<1>6. ASSUME NEW cancel \in BOOLEAN, ShutdownBegins(cancel) PROVE PoolInv'
  BY <1>6 DEF ShutdownBegins
<1>7. CASE DrainOne
  <2>1. future' = future \/ future' = [future EXCEPT ![Head(work).owner] = "free"]
    BY <1>7 DEF DrainOne
  <2>2. future' \in [Owner -> {"free", "queued", "running"}]
    BY <2>1
  <2>3. work # << >> /\ work' = Tail(work)
        /\ UNCHANGED <<idle, started, thread, making, submitting, shutdown>>
    BY <1>7 DEF DrainOne
  <2> QED BY <2>2, <2>3, TailOfWork
<1>8. CASE Drained
  BY <1>8 DEF Drained
<1>9. CASE SendStop
  <2>1. Stop \in Item
    BY DEF Item
  <2> QED BY <1>9, <2>1, AppendToWork DEF SendStop
<1>10. CASE UNCHANGED poolVars
  BY <1>10 DEF poolVars
<1> QED BY <1>1, <1>2, <1>3, <1>4, <1>5, <1>6, <1>7, <1>8, <1>9, <1>10 DEF PoolNext

\* The pool's state always has the shape PoolTypeOK gives: no thread is at work
\* that was not started, nor is anything but calls queued before the end.
THEOREM PoolTypeCorrect == PoolSpec => []PoolTypeOK
<1>1. PoolInv => PoolTypeOK
  BY DEF PoolInv, PoolTypeOK, Item
<1> QED BY <1>1, PoolInvInit, PoolInvNext, PTL DEF PoolSpec

LEMMA PoolInvAlways == PoolSpec => []PoolInv
BY PoolInvInit, PoolInvNext, PTL DEF PoolSpec

-----------------------------------------------------------------------------
(* One call per owner: it is in the queue, live, while its future is       *)
(* "queued", and with one thread while its future is "running".            *)

Holds(i, o) == work[i] # Stop /\ work[i].owner = o /\ work[i].live

CallInv ==
    /\ \A o \in Owner : \A i \in 1 .. Len(work) : Holds(i, o) => future[o] = "queued"
    /\ \A o \in Owner : \A i, j \in 1 .. Len(work) : Holds(i, o) /\ Holds(j, o) => i = j
    /\ \A w \in Worker : thread[w] = "run" =>
          making[w] \in Owner /\ future[making[w]] = "running"
    /\ OneThreadPerOwner

LEMMA CallInvInit == PoolInit => CallInv
<1> SUFFICES ASSUME PoolInit PROVE CallInv
  OBVIOUS
<1>1. Len(work) = 0
  BY EmptySeq DEF PoolInit
<1> QED BY <1>1 DEF PoolInit, CallInv, OneThreadPerOwner

\* The call at the head leaves the queue; its owner's future is about to be o.
LEMMA HeadLeaves ==
    ASSUME PoolInv, CallInv, work # << >>, work' = Tail(work)
    PROVE  /\ \A o \in Owner : \A i \in 1 .. Len(work') :
                 Holds(i, o)' => Holds(i + 1, o) /\ i + 1 \in 1 .. Len(work)
           /\ \A o \in Owner : \A i, j \in 1 .. Len(work') :
                 Holds(i, o)' /\ Holds(j, o)' => i = j
           /\ \A o \in Owner : Holds(1, o) => \A i \in 1 .. Len(work') : ~Holds(i, o)'
           /\ 1 \in 1 .. Len(work)
<1>1. /\ Len(work) \in Nat \ {0} /\ Len(work') = Len(work) - 1
      /\ \A i \in 1 .. Len(work') : work'[i] = work[i + 1]
  BY TailOfWork DEF PoolInv
<1>2. \A o \in Owner : \A i \in 1 .. Len(work') :
        Holds(i, o)' => Holds(i + 1, o) /\ i + 1 \in 1 .. Len(work)
  BY <1>1 DEF Holds
<1> QED BY <1>1, <1>2 DEF CallInv

LEMMA CallInvNext == PoolInv /\ CallInv /\ [PoolNext]_poolVars => CallInv'
<1> SUFFICES ASSUME PoolInv, CallInv, [PoolNext]_poolVars PROVE CallInv'
  OBVIOUS
<1>0. /\ thread \in [Worker -> {"none", "get", "run", "release", "ended"}]
      /\ making \in [Worker -> Owner \cup {Nobody}]
      /\ future \in [Owner -> {"free", "queued", "running"}]
      /\ work \in Seq(Item) /\ Len(work) \in Nat
      /\ started \subseteq Worker
  BY LenProperties DEF PoolInv
<1> USE DEF CallInv, OneThreadPerOwner
<1>1. ASSUME NEW o \in Owner, Put(o) PROVE CallInv'
  <2> DEFINE e == [owner |-> o, live |-> TRUE]
  <2>1. e \in Item
    BY CallsAreItems
  <2>2. /\ Len(work') = Len(work) + 1
        /\ work'[Len(work) + 1] = e
        /\ \A i \in 1 .. Len(work) : work'[i] = work[i]
    BY <1>0, <1>1, <2>1, AppendToWork DEF Put
  <2>3. future[o] = "free" /\ future' = [future EXCEPT ![o] = "queued"]
        /\ UNCHANGED <<thread, making>>
    BY <1>0, <1>1 DEF Put, Busy
  <2>4. \A p \in Owner : \A i \in 1 .. Len(work') :
          Holds(i, p)' => \/ i \in 1 .. Len(work) /\ Holds(i, p) /\ p # o
                          \/ i = Len(work) + 1 /\ p = o
    BY <1>0, <2>2, <2>3 DEF Holds
  <2> HIDE DEF e
  <2>5. \A p \in Owner : \A i \in 1 .. Len(work') : Holds(i, p)' => future'[p] = "queued"
    BY <1>0, <2>3, <2>4
  <2>6. \A p \in Owner : \A i, j \in 1 .. Len(work') : Holds(i, p)' /\ Holds(j, p)' => i = j
    BY <2>4
  <2>7. \A w \in Worker : thread'[w] = "run" =>
          making'[w] \in Owner /\ future'[making'[w]] = "running"
    BY <1>0, <2>3
  <2> QED BY <2>3, <2>5, <2>6, <2>7
<1>2. ASSUME NEW o \in Owner, CancelQueued(o) PROVE CallInv'
  <2>1. future[o] = "queued" /\ future' = [future EXCEPT ![o] = "free"]
        /\ UNCHANGED <<thread, making>>
    BY <1>2 DEF CancelQueued
  <2>2. Len(work') = Len(work)
    BY <1>0, <1>2, CancelledWork
  <2>3. ASSUME NEW p \in Owner, NEW i \in 1 .. Len(work), Holds(i, p)'
        PROVE  Holds(i, p) /\ p # o
    <3>1. work'[i] = IF work[i] # Stop /\ work[i].owner = o
                     THEN [owner |-> o, live |-> FALSE] ELSE work[i]
      BY <1>0, <1>2, CancelledWork
    <3>2. ~(work[i] # Stop /\ work[i].owner = o)
      BY <2>3, <3>1 DEF Holds
    <3> QED BY <2>3, <3>1, <3>2 DEF Holds
  <2> QED BY <1>0, <2>1, <2>2, <2>3
<1>3. CASE Submit
  <2>1. UNCHANGED <<work, making, future>>
        /\ \A w \in Worker : thread'[w] = "run" => thread[w] = "run"
    BY <1>0, <1>3 DEF Submit, HandToIdle, StartWorker, LeaveQueued
  <2> QED BY <2>1 DEF Holds
<1>4. ASSUME NEW w \in Worker, Step(w) PROVE CallInv'
  <2>1. CASE GetCall(w)
    <3> DEFINE o == Head(work).owner
    <3>1. work # << >> /\ work' = Tail(work) /\ Holds(1, o) /\ o \in Owner
      BY <1>0, <2>1, TailOfWork DEF GetCall, Holds, Item, Call
    <3>2. /\ thread' = [thread EXCEPT ![w] = "run"]
          /\ making' = [making EXCEPT ![w] = o]
          /\ future' = [future EXCEPT ![o] = "running"]
      BY <2>1 DEF GetCall
    <3> HIDE DEF o
    <3>3. future[o] = "queued"
      BY <3>1, HeadLeaves
    <3> QED BY <1>0, <3>1, <3>2, <3>3, HeadLeaves
  <2>2. CASE GetCancelled(w)
    <3>1. work # << >> /\ work' = Tail(work)
          /\ thread' = [thread EXCEPT ![w] = "release"] /\ UNCHANGED <<making, future>>
      BY <2>2 DEF GetCancelled, SkipsCall
    <3> QED BY <1>0, <3>1, HeadLeaves
  <2>3. CASE GetStop(w)
    <3>1. work # << >> /\ Tail(work) \in Seq(Item) /\ Stop \in Item
          /\ thread' = [thread EXCEPT ![w] = "ended"] /\ UNCHANGED <<making, future>>
      BY <1>0, <2>3, TailOfWork DEF GetStop, Item
    <3>2. /\ Len(work') = Len(work) /\ work'[Len(work)] = Stop
          /\ \A i \in 1 .. Len(work) - 1 : work'[i] = work[i + 1]
      BY <1>0, <2>3, <3>1, TailOfWork, AppendToWork DEF GetStop
    <3>3. \A p \in Owner : \A i \in 1 .. Len(work') :
            Holds(i, p)' => i + 1 \in 1 .. Len(work) /\ Holds(i + 1, p)
      BY <1>0, <3>2 DEF Holds
    <3> QED BY <1>0, <3>1, <3>2, <3>3
  <2>4. CASE Release(w)
    BY <1>0, <2>4 DEF Release, Holds
  <2> QED BY <1>4, <2>1, <2>2, <2>3, <2>4 DEF Step
<1>5. ASSUME NEW w \in Worker, CallReturns(w) PROVE CallInv'
  <2>1. making[w] \in Owner /\ future[making[w]] = "running"
    BY <1>5 DEF CallReturns
  <2> QED BY <1>0, <1>5, <2>1 DEF CallReturns, Holds
<1>6. ASSUME NEW cancel \in BOOLEAN, ShutdownBegins(cancel) PROVE CallInv'
  BY <1>6 DEF ShutdownBegins, Holds
<1>7. CASE DrainOne
  <2>1. work # << >> /\ work' = Tail(work) /\ UNCHANGED <<thread, making>>
    BY <1>7 DEF DrainOne
  <2>2. Head(work) = work[1] /\ Head(work) \in Call
    BY <1>7, <2>1, TailOfWork DEF PoolInv, DrainOne, Item
  <2>3. CASE Head(work).live
    <3> DEFINE o == Head(work).owner
    <3>1. o \in Owner /\ Holds(1, o) /\ future' = [future EXCEPT ![o] = "free"]
      BY <1>7, <2>2, <2>3, StopAssumption DEF DrainOne, Holds, Call
    <3> HIDE DEF o
    <3> QED BY <1>0, <2>1, <3>1, HeadLeaves
  <2>4. CASE ~Head(work).live
    <3>1. future' = future
      BY <1>7, <2>4 DEF DrainOne
    <3> QED BY <2>1, <3>1, HeadLeaves
  <2> QED BY <2>3, <2>4
<1>8. CASE Drained
  BY <1>8 DEF Drained, Holds
<1>9. CASE SendStop
  <2>1. Stop \in Item /\ UNCHANGED <<thread, making, future>> /\ work' = Append(work, Stop)
    BY <1>9 DEF Item, SendStop
  <2>2. \A p \in Owner : \A i \in 1 .. Len(work') :
          Holds(i, p)' => i \in 1 .. Len(work) /\ Holds(i, p)
    BY <1>0, <2>1, AppendToWork DEF Holds
  <2> QED BY <2>1, <2>2
<1>10. CASE UNCHANGED poolVars
  BY <1>10 DEF poolVars, Holds
<1> QED BY <1>1, <1>2, <1>3, <1>4, <1>5, <1>6, <1>7, <1>8, <1>9, <1>10 DEF PoolNext

\* "A hung dependency ties up one pool thread": however many probes and threads
\* there are, and however often a probe's check is cancelled and made again,
\* two threads never make calls of the same probe.
THEOREM OwnerHasOneThread == PoolSpec => []OneThreadPerOwner
<1>1. CallInv => OneThreadPerOwner
  BY DEF CallInv
<1> QED BY <1>1, CallInvInit, CallInvNext, PoolInvAlways, PTL DEF PoolSpec

-----------------------------------------------------------------------------
(* Below the cap, the threads waiting for an item are those on offer and   *)
(* one for each item in the queue, the one being submitted excepted.       *)

Getting    == {w \in Worker : thread[w] = "get"}
Unreserved == IF submitting = Nobody THEN 0 ELSE 1

WaitInv ==
    shutdown = "no" /\ started # Worker =>
        Cardinality(Getting) + Unreserved = idle + Len(work)

LEMMA WaitInvInit == PoolInit => WaitInv
<1> SUFFICES ASSUME PoolInit PROVE WaitInv
  OBVIOUS
<1>1. Getting = {} /\ Len(work) = 0
  BY EmptySeq DEF PoolInit, Getting
<1> QED BY <1>1, FS_EmptySet DEF PoolInit, WaitInv, Unreserved

\* One thread begins or ceases to wait for an item.
LEMMA GettingChanges ==
    ASSUME PoolInv, NEW w \in Worker, NEW t, thread' = [thread EXCEPT ![w] = t]
    PROVE  /\ Cardinality(Getting) \in Nat
           /\ thread[w] # "get" /\ t = "get" =>
                 Cardinality(Getting') = Cardinality(Getting) + 1
           /\ thread[w] = "get" /\ t # "get" =>
                 Cardinality(Getting') = Cardinality(Getting) - 1
<1> USE DEF PoolInv
<1>1. IsFiniteSet(Getting) /\ Cardinality(Getting) \in Nat
  BY WorkerAssumption, FS_Subset, FS_CardinalityType DEF Getting
<1>2. CASE thread[w] # "get" /\ t = "get"
  <2>1. Getting' = Getting \cup {w} /\ w \notin Getting
    BY <1>2 DEF Getting
  <2> QED BY <1>1, <1>2, <2>1, FS_AddElement
<1>3. CASE thread[w] = "get" /\ t # "get"
  <2>1. Getting' = Getting \ {w} /\ w \in Getting
    BY <1>3 DEF Getting
  <2> QED BY <1>1, <1>3, <2>1, FS_RemoveElement
<1> QED BY <1>1, <1>2, <1>3

LEMMA WaitInvNext == PoolInv /\ WaitInv /\ [PoolNext]_poolVars => WaitInv'
<1> SUFFICES ASSUME PoolInv, WaitInv, [PoolNext]_poolVars, (shutdown = "no" /\ started # Worker)'
             PROVE  (Cardinality(Getting) + Unreserved = idle + Len(work))'
  BY DEF WaitInv
<1>0. /\ work \in Seq(Item) /\ Len(work) \in Nat /\ idle \in Nat
      /\ submitting \in Owner \cup {Nobody} /\ started \subseteq Worker
      /\ Cardinality(Getting) \in Nat
  BY LenProperties, WorkerAssumption, FS_Subset, FS_CardinalityType DEF PoolInv, Getting
<1>00. shutdown = "no" /\ started # Worker =>
          Cardinality(Getting) + Unreserved = idle + Len(work)
  BY DEF WaitInv
<1> USE DEF Unreserved
<1>1. ASSUME NEW o \in Owner, Put(o)
      PROVE  (Cardinality(Getting) + Unreserved = idle + Len(work))'
  <2>1. Len(work') = Len(work) + 1
    BY <1>0, <1>1, CallsAreItems, AppendToWork DEF Put
  <2>2. submitting = Nobody /\ submitting' # Nobody
        /\ UNCHANGED <<idle, started, thread, shutdown>>
    BY <1>1, NobodyAssumption DEF Put
  <2>3. Getting' = Getting
    BY <2>2 DEF Getting
  <2> QED BY <1>0, <1>00, <2>1, <2>2, <2>3
<1>2. ASSUME NEW o \in Owner, CancelQueued(o)
      PROVE  (Cardinality(Getting) + Unreserved = idle + Len(work))'
  <2>1. Len(work') = Len(work)
    BY <1>0, <1>2, CancelledWork
  <2>2. UNCHANGED <<idle, started, thread, submitting, shutdown>>
    BY <1>2 DEF CancelQueued
  <2>3. Getting' = Getting
    BY <2>2 DEF Getting
  <2> QED BY <1>00, <2>1, <2>2, <2>3
<1>3. CASE Submit
  <2>1. CASE HandToIdle
    <3>1. Getting' = Getting
      BY <2>1 DEF HandToIdle, Getting
    <3> QED BY <1>0, <1>00, <2>1, <3>1 DEF HandToIdle, TakePermit
  <2>2. CASE StartWorker
    <3>1. PICK w \in Worker \ started : /\ started' = started \cup {w}
                                        /\ thread' = [thread EXCEPT ![w] = "get"]
      BY <2>2 DEF StartWorker
    <3>2. Cardinality(Getting') = Cardinality(Getting) + 1
      BY <3>1, GettingChanges DEF PoolInv
    <3> QED BY <1>0, <1>00, <2>2, <3>1, <3>2 DEF StartWorker
  <2>3. CASE LeaveQueued
    BY <2>3 DEF LeaveQueued
  <2> QED BY <1>3, <2>1, <2>2, <2>3 DEF Submit
<1>4. ASSUME NEW w \in Worker, Step(w)
      PROVE  (Cardinality(Getting) + Unreserved = idle + Len(work))'
  <2>1. CASE GetCall(w) \/ GetCancelled(w)
    <3>1. /\ thread[w] = "get" /\ work # << >> /\ work' = Tail(work)
          /\ \E t \in {"run", "release"} : thread' = [thread EXCEPT ![w] = t]
          /\ UNCHANGED <<idle, started, submitting, shutdown>>
      BY <2>1 DEF GetCall, GetCancelled, SkipsCall
    <3>2. Len(work') = Len(work) - 1
      BY <1>0, <3>1, TailOfWork
    <3>3. Cardinality(Getting') = Cardinality(Getting) - 1
      BY <3>1, GettingChanges
    <3> QED BY <1>0, <1>00, <3>1, <3>2, <3>3
  <2>2. CASE GetStop(w)
    <3>1. shutdown = "over" /\ shutdown' = shutdown
      BY <2>2, TailOfWork DEF GetStop, PoolInv
    <3> QED BY <3>1
  <2>3. CASE Release(w)
    <3>1. Cardinality(Getting') = Cardinality(Getting) + 1
      BY <2>3, GettingChanges DEF Release
    <3> QED BY <1>0, <1>00, <2>3, <3>1 DEF Release
  <2> QED BY <1>4, <2>1, <2>2, <2>3 DEF Step
<1>5. ASSUME NEW w \in Worker, CallReturns(w)
      PROVE  (Cardinality(Getting) + Unreserved = idle + Len(work))'
  <2>1. /\ thread[w] = "run" /\ thread' = [thread EXCEPT ![w] = "release"]
        /\ UNCHANGED <<work, idle, started, submitting, shutdown>>
    BY <1>5 DEF CallReturns
  <2>2. Getting' = Getting
    BY <2>1 DEF Getting, PoolInv
  <2> QED BY <1>00, <2>1, <2>2
<1>6. CASE (\E cancel \in BOOLEAN : ShutdownBegins(cancel)) \/ DrainOne \/ Drained \/ SendStop
  BY <1>6 DEF ShutdownBegins, DrainOne, Drained, SendStop
<1>7. CASE UNCHANGED poolVars
  BY <1>00, <1>7 DEF poolVars, Getting
<1> QED BY <1>1, <1>2, <1>3, <1>4, <1>5, <1>6, <1>7 DEF PoolNext

\* "Below the cap no call waits behind a hung one": for any number of probes
\* and threads there is a thread for each queued item, whatever the races
\* between put, acquire and release.
THEOREM NoWaitBehindHung == PoolSpec => []NoWaitBelowCap
<1>1. PoolInv /\ WaitInv => NoWaitBelowCap
  <2> SUFFICES ASSUME PoolInv, WaitInv, started # Worker, submitting = Nobody, shutdown = "no"
               PROVE  Len(work) <= Cardinality(Ready)
    BY DEF NoWaitBelowCap
  <2>1. /\ IsFiniteSet(Ready) /\ Cardinality(Ready) \in Nat
        /\ Getting \subseteq Ready
    BY WorkerAssumption, FS_Subset, FS_CardinalityType DEF Ready, Getting
  <2>2. Cardinality(Getting) <= Cardinality(Ready) /\ Cardinality(Getting) \in Nat
    BY <2>1, FS_Subset, FS_CardinalityType
  <2> QED BY <2>1, <2>2, LenProperties DEF PoolInv, WaitInv, Unreserved
<1> QED BY <1>1, WaitInvInit, WaitInvNext, PoolInvAlways, PTL DEF PoolSpec

-----------------------------------------------------------------------------
(***************************************************************************)
(* ReplicaAlerts.                                                          *)
(* Theorems of ReplicaAlerts, for every set of replicas and statuses.      *)
(***************************************************************************)

USE StatusAssumption, ChangesAssumption, AlertAssumption

-----------------------------------------------------------------------------
(* Type correctness.                                                       *)

\* What an alert that is claimed leaves behind.
LEMMA TakenType ==
    ASSUME ReplicaTypeOK, NEW r \in Replica, Claiming(r)
    PROVE  /\ Head(pending[r]) \in Alert
           /\ Head(pending[r]).new \in Status
           /\ Head(pending[r]).change \in 0 .. MaxChanges
           /\ Tail(pending[r]) \in Seq(Alert)
           /\ [pending EXCEPT ![r] = Tail(@)] \in [Replica -> Seq(Alert)]
<1>1. pending[r] \in Seq(Alert) /\ pending[r] # << >>
  BY DEF ReplicaTypeOK, Claiming
<1>2. Head(pending[r]) \in Alert /\ Tail(pending[r]) \in Seq(Alert)
  BY <1>1
<1>3. Head(pending[r]).new \in Status /\ Head(pending[r]).change \in 0 .. MaxChanges
  BY <1>2 DEF Alert
<1>. QED BY <1>2, <1>3 DEF ReplicaTypeOK

LEMMA SendType ==
    ASSUME ReplicaTypeOK, NEW r \in Replica, Claiming(r), Send(r)
    PROVE  /\ pending' \in [Replica -> Seq(Alert)]
           /\ sending' \in [Replica -> Alert \cup {NoAlert}]
           /\ lastSent' \in Status
           /\ sender' \in Replica
           /\ times' \in [0 .. MaxChanges -> 0 .. 2]
<1>. DEFINE first == Head(pending[r])
            more  == IF times[first.change] = 2 THEN 2 ELSE times[first.change] + 1
<1>1. first \in Alert /\ first.new \in Status /\ first.change \in 0 .. MaxChanges
  BY TakenType
<1>2. times[first.change] \in 0 .. 2
  BY <1>1 DEF ReplicaTypeOK
<1>3. more \in 0 .. 2
  BY <1>2
<1>4. times' = [times EXCEPT ![first.change] = more]
  BY DEF Send
<1>5. times' \in [0 .. MaxChanges -> 0 .. 2]
  <2>. HIDE DEF more, first
  <2>. QED BY <1>1, <1>3, <1>4 DEF ReplicaTypeOK
<1>. QED BY <1>1, <1>5, TakenType DEF Send, Taken, ReplicaTypeOK

LEMMA InitType == ReplicaInit => ReplicaTypeOK
<1>. SUFFICES ASSUME ReplicaInit PROVE ReplicaTypeOK
  OBVIOUS
<1>1. << >> \in Seq(Alert)
  OBVIOUS
<1>2. pending \in [Replica -> Seq(Alert)]
  BY <1>1 DEF ReplicaInit
<1>3. times \in [0 .. MaxChanges -> 0 .. 2]
  BY DEF ReplicaInit
<1>. QED BY <1>2, <1>3 DEF ReplicaInit, ReplicaTypeOK

LEMMA NextType == ReplicaTypeOK /\ [ReplicaNext]_replicaVars => ReplicaTypeOK'
<1>. SUFFICES ASSUME ReplicaTypeOK, [ReplicaNext]_replicaVars PROVE ReplicaTypeOK'
  OBVIOUS
<1>. USE DEF probeVars, sentVars, pastVars
<1>1. ASSUME NEW s \in Status, Change(s) PROVE ReplicaTypeOK'
  BY <1>1 DEF ReplicaTypeOK, Change, Settled
<1>2. ASSUME NEW r \in Replica, Notice(r) PROVE ReplicaTypeOK'
  <2>1. [new |-> truth, change |-> changes] \in Alert
    BY DEF ReplicaTypeOK, Alert
  <2>2. Append(pending[r], [new |-> truth, change |-> changes]) \in Seq(Alert)
    BY <2>1 DEF ReplicaTypeOK
  <2>3. pending' \in [Replica -> Seq(Alert)]
    BY <1>2, <2>2 DEF ReplicaTypeOK, Notice
  <2>4. seen' \in [Replica -> Status]
    BY <1>2 DEF ReplicaTypeOK, Notice
  <2>. QED BY <1>2, <2>3, <2>4 DEF ReplicaTypeOK, Notice
<1>3. ASSUME NEW r \in Replica, ClaimWins(r) PROVE ReplicaTypeOK'
  BY <1>3, SendType, TakenType DEF ReplicaTypeOK, ClaimWins, Stored
<1>4. ASSUME NEW r \in Replica, ClaimRefused(r) PROVE ReplicaTypeOK'
  BY <1>4, TakenType DEF ReplicaTypeOK, ClaimRefused, Taken
<1>5. ASSUME NEW r \in Replica, ClaimFails(r) PROVE ReplicaTypeOK'
  BY <1>5, SendType, TakenType DEF ReplicaTypeOK, ClaimFails, Stored
<1>6. ASSUME NEW r \in Replica, Dispatched(r) PROVE ReplicaTypeOK'
  BY <1>6 DEF ReplicaTypeOK, Dispatched
<1>7. ASSUME NEW r \in Replica, Restart(r) PROVE ReplicaTypeOK'
  BY <1>7 DEF ReplicaTypeOK, Restart
<1>8. CASE Lapse
  BY <1>8 DEF ReplicaTypeOK, Lapse, Settled
<1>9. CASE UNCHANGED replicaVars
  BY <1>9 DEF ReplicaTypeOK, replicaVars
<1>. QED BY <1>1, <1>2, <1>3, <1>4, <1>5, <1>6, <1>7, <1>8, <1>9 DEF ReplicaNext

\* The state of the replicas always has the shape ReplicaTypeOK gives.
THEOREM ReplicaTypeCorrect == ReplicaSpec => []ReplicaTypeOK
<1>. QED BY InitType, NextType, PTL DEF ReplicaSpec

-----------------------------------------------------------------------------
(* Deduplication hides no change in the end.                               *)

\* The last alert a replica queued is of the status it saw last; without
\* failures a claim holds the status last sent; and the replica that sent last
\* has sent what it saw last, unless it has more to claim.
FinalInv ==
    /\ \A r \in Replica :
         pending[r] # << >> => pending[r][Len(pending[r])].new = seen[r]
    /\ ~failed /\ ~restarted =>
         /\ claim # NoClaim => claim = lastSent
         /\ pending[sender] = << >> => lastSent = seen[sender]

\* Taking the first alert leaves the last one last, unless it was the only one.
LEMMA TakenLast ==
    ASSUME ReplicaTypeOK, FinalInv, NEW r \in Replica, Claiming(r), Taken(r)
    PROVE  /\ \A q \in Replica :
                pending'[q] # << >> => pending'[q][Len(pending'[q])].new = seen[q]
           /\ pending'[r] = << >> => Head(pending[r]).new = seen[r]
           /\ \A q \in Replica \ {r} : pending'[q] = pending[q]
<1>. DEFINE s == pending[r]
<1>1. s \in Seq(Alert) /\ s # << >> /\ s[Len(s)].new = seen[r]
  BY DEF ReplicaTypeOK, Claiming, FinalInv
<1>2. pending'[r] = Tail(s) /\ \A q \in Replica \ {r} : pending'[q] = pending[q]
  BY DEF Taken, ReplicaTypeOK
<1>3. Tail(s) # << >> => Tail(s)[Len(Tail(s))] = s[Len(s)]
  <2>. HIDE DEF s
  <2>. QED BY <1>1
<1>4. Tail(s) = << >> => Head(s) = s[Len(s)]
  <2>. HIDE DEF s
  <2>1. Len(Tail(s)) = Len(s) - 1 /\ Len(s) \in Nat
    BY <1>1
  <2>2. Tail(s) = << >> => Len(s) = 1
    <3>1. Len(<< >>) = 0
      OBVIOUS
    <3>2. ASSUME Tail(s) = << >> PROVE Len(Tail(s)) = 0
      BY <3>1, <3>2, Zenon
    <3>. QED BY <2>1, <3>2
  <2>. QED BY <1>1, <2>2
<1>5. ASSUME NEW q \in Replica, pending'[q] # << >>
      PROVE  pending'[q][Len(pending'[q])].new = seen[q]
  <2>1. CASE q = r
    BY <1>1, <1>2, <1>3, <1>5, <2>1
  <2>2. CASE q # r
    BY <1>2, <1>5, <2>2 DEF FinalInv
  <2>. QED BY <2>1, <2>2
<1>. QED BY <1>1, <1>2, <1>4, <1>5

LEMMA FinalInvInit == ReplicaInit => FinalInv
BY DEF ReplicaInit, FinalInv

LEMMA FinalInvNext == ReplicaTypeOK /\ FinalInv /\ [ReplicaNext]_replicaVars => FinalInv'
<1>. SUFFICES ASSUME ReplicaTypeOK, FinalInv, [ReplicaNext]_replicaVars PROVE FinalInv'
  OBVIOUS
<1>. USE DEF probeVars, sentVars, pastVars
<1>1. ASSUME NEW s \in Status, Change(s) PROVE FinalInv'
  BY <1>1 DEF FinalInv, Change
<1>2. ASSUME NEW r \in Replica, Notice(r) PROVE FinalInv'
  <2>. DEFINE found == [new |-> truth, change |-> changes]
              s == Append(pending[r], found)
  <2>1. pending[r] \in Seq(Alert) /\ found \in Alert /\ found.new = truth
    BY DEF ReplicaTypeOK, Alert
  <2>2. s # << >> /\ s[Len(s)] = found
    <3>. HIDE DEF found
    <3>. QED BY <2>1
  <2>3. /\ pending'[r] = s /\ seen'[r] = truth
        /\ \A q \in Replica \ {r} : pending'[q] = pending[q] /\ seen'[q] = seen[q]
    BY <1>2 DEF Notice, ReplicaTypeOK
  <2>4. UNCHANGED <<claim, sentVars, pastVars>>
    BY <1>2 DEF Notice
  <2>. HIDE DEF s, found
  <2>. QED BY <2>1, <2>2, <2>3, <2>4 DEF FinalInv, ReplicaTypeOK
<1>3. ASSUME NEW r \in Replica, ClaimWins(r) PROVE FinalInv'
  <2>1. Claiming(r) /\ Taken(r) /\ UNCHANGED <<seen, pastVars>>
    BY <1>3 DEF ClaimWins, Send
  <2>2. claim' = Head(pending[r]).new /\ lastSent' = Head(pending[r]).new /\ sender' = r
    BY <1>3 DEF ClaimWins, Send, Stored
  <2>. QED BY <2>1, <2>2, TakenLast DEF FinalInv
<1>4. ASSUME NEW r \in Replica, ClaimRefused(r) PROVE FinalInv'
  <2>1. Claiming(r) /\ Taken(r) /\ UNCHANGED <<seen, claim, sentVars, pastVars>>
    BY <1>4 DEF ClaimRefused
  <2>2. claim = Head(pending[r]).new /\ claim # NoClaim
    BY <1>4, <2>1, TakenType DEF ClaimRefused, Refuses
  <2>. QED BY <2>1, <2>2, TakenLast DEF FinalInv, ReplicaTypeOK
<1>5. ASSUME NEW r \in Replica, ClaimFails(r) PROVE FinalInv'
  BY <1>5, TakenLast DEF FinalInv, ClaimFails, Send
<1>6. ASSUME NEW r \in Replica, Dispatched(r) PROVE FinalInv'
  BY <1>6 DEF FinalInv, Dispatched
<1>7. ASSUME NEW r \in Replica, Restart(r) PROVE FinalInv'
  <2>1. \A q \in Replica : \/ pending'[q] = << >>
                           \/ pending'[q] = pending[q] /\ seen'[q] = seen[q]
    BY <1>7 DEF Restart, ReplicaTypeOK
  <2>. QED BY <1>7, <2>1 DEF FinalInv, Restart
<1>8. CASE Lapse
  BY <1>8 DEF FinalInv, Lapse
<1>9. CASE UNCHANGED replicaVars
  BY <1>9 DEF FinalInv, replicaVars
<1>. QED BY <1>1, <1>2, <1>3, <1>4, <1>5, <1>6, <1>7, <1>8, <1>9 DEF ReplicaNext

\* Whatever the lag and the order of the replicas, once all have dealt with
\* what they saw, the last alert sent was of the true status (_claim_alert),
\* unless a claim failed or a replica restarted.
THEOREM FinalStatusIsSent == ReplicaSpec => []FinalIsSent
<1>1. ReplicaTypeOK /\ FinalInv => FinalIsSent
  BY DEF ReplicaTypeOK, FinalInv, FinalIsSent, Settled
<1>. QED BY <1>1, InitType, NextType, FinalInvInit, FinalInvNext, PTL DEF ReplicaSpec

-----------------------------------------------------------------------------
(* No alert is sent twice.                                                 *)

\* As long as things go in order: the alerts queued are all of the present
\* change, later changes are not yet sent, and from the moment the present one
\* was sent until all replicas have dealt with it, the claim holds its status.
OnceInv ==
    orderly /\ ~failed =>
        /\ \A r \in Replica : \A i \in DOMAIN pending[r] :
             pending[r][i].new = truth /\ pending[r][i].change = changes
        /\ \A k \in 0 .. MaxChanges : times[k] <= 1
        /\ \A k \in 0 .. MaxChanges : k > changes => times[k] = 0
        /\ times[changes] = 1 /\ ~Settled => claim = truth

LEMMA OnceInvInit == ReplicaInit => OnceInv
BY DEF ReplicaInit, OnceInv

LEMMA OnceTaken ==
    ASSUME ReplicaTypeOK, OnceInv, orderly, ~failed, NEW r \in Replica, Claiming(r), Taken(r)
    PROVE  /\ Head(pending[r]).new = truth /\ Head(pending[r]).change = changes
           /\ ~Settled
           /\ \A q \in Replica : \A i \in DOMAIN pending'[q] :
                pending'[q][i].new = truth /\ pending'[q][i].change = changes
<1>. DEFINE s == pending[r]
<1>1. s \in Seq(Alert) /\ s # << >>
  BY DEF ReplicaTypeOK, Claiming
<1>2. \A i \in DOMAIN s : s[i].new = truth /\ s[i].change = changes
  BY DEF OnceInv
<1>3. pending'[r] = Tail(s) /\ \A q \in Replica \ {r} : pending'[q] = pending[q]
  BY DEF Taken, ReplicaTypeOK
<1>4. Head(s) = s[1] /\ 1 \in DOMAIN s
  <2>. HIDE DEF s
  <2>. QED BY <1>1
<1>5. \A i \in DOMAIN Tail(s) : Tail(s)[i] = s[i + 1] /\ i + 1 \in DOMAIN s
  <2>. HIDE DEF s
  <2>. QED BY <1>1
<1>6. \A i \in DOMAIN Tail(s) : Tail(s)[i].new = truth /\ Tail(s)[i].change = changes
  BY <1>2, <1>5
<1>7. ASSUME NEW q \in Replica, NEW i \in DOMAIN pending'[q]
      PROVE  pending'[q][i].new = truth /\ pending'[q][i].change = changes
  <2>1. CASE q = r
    BY <1>3, <1>6, <1>7, <2>1
  <2>2. CASE q # r
    <3>1. pending'[q] = pending[q]
      BY <1>3, <2>2
    <3>. QED BY <1>7, <3>1 DEF OnceInv
  <2>. QED BY <2>1, <2>2
<1>. QED BY <1>1, <1>2, <1>4, <1>7 DEF Settled

LEMMA OnceInvNext == ReplicaTypeOK /\ OnceInv /\ [ReplicaNext]_replicaVars => OnceInv'
<1>. SUFFICES ASSUME ReplicaTypeOK, OnceInv, [ReplicaNext]_replicaVars, orderly', ~failed' PROVE OnceInv'
  BY DEF OnceInv
<1>. USE DEF probeVars, sentVars, pastVars
<1>0. changes \in 0 .. MaxChanges /\ times[changes] \in 0 .. 2
  BY DEF ReplicaTypeOK
<1>1. ASSUME NEW s \in Status, Change(s) PROVE OnceInv'
  <2>1. Settled /\ orderly /\ ~failed /\ UNCHANGED <<pending, times>>
    BY <1>1 DEF Change
  <2>2. changes' = changes + 1 /\ changes' \in 0 .. MaxChanges
    BY <1>0, <1>1 DEF Change
  <2>3. \A r \in Replica : \A i \in DOMAIN pending[r] : FALSE
    BY <2>1 DEF Settled
  <2>. QED BY <1>0, <2>1, <2>2, <2>3 DEF OnceInv
<1>2. ASSUME NEW r \in Replica, Notice(r) PROVE OnceInv'
  <2>. DEFINE found == [new |-> truth, change |-> changes]
  <2>1. pending[r] \in Seq(Alert) /\ found \in Alert
    BY DEF ReplicaTypeOK, Alert
  <2>2. /\ pending'[r] = Append(pending[r], found)
        /\ \A q \in Replica \ {r} : pending'[q] = pending[q]
        /\ UNCHANGED <<probeVars, claim, sentVars, pastVars>>
        /\ ~Settled
    BY <1>2 DEF Notice, ReplicaTypeOK, Settled
  <2>3. found.new = truth /\ found.change = changes
    OBVIOUS
  <2>4. \A i \in DOMAIN Append(pending[r], found) :
           \/ i \in DOMAIN pending[r] /\ Append(pending[r], found)[i] = pending[r][i]
           \/ Append(pending[r], found)[i] = found
    <3>. HIDE DEF found
    <3>. QED BY <2>1
  <2>. HIDE DEF found
  <2>5. ASSUME NEW q \in Replica, NEW i \in DOMAIN pending'[q]
        PROVE  pending'[q][i].new = truth' /\ pending'[q][i].change = changes'
    <3>1. truth' = truth /\ changes' = changes
      BY <2>2
    <3>2. CASE q = r
      BY <2>2, <2>3, <2>4, <2>5, <3>1, <3>2 DEF OnceInv
    <3>3. CASE q # r
      <4>1. pending'[q] = pending[q]
        BY <2>2, <3>3
      <4>2. \A j \in DOMAIN pending[q] : pending[q][j].new = truth /\ pending[q][j].change = changes
        BY <2>2 DEF OnceInv
      <4>. QED BY <2>5, <3>1, <4>1, <4>2
    <3>. QED BY <3>2, <3>3
  <2>. QED BY <2>2, <2>5 DEF OnceInv
<1>3. ASSUME NEW r \in Replica, ClaimWins(r) PROVE OnceInv'
  <2>1. /\ Claiming(r) /\ Taken(r) /\ orderly /\ ~failed
        /\ claim # Head(pending[r]).new /\ claim' = Head(pending[r]).new
        /\ UNCHANGED <<probeVars, pastVars>>
    BY <1>3 DEF ClaimWins, Send, Stored, Refuses
  <2>2. times[changes] = 0
    BY <1>0, <2>1, OnceTaken DEF OnceInv
  <2>3. times' = [times EXCEPT ![changes] = 1]
    <3>1. Head(pending[r]).change = changes
      BY <2>1, OnceTaken
    <3>2. times' = [times EXCEPT ![changes] =
                      IF times[changes] = 2 THEN 2 ELSE times[changes] + 1]
      BY <1>3, <3>1 DEF ClaimWins, Send
    <3>. QED BY <2>2, <3>2
  <2>4. /\ Head(pending[r]).new = truth
        /\ \A q \in Replica : \A i \in DOMAIN pending'[q] :
             pending'[q][i].new = truth /\ pending'[q][i].change = changes
    BY <2>1, OnceTaken
  <2>5. /\ truth' = truth /\ changes' = changes /\ claim' = truth
    BY <2>1, <2>4
  <2>6. /\ \A k \in 0 .. MaxChanges : times'[k] <= 1
        /\ \A k \in 0 .. MaxChanges : k > changes => times'[k] = 0
    BY <1>0, <2>1, <2>3 DEF OnceInv, ReplicaTypeOK
  <2>. QED BY <2>4, <2>5, <2>6 DEF OnceInv
<1>4. ASSUME NEW r \in Replica, ClaimRefused(r) PROVE OnceInv'
  <2>1. /\ Claiming(r) /\ Taken(r) /\ orderly /\ ~failed
        /\ UNCHANGED <<probeVars, claim, sentVars, pastVars>>
    BY <1>4 DEF ClaimRefused
  <2>. QED BY <2>1, OnceTaken DEF OnceInv
<1>5. ASSUME NEW r \in Replica, ClaimFails(r) PROVE OnceInv'
  BY <1>5 DEF ClaimFails
<1>6. ASSUME NEW r \in Replica, Dispatched(r) PROVE OnceInv'
  BY <1>6 DEF OnceInv, Dispatched, Settled
<1>7. ASSUME NEW r \in Replica, Restart(r) PROVE OnceInv'
  <2>1. /\ orderly /\ ~failed /\ truth \in {Healthy, claim}
        /\ pending'[r] = << >> /\ seen'[r] = Healthy
        /\ \A q \in Replica \ {r} : pending'[q] = pending[q] /\ seen'[q] = seen[q]
        /\ UNCHANGED <<probeVars, claim, sentVars>>
    BY <1>7 DEF Restart, ReplicaTypeOK
  <2>2. truth = claim \/ (Settled => Settled')
    BY <2>1 DEF Settled
  <2>3. \A q \in Replica : \A i \in DOMAIN pending'[q] :
           pending'[q][i].new = truth /\ pending'[q][i].change = changes
    BY <2>1 DEF OnceInv
  <2>. QED BY <2>1, <2>2, <2>3 DEF OnceInv
<1>8. CASE Lapse
  BY <1>8 DEF OnceInv, Lapse, Settled
<1>9. CASE UNCHANGED replicaVars
  BY <1>9 DEF OnceInv, replicaVars, Settled
<1>. QED BY <1>1, <1>2, <1>3, <1>4, <1>5, <1>6, <1>7, <1>8, <1>9 DEF ReplicaNext

\* However many replicas there are, and through their restarts, no alert is
\* sent twice as long as each change finds the one before it dealt with within
\* the window and no claim fails (claim_alert).
THEOREM SentAtMostOnce == ReplicaSpec => []SentOnce
<1>1. OnceInv => SentOnce
  BY DEF OnceInv, SentOnce
<1>. QED BY <1>1, InitType, NextType, OnceInvInit, OnceInvNext, PTL DEF ReplicaSpec
=============================================================================
