-------------------------- MODULE CheckRunner_proofs --------------------------
(***************************************************************************)
(* Theorems of CheckRunner, for every set of probes, names and requests.   *)
(***************************************************************************)
EXTENDS CheckRunner, TLAPS

USE DEF RunPhase, StartupPhase, Status, Result, Own

\* The assumptions on the constants, in the form the proofs cite them.
LEMMA Constants ==
    /\ NameOf \in [Probe -> Name]
    /\ Registrable \subseteq Probe
    /\ Threshold \in Nat \ {0}
    /\ IntervalCalls \subseteq BOOLEAN
    /\ Route \subseteq Registrable
    /\ StartupProbe \subseteq Probe
BY NameAssumption, ProbeAssumption, ThresholdAssumption, FlagAssumption

-----------------------------------------------------------------------------
(* Type correctness.                                                       *)

\* A check's outcome keeps the breaker's counters in range and its result
\* well formed.
LEMMA ConcludeType ==
    ASSUME TypeOK, NEW p \in Probe, NEW s \in Status, Conclude(p, s)
    PROVE  /\ run' \in [Probe -> RunPhase]
           /\ held' \in [Name -> Result \cup {NoResult}]
           /\ age' \in [Name -> {"never", "recent", "elapsed"}]
           /\ latest' \in [Name -> Result \cup {NoResult}]
           /\ errs' \in [Name -> 0 .. Threshold]
           /\ open' \in [Name -> BOOLEAN]
<1>1. NameOf[p] \in Name /\ Threshold \in Nat \ {0}
  BY Constants
<1>2. /\ run' \in [Probe -> RunPhase]
      /\ held' \in [Name -> Result \cup {NoResult}]
      /\ age' \in [Name -> {"never", "recent", "elapsed"}]
      /\ latest' \in [Name -> Result \cup {NoResult}]
  BY <1>1 DEF TypeOK, Conclude, Record, Keep
<1>3. errs[NameOf[p]] \in 0 .. Threshold /\ open[NameOf[p]] \in BOOLEAN
  BY <1>1 DEF TypeOK
<1>4. errs' \in [Name -> 0 .. Threshold]
  <2>. DEFINE count == IF errs[NameOf[p]] = Threshold THEN Threshold
                       ELSE errs[NameOf[p]] + 1
  <2>1. count \in 0 .. Threshold
    BY <1>1, <1>3
  <2>2. \/ errs' = errs
        \/ errs' = [errs EXCEPT ![NameOf[p]] = 0]
        \/ errs' = [errs EXCEPT ![NameOf[p]] = count]
    BY DEF Conclude, CountOutcome, circuitVars
  <2>. HIDE DEF count
  <2>3. errs \in [Name -> 0 .. Threshold] /\ 0 \in 0 .. Threshold
    BY <1>1 DEF TypeOK
  <2>. QED BY <1>1, <2>1, <2>2, <2>3
<1>5. open' \in [Name -> BOOLEAN]
  <2>1. open' = open \/ \E b \in BOOLEAN : open' = [open EXCEPT ![NameOf[p]] = b]
    BY <1>1, <1>3 DEF Conclude, CountOutcome, circuitVars
  <2>. QED BY <2>1 DEF TypeOK
<1>. QED BY <1>2, <1>4, <1>5

LEMMA RequestType == ASSUME TypeOK, NEW c \in Client, NEW reuse \in BOOLEAN, Request(c, reuse)
                     PROVE  TypeOK'
BY Constants DEF TypeOK, Request, NeedsRun, Awaited, checkVars, circuitVars, resultVars, settings

LEMMA StartRunsType == ASSUME TypeOK, NEW toRun, StartRuns(toRun) PROVE TypeOK'
BY DEF TypeOK, StartRuns, checkVars, circuitVars, resultVars, clientVars, settings

LEMMA AnswerType == ASSUME TypeOK, NEW c \in Client, Answer(c) PROVE TypeOK'
<1>. DEFINE reported == [n \in Name |-> IF \E p \in registered : NameOf[p] = n
                                        THEN held[n] ELSE NoResult]
<1>1. reported \in [Name -> Result \cup {NoResult}]
  BY DEF TypeOK
<1>2. answer' = [answer EXCEPT ![c] = reported]
  BY DEF Answer
<1>. QED BY <1>1, <1>2 DEF TypeOK, Answer, checkVars, circuitVars, resultVars, settings

LEMMA EndRequestType == ASSUME TypeOK, NEW c \in Client, EndRequest(c) PROVE TypeOK'
<1>1. [n \in Name |-> NoResult] \in [Name -> Result \cup {NoResult}]
  OBVIOUS
<1>. QED BY <1>1 DEF TypeOK, EndRequest, checkVars, circuitVars, resultVars, settings

\* What a lookup finds is a result: in memory the latest one, else the storage's.
LEMMA ReadableIs ==
    ASSUME TypeOK, NEW n \in Name, NEW result \in Readable(n)
    PROVE  /\ result \in Result
           /\ options.inMemory => result = latest[n] /\ latest[n] # NoResult
           /\ ~options.inMemory => result.by = "storage"
BY DEF TypeOK, Readable

\* Every step of a run keeps the types.
LEMMA RunStepType == ASSUME TypeOK, NEW p \in Probe, RunStep(p) \/ GraceStops(p)
                     PROVE  TypeOK'
<1>. USE DEF checkVars, circuitVars, resultVars, clientVars, settings
<1>0. NameOf[p] \in Name
  BY Constants
<1>1. CASE BeginCached(p)
  BY <1>0, <1>1 DEF TypeOK, BeginCached, Keep
<1>2. CASE BeginLookup(p)
  BY <1>2 DEF TypeOK, BeginLookup
<1>3. CASE BeginRefused(p)
  BY <1>3, ConcludeType DEF TypeOK, BeginRefused
<1>4. CASE BeginCheck(p)
  BY <1>4 DEF TypeOK, BeginCheck
<1>5. CASE LookupFound(p)
  <2>1. PICK result \in Readable(NameOf[p]) : Keep(NameOf[p], result)
    BY <1>5 DEF LookupFound
  <2>2. result \in Result
    BY <1>0, <2>1, ReadableIs
  <2>. QED BY <1>0, <1>5, <2>1, <2>2 DEF TypeOK, LookupFound, Keep
<1>6. CASE LookupMissed(p)
  BY <1>0, <1>6 DEF TypeOK, LookupMissed, Record, Keep
<1>7. CASE CheckReturns(p)
  <2>1. PICK s \in Outcomes(p) : Conclude(p, s)
    BY <1>7 DEF CheckReturns
  <2>2. s \in Status
    BY <2>1 DEF Outcomes
  <2>. QED BY <1>7, <2>1, <2>2, ConcludeType DEF TypeOK, CheckReturns
<1>8. CASE Deadline(p)
  BY <1>8 DEF TypeOK, Deadline
<1>9. CASE GraceStops(p)
  BY <1>9, ConcludeType DEF TypeOK, GraceStops
<1>10. CASE GraceOver(p)
  <2>1. Conclude(p, "fail")
    BY <1>10 DEF GraceOver
  <2>2. stray' \in [Probe -> Nat] /\ abandoned' \in [Probe -> BOOLEAN]
    BY <1>10 DEF TypeOK, GraceOver, Abandon
  <2>. QED BY <1>10, <2>1, <2>2, ConcludeType DEF TypeOK, GraceOver
<1>11. CASE RunEnds(p)
  BY <1>11 DEF TypeOK, RunEnds
<1>12. CASE RunForgotten(p)
  BY <1>12 DEF TypeOK, RunForgotten
<1>. QED BY <1>1, <1>2, <1>3, <1>4, <1>5, <1>6, <1>7, <1>8, <1>9, <1>10, <1>11, <1>12
         DEF RunStep

\* So do the steps of the startup run and the end of a stray check.
LEMMA StartupStepType ==
    ASSUME TypeOK, NEW p \in Probe,
           StartupStep(p) \/ StartupGraceStops(p) \/ StrayStops(p)
    PROVE  TypeOK'
<1>. USE DEF startupRest, strayRest, circuitVars, resultVars, clientVars, settings
<1>1. CASE StartupBegin(p)
  BY <1>1 DEF TypeOK, StartupBegin, SetStartup
<1>2. CASE StartupReturns(p)
  BY <1>2 DEF TypeOK, StartupReturns, SetStartup
<1>3. CASE StartupDeadline(p)
  BY <1>3 DEF TypeOK, StartupDeadline, SetStartup
<1>4. CASE StartupGraceOver(p)
  BY <1>4 DEF TypeOK, StartupGraceOver, SetStartup, Abandon
<1>5. CASE StartupGraceStops(p)
  BY <1>5 DEF TypeOK, StartupGraceStops, SetStartup
<1>6. CASE StrayStops(p)
  BY <1>6 DEF TypeOK, StrayStops
<1>. QED BY <1>1, <1>2, <1>3, <1>4, <1>5, <1>6 DEF StartupStep

\* And what the timers, the operator and the dependency do.
LEMMA OutsideType ==
    ASSUME TypeOK,
           \/ StartupRequest \/ StartupEnds
           \/ \E n \in Name : CooldownOver(n) \/ IntervalOver(n) \/ ResetCircuit(n)
           \/ \E on \in IntervalCalls : SetPollInterval(on)
           \/ \E old \in SUBSET Route, q \in Route : Discover(old, q)
           \/ ForgetUnregistered
           \/ \E n \in Name, h \in {"up", "down", "hung"} : HealthChanges(n, h)
    PROVE  TypeOK'
<1>. USE Constants DEF checkVars, circuitVars, resultVars, clientVars, settings
<1>1. CASE StartupRequest
  BY <1>1 DEF TypeOK, StartupRequest, startupRest
<1>2. CASE StartupEnds
  BY <1>2 DEF TypeOK, StartupEnds, startupRest
<1>3. ASSUME NEW n \in Name, CooldownOver(n) \/ IntervalOver(n) \/ ResetCircuit(n)
      PROVE  TypeOK'
  <2>1. CASE CooldownOver(n)
    BY <2>1 DEF TypeOK, CooldownOver
  <2>2. CASE IntervalOver(n)
    BY <2>2 DEF TypeOK, IntervalOver
  <2>3. CASE ResetCircuit(n)
    BY <2>3 DEF TypeOK, ResetCircuit
  <2>. QED BY <1>3, <2>1, <2>2, <2>3
<1>4. ASSUME NEW on \in IntervalCalls, SetPollInterval(on) PROVE TypeOK'
  BY <1>4 DEF TypeOK, SetPollInterval
<1>5. ASSUME NEW old \in SUBSET Route, NEW q \in Route, Discover(old, q)
      PROVE  TypeOK'
  BY <1>5 DEF TypeOK, Discover
<1>6. CASE ForgetUnregistered
  <2>. DEFINE gone == {n \in Name : \A p \in registered : NameOf[p] # n}
  <2>1. /\ held' = [n \in Name |-> IF n \in gone THEN NoResult ELSE held[n]]
        /\ age' = [n \in Name |-> IF n \in gone THEN "never" ELSE age[n]]
        /\ errs' = [n \in Name |-> IF n \in gone THEN 0 ELSE errs[n]]
        /\ open' = [n \in Name |-> n \notin gone /\ open[n]]
        /\ latest' = [n \in Name |-> IF n \in gone THEN NoResult ELSE latest[n]]
    BY <1>6 DEF ForgetUnregistered
  <2>. HIDE DEF gone
  <2>2. open' \in [Name -> BOOLEAN]
    BY <2>1, Zenon
  <2>3. errs' \in [Name -> 0 .. Threshold]
    BY <2>1 DEF TypeOK
  <2>4. /\ held' \in [Name -> Result \cup {NoResult}]
        /\ latest' \in [Name -> Result \cup {NoResult}]
        /\ age' \in [Name -> {"never", "recent", "elapsed"}]
    BY <2>1 DEF TypeOK
  <2>. QED BY <1>6, <2>2, <2>3, <2>4 DEF TypeOK, ForgetUnregistered
<1>8. ASSUME NEW n \in Name, NEW h \in {"up", "down", "hung"}, HealthChanges(n, h)
      PROVE  TypeOK'
  BY <1>8 DEF TypeOK, HealthChanges
<1>9. CASE \E n \in Name : CooldownOver(n) \/ IntervalOver(n) \/ ResetCircuit(n)
  BY <1>3, <1>9
<1>10. CASE \E on \in IntervalCalls : SetPollInterval(on)
  BY <1>4, <1>10
<1>11. CASE \E old \in SUBSET Route, q \in Route : Discover(old, q)
  BY <1>5, <1>11
<1>13. CASE \E n \in Name, h \in {"up", "down", "hung"} : HealthChanges(n, h)
  BY <1>8, <1>13
<1>. QED BY <1>1, <1>2, <1>6, <1>9, <1>10, <1>11, <1>13

LEMMA InitType == Init => TypeOK
<1>1. [n \in Name |-> NoResult] \in [Name -> Result \cup {NoResult}]
  OBVIOUS
<1>2. Init => /\ open \in [Name -> BOOLEAN]
              /\ abandoned \in [Probe -> BOOLEAN]
  BY DEF Init
<1>3. Init => errs \in [Name -> 0 .. Threshold]
  BY Constants DEF Init
<1>4. Init => /\ held \in [Name -> Result \cup {NoResult}]
              /\ latest \in [Name -> Result \cup {NoResult}]
              /\ answer \in [Client -> [Name -> Result \cup {NoResult}]]
  BY <1>1 DEF Init
<1>5. Init => /\ registered \subseteq Registrable
              /\ run \in [Probe -> RunPhase]
              /\ startup \in [Probe -> StartupPhase]
              /\ stray \in [Probe -> Nat]
  BY DEF Init
<1>6. Init => /\ age \in [Name -> {"never", "recent", "elapsed"}]
              /\ health \in [Name -> {"up", "down", "hung"}]
              /\ phase \in [Client -> {"idle", "waiting", "answered"}]
              /\ waiting \in [Client -> SUBSET Probe]
              /\ asked \in [Client -> SUBSET Probe]
  BY DEF Init
<1>. QED BY <1>2, <1>3, <1>4, <1>5, <1>6 DEF Init, TypeOK

LEMMA NextType == TypeOK /\ [Next]_vars => TypeOK'
<1>. SUFFICES ASSUME TypeOK, [Next]_vars PROVE TypeOK'
  OBVIOUS
<1>1. CASE UNCHANGED vars
  BY <1>1 DEF TypeOK, vars
<1>2. CASE Next
  BY <1>2, RequestType, StartRunsType, AnswerType, EndRequestType, RunStepType, StartupStepType,
     OutsideType DEF Next
<1>. QED BY <1>1, <1>2

\* The state of the registry always has the shape TypeOK gives: TypeOK is
\* inductive by itself.
THEOREM TypeCorrect == Spec => []TypeOK
<1>. QED BY InitType, NextType, PTL DEF Spec

-----------------------------------------------------------------------------
(* No probe is checked twice at once.                                      *)

\* A check left running is remembered by its key as long as it runs, a new
\* check is only under way without one, and runs belong to registered objects,
\* startup checks to startup probes.
CheckInv ==
    \A p \in Probe :
        /\ stray[p] = IF abandoned[p] THEN 1 ELSE 0
        /\ run[p] \in Checking => ~abandoned[p]
        /\ startup[p] \in Checking => ~abandoned[p]
        /\ run[p] # "none" => p \in Registrable
        /\ startup[p] # "none" => p \in StartupProbe

\* No object is both a regular probe and a startup probe.  Without it the
\* theorem fails: the two checks of such an object do not know of each other.
Disjoint == Registrable \cap StartupProbe = {}

LEMMA CheckInvInit == Init => CheckInv
BY DEF Init, CheckInv, Checking

\* The steps that neither start nor leave nor end a check.
LEMMA CheckInvFrame ==
    ASSUME TypeOK, CheckInv, UNCHANGED <<stray, abandoned, startup>>,
           \A p \in Probe :
               \/ run'[p] = run[p]
               \/ run'[p] \in {"none", "lookup", "record", "done"} /\ run[p] # "none"
               \/ run'[p] = "begin" /\ p \in registered
               \/ run'[p] = "check" /\ run[p] # "none" /\ ~abandoned[p]
               \/ run'[p] = "grace" /\ run[p] = "check"
    PROVE  CheckInv'
BY DEF TypeOK, CheckInv, Checking

LEMMA CheckInvRun ==
    ASSUME TypeOK, CheckInv, Disjoint, NEW p \in Probe, RunStep(p) \/ GraceStops(p)
    PROVE  CheckInv'
<1>. USE DEF checkVars
<1>1. CASE \/ BeginCached(p) \/ BeginLookup(p) \/ BeginCheck(p) \/ LookupFound(p)
           \/ Deadline(p) \/ RunEnds(p) \/ RunForgotten(p)
  <2>1. CASE BeginCached(p) \/ LookupFound(p)
    BY <2>1, CheckInvFrame DEF BeginCached, LookupFound, TypeOK
  <2>2. CASE BeginLookup(p) \/ BeginCheck(p) \/ Deadline(p)
    BY <2>2, CheckInvFrame DEF BeginLookup, BeginCheck, Deadline, TypeOK
  <2>3. CASE RunEnds(p) \/ RunForgotten(p)
    BY <2>3, CheckInvFrame DEF RunEnds, RunForgotten, TypeOK
  <2>. QED BY <1>1, <2>1, <2>2, <2>3
<1>2. CASE \/ BeginRefused(p) \/ LookupMissed(p) \/ CheckReturns(p) \/ GraceStops(p)
  <2>1. /\ UNCHANGED <<stray, abandoned, startup>>
        /\ run' = [run EXCEPT ![p] = "record"]
        /\ run[p] # "none"
    BY <1>2 DEF BeginRefused, LookupMissed, CheckReturns, GraceStops, Conclude, Record
  <2>. QED BY <2>1, CheckInvFrame DEF TypeOK
<1>3. CASE GraceOver(p)
  <2>1. /\ run[p] = "grace"
        /\ run' = [run EXCEPT ![p] = "record"]
        /\ stray' = [stray EXCEPT ![p] = @ + 1]
        /\ abandoned' = [abandoned EXCEPT ![p] = TRUE]
        /\ startup' = startup
    BY <1>3 DEF GraceOver, Conclude, Record, Abandon
  <2>2. stray[p] = 0 /\ startup[p] = "none"
    BY <2>1 DEF CheckInv, Checking, Disjoint
  <2>. QED BY <2>1, <2>2 DEF TypeOK, CheckInv, Checking
<1>. QED BY <1>1, <1>2, <1>3 DEF RunStep

LEMMA CheckInvStartup ==
    ASSUME TypeOK, CheckInv, Disjoint, NEW p \in Probe,
           StartupStep(p) \/ StartupGraceStops(p) \/ StrayStops(p)
    PROVE  CheckInv'
<1>. USE DEF startupRest, strayRest, TypeOK, CheckInv, Checking
<1>1. CASE StartupBegin(p)
  BY <1>1 DEF StartupBegin, SetStartup
<1>2. CASE StartupReturns(p) \/ StartupDeadline(p) \/ StartupGraceStops(p)
  <2>1. \/ startup[p] = "check" /\ startup' = [startup EXCEPT ![p] = "grace"]
        \/ startup[p] \in Checking /\ startup' = [startup EXCEPT ![p] = "done"]
    BY <1>2 DEF StartupReturns, StartupDeadline, StartupGraceStops, SetStartup
  <2>2. UNCHANGED <<stray, abandoned, run>>
    BY <1>2 DEF StartupReturns, StartupDeadline, StartupGraceStops
  <2>. QED BY <2>1, <2>2
<1>3. CASE StartupGraceOver(p)
  <2>1. /\ startup[p] = "grace"
        /\ startup' = [startup EXCEPT ![p] = "done"]
        /\ stray' = [stray EXCEPT ![p] = @ + 1]
        /\ abandoned' = [abandoned EXCEPT ![p] = TRUE]
        /\ run' = run
    BY <1>3 DEF StartupGraceOver, SetStartup, Abandon
  <2>2. stray[p] = 0 /\ run[p] = "none"
    BY <2>1 DEF Disjoint
  <2>. QED BY <2>1, <2>2
<1>4. CASE StrayStops(p)
  BY <1>4 DEF StrayStops
<1>. QED BY <1>1, <1>2, <1>3, <1>4 DEF StartupStep

LEMMA CheckInvNext == TypeOK /\ CheckInv /\ Disjoint /\ [Next]_vars => CheckInv'
<1>. SUFFICES ASSUME TypeOK, CheckInv, Disjoint, [Next]_vars PROVE CheckInv'
  OBVIOUS
<1>. USE DEF checkVars
<1>1. ASSUME NEW c \in Client, NEW reuse \in BOOLEAN, Request(c, reuse) PROVE CheckInv'
  BY <1>1, CheckInvFrame DEF Request
<1>6. ASSUME NEW toRun \in SUBSET registered, StartRuns(toRun) PROVE CheckInv'
  BY <1>6, CheckInvFrame DEF StartRuns, TypeOK
<1>2. CASE StartupRequest
  BY <1>2 DEF StartupRequest, startupRest, TypeOK, CheckInv, Checking
<1>3. CASE StartupEnds
  BY <1>3 DEF StartupEnds, startupRest, TypeOK, CheckInv, Checking
<1>4. CASE UNCHANGED <<run, startup, stray, abandoned>>
  BY <1>4, CheckInvFrame
<1>5. CASE Next
  <2>1. CASE \E c \in Client : Answer(c) \/ EndRequest(c)
    BY <2>1, <1>4 DEF Answer, EndRequest
  <2>2. CASE \E n \in Name : CooldownOver(n) \/ IntervalOver(n) \/ ResetCircuit(n)
    BY <2>2, <1>4 DEF CooldownOver, IntervalOver, ResetCircuit
  <2>3. CASE \/ \E on \in IntervalCalls : SetPollInterval(on)
             \/ \E old \in SUBSET Route, q \in Route : Discover(old, q)
             \/ ForgetUnregistered
    BY <2>3, <1>4 DEF SetPollInterval, Discover, ForgetUnregistered
  <2>4. CASE \E n \in Name, h \in {"up", "down", "hung"} : HealthChanges(n, h)
    BY <2>4, <1>4 DEF HealthChanges
  <2>5. CASE StartRuns(registered) \/ StartRuns(Due) \/ StartRuns(Unreported)
    <3>1. Due \in SUBSET registered /\ Unreported \in SUBSET registered
      BY DEF Due, Unreported
    <3>. QED BY <2>5, <3>1, <1>6
  <2>. QED BY <1>1, <1>2, <1>3, <1>5, <2>1, <2>2, <2>3, <2>4, <2>5,
              CheckInvRun, CheckInvStartup DEF Next
<1>. QED BY <1>4, <1>5 DEF vars

LEMMA CheckInvImplies == TypeOK /\ CheckInv /\ Disjoint => AtMostOneCheck
BY DEF TypeOK, CheckInv, Disjoint, AtMostOneCheck, Running, Checking

\* For any number of probes and requests, and any order of their timeouts and
\* late ends, an object has at most one check running, counting those that
\* ignored their cancellation -- provided startup probes are objects of
\* their own.
THEOREM CheckedOnce == ASSUME Disjoint PROVE Spec => []AtMostOneCheck
<1>1. Init => TypeOK /\ CheckInv
  BY InitType, CheckInvInit
<1>2. TypeOK /\ CheckInv /\ [Next]_vars => TypeOK' /\ CheckInv'
  BY NextType, CheckInvNext
<1>3. TypeOK /\ CheckInv => AtMostOneCheck
  BY CheckInvImplies
<1>. QED BY <1>1, <1>2, <1>3, PTL DEF Spec

-----------------------------------------------------------------------------
(* No request waits for a run that is not under way.                       *)

LEMMA WaitersInit == Init => WaitersHaveRuns
BY DEF Init, WaitersHaveRuns

\* No step but a run's own end and forgetting takes it out of its task.
LEMMA WaitersFrame ==
    ASSUME TypeOK, WaitersHaveRuns, UNCHANGED waiting,
           \A p \in Probe : run[p] \notin {"none", "done"} => run'[p] \notin {"none", "done"}
    PROVE  WaitersHaveRuns'
BY DEF TypeOK, WaitersHaveRuns

LEMMA WaitersRun ==
    ASSUME TypeOK, WaitersHaveRuns, NEW p \in Probe, RunStep(p) \/ GraceStops(p)
    PROVE  WaitersHaveRuns'
<1>1. CASE RunEnds(p)
  BY <1>1 DEF RunEnds, TypeOK, WaitersHaveRuns
<1>2. CASE RunForgotten(p)
  BY <1>2 DEF RunForgotten, clientVars, TypeOK, WaitersHaveRuns
<1>3. ASSUME RunStep(p) \/ GraceStops(p), ~RunEnds(p), ~RunForgotten(p)
      PROVE  WaitersHaveRuns'
  <2>1. /\ UNCHANGED waiting
        /\ \E s \in {"record", "lookup", "check", "grace"} : run' = [run EXCEPT ![p] = s]
    BY <1>3 DEF RunStep, BeginCached, BeginLookup, BeginRefused, BeginCheck,
                LookupFound, LookupMissed, CheckReturns, Deadline, GraceStops,
                GraceOver, Conclude, Record, clientVars
  <2>. QED BY <2>1, WaitersFrame DEF TypeOK
<1>. QED BY <1>1, <1>2, <1>3

LEMMA WaitersNext == TypeOK /\ WaitersHaveRuns /\ [Next]_vars => WaitersHaveRuns'
<1>. SUFFICES ASSUME TypeOK, WaitersHaveRuns, [Next]_vars PROVE WaitersHaveRuns'
  OBVIOUS
<1>1. ASSUME NEW c \in Client, NEW reuse \in BOOLEAN, Request(c, reuse)
      PROVE  WaitersHaveRuns'
  BY <1>1 DEF Request, Awaited, TypeOK, WaitersHaveRuns
<1>5. ASSUME NEW toRun, StartRuns(toRun) PROVE WaitersHaveRuns'
  BY <1>5 DEF StartRuns, clientVars, TypeOK, WaitersHaveRuns
<1>2. CASE \E c \in Client : EndRequest(c)
  BY <1>2 DEF EndRequest, TypeOK, WaitersHaveRuns
<1>3. CASE UNCHANGED <<run, waiting>>
  BY <1>3, WaitersFrame
<1>4. CASE Next
  <2>1. CASE \/ \E c \in Client : Answer(c)
             \/ StartupRequest \/ StartupEnds
    BY <2>1, <1>3 DEF Answer, StartupRequest, StartupEnds, startupRest, clientVars
  <2>2. CASE \E p \in Probe : StartupStep(p) \/ StartupGraceStops(p) \/ StrayStops(p)
    BY <2>2, <1>3 DEF StartupStep, StartupBegin, StartupReturns, StartupDeadline,
                      StartupGraceOver, StartupGraceStops, StrayStops, startupRest,
                      strayRest, clientVars
  <2>3. CASE \E n \in Name : CooldownOver(n) \/ IntervalOver(n) \/ ResetCircuit(n)
    BY <2>3, <1>3 DEF CooldownOver, IntervalOver, ResetCircuit, clientVars
  <2>4. CASE \/ \E on \in IntervalCalls : SetPollInterval(on)
             \/ \E old \in SUBSET Route, q \in Route : Discover(old, q)
             \/ ForgetUnregistered
    BY <2>4, <1>3 DEF SetPollInterval, Discover, ForgetUnregistered, clientVars
  <2>5. CASE \E n \in Name, h \in {"up", "down", "hung"} : HealthChanges(n, h)
    BY <2>5, <1>3 DEF HealthChanges, clientVars
  <2>. QED BY <1>1, <1>2, <1>4, <1>5, <2>1, <2>2, <2>3, <2>4, <2>5, WaitersRun DEF Next
<1>. QED BY <1>3, <1>4 DEF vars, clientVars

\* However requests, runs and disconnections interleave, the end of the run a
\* request waits for is still to come, so the request is woken by it.
THEOREM WaitersAreWoken == Spec => []WaitersHaveRuns
<1>1. Init => TypeOK /\ WaitersHaveRuns
  BY InitType, WaitersInit
<1>2. TypeOK /\ WaitersHaveRuns /\ [Next]_vars => TypeOK' /\ WaitersHaveRuns'
  BY NextType, WaitersNext
<1>. QED BY <1>1, <1>2, PTL DEF Spec

-----------------------------------------------------------------------------
(* An open circuit suspends its probe.                                     *)

\* Every object has a name of its own, as add() warns it should.
UniqueNames == \A p, q \in Probe : NameOf[p] = NameOf[q] => p = q

\* The property itself, with the result a lookup finds in memory.
CircuitInv ==
    \A p \in Probe :
        LET n == NameOf[p] IN
        p \in CircuitProbe /\ open[n] =>
            /\ run[p] \notin Checking
            /\ errs[n] = Threshold
            /\ held[n] # NoResult /\ (options.inMemory \/ held[n].by = "self")
                 => held[n].status = "fail"
            /\ options.inMemory /\ latest[n] # NoResult => latest[n].status = "fail"

LEMMA CircuitInvInit == Init => CircuitInv
BY Constants DEF Init, CircuitInv

\* A check's outcome opens the circuit only with a failing result.
LEMMA CircuitConclude ==
    ASSUME TypeOK, CircuitInv, UniqueNames, NEW p \in Probe, NEW s \in Status,
           Conclude(p, s), UNCHANGED options
    PROVE  CircuitInv'
<1>. DEFINE n == NameOf[p]
<1>1. n \in Name /\ \A q \in Probe : NameOf[q] \in Name
  BY Constants
<1>2. /\ run' = [run EXCEPT ![p] = "record"]
      /\ held' = [held EXCEPT ![n] = Own(s)]
      /\ options.inMemory => latest' = [latest EXCEPT ![n] = Own(s)]
  BY DEF Conclude, Record, Keep
<1>3. p \in CircuitProbe /\ open'[n] => s = "fail" /\ errs'[n] = Threshold
  <2>1. ASSUME p \in CircuitProbe, s = "fail", open'[n] PROVE errs'[n] = Threshold
    <3>. DEFINE count == IF errs[n] = Threshold THEN Threshold ELSE errs[n] + 1
    <3>1. /\ errs' = [errs EXCEPT ![n] = count]
          /\ open' = [open EXCEPT ![n] = @ \/ count = Threshold]
      BY <2>1 DEF Conclude, CountOutcome
    <3>2. errs'[n] = count
      BY <1>1, <3>1 DEF TypeOK
    <3>3. open[n] \/ count = Threshold
      BY <1>1, <2>1, <3>1 DEF TypeOK
    <3>4. open[n] => errs[n] = Threshold
      BY <2>1 DEF CircuitInv
    <3>. QED BY <3>2, <3>3, <3>4
  <2>2. ASSUME p \in CircuitProbe, s = "pass" PROVE ~open'[n]
    BY <1>1, <2>2 DEF Conclude, CountOutcome, TypeOK
  <2>. QED BY <2>1, <2>2
<1>4. \A m \in Name : m # n => open'[m] = open[m] /\ errs'[m] = errs[m]
  BY <1>1 DEF Conclude, CountOutcome, circuitVars, TypeOK
<1>5. ASSUME NEW q \in Probe, q \in CircuitProbe, open'[NameOf[q]]
      PROVE  /\ run'[q] \notin Checking
             /\ errs'[NameOf[q]] = Threshold
             /\ held'[NameOf[q]] # NoResult
                  /\ (options'.inMemory \/ held'[NameOf[q]].by = "self")
                  => held'[NameOf[q]].status = "fail"
             /\ options'.inMemory /\ latest'[NameOf[q]] # NoResult
                  => latest'[NameOf[q]].status = "fail"
  <2>1. CASE q = p
    BY <1>1, <1>2, <1>3, <1>5, <2>1 DEF TypeOK, Checking
  <2>2. CASE q # p
    <3>1. NameOf[q] # n /\ NameOf[q] \in Name
      BY <1>1, <2>2 DEF UniqueNames
    <3>2. open[NameOf[q]]
      BY <1>4, <1>5, <3>1
    <3>. QED BY <1>2, <1>4, <1>5, <2>2, <3>1, <3>2 DEF TypeOK, CircuitInv
  <2>. QED BY <2>1, <2>2
<1>. QED BY <1>5 DEF CircuitInv

LEMMA CircuitRun ==
    ASSUME TypeOK, CircuitInv, UniqueNames, NEW p \in Probe, RunStep(p) \/ GraceStops(p)
    PROVE  CircuitInv'
<1>. USE Constants DEF circuitVars, resultVars
<1>0. UNCHANGED options
  BY DEF RunStep, BeginCached, BeginLookup, BeginRefused, BeginCheck, LookupFound,
         LookupMissed, CheckReturns, Deadline, GraceStops, GraceOver, RunEnds,
         RunForgotten, settings
<1>1. CASE BeginRefused(p) \/ GraceStops(p) \/ GraceOver(p)
  BY <1>0, <1>1, CircuitConclude DEF BeginRefused, GraceStops, GraceOver
<1>2. CASE CheckReturns(p)
  <2>1. PICK s \in Outcomes(p) : Conclude(p, s)
    BY <1>2 DEF CheckReturns
  <2>2. s \in Status
    BY <2>1 DEF Outcomes
  <2>. QED BY <1>0, <2>1, <2>2, CircuitConclude
<1>3. CASE BeginCached(p)
  <2>1. /\ run' = [run EXCEPT ![p] = "record"]
        /\ held' = [held EXCEPT ![NameOf[p]] = held[NameOf[p]]]
        /\ UNCHANGED <<errs, open, latest>>
    BY <1>3 DEF BeginCached, Keep
  <2>2. held' = held
    BY <2>1 DEF TypeOK
  <2>. QED BY <1>0, <2>1, <2>2 DEF TypeOK, CircuitInv, Checking
<1>4. CASE BeginLookup(p) \/ RunEnds(p) \/ RunForgotten(p)
  <2>1. /\ \E s \in {"lookup", "done", "none"} : run' = [run EXCEPT ![p] = s]
        /\ UNCHANGED <<errs, open, held, latest>>
    BY <1>4 DEF BeginLookup, RunEnds, RunForgotten
  <2>. QED BY <1>0, <2>1 DEF TypeOK, CircuitInv, Checking
<1>5. CASE BeginCheck(p)
  <2>1. /\ run' = [run EXCEPT ![p] = "check"]
        /\ UNCHANGED <<errs, open, held, latest>>
        /\ ~(p \in CircuitProbe /\ open[NameOf[p]])
    BY <1>5 DEF BeginCheck, Suspended
  <2>. QED BY <1>0, <2>1 DEF TypeOK, CircuitInv
<1>6. CASE Deadline(p)
  <2>1. /\ run[p] = "check" /\ run' = [run EXCEPT ![p] = "grace"]
        /\ UNCHANGED <<errs, open, held, latest>>
    BY <1>6 DEF Deadline
  <2>. QED BY <1>0, <2>1 DEF TypeOK, CircuitInv, Checking
<1>7. CASE LookupFound(p)
  <2>1. PICK result \in Readable(NameOf[p]) : Keep(NameOf[p], result)
    BY <1>7 DEF LookupFound
  <2>2. /\ run' = [run EXCEPT ![p] = "record"]
        /\ held' = [held EXCEPT ![NameOf[p]] = result]
        /\ UNCHANGED <<errs, open, latest>>
    BY <1>7, <2>1 DEF LookupFound, Keep
  <2>3. /\ options.inMemory => result = latest[NameOf[p]] /\ latest[NameOf[p]] # NoResult
        /\ ~options.inMemory => result.by = "storage"
    BY <2>1, ReadableIs
  <2>. QED BY <1>0, <2>2, <2>3 DEF TypeOK, CircuitInv, Checking, UniqueNames
<1>8. CASE LookupMissed(p)
  <2>1. /\ run' = [run EXCEPT ![p] = "record"]
        /\ held' = [held EXCEPT ![NameOf[p]] = Own("fail")]
        /\ options.inMemory => latest' = [latest EXCEPT ![NameOf[p]] = Own("fail")]
        /\ UNCHANGED <<errs, open>>
    BY <1>8 DEF LookupMissed, Record, Keep
  <2>. QED BY <1>0, <2>1 DEF TypeOK, CircuitInv, Checking, UniqueNames
<1>. QED BY <1>1, <1>2, <1>3, <1>4, <1>5, <1>6, <1>7, <1>8 DEF RunStep

LEMMA CircuitNext ==
    ASSUME TypeOK, CircuitInv, UniqueNames, [Next]_vars
    PROVE  CircuitInv'
<1>. USE Constants DEF circuitVars, resultVars, settings, TypeOK, CircuitInv
<1>1. CASE UNCHANGED <<run, errs, open, held, options, latest>>
  BY <1>1
<1>2. ASSUME NEW c \in Client, NEW reuse \in BOOLEAN, Request(c, reuse) PROVE CircuitInv'
  BY <1>2 DEF Request, Checking
<1>8. ASSUME NEW toRun, StartRuns(toRun) PROVE CircuitInv'
  BY <1>8 DEF StartRuns, Checking
<1>3. ASSUME NEW n \in Name, CooldownOver(n) PROVE CircuitInv'
  BY <1>3 DEF CooldownOver
<1>4. ASSUME NEW n \in Name, ResetCircuit(n) PROVE CircuitInv'
  BY <1>4 DEF ResetCircuit
<1>5. ASSUME NEW on \in IntervalCalls, SetPollInterval(on) PROVE CircuitInv'
  BY <1>5 DEF SetPollInterval
<1>6. CASE ForgetUnregistered
  <2>1. \A n \in Name :
           open'[n] => /\ open[n]
                       /\ held'[n] = held[n] /\ errs'[n] = errs[n]
                       /\ latest'[n] = latest[n]
    BY <1>6 DEF ForgetUnregistered
  <2>2. UNCHANGED <<run, options>>
    BY <1>6 DEF ForgetUnregistered
  <2>. QED BY <2>1, <2>2
<1>7. CASE Next
  <2>1. CASE \E c \in Client : Answer(c) \/ EndRequest(c)
    BY <2>1, <1>1 DEF Answer, EndRequest
  <2>2. CASE \/ \E p \in Probe : StartupStep(p) \/ StartupGraceStops(p) \/ StrayStops(p)
             \/ StartupRequest \/ StartupEnds
    BY <2>2, <1>1 DEF StartupStep, StartupBegin, StartupReturns, StartupDeadline,
                      StartupGraceOver, StartupGraceStops, StrayStops, StartupRequest,
                      StartupEnds, startupRest, strayRest
  <2>3. CASE \E n \in Name : IntervalOver(n)
    BY <2>3, <1>1 DEF IntervalOver
  <2>4. CASE \/ \E old \in SUBSET Route, q \in Route : Discover(old, q)
             \/ \E n \in Name, h \in {"up", "down", "hung"} : HealthChanges(n, h)
    BY <2>4, <1>1 DEF Discover, HealthChanges
  <2>. QED BY <1>2, <1>3, <1>4, <1>5, <1>6, <1>7, <1>8, <2>1, <2>2, <2>3, <2>4,
              CircuitRun DEF Next
<1>. QED BY <1>1, <1>7 DEF vars

\* With names of their own, a probe whose circuit is open is not being checked and
\* no request reads a passing result of this process's checks -- nor, with the
\* in-memory storage, any passing result -- for any storage and whichever of its
\* writes fail or are late, for any number of probes and any threshold.
THEOREM CircuitSuspends == ASSUME UniqueNames PROVE Spec => []OpenCircuitSuspends
<1>1. Init => TypeOK /\ CircuitInv
  BY InitType, CircuitInvInit
<1>2. TypeOK /\ CircuitInv /\ [Next]_vars => TypeOK' /\ CircuitInv'
  BY NextType, CircuitNext
<1>3. CircuitInv => OpenCircuitSuspends
  BY ProbeAssumption DEF CircuitInv, OpenCircuitSuspends
<1>. QED BY <1>1, <1>2, <1>3, PTL DEF Spec

-----------------------------------------------------------------------------
(* An answer leaves out no probe that was registered all along.            *)

\* A probe that was registered all along has a result as soon as the request
\* no longer waits for it, and no step but a clearing takes it away: the ones
\* that clear a result drop the probe from asked, or find it registered.
AnswerInv ==
    \A c \in Client : \A p \in asked[c] :
        /\ p \in registered
        /\ phase[c] = "waiting" /\ p \notin waiting[c] => held[NameOf[p]] # NoResult
        /\ run[p] = "record" => held[NameOf[p]] # NoResult
        /\ phase[c] = "answered" => answer[c][NameOf[p]] # NoResult

LEMMA AnswerInvInit == Init => AnswerInv
BY DEF Init, AnswerInv

LEMMA ResultsAreSome == \A result \in Result : result # NoResult
BY NoResultAssumption

\* The steps that only ever add results.
LEMMA AnswerFrame ==
    ASSUME TypeOK, AnswerInv, UNCHANGED <<registered, phase, waiting, asked, answer>>,
           \A n \in Name : held'[n] = held[n] \/ held'[n] # NoResult,
           \A p \in Probe : run'[p] = "record" => run[p] = "record" \/ held'[NameOf[p]] # NoResult
    PROVE  AnswerInv'
BY Constants DEF TypeOK, AnswerInv

LEMMA AnswerRun ==
    ASSUME TypeOK, AnswerInv, NEW p \in Probe, RunStep(p) \/ GraceStops(p)
    PROVE  AnswerInv'
<1>. USE DEF clientVars
<1>0. NameOf[p] \in Name
  BY Constants
<1>1. ASSUME NEW result \in Result, Keep(NameOf[p], result),
             run' = [run EXCEPT ![p] = "record"], UNCHANGED <<registered, clientVars>>
      PROVE  AnswerInv'
  <2>1. /\ held'[NameOf[p]] = result /\ result # NoResult
        /\ \A n \in Name : n # NameOf[p] => held'[n] = held[n]
    BY <1>0, <1>1, ResultsAreSome DEF Keep, TypeOK
  <2>2. \A q \in Probe : q # p => run'[q] = run[q]
    BY <1>1 DEF TypeOK
  <2>3. /\ \A n \in Name : held'[n] = held[n] \/ held'[n] # NoResult
        /\ \A q \in Probe : run'[q] = "record" => run[q] = "record" \/ held'[NameOf[q]] # NoResult
    BY <2>1, <2>2
  <2>. QED BY <1>1, <2>3, AnswerFrame
<1>2. ASSUME run' = [run EXCEPT ![p] = "lookup"] \/ run' = [run EXCEPT ![p] = "check"]
                \/ run' = [run EXCEPT ![p] = "grace"] \/ run' = [run EXCEPT ![p] = "none"],
             UNCHANGED <<registered, held, clientVars>>
      PROVE  AnswerInv'
  <2>1. \A q \in Probe : run'[q] = "record" => run[q] = "record"
    BY <1>2 DEF TypeOK
  <2>. QED BY <1>2, <2>1, AnswerFrame
<1>3. CASE BeginCached(p)
  <2>1. held[NameOf[p]] \in Result
    BY <1>0, <1>3 DEF BeginCached, TypeOK
  <2>. QED BY <1>1, <1>3, <2>1 DEF BeginCached
<1>4. CASE LookupFound(p)
  <2>1. PICK result \in Readable(NameOf[p]) : Keep(NameOf[p], result)
    BY <1>4 DEF LookupFound
  <2>2. result \in Result
    BY <1>0, <2>1, ReadableIs
  <2>. QED BY <1>1, <1>4, <2>1, <2>2 DEF LookupFound
<1>5. CASE LookupMissed(p)
  BY <1>1, <1>5 DEF LookupMissed, Record
<1>6. CASE BeginRefused(p) \/ GraceStops(p) \/ GraceOver(p) \/ CheckReturns(p)
  <2>1. \E s \in Status : Conclude(p, s) /\ UNCHANGED <<registered, clientVars>>
    BY <1>6 DEF BeginRefused, GraceStops, GraceOver, CheckReturns, Outcomes
  <2>. QED BY <1>1, <2>1 DEF Conclude, Record
<1>7. CASE BeginLookup(p) \/ BeginCheck(p) \/ Deadline(p) \/ RunForgotten(p)
  BY <1>2, <1>7 DEF BeginLookup, BeginCheck, Deadline, RunForgotten, resultVars
<1>8. CASE RunEnds(p)
  BY <1>8 DEF RunEnds, resultVars, TypeOK, AnswerInv
<1>. QED BY <1>3, <1>4, <1>5, <1>6, <1>7, <1>8 DEF RunStep

LEMMA AnswerRequest ==
    ASSUME TypeOK, AnswerInv, NEW c \in Client, NEW reuse \in BOOLEAN, Request(c, reuse)
    PROVE  AnswerInv'
<1>. DEFINE toRun == {p \in registered : NeedsRun(p, reuse)}
<1>1. /\ phase' = [phase EXCEPT ![c] = "waiting"]
      /\ waiting' = [waiting EXCEPT ![c] = Awaited(toRun)]
      /\ asked' = [asked EXCEPT ![c] = {p \in registered : ~Cleared(p)}]
      /\ \A p \in Probe : run'[p] = "record" => run[p] = "record"
      /\ UNCHANGED <<registered, held, answer>>
  BY DEF Request, resultVars
<1>2. ASSUME NEW p \in registered, ~Cleared(p), p \notin Awaited(toRun)
      PROVE  held[NameOf[p]] # NoResult
  BY <1>2 DEF Awaited, Cleared, NeedsRun
<1>3. ASSUME NEW p \in registered, ~Cleared(p), run[p] = "record"
      PROVE  held[NameOf[p]] # NoResult
  BY <1>3 DEF Cleared
<1>. HIDE DEF toRun
<1>4. ASSUME NEW d \in Client, NEW p \in asked'[d]
      PROVE  /\ p \in registered
             /\ phase'[d] = "waiting" /\ p \notin waiting'[d] => held[NameOf[p]] # NoResult
             /\ run'[p] = "record" => held[NameOf[p]] # NoResult
             /\ phase'[d] = "answered" => answer[d][NameOf[p]] # NoResult
  <2>1. CASE d = c
    <3>1. p \in registered /\ ~Cleared(p) /\ p \in Probe
      BY <1>1, <1>4, <2>1, Constants DEF TypeOK
    <3>2. phase'[d] = "waiting" /\ waiting'[d] = Awaited(toRun)
      BY <1>1, <2>1 DEF TypeOK
    <3>. QED BY <1>1, <1>2, <1>3, <3>1, <3>2
  <2>2. CASE d # c
    BY <1>1, <2>2 DEF TypeOK, AnswerInv
  <2>. QED BY <2>1, <2>2
<1>. QED BY <1>1, <1>4 DEF AnswerInv

LEMMA AnswerNext == TypeOK /\ AnswerInv /\ [Next]_vars => AnswerInv'
<1>. SUFFICES ASSUME TypeOK, AnswerInv, [Next]_vars PROVE AnswerInv'
  OBVIOUS
<1>. USE DEF clientVars, resultVars
<1>1. CASE UNCHANGED <<registered, run, held, clientVars>>
  BY <1>1 DEF AnswerInv
<1>2. ASSUME NEW toRun, StartRuns(toRun) PROVE AnswerInv'
  BY <1>2, AnswerFrame DEF StartRuns, TypeOK
<1>3. ASSUME NEW c \in Client, Answer(c) PROVE AnswerInv'
  <2>1. \A p \in asked[c] : p \in registered /\ held[NameOf[p]] # NoResult
    BY <1>3 DEF Answer, AnswerInv
  <2>2. \A p \in asked[c] : answer'[c][NameOf[p]] = held[NameOf[p]]
    BY <1>3, <2>1, Constants DEF Answer, TypeOK
  <2>3. \A d \in Client : d # c => answer'[d] = answer[d] /\ phase'[d] = phase[d]
    BY <1>3 DEF Answer, TypeOK
  <2>4. UNCHANGED <<registered, run, held, waiting, asked>> /\ phase'[c] = "answered"
    BY <1>3 DEF Answer, TypeOK
  <2>. QED BY <2>1, <2>2, <2>3, <2>4 DEF AnswerInv
<1>4. ASSUME NEW c \in Client, EndRequest(c) PROVE AnswerInv'
  <2>1. asked'[c] = {} /\ \A d \in Client : d # c =>
          /\ asked'[d] = asked[d] /\ answer'[d] = answer[d]
          /\ phase'[d] = phase[d] /\ waiting'[d] = waiting[d]
    BY <1>4 DEF EndRequest, TypeOK
  <2>2. UNCHANGED <<registered, run, held>>
    BY <1>4 DEF EndRequest
  <2>. QED BY <2>1, <2>2 DEF AnswerInv
<1>5. ASSUME NEW on \in IntervalCalls, SetPollInterval(on) PROVE AnswerInv'
  <2>1. CASE on
    BY <1>1, <1>5, <2>1 DEF SetPollInterval
  <2>2. CASE ~on
    <3>1. \A c \in Client : asked'[c] = {}
      BY <1>5, <2>2 DEF SetPollInterval
    <3>. QED BY <3>1 DEF AnswerInv
  <2>3. on \in BOOLEAN
    BY Constants
  <2>. QED BY <2>1, <2>2, <2>3
<1>6. ASSUME NEW old \in SUBSET Route, NEW q \in Route, Discover(old, q) PROVE AnswerInv'
  <2>1. /\ \A c \in Client : asked'[c] = asked[c] \ old
        /\ registered' = (registered \ old) \cup {q}
        /\ UNCHANGED <<run, held, phase, waiting, answer>>
    BY <1>6 DEF Discover
  <2>. QED BY <2>1 DEF AnswerInv
<1>7. CASE ForgetUnregistered
  <2>1. \A p \in registered : held'[NameOf[p]] = held[NameOf[p]]
    BY <1>7, Constants DEF ForgetUnregistered, TypeOK
  <2>2. UNCHANGED <<registered, run, clientVars>>
    BY <1>7 DEF ForgetUnregistered
  <2>. QED BY <2>1, <2>2 DEF AnswerInv
<1>8. CASE Next
  <2>1. CASE \/ \E p \in Probe : StartupStep(p) \/ StartupGraceStops(p) \/ StrayStops(p)
             \/ StartupRequest \/ StartupEnds
    BY <2>1, <1>1 DEF StartupStep, StartupBegin, StartupReturns, StartupDeadline,
                      StartupGraceOver, StartupGraceStops, StrayStops, StartupRequest,
                      StartupEnds, startupRest, strayRest
  <2>2. CASE \E n \in Name : CooldownOver(n) \/ IntervalOver(n) \/ ResetCircuit(n)
    BY <2>2, <1>1 DEF CooldownOver, IntervalOver, ResetCircuit
  <2>3. CASE \E n \in Name, h \in {"up", "down", "hung"} : HealthChanges(n, h)
    BY <2>3, <1>1 DEF HealthChanges
  <2>. QED BY <1>2, <1>3, <1>4, <1>5, <1>6, <1>7, <1>8, <2>1, <2>2, <2>3,
              AnswerRequest, AnswerRun DEF Next
<1>. QED BY <1>1, <1>8 DEF vars

\* However runs, requests and registrations interleave, an answer reports
\* every probe that was registered during the whole request, for any number
\* of clients and probes, with names of their own or shared.
THEOREM AnswersAreWhole == Spec => []AnswersAreComplete
<1>1. Init => TypeOK /\ AnswerInv
  BY InitType, AnswerInvInit
<1>2. TypeOK /\ AnswerInv /\ [Next]_vars => TypeOK' /\ AnswerInv'
  BY NextType, AnswerNext
<1>3. AnswerInv => AnswersAreComplete
  BY DEF AnswerInv, AnswersAreComplete
<1>. QED BY <1>1, <1>2, <1>3, PTL DEF Spec
=============================================================================
