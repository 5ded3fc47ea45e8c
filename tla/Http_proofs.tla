---------------------------- MODULE Http_proofs -----------------------------
(***************************************************************************)
(* Theorems about what HTTP requests meet: the answers of the health       *)
(* routes (Endpoints), and the statistics that the middleware, the         *)
(* handlers and the sockets keep (RequestMetrics).                         *)
(***************************************************************************)
EXTENDS Endpoints, RequestMetrics, SequenceOps_proofs

-----------------------------------------------------------------------------
(***************************************************************************)
(* Endpoints.                                                              *)
(* For any probes, tags and requests: what a request is told of the        *)
(* probes, the filters, and the names asked for that no probe has.         *)
(***************************************************************************)

-----------------------------------------------------------------------------
(* What a request knows of the probes.                                     *)

\* Nothing registered throughout the request goes unreported once its waiting is over,
\* and its names were all known when it began to wait for results.
AskInv ==
    /\ registered \subseteq Probe /\ throughout \subseteq registered
    /\ held \in [Probe -> Result \cup {NoResult}]
    /\ phase \in {"idle", "asked", "probing", "waiting"}
    /\ phase # "idle" => answer = NoAnswer
    /\ phase \in {"probing", "waiting"} /\ ~cleared =>
          \A n \in throughout : held[n] = NoResult => n \in pending
    /\ phase = "waiting" => request.probes \subseteq known

LEMMA AskInvInit == Init => AskInv
BY DEF Init, AskInv, NoRequest

\* What the report of a request says.
LEMMA ReportSays ==
    ASSUME NEW q, Report(q)
    PROVE  /\ phase' = "idle" /\ throughout' = {}
           /\ answer'.body \in {"filtered", "report"}
           /\ answer'.body = "report" =>
                /\ answer'.used = Reported(q)
                /\ q.probes \cup q.tags # {} => Reported(q) # {}
                /\ q.endpoint = "ready" /\ answer'.code = 200 =>
                      \A n \in Reported(q) \cap Critical : held[n].status # "unhealthy"
<1>1. phase' = "idle" /\ throughout' = {}
  BY DEF Report, Respond, Idle
<1>2. CASE FilteredOut(q)
  BY <1>1, <1>2 DEF Report, Respond
<1>3. CASE ~FilteredOut(q)
  <2> DEFINE s == Overall(Reported(q))
             code == IF q.endpoint = "ready" THEN ReadyCode(s) ELSE StatusCode(s)
  <2>1. Respond(code, "report", Reported(q))
    BY <1>3 DEF Report
  <2> HIDE DEF code
  <2>2. answer' = [code |-> code, body |-> "report", used |-> Reported(q)]
    BY <2>1 DEF Respond
  <2>3. ASSUME NEW n \in Reported(q) \cap Critical, held[n].status = "unhealthy"
        PROVE  s = "unhealthy"
    BY <2>3 DEF Overall
  <2> HIDE DEF s
  <2>4. q.endpoint = "ready" /\ code = 200 => s # "unhealthy"
    BY DEF code, ReadyCode
  <2> QED BY <1>1, <1>3, <2>2, <2>3, <2>4 DEF FilteredOut
<1> QED BY <1>2, <1>3

\* What deciding on a request does: it answers, or waits for what has not reported.
LEMMA DecideSays ==
    ASSUME NEW q, Decide(q)
    PROVE  \/ /\ phase' = "idle" /\ throughout' = {}
              /\ answer'.body = "unmatched" /\ Unmatched(q)
           \/ /\ phase' = "idle" /\ throughout' = {}
              /\ answer'.body \in {"stream", "maintenance", "starting"} /\ ~Unmatched(q)
           \/ Report(q) /\ ~Unmatched(q) /\ \A n \in registered : held[n] # NoResult
           \/ /\ phase' = "waiting" /\ ~Unmatched(q)
              /\ UNCHANGED <<answer, request, throughout, cleared>>
              /\ known' = registered
              /\ \A n \in registered : held[n] = NoResult => n \in pending'
<1>1. CASE Unmatched(q)
  BY <1>1 DEF Decide, Respond, Idle
<1>2. CASE ~Unmatched(q) /\ GetResults(q)
  BY <1>2 DEF GetResults, ToRun
<1>3. CASE ~Unmatched(q) /\ ~GetResults(q)
  BY <1>3 DEF Decide, Respond, Idle
<1> QED BY <1>1, <1>2, <1>3

\* Filters that match name registered probes only.
LEMMA MatchedNames ==
    ASSUME NEW q, ~Unmatched(q)
    PROVE  q.probes \subseteq registered
BY DEF Unmatched, UnknownProbes

LEMMA DecideKeeps ==
    ASSUME AskInv, phase # "idle", Decide(request), UNCHANGED envVars
    PROVE  AskInv'
<1>1. (phase' = "idle" /\ throughout' = {}) \/ phase' = "waiting"
  BY DecideSays, ReportSays
<1>2. CASE phase' = "idle" /\ throughout' = {}
  BY <1>2 DEF AskInv, envVars
<1>3. CASE phase' = "waiting"
  <2>1. /\ UNCHANGED <<answer, request, throughout, cleared>> /\ known' = registered
        /\ \A n \in registered : held[n] = NoResult => n \in pending'
        /\ request.probes \subseteq registered
    BY <1>3, DecideSays, ReportSays, MatchedNames
  <2>2. phase # "idle" => answer = NoAnswer
    BY DEF AskInv
  <2> QED BY <1>3, <2>1, <2>2 DEF AskInv, envVars
<1> QED BY <1>1, <1>2, <1>3

LEMMA BeginKeeps ==
    ASSUME AskInv, Begin
    PROVE  AskInv'
<1>1. CASE Decide(request)
  BY <1>1, DecideKeeps DEF Begin
<1>2. CASE ~Decide(request)
  BY <1>2 DEF Begin, AskInv, Unreported, envVars
<1> QED BY <1>1, <1>2

LEMMA AskInvNext == AskInv /\ [Next]_vars => AskInv'
<1> SUFFICES ASSUME AskInv, [Next]_vars PROVE AskInv'
  OBVIOUS
<1>1. ASSUME NEW q \in Query, Ask(q) PROVE AskInv'
  BY <1>1 DEF Ask, AskInv, envVars
<1>2. CASE Begin
  BY <1>2, BeginKeeps
<1>3. CASE Probed
  BY <1>3, DecideKeeps DEF Probed
<1>4. CASE Answer
  <2>1. phase' = "idle" /\ throughout' = {}
    BY <1>4, ReportSays DEF Answer
  <2> QED BY <1>4, <2>1 DEF Answer, AskInv, envVars
<1>5. CASE Disconnect
  BY <1>5 DEF Disconnect, Idle, AskInv, envVars
<1>6. ASSUME NEW n \in Probe, Reports(n) PROVE AskInv'
  <2>1. PICK result \in Result : held' = [held EXCEPT ![n] = result]
    BY <1>6, ProbeAssumption DEF Reports, Result
  <2>2. result # NoResult
    BY NoResultAssumption
  <2> QED BY <1>6, <2>1, <2>2 DEF Reports, AskInv
<1>7. ASSUME NEW n \in Probe, Register(n) \/ Unregister(n) PROVE AskInv'
  BY <1>7 DEF Register, Unregister, RegistryStep, AskInv
<1>8. CASE ForgetUnregistered
  BY <1>8 DEF ForgetUnregistered, RegistryStep, AskInv
<1>9. ASSUME NEW on \in IntervalCalls, SetPollInterval(on) PROVE AskInv'
  <2>1. on \in BOOLEAN
    BY BoundAssumption
  <2>2. CASE on
    BY <1>9, <2>1, <2>2 DEF SetPollInterval, RegistryStep, AskInv
  <2>3. CASE ~on
    BY <1>9, <2>1, <2>3 DEF SetPollInterval, RegistryStep, AskInv
  <2> QED BY <2>2, <2>3
<1>10. CASE \/ \E until \in {"none", "ahead"} : SetMaintenance(until)
            \/ ClearMaintenance \/ WindowElapses \/ SeeMaintenance
  BY <1>10 DEF SetMaintenance, ClearMaintenance, WindowElapses, SeeMaintenance, MaintenanceStep,
     requestVars, AskInv
<1>11. CASE GraceEnds \/ NameAges \/ ListUnknown
  BY <1>11 DEF GraceEnds, NameAges, ListUnknown, requestVars, AskInv
<1>12. CASE UNCHANGED vars
  BY <1>12 DEF vars, AskInv
<1> QED BY <1>1, <1>2, <1>3, <1>4, <1>5, <1>6, <1>7, <1>8, <1>9, <1>10, <1>11, <1>12 DEF Next

LEMMA AskInvAlways == Spec => []AskInv
BY AskInvInit, AskInvNext, PTL DEF Spec

-----------------------------------------------------------------------------
(* Answers.                                                                *)

\* Only the steps of a request that decide on it or report to it answer it.
LEMMA WhoAnswers ==
    ASSUME AskInv, [Next]_vars, phase # "idle", phase' = "idle", answer' # NoAnswer
    PROVE  \/ phase = "waiting" /\ pending = {} /\ Report(request)
           \/ /\ Decide(request)
              /\ \/ phase = "asked" /\ (~AsksUndeclared(request) \/ Unreported = {})
                 \/ phase = "probing" /\ pending = {}
<1>1. CASE Answer
  BY <1>1 DEF Answer
<1>2. CASE Probed
  BY <1>2 DEF Probed
<1>3. CASE Begin
  BY <1>3 DEF Begin
<1>4. CASE Disconnect
  BY <1>4 DEF Disconnect, AskInv
<1>5. ASSUME NEW q \in Query, Ask(q) PROVE FALSE
  BY <1>5 DEF Ask
<1>6. ASSUME NEW n \in Probe, Reports(n) \/ Register(n) \/ Unregister(n) PROVE FALSE
  BY <1>6 DEF Reports, Register, Unregister, RegistryStep
<1>7. ASSUME NEW on, SetPollInterval(on) PROVE FALSE
  BY <1>7 DEF SetPollInterval, RegistryStep
<1>8. CASE \/ ForgetUnregistered \/ \E until \in {"none", "ahead"} : SetMaintenance(until)
           \/ ClearMaintenance \/ WindowElapses \/ SeeMaintenance
           \/ GraceEnds \/ NameAges \/ ListUnknown
  BY <1>8 DEF ForgetUnregistered, RegistryStep, SetMaintenance, ClearMaintenance, WindowElapses,
     SeeMaintenance, MaintenanceStep, GraceEnds, NameAges, ListUnknown, requestVars
<1>9. CASE UNCHANGED vars
  BY <1>9 DEF vars
<1> QED BY <1>1, <1>2, <1>3, <1>4, <1>5, <1>6, <1>7, <1>8, <1>9 DEF Next

LEMMA ReadyStep ==
    ASSUME AskInv, [Next]_vars, Answers("report"), request.endpoint = "ready", answer'.code = 200
    PROVE  /\ request.probes \cup request.tags # {} => answer'.used # {}
           /\ request.tags = {} /\ ~cleared =>
                \A n \in throughout \cap Critical \cap Named(request) :
                   held[n] # NoResult /\ held[n].status # "unhealthy"
<1>1. answer'.body = "report" /\ phase # "idle" /\ phase' = "idle" /\ answer' # NoAnswer
  BY DEF Answers
<1>2. /\ Report(request)
      /\ \/ phase = "waiting" /\ pending = {}
         \/ \A n \in registered : held[n] # NoResult
  BY <1>1, WhoAnswers, DecideSays
<1>3. /\ answer'.used = Reported(request)
      /\ request.probes \cup request.tags # {} => Reported(request) # {}
      /\ \A n \in Reported(request) \cap Critical : held[n].status # "unhealthy"
  BY <1>1, <1>2, ReportSays
<1>4. ASSUME request.tags = {}, ~cleared, NEW n \in throughout, n \in Critical \cap Named(request)
      PROVE  held[n] # NoResult /\ held[n].status # "unhealthy"
  <2>1. n \in registered /\ held[n] # NoResult
    BY <1>2, <1>4 DEF AskInv
  <2>2. request.probes = {} \/ n \in request.probes
    BY <1>4 DEF Named
  <2>3. n \in Reported(request)
    BY <1>4, <2>1, <2>2 DEF Reported
  <2> QED BY <1>3, <1>4, <2>1, <2>3
<1> QED BY <1>3, <1>4

LEMMA FilterStep ==
    ASSUME AskInv, [Next]_vars
    PROVE  /\ (\E b \in {"report", "maintenance", "starting", "stream"} : Answers(b)) =>
                 request.probes \subseteq (IF phase = "waiting" THEN known ELSE registered)
           /\ Answers("unmatched") /\ ~cleared =>
                 /\ UnknownTags(request) # {} => \A n \in throughout : held[n] # NoResult
                 /\ request.probes \subseteq throughout =>
                      ~ \E n \in throughout \cap Named(request) : request.tags \subseteq Declared[n]
<1>1. ASSUME NEW b \in {"report", "maintenance", "starting", "stream"}, Answers(b)
      PROVE  request.probes \subseteq (IF phase = "waiting" THEN known ELSE registered)
  <2>1. answer'.body = b /\ phase # "idle" /\ phase' = "idle" /\ answer' # NoAnswer
    BY <1>1 DEF Answers
  <2>2. CASE phase = "waiting"
    BY <2>2 DEF AskInv
  <2>3. CASE phase # "waiting"
    <3>1. Decide(request)
      BY <2>1, <2>3, WhoAnswers
    <3>2. ~Unmatched(request)
      BY <2>1, <3>1, DecideSays
    <3> QED BY <2>3, <3>2, MatchedNames
  <2> QED BY <2>2, <2>3
<1>2. ASSUME Answers("unmatched"), ~cleared
      PROVE  /\ UnknownTags(request) # {} => \A n \in throughout : held[n] # NoResult
             /\ request.probes \subseteq throughout =>
                  ~ \E n \in throughout \cap Named(request) : request.tags \subseteq Declared[n]
  <2>1. answer'.body = "unmatched" /\ phase # "idle" /\ phase' = "idle" /\ answer' # NoAnswer
    BY <1>2 DEF Answers
  <2>2. /\ Decide(request)
        /\ \/ phase = "asked" /\ (~AsksUndeclared(request) \/ Unreported = {})
           \/ phase = "probing" /\ pending = {}
    BY <2>1, WhoAnswers, ReportSays
  <2>3. Unmatched(request)
    BY <2>1, <2>2, DecideSays, ReportSays
  <2>4. ASSUME UnknownTags(request) # {}, NEW n \in throughout PROVE held[n] # NoResult
    <3>1. AsksUndeclared(request)
      BY <2>4 DEF AsksUndeclared, UnknownTags, KnownTags
    <3> QED BY <1>2, <2>2, <3>1 DEF AskInv, Unreported
  <2>5. ASSUME request.probes \subseteq throughout,
               NEW n \in throughout, n \in Named(request), request.tags \subseteq Declared[n]
        PROVE  FALSE
    <3>1. n \in registered /\ request.probes \subseteq registered
      BY <2>5 DEF AskInv
    <3>2. Declared[n] \subseteq KnownTags(n)
      BY DEF KnownTags
    <3>3. UnknownProbes(request) = {} /\ UnknownTags(request) = {}
      BY <2>5, <3>1, <3>2 DEF UnknownProbes, UnknownTags
    <3>4. request.probes = {} \/ n \in request.probes
      BY <2>5 DEF Named
    <3>5. request.tags = {} \/ KnownTags(n) \cap request.tags # {}
      BY <2>5, <3>2
    <3>6. n \in Selected(request)
      BY <3>1, <3>4, <3>5 DEF Selected
    <3> QED BY <2>3, <3>3, <3>6 DEF Unmatched
  <2> QED BY <2>4, <2>5
<1> QED BY <1>1, <1>2

\* /ready never answers 200 over a critical probe it was to ask about and did not, nor
\* over one that failed last, whatever is registered, cleared or put into maintenance while
\* the request waits (readiness, _get_results, _filtered_out_everything).
THEOREM ReadinessIsEarned == Spec => ReadyIsEarned
<1>1. AskInv /\ [Next]_vars =>
         [Answers("report") /\ request.endpoint = "ready" /\ answer'.code = 200 =>
            /\ request.probes \cup request.tags # {} => answer'.used # {}
            /\ request.tags = {} /\ ~cleared =>
                 \A n \in throughout \cap Critical \cap Named(request) :
                    held[n] # NoResult /\ held[n].status # "unhealthy"]_vars
  BY ReadyStep
<1> QED BY <1>1, AskInvAlways, PTL DEF Spec, ReadyIsEarned

\* No unknown name passes a filter, and nothing that is there is refused, although both
\* are judged before some probes have reported (_unmatched_filters).
THEOREM FiltersAreJudgedExactly == Spec => FiltersAreExact
<1>1. AskInv /\ [Next]_vars =>
         [/\ (\E b \in {"report", "maintenance", "starting", "stream"} : Answers(b)) =>
                request.probes \subseteq (IF phase = "waiting" THEN known ELSE registered)
          /\ Answers("unmatched") /\ ~cleared =>
                /\ UnknownTags(request) # {} => \A n \in throughout : held[n] # NoResult
                /\ request.probes \subseteq throughout =>
                     ~ \E n \in throughout \cap Named(request) :
                          request.tags \subseteq Declared[n]]_vars
  BY FilterStep
<1> QED BY <1>1, AskInvAlways, PTL DEF Spec, FiltersAreExact

-----------------------------------------------------------------------------
(* The table of unknown names.                                             *)

\* The table is what was put into it, or the last MaxUnknown names of that.
LEMMA LatestOf ==
    ASSUME NEW T, NEW s \in Seq(T), MaxUnknown \in Nat \ {0}
    PROVE  /\ Latest(s) \in Seq(T) /\ Len(Latest(s)) <= MaxUnknown
           /\ \E p \in Seq(T) : /\ s = p \o Latest(s)
                                /\ p = << >> \/ Len(Latest(s)) = MaxUnknown
<1>1. Len(s) \in Nat
  OBVIOUS
<1>2. CASE Len(s) <= MaxUnknown
  <2>1. Latest(s) = s /\ << >> \o s = s /\ << >> \in Seq(T)
    BY <1>2, ConcatEmptySeq DEF Latest
  <2> QED BY <1>2, <2>1
<1>3. CASE Len(s) > MaxUnknown
  <2> DEFINE k == Len(s) - MaxUnknown
             p == SubSeq(s, 1, k)
             l == SubSeq(s, k + 1, Len(s))
  <2>1. k \in 1 .. Len(s) /\ k \in Nat /\ Len(s) - k = MaxUnknown /\ k + 1 \in 1 .. Len(s)
    BY <1>1, <1>3
  <2>2. Latest(s) = l
    BY <1>1, <1>3 DEF Latest
  <2> HIDE DEF k
  <2>3. p \in Seq(T)
    BY <1>1, <2>1
  <2>4. l \in Seq(T) /\ Len(l) = MaxUnknown
    BY <1>1, <2>1
  <2>5. SubSeq(s, 1, k) \o SubSeq(s, k + 1, Len(s)) = SubSeq(s, 1, Len(s))
    BY <1>1, <2>1, ConcatAdjacentSubSeq
  <2>6. s = p \o l
    BY <2>5, SubSeqFull
  <2> HIDE DEF p, l
  <2>7. Latest(s) \in Seq(T) /\ Len(Latest(s)) = MaxUnknown /\ s = p \o Latest(s)
    BY <2>2, <2>4, <2>6
  <2> QED BY <2>3, <2>7
<1>4. Len(s) <= MaxUnknown \/ Len(s) > MaxUnknown
  BY <1>1
<1> QED BY <1>2, <1>3, <1>4

\* What comes before MaxUnknown names is forgotten.
LEMMA LatestDrops ==
    ASSUME NEW T, NEW p \in Seq(T), NEW s \in Seq(T), MaxUnknown \in Nat \ {0},
           Len(s) >= MaxUnknown
    PROVE  Latest(p \o s) = Latest(s)
<1> DEFINE z == p \o s
           k == Len(s) - MaxUnknown
<1>1. /\ z \in Seq(T) /\ Len(p) \in Nat /\ Len(s) \in Nat /\ Len(z) = Len(p) + Len(s)
      /\ \A i \in 1 .. Len(s) : z[Len(p) + i] = s[i]
  BY ConcatProperties
<1>2. k \in Nat /\ k + MaxUnknown = Len(s) /\ Len(s) - MaxUnknown = k
  BY <1>1
<1> HIDE DEF k, z
<1>3. Latest(s) = SubSeq(s, k + 1, Len(s))
  <2>1. CASE Len(s) = MaxUnknown
    BY <1>1, <1>2, <2>1, SubSeqFull DEF Latest
  <2>2. CASE Len(s) > MaxUnknown
    <3>1. Len(s) - MaxUnknown + 1 = k + 1
      BY <1>1, <1>2
    <3>2. ~(Len(s) <= MaxUnknown)
      BY <1>1, <2>2
    <3> QED BY <3>1, <3>2 DEF Latest
  <2> QED BY <1>1, <2>1, <2>2
<1>4. Latest(z) = SubSeq(z, Len(p) + k + 1, Len(z))
  <2>1. CASE Len(z) = MaxUnknown
    <3>1. Len(p) + k + 1 = 1
      BY <1>1, <1>2, <2>1
    <3> QED BY <1>1, <2>1, <3>1, SubSeqFull DEF Latest
  <2>2. CASE Len(z) > MaxUnknown
    <3> DEFINE x == Len(p)
               y == Len(s)
               l == Len(z)
    <3>0. x \in Nat /\ y \in Nat /\ l = x + y /\ y = k + MaxUnknown
      BY <1>1, <1>2
    <3> HIDE DEF x, y, l
    <3>1. l - MaxUnknown = x + k
      BY <1>2, <3>0
    <3>3. Len(z) - MaxUnknown = Len(p) + k
      BY <3>1 DEF x, l
    <3>2. Len(z) - MaxUnknown + 1 = Len(p) + k + 1 /\ ~(Len(z) <= MaxUnknown)
      BY <1>1, <2>2, <3>3
    <3> QED BY <3>2 DEF Latest
  <2>3. Len(z) = MaxUnknown \/ Len(z) > MaxUnknown
    <3> DEFINE x == Len(p)
               y == Len(s)
               l == Len(z)
    <3>1. x \in Nat /\ y \in Nat /\ l = x + y /\ y >= MaxUnknown
      BY <1>1
    <3> HIDE DEF x, y, l
    <3>2. l = MaxUnknown \/ l > MaxUnknown
      BY <3>1
    <3> QED BY <3>2 DEF l
  <2> QED BY <2>1, <2>2, <2>3
<1> DEFINE a == SubSeq(s, k + 1, Len(s))
           b == SubSeq(z, Len(p) + k + 1, Len(z))
<1>5. /\ a \in Seq(T) /\ Len(a) = MaxUnknown
      /\ \A i \in 1 .. MaxUnknown : a[i] = s[k + i]
  BY <1>1, <1>2
<1>6. /\ b \in Seq(T) /\ Len(b) = MaxUnknown
      /\ \A i \in 1 .. MaxUnknown : b[i] = z[Len(p) + k + i]
  BY <1>1, <1>2
<1> HIDE DEF a, b
<1>7. ASSUME NEW i \in 1 .. MaxUnknown PROVE a[i] = b[i]
  <2>1. k + i \in 1 .. Len(s) /\ Len(p) + k + i = Len(p) + (k + i)
    BY <1>1, <1>2
  <2> QED BY <1>1, <1>5, <1>6, <2>1
<1>8. a = b
  BY <1>5, <1>6, <1>7, SeqEqual
<1> QED BY <1>3, <1>4, <1>8 DEF a, b, z

\* What was cut off does not come back when another name is remembered.
LEMMA RememberLatest ==
    ASSUME NEW T, NEW y \in Seq(T), Distinct(y), NEW k \in T, MaxUnknown \in Nat \ {0}
    PROVE  Remember(Latest(y), k) = Latest(Append(Without(y, {k}), k))
<1> DEFINE l == Latest(y)
<1>1. PICK p \in Seq(T) : y = p \o l /\ (p = << >> \/ Len(l) = MaxUnknown)
  <2>1. \E p \in Seq(T) : /\ y = p \o Latest(y)
                          /\ p = << >> \/ Len(Latest(y)) = MaxUnknown
    BY LatestOf
  <2> QED BY <2>1
<1>2. l \in Seq(T)
  BY LatestOf
<1> HIDE DEF l
<1>3. Remember(l, k) = Latest(Append(Without(l, {k}), k))
  BY DEF Remember
<1>4. CASE p = << >>
  <2>1. y = l
    BY <1>1, <1>2, <1>4, ConcatEmptySeq
  <2> QED BY <1>3, <2>1 DEF l
<1>5. CASE Len(l) = MaxUnknown
  <2> DEFINE v == Without(p, {k})
             w == Without(l, {k})
  <2>1. v \in Seq(T) /\ w \in Seq(T)
    BY <1>2, WithoutItems
  <2>2. Without(y, {k}) = v \o w
    BY <1>1, <1>2, WithoutConcat
  <2>3. Distinct(l)
    BY <1>1, <1>2, ItemsConcat
  <2>4. Len(w) >= Len(l) - 1
    BY <1>2, <2>3, WithoutOne
  <2> HIDE DEF v, w
  <2>5. Append(w, k) \in Seq(T) /\ Len(Append(w, k)) = Len(w) + 1 /\ Len(w) \in Nat
    BY <2>1
  <2>6. Len(Append(w, k)) >= MaxUnknown
    BY <1>5, <2>4, <2>5
  <2>7. v \o Append(w, k) = Append(v \o w, k)
    BY <2>1, ConcatAppends
  <2>8. Latest(v \o Append(w, k)) = Latest(Append(w, k))
    BY <2>1, <2>5, <2>6, LatestDrops
  <2>9. Remember(l, k) = Latest(Append(w, k))
    BY <1>3 DEF w
  <2> QED BY <2>2, <2>7, <2>8, <2>9 DEF l
<1> QED BY <1>1, <1>4, <1>5

LEMMA RememberNext ==
    ASSUME NEW T, NEW u \in Seq(T), Distinct(u), NEW b \in Seq(T), NEW e \in T,
           Distinct(Append(b, e)), MaxUnknown \in Nat \ {0}
    PROVE  Remember(Latest(Without(u, Items(b)) \o b), e) =
              Latest(Without(u, Items(Append(b, e))) \o Append(b, e))
<1> DEFINE w == Without(u, Items(b))
           y == w \o b
           v == Without(u, Items(Append(b, e)))
<1>1. Distinct(b) /\ e \notin Items(b) /\ Items(Append(b, e)) = Items(b) \cup {e}
  BY DistinctAppend, ItemsAppend
<1>2. /\ w \in Seq(T) /\ v \in Seq(T) /\ y \in Seq(T)
      /\ Items(w) = Items(u) \ Items(b) /\ Distinct(w)
  BY WithoutItems
<1>3. v = Without(w, {e})
  BY <1>1, WithoutTwice
<1>4. Without(b, {e}) = b
  <2>1. Items(b) \cap {e} = {}
    BY <1>1
  <2> QED BY <2>1, WithoutNone
<1> HIDE DEF w, v
<1>5. Distinct(y)
  BY <1>1, <1>2, ItemsConcat
<1>6. Without(y, {e}) = v \o b
  <2> DEFINE K == {e}
  <2> HIDE DEF K
  <2>1. Without(w \o b, K) = Without(w, K) \o Without(b, K)
    BY <1>2, WithoutConcat
  <2> USE DEF K
  <2> QED BY <1>3, <1>4, <2>1
<1>7. v \o Append(b, e) = Append(v \o b, e)
  BY <1>2, ConcatAppends
<1> HIDE DEF y
<1>8. Remember(Latest(y), e) = Latest(Append(Without(y, {e}), e))
  BY <1>2, <1>5, RememberLatest
<1>9. Remember(Latest(y), e) = Latest(v \o Append(b, e))
  BY <1>6, <1>7, <1>8
<1> QED BY <1>9 DEF y, w, v

\* What the definition of RememberAll chooses: the table after each name.
Remembered(u, a, g) ==
    g = [i \in 0 .. Len(a) |-> IF i = 0 THEN u ELSE Remember(g[i - 1], a[i])]

LEMMA RememberAllIs == \A u, a : RememberAll(u, a) = (CHOOSE g : Remembered(u, a, g))[Len(a)]
BY DEF RememberAll, Remembered

LEMMA RememberedExists ==
    ASSUME NEW T, NEW u \in Seq(T), NEW a \in Seq(T), MaxUnknown \in Nat \ {0}
    PROVE  \E g : Remembered(u, a, g)
<1> DEFINE F == [i \in 1 .. Len(a) |-> [v \in Seq(T) |-> Remember(v, a[i])]]
<1>1. Len(a) \in Nat
  OBVIOUS
<1>2. ASSUME NEW v \in Seq(T), NEW k \in T PROVE Remember(v, k) \in Seq(T)
  <2>1. Without(v, {k}) \in Seq(T)
    BY WithoutItems
  <2>2. Append(Without(v, {k}), k) \in Seq(T)
    BY <2>1
  <2> QED BY <2>2, LatestOf DEF Remember
<1>3. \A i \in 1 .. Len(a), v \in Seq(T) : Remember(v, a[i]) \in Seq(T)
  <2>1. \A i \in 1 .. Len(a) : a[i] \in T
    OBVIOUS
  <2> QED BY <1>2, <2>1
<1>4. F \in [1 .. Len(a) -> [Seq(T) -> Seq(T)]]
  BY <1>3
<1>5. \A i \in 1 .. Len(a), v \in Seq(T) : F[i][v] = Remember(v, a[i])
  OBVIOUS
<1> HIDE DEF F
<1>6. PICK f \in [0 .. Len(a) -> Seq(T)] : Iterated(f, Len(a), u, F)
  <2> DEFINE D == Seq(T)
  <2>1. u \in D /\ F \in [1 .. Len(a) -> [D -> D]]
    BY <1>4
  <2> HIDE DEF D
  <2>2. \E f \in [0 .. Len(a) -> D] : Iterated(f, Len(a), u, F)
    BY <1>1, <2>1, Iterates
  <2> QED BY <2>2 DEF D
<1>7. \A i \in 1 .. Len(a) : i - 1 \in 0 .. Len(a) /\ f[i - 1] \in Seq(T)
  BY <1>1
<1>8. \A i \in 1 .. Len(a) : f[i] = Remember(f[i - 1], a[i])
  BY <1>5, <1>6, <1>7 DEF Iterated
<1>9. \A i \in 0 .. Len(a) : f[i] = IF i = 0 THEN u ELSE Remember(f[i - 1], a[i])
  <2> SUFFICES ASSUME NEW i \in 0 .. Len(a), i # 0 PROVE f[i] = Remember(f[i - 1], a[i])
    BY <1>6 DEF Iterated
  <2>1. i \in 1 .. Len(a)
    BY <1>1
  <2> QED BY <1>8, <2>1
<1>10. f = [i \in 0 .. Len(a) |-> IF i = 0 THEN u ELSE Remember(f[i - 1], a[i])]
  BY <1>9
<1> QED BY <1>10 DEF Remembered

\* Remembering names one at a time leaves the table that remembering them at once would.
LEMMA RemembersAll ==
    ASSUME NEW T, NEW u \in Seq(T), Distinct(u), Len(u) <= MaxUnknown,
           NEW a \in Seq(T), Distinct(a), MaxUnknown \in Nat \ {0}
    PROVE  RememberAll(u, a) = Latest(Without(u, Items(a)) \o a)
<1>1. PICK g : Remembered(u, a, g) /\ RememberAll(u, a) = g[Len(a)]
  BY RememberedExists, RememberAllIs
<1>2. Len(a) \in Nat
  OBVIOUS
<1>3. \A i \in 0 .. Len(a) : g[i] = IF i = 0 THEN u ELSE Remember(g[i - 1], a[i])
  BY <1>1 DEF Remembered
<1> DEFINE first(i) == SubSeq(a, 1, i)
           P == {i \in 0 .. Len(a) : g[i] = Latest(Without(u, Items(first(i))) \o first(i))}
<1>4. 0 \in P
  <2>1. first(0) = << >>
    BY SubSeqEmpty
  <2>2. Items(<< >>) = {}
    BY DEF Items
  <2>3. Without(u, {}) = u
    BY WithoutNone
  <2>4. u \o << >> = u
    BY ConcatEmptySeq
  <2>5. Latest(u) = u
    BY DEF Latest
  <2>6. g[0] = u
    BY <1>2, <1>3
  <2>7. Latest(Without(u, Items(first(0))) \o first(0)) = u
    BY <2>1, <2>2, <2>3, <2>4, <2>5
  <2>8. 0 \in 0 .. Len(a)
    BY <1>2
  <2> HIDE DEF first
  <2> QED BY <2>6, <2>7, <2>8
<1>5. ASSUME NEW i \in 1 .. Len(a), i - 1 \in P PROVE i \in P
  <2> DEFINE b == first(i - 1)
  <2>1. b \in Seq(T) /\ a[i] \in T /\ i \in 1 .. Len(a) /\ i \in Nat /\ first(i) \in Seq(T)
    BY <1>2
  <2>2. first(i) = b \o <<a[i]>>
    BY <2>1, <1>2, SubSeqRecursiveSecond
  <2>3. first(i) = Append(b, a[i])
    BY <2>1, <2>2, AppendIsConcat
  <2>4. Distinct(first(i))
    <3> DEFINE rest == SubSeq(a, i + 1, Len(a))
    <3>1. rest \in Seq(T)
      BY <1>2
    <3>2. first(i) \o rest = SubSeq(a, 1, Len(a))
      BY <1>2, <2>1, ConcatAdjacentSubSeq
    <3>3. first(i) \o rest = a
      BY <3>2, SubSeqFull
    <3> HIDE DEF rest, first
    <3> QED BY <2>1, <3>1, <3>3, ItemsConcat
  <2>5. g[i] = Remember(g[i - 1], a[i])
    BY <1>2, <1>3
  <2>6. g[i - 1] = Latest(Without(u, Items(b)) \o b)
    BY <1>5
  <2> HIDE DEF b, P, first
  <2>7. Remember(Latest(Without(u, Items(b)) \o b), a[i]) =
           Latest(Without(u, Items(Append(b, a[i]))) \o Append(b, a[i]))
    BY <2>1, <2>3, <2>4, RememberNext
  <2>8. g[i] = Latest(Without(u, Items(first(i))) \o first(i))
    BY <2>3, <2>5, <2>6, <2>7
  <2> QED BY <1>2, <2>8 DEF P
<1>6. first(Len(a)) = a
  BY SubSeqFull
<1> HIDE DEF P, first
<1>7. \A i \in 1 .. Len(a) : i - 1 \in P => i \in P
  BY <1>5
<1>8. \A i \in 0 .. Len(a) : i \in P
  BY <1>2, <1>4, <1>7, Upto, Zenon
<1>9. Len(a) \in P
  BY <1>2, <1>8
<1> QED BY <1>1, <1>6, <1>9 DEF P

-----------------------------------------------------------------------------
(* The names a request asks for in vain.                                   *)

LEMMA AskedIs ==
    ASSUME NEW q \in Query
    PROVE  /\ Asked(q) \in Seq(NameKey) /\ Distinct(Asked(q))
           /\ Range(Asked(q)) = Items(Asked(q))
<1> DEFINE P == {"probe"} \X UnknownProbes(q)
           G == {"tag"} \X UnknownTags(q)
           p == SetToSeq(P)
           g == SetToSeq(G)
<1>1. IsFiniteSet(UnknownProbes(q)) /\ IsFiniteSet(UnknownTags(q))
  BY RequestAssumption, FS_Subset DEF UnknownProbes, UnknownTags
<1>2. IsFiniteSet(P) /\ IsFiniteSet(G)
  BY <1>1, FS_Singleton, FS_Product
<1>3. P \subseteq NameKey /\ G \subseteq NameKey
  <2>1. UnknownProbes(q) \subseteq q.probes /\ UnknownTags(q) \subseteq q.tags
    BY DEF UnknownProbes, UnknownTags
  <2>2. q.probes \cup q.tags \subseteq UNION {r.probes \cup r.tags : r \in Query}
    OBVIOUS
  <2> QED BY <2>1, <2>2 DEF NameKey
<1>4. P \cap G = {}
  OBVIOUS
<1> HIDE DEF P, G
<1>5. p \in Seq(P) /\ Distinct(p) /\ g \in Seq(G) /\ Distinct(g)
  BY <1>2, ListedOnce
<1>6. Asked(q) = p \o g
  BY DEF Asked, P, G
<1> HIDE DEF p, g
<1>7. p \in Seq(NameKey) /\ g \in Seq(NameKey)
  BY <1>3, <1>5, SeqMonotonic
<1>8. Items(p) \subseteq P /\ Items(g) \subseteq G
  BY <1>5, ElementOfSeq DEF Items
<1>9. p \o g \in Seq(NameKey) /\ Distinct(p \o g)
  <2>1. Items(p) \cap Items(g) = {}
    BY <1>4, <1>8
  <2> QED BY <1>5, <1>7, <2>1, ItemsConcat, ConcatProperties
<1>10. \A s \in Seq(NameKey) : Range(s) = Items(s)
  BY DEF Range, Items
<1> QED BY <1>6, <1>9, <1>10

-----------------------------------------------------------------------------
(* The table and the clock.                                                *)

\* The names are in the order in which they were last asked for, none of them
\* twice, and those that are too old come first.
UnknownInv ==
    /\ unknown = requested
    /\ requested \in Seq(NameKey) /\ Distinct(requested) /\ Len(requested) <= MaxUnknown
    /\ aged \in 0 .. Len(requested)
    /\ phase # "idle" => request \in Query

LEMMA UnknownInvInit == Init => UnknownInv
<1>1. << >> \in Seq(NameKey) /\ Len(<< >>) = 0 /\ Distinct(<< >>)
  BY DEF Distinct
<1> QED BY <1>1, BoundAssumption DEF Init, UnknownInv

\* Of the names that are too old, no more are left than there are names left.
LEMMA AgedLeft ==
    ASSUME NEW T, NEW s \in Seq(T), NEW t \in Seq(T), Distinct(s), NEW n \in 0 .. Len(s),
           NEW X, X \subseteq Items(t)
    PROVE  Cardinality({i \in 1 .. n : s[i] \in X}) \in 0 .. Len(t)
<1> DEFINE I == {i \in 1 .. n : s[i] \in X}
           f == [i \in I |-> CHOOSE j \in 1 .. Len(t) : t[j] = s[i]]
<1>1. Len(s) \in Nat /\ Len(t) \in Nat
  OBVIOUS
<1>2. \A i \in I : f[i] \in 1 .. Len(t) /\ t[f[i]] = s[i]
  BY DEF Items
<1>3. \A i \in I : i \in 1 .. Len(s)
  BY <1>1
<1>4. \A i, j \in I : f[i] = f[j] => i = j
  <2> HIDE DEF f
  <2> QED BY <1>2, <1>3 DEF Distinct
<1>5. f \in [I -> 1 .. Len(t)]
  BY <1>2
<1> HIDE DEF f
<1>6. f \in Injection(I, 1 .. Len(t))
  BY <1>4, <1>5 DEF Injection, IsInjective
<1>7. IsFiniteSet(1 .. Len(t)) /\ Cardinality(1 .. Len(t)) = Len(t)
  <2> DEFINE m == Len(t)
  <2>1. m \in Nat
    BY <1>1
  <2> HIDE DEF m
  <2>2. IsFiniteSet(1 .. m) /\ Cardinality(1 .. m) = IF 1 > m THEN 0 ELSE m - 1 + 1
    BY <2>1, FS_Interval
  <2>3. IsFiniteSet(1 .. m) /\ Cardinality(1 .. m) = m
    BY <2>1, <2>2
  <2> QED BY <2>3 DEF m
<1> HIDE DEF I
<1>8. IsFiniteSet(I) /\ Cardinality(I) <= Cardinality(1 .. Len(t))
  BY <1>6, <1>7, FS_Injection
<1>9. Cardinality(I) \in Nat
  BY <1>8, FS_CardinalityType
<1>10. Cardinality(I) \in 0 .. Len(t)
  BY <1>1, <1>7, <1>8, <1>9
<1> QED BY <1>10 DEF I

LEMMA UnknownInvAsks ==
    ASSUME UnknownInv, phase # "idle", unknown' = RememberAll(unknown, Asked(request)),
           Recall(request), phase' = "idle"
    PROVE  UnknownInv'
<1> DEFINE a == Asked(request)
           all == Without(requested, Items(a)) \o a
<1>1. a \in Seq(NameKey) /\ Distinct(a) /\ Range(a) = Items(a)
  BY AskedIs DEF UnknownInv
<1>2. /\ requested \in Seq(NameKey) /\ Distinct(requested) /\ Len(requested) <= MaxUnknown
      /\ unknown = requested /\ aged \in 0 .. Len(requested) /\ MaxUnknown \in Nat \ {0}
  BY BoundAssumption DEF UnknownInv
<1> HIDE DEF a
<1>3. RememberAll(requested, a) = Latest(all)
  BY <1>1, <1>2, RemembersAll
<1>4. unknown' = Latest(all) /\ requested' = Latest(all)
  BY <1>1, <1>2, <1>3 DEF Recall, a
<1>5. aged' = Cardinality({i \in 1 .. aged : requested[i] \in Range(requested') \ Range(a)})
  BY DEF Recall, a
<1> DEFINE w == Without(requested, Items(a))
<1>6. w \in Seq(NameKey) /\ Items(w) = Items(requested) \ Items(a) /\ Distinct(w)
  BY <1>2, WithoutItems
<1> HIDE DEF w
<1>7. w \o a \in Seq(NameKey) /\ Distinct(w \o a)
  <2>1. Items(w) \cap Items(a) = {}
    BY <1>6
  <2> QED BY <1>1, <1>6, <2>1, ItemsConcat, ConcatProperties
<1>8. all = w \o a
  BY DEF w
<1> HIDE DEF all
<1> DEFINE l == Latest(all)
<1>9. l \in Seq(NameKey) /\ Len(l) <= MaxUnknown
  BY <1>2, <1>7, <1>8, LatestOf
<1>10. \E p \in Seq(NameKey) : all = p \o l
  BY <1>2, <1>7, <1>8, LatestOf
<1> HIDE DEF l
<1>11. Distinct(l)
  BY <1>7, <1>8, <1>9, <1>10, ItemsConcat
<1>12. Range(l) = Items(l)
  BY <1>9 DEF Range, Items
<1>13. aged' \in 0 .. Len(l)
  <2> DEFINE X == Range(l) \ Range(a)
  <2>1. X \subseteq Items(l)
    BY <1>12
  <2>2. aged' = Cardinality({i \in 1 .. aged : requested[i] \in X})
    BY <1>4, <1>5 DEF l
  <2> HIDE DEF X
  <2> QED BY <1>2, <1>9, <2>1, <2>2, AgedLeft
<1>14. unknown' = l /\ requested' = l
  BY <1>4 DEF l
<1> QED BY <1>9, <1>11, <1>13, <1>14 DEF UnknownInv

LEMMA UnknownInvDecides ==
    ASSUME UnknownInv, phase # "idle", Decide(request)
    PROVE  UnknownInv'
<1>1. CASE Unmatched(request)
  BY <1>1, UnknownInvAsks DEF Decide, Respond, Idle
<1>2. CASE ~Unmatched(request)
  <2>1. UNCHANGED unknownVars
    BY <1>2 DEF Decide
  <2>2. CASE phase' = "idle"
    BY <2>1, <2>2 DEF UnknownInv, unknownVars
  <2>3. CASE phase' # "idle"
    <3>1. GetResults(request)
      BY <1>2, <2>3 DEF Decide, Respond, Idle
    <3>2. UNCHANGED request
      BY <2>3, <3>1, ReportSays DEF GetResults
    <3> QED BY <2>1, <3>2 DEF UnknownInv, unknownVars
  <2> QED BY <2>2, <2>3
<1> QED BY <1>1, <1>2

\* Dropping the names that are too old drops the beginning of the table.
LEMMA UnknownInvLists ==
    ASSUME UnknownInv, ListUnknown
    PROVE  UnknownInv'
<1> DEFINE old == {requested[i] : i \in 1 .. aged}
           p == SubSeq(requested, 1, aged)
           r == SubSeq(requested, aged + 1, Len(requested))
<1>1. /\ requested \in Seq(NameKey) /\ Distinct(requested) /\ Len(requested) <= MaxUnknown
      /\ unknown = requested /\ aged \in 1 .. Len(requested) /\ Len(requested) \in Nat
      /\ MaxUnknown \in Nat \ {0}
  BY BoundAssumption DEF UnknownInv, ListUnknown
<1>2. unknown' = Without(requested, old) /\ requested' = r /\ aged' = 0
  BY <1>1 DEF ListUnknown
<1>3. p \in Seq(NameKey) /\ Len(p) = aged /\ \A i \in 1 .. aged : p[i] = requested[i]
  BY <1>1
<1>4. r \in Seq(NameKey) /\ Len(r) \in Nat /\ Len(r) <= Len(requested)
  BY <1>1
<1>5. requested = p \o r
  <2>1. SubSeq(requested, 1, aged) \o SubSeq(requested, aged + 1, Len(requested))
           = SubSeq(requested, 1, Len(requested))
    BY <1>1, ConcatAdjacentSubSeq
  <2> QED BY <1>1, <2>1, SubSeqFull
<1> HIDE DEF p, r
<1>6. old = Items(p)
  BY <1>3 DEF Items
<1> HIDE DEF old
<1>7. Distinct(r) /\ Items(p) \cap Items(r) = {}
  BY <1>1, <1>3, <1>4, <1>5, ItemsConcat
<1>8. Without(r, old) = r
  <2>1. Items(r) \cap old = {}
    BY <1>6, <1>7
  <2> QED BY <1>4, <2>1, WithoutNone
<1>9. Without(p, old) = << >>
  <2>1. Without(p, old) \in Seq(NameKey) /\ Items(Without(p, old)) = Items(p) \ old
    BY <1>3, WithoutItems
  <2>2. Items(Without(p, old)) = {}
    BY <1>6, <2>1
  <2>3. \A s \in Seq(NameKey) : Items(s) = {} => s = << >>
    <3> SUFFICES ASSUME NEW s \in Seq(NameKey), Items(s) = {}, s # << >> PROVE FALSE
      OBVIOUS
    <3>1. 1 \in 1 .. Len(s)
      BY EmptySeq
    <3> QED BY <3>1 DEF Items
  <2> QED BY <2>1, <2>2, <2>3
<1>10. Without(requested, old) = r
  <2>1. Without(p \o r, old) = Without(p, old) \o Without(r, old)
    BY <1>3, <1>4, WithoutConcat
  <2>2. << >> \o r = r
    BY <1>4, ConcatEmptySeq
  <2> QED BY <1>5, <1>8, <1>9, <2>1, <2>2
<1>11. Len(r) <= MaxUnknown
  BY <1>1, <1>4
<1>12. (phase # "idle" => request \in Query)'
  BY DEF UnknownInv, ListUnknown, requestVars
<1> QED BY <1>2, <1>4, <1>7, <1>10, <1>11, <1>12 DEF UnknownInv

LEMMA UnknownInvNext == UnknownInv /\ [Next]_vars => UnknownInv'
<1> SUFFICES ASSUME UnknownInv, [Next]_vars PROVE UnknownInv'
  OBVIOUS
<1>1. ASSUME NEW q \in Query, Ask(q) PROVE UnknownInv'
  BY <1>1 DEF Ask, UnknownInv, unknownVars
<1>2. CASE Begin
  <2>1. CASE Decide(request)
    BY <1>2, <2>1, UnknownInvDecides DEF Begin
  <2>2. CASE ~Decide(request)
    BY <1>2, <2>2 DEF Begin, UnknownInv, unknownVars
  <2> QED BY <2>1, <2>2
<1>3. CASE Probed
  BY <1>3, UnknownInvDecides DEF Probed
<1>4. CASE Answer
  <2>1. phase' = "idle"
    BY <1>4, ReportSays DEF Answer
  <2> QED BY <1>4, <2>1 DEF Answer, UnknownInv, unknownVars
<1>5. CASE Disconnect
  BY <1>5 DEF Disconnect, Idle, UnknownInv, unknownVars
<1>6. ASSUME NEW n \in Probe, Reports(n) PROVE UnknownInv'
  BY <1>6 DEF Reports, UnknownInv, unknownVars
<1>7. ASSUME NEW n \in Probe, Register(n) \/ Unregister(n) PROVE UnknownInv'
  BY <1>7 DEF Register, Unregister, RegistryStep, UnknownInv, unknownVars
<1>8. CASE ForgetUnregistered \/ \E on \in IntervalCalls : SetPollInterval(on)
  BY <1>8 DEF ForgetUnregistered, SetPollInterval, RegistryStep, UnknownInv, unknownVars
<1>9. CASE \/ \E until \in {"none", "ahead"} : SetMaintenance(until)
           \/ ClearMaintenance \/ WindowElapses \/ SeeMaintenance
  BY <1>9 DEF SetMaintenance, ClearMaintenance, WindowElapses, SeeMaintenance, MaintenanceStep,
     requestVars, unknownVars, UnknownInv
<1>10. CASE GraceEnds
  BY <1>10 DEF GraceEnds, requestVars, unknownVars, UnknownInv
<1>11. CASE NameAges
  BY <1>11 DEF NameAges, requestVars, UnknownInv
<1>12. CASE ListUnknown
  BY <1>12, UnknownInvLists
<1>13. CASE UNCHANGED vars
  BY <1>13 DEF vars, UnknownInv
<1> QED BY <1>1, <1>2, <1>3, <1>4, <1>5, <1>6, <1>7, <1>8, <1>9, <1>10, <1>11, <1>12, <1>13
   DEF Next

\* The table of unknown names stays in the order of last_requested_at, however many names
\* a request asks for and whichever of them were there before (_remember_unknown,
\* _recent_unknown_requests).
THEOREM UnknownNamesAreTheLatest == Spec => []UnknownAreMostRecent
<1>1. Spec => []UnknownInv
  BY UnknownInvInit, UnknownInvNext, PTL DEF Spec
<1>2. UnknownInv => UnknownAreMostRecent
  BY DEF UnknownInv, UnknownAreMostRecent
<1> QED BY <1>1, <1>2, PTL

-----------------------------------------------------------------------------
(* The rest of the types.                                                  *)

AnswerTypes == answer.code \in {0, 200, 207, 404, 503} /\ answer.used \subseteq Probe
WindowTypes ==
    /\ polled \in BOOLEAN /\ grace \in BOOLEAN
    /\ maint \in [active : BOOLEAN, until : {"none", "ahead", "past"}]
RequestRest ==
    /\ request \in Query \cup {NoRequest}
    /\ pending \subseteq Probe /\ known \subseteq Probe
    /\ cleared \in BOOLEAN
EndpointInv == AnswerTypes /\ WindowTypes /\ RequestRest

LEMMA EndpointInvInit == Init => EndpointInv
<1> SUFFICES ASSUME Init PROVE EndpointInv
  OBVIOUS
<1>1. AnswerTypes
  BY DEF Init, AnswerTypes, NoAnswer
<1>2. WindowTypes
  BY DEF Init, WindowTypes, Off
<1>3. RequestRest
  BY DEF Init, RequestRest
<1> QED BY <1>1, <1>2, <1>3 DEF EndpointInv

LEMMA ResponseTypes ==
    ASSUME NEW code \in {0, 200, 207, 404, 503}, NEW body, NEW used \in SUBSET Probe,
           Respond(code, body, used)
    PROVE  AnswerTypes' /\ RequestRest'
BY DEF Respond, Idle, AnswerTypes, RequestRest

LEMMA ReportTypes ==
    ASSUME AskInv, NEW q, Report(q)
    PROVE  AnswerTypes' /\ RequestRest'
<1>1. Reported(q) \in SUBSET Probe
  BY DEF Reported, AskInv
<1>2. CASE Respond(404, "filtered", {})
  <2>1. {} \in SUBSET Probe /\ 404 \in {0, 200, 207, 404, 503}
    OBVIOUS
  <2> QED BY <1>2, <2>1, ResponseTypes
<1>3. ASSUME NEW code \in {200, 207, 503}, Respond(code, "report", Reported(q))
      PROVE  AnswerTypes' /\ RequestRest'
  <2>1. code \in {0, 200, 207, 404, 503}
    BY <1>3
  <2> QED BY <1>1, <1>3, <2>1, ResponseTypes
<1>4. \A s : ReadyCode(s) \in {200, 207, 503} /\ StatusCode(s) \in {200, 207, 503}
  BY DEF ReadyCode, StatusCode
<1> QED BY <1>2, <1>3, <1>4 DEF Report

LEMMA DecideTypes ==
    ASSUME AskInv, EndpointInv, Decide(request)
    PROVE  AnswerTypes' /\ RequestRest' /\ maint' \in {maint, Off}
<1>1. maint' \in {maint, Off}
  BY DEF Decide, Lapse, unknownVars
<1>2. ASSUME GetResults(request) PROVE AnswerTypes' /\ RequestRest'
  <2>1. CASE Report(request)
    BY <2>1, ReportTypes
  <2>2. ASSUME NEW due \in SUBSET registered, pending' = ToRun(due), known' = registered,
               UNCHANGED <<answer, request, cleared>>
        PROVE  AnswerTypes' /\ RequestRest'
    <3>1. ToRun(due) \subseteq registered /\ registered \subseteq Probe
      BY DEF ToRun, AskInv
    <3>2. answer' = answer /\ request' = request /\ cleared' = cleared
      BY <2>2
    <3>3. AnswerTypes'
      BY <3>2 DEF EndpointInv, AnswerTypes
    <3>4. RequestRest'
      BY <2>2, <3>1, <3>2 DEF EndpointInv, RequestRest
    <3> QED BY <3>3, <3>4
  <2> QED BY <1>2, <2>1, <2>2 DEF GetResults
<1>3. ASSUME NEW code \in {200, 404, 503}, NEW body, Respond(code, body, {})
      PROVE  AnswerTypes' /\ RequestRest'
  <2>1. {} \in SUBSET Probe /\ code \in {0, 200, 207, 404, 503}
    BY <1>3
  <2> QED BY <1>3, <2>1, ResponseTypes
<1>4. \/ GetResults(request)
      \/ \E code \in {200, 404, 503} : \E body : Respond(code, body, {})
  <2>1. 200 \in {200, 404, 503} /\ 404 \in {200, 404, 503} /\ 503 \in {200, 404, 503}
    OBVIOUS
  <2> DEFINE C == {200, 404, 503}
  <2> HIDE DEF C
  <2> QED BY <2>1 DEF Decide, C
<1> QED BY <1>1, <1>2, <1>3, <1>4

LEMMA EndpointInvNext == AskInv /\ EndpointInv /\ [Next]_vars => EndpointInv'
<1> SUFFICES ASSUME AskInv, EndpointInv, [Next]_vars PROVE EndpointInv'
  OBVIOUS
<1>0. AnswerTypes /\ WindowTypes /\ RequestRest
  BY DEF EndpointInv
<1>1. Off \in [active : BOOLEAN, until : {"none", "ahead", "past"}]
  BY DEF Off
<1>2. ASSUME Decide(request), UNCHANGED envVars PROVE EndpointInv'
  <2>1. AnswerTypes' /\ RequestRest' /\ maint' \in {maint, Off}
    BY <1>2, DecideTypes
  <2>2. WindowTypes'
    BY <1>0, <1>1, <1>2, <2>1 DEF envVars, WindowTypes
  <2> QED BY <2>1, <2>2 DEF EndpointInv
<1>3. ASSUME NEW q \in Query, Ask(q) PROVE EndpointInv'
  BY <1>0, <1>3 DEF Ask, envVars, NoAnswer, EndpointInv, AnswerTypes, WindowTypes, RequestRest
<1>4. CASE Begin
  <2>1. ASSUME pending' = Unreported, UNCHANGED <<envVars, answer, maint, request, known, cleared>>
        PROVE  EndpointInv'
    BY <1>0, <2>1 DEF Unreported, AskInv, envVars, EndpointInv, AnswerTypes, WindowTypes, RequestRest
  <2> QED BY <1>2, <1>4, <2>1 DEF Begin
<1>5. CASE Probed
  BY <1>2, <1>5 DEF Probed
<1>6. CASE Answer
  <2>1. AnswerTypes' /\ RequestRest'
    BY <1>6, ReportTypes DEF Answer
  <2> QED BY <1>0, <1>6, <2>1 DEF Answer, envVars, EndpointInv, WindowTypes
<1>7. CASE Disconnect
  <2>1. UNCHANGED <<answer, polled, grace, maint>>
    BY <1>7 DEF Disconnect, envVars
  <2>2. RequestRest'
    BY <1>7 DEF Disconnect, Idle, RequestRest
  <2>3. AnswerTypes' /\ WindowTypes'
    BY <1>0, <2>1 DEF AnswerTypes, WindowTypes
  <2> QED BY <2>2, <2>3 DEF EndpointInv
<1>8. ASSUME NEW n \in Probe, Reports(n) \/ Register(n) \/ Unregister(n) PROVE EndpointInv'
  <2>1. /\ UNCHANGED <<answer, polled, grace, maint, request, cleared>>
        /\ pending' \subseteq pending /\ known' \subseteq known \cup {n}
    BY <1>8 DEF Reports, Register, Unregister, RegistryStep
  <2> QED BY <1>0, <1>8, <2>1 DEF EndpointInv, AnswerTypes, WindowTypes, RequestRest
<1>9. ASSUME NEW on \in IntervalCalls, SetPollInterval(on) PROVE EndpointInv'
  <2>1. on \in BOOLEAN /\ cleared' \in BOOLEAN /\ polled' \in BOOLEAN
    BY <1>9, BoundAssumption DEF SetPollInterval
  <2>2. UNCHANGED <<answer, grace, maint, request, pending, known>>
    BY <1>9 DEF SetPollInterval, RegistryStep
  <2> QED BY <1>0, <2>1, <2>2 DEF EndpointInv, AnswerTypes, WindowTypes, RequestRest
<1>10. CASE ForgetUnregistered \/ NameAges \/ ListUnknown \/ UNCHANGED vars
  <2>1. UNCHANGED <<answer, polled, grace, maint, request, pending, known, cleared>>
    BY <1>10 DEF ForgetUnregistered, NameAges, ListUnknown, RegistryStep, requestVars, vars
  <2> QED BY <1>0, <2>1 DEF EndpointInv, AnswerTypes, WindowTypes, RequestRest
<1>11. CASE (\E until \in {"none", "ahead"} : SetMaintenance(until)) \/ ClearMaintenance
            \/ WindowElapses \/ SeeMaintenance \/ GraceEnds
  <2>1. /\ UNCHANGED <<answer, polled, request, pending, known, cleared>>
        /\ grace' \in {grace, FALSE}
    BY <1>11 DEF SetMaintenance, ClearMaintenance, WindowElapses, SeeMaintenance, GraceEnds,
       MaintenanceStep, requestVars
  <2>2. maint' \in [active : BOOLEAN, until : {"none", "ahead", "past"}]
    <3> DEFINE M == [active : BOOLEAN, until : {"none", "ahead", "past"}]
    <3>1. maint \in M /\ Off \in M
      BY <1>0, <1>1 DEF WindowTypes
    <3>2. ASSUME NEW until \in {"none", "ahead"} PROVE [active |-> TRUE, until |-> until] \in M
      OBVIOUS
    <3>3. [maint EXCEPT !.until = "past"] \in M
      BY <3>1
    <3> HIDE DEF M
    <3>4. maint' \in M
      BY <1>11, <3>1, <3>2, <3>3 DEF SetMaintenance, ClearMaintenance, WindowElapses,
         SeeMaintenance, GraceEnds, Lapse
    <3> QED BY <3>4 DEF M
  <2> QED BY <1>0, <2>1, <2>2 DEF EndpointInv, AnswerTypes, WindowTypes, RequestRest
<1> QED BY <1>3, <1>4, <1>5, <1>6, <1>7, <1>8, <1>9, <1>10, <1>11 DEF Next

\* What the health routes keep always has the shape TypeOK gives: every answer's code is
\* one the routes declare, and the ages of unknown names are those of the table.
THEOREM EndpointTypes == Spec => []TypeOK
<1>1. AskInv /\ UnknownInv /\ EndpointInv => TypeOK
  BY DEF AskInv, UnknownInv, EndpointInv, AnswerTypes, WindowTypes, RequestRest, TypeOK
<1>2. Spec => []EndpointInv
  BY AskInvAlways, EndpointInvInit, EndpointInvNext, PTL DEF Spec
<1>3. Spec => []UnknownInv
  BY UnknownInvInit, UnknownInvNext, PTL DEF Spec
<1> QED BY <1>1, <1>2, <1>3, AskInvAlways, PTL

-----------------------------------------------------------------------------
(***************************************************************************)
(* RequestMetrics.                                                         *)
(* For any requests, routes, windows and number of arrivals: each request  *)
(* is recorded once, and the counters say what a walk over what they count *)
(* would.                                                                  *)
(***************************************************************************)

-----------------------------------------------------------------------------
(* Windows.                                                                *)

\* Where the members of X are in a sequence.
Where(s, X) == {i \in DOMAIN s : s[i] \in X}

LEMMA WhereFinite ==
    ASSUME NEW T, NEW s \in Seq(T), NEW X
    PROVE  IsFiniteSet(Where(s, X)) /\ Cardinality(Where(s, X)) \in Nat
<1>1. DOMAIN s = 1 .. Len(s) /\ Len(s) \in Nat
  OBVIOUS
<1>2. IsFiniteSet(1 .. Len(s))
  BY <1>1, FS_Interval
<1>3. Where(s, X) \subseteq 1 .. Len(s)
  BY <1>1 DEF Where
<1> QED BY <1>2, <1>3, FS_Subset, FS_CardinalityType

LEMMA WhereAppend ==
    ASSUME NEW T, NEW s \in Seq(T), NEW e \in T, NEW X
    PROVE  Cardinality(Where(Append(s, e), X)) =
              Cardinality(Where(s, X)) + (IF e \in X THEN 1 ELSE 0)
<1>1. /\ Len(s) \in Nat /\ DOMAIN s = 1 .. Len(s)
      /\ DOMAIN Append(s, e) = 1 .. (Len(s) + 1)
      /\ \A i \in 1 .. Len(s) : Append(s, e)[i] = s[i]
      /\ Append(s, e)[Len(s) + 1] = e
  OBVIOUS
<1>2. CASE e \in X
  <2>1. Where(Append(s, e), X) = Where(s, X) \cup {Len(s) + 1}
    BY <1>1, <1>2 DEF Where
  <2>2. Len(s) + 1 \notin Where(s, X)
    BY <1>1 DEF Where
  <2> QED BY <1>2, <2>1, <2>2, WhereFinite, FS_AddElement
<1>3. CASE e \notin X
  <2>1. Where(Append(s, e), X) = Where(s, X)
    BY <1>1, <1>3 DEF Where
  <2> QED BY <1>3, <2>1, WhereFinite
<1> QED BY <1>2, <1>3

LEMMA WhereTail ==
    ASSUME NEW T, NEW s \in Seq(T), s # << >>, NEW X
    PROVE  Cardinality(Where(Tail(s), X)) =
              Cardinality(Where(s, X)) - (IF s[1] \in X THEN 1 ELSE 0)
<1>1. /\ Len(s) \in Nat \ {0} /\ DOMAIN s = 1 .. Len(s)
      /\ Tail(s) \in Seq(T) /\ DOMAIN Tail(s) = 1 .. (Len(s) - 1)
      /\ \A i \in 1 .. (Len(s) - 1) : Tail(s)[i] = s[i + 1]
  OBVIOUS
<1> DEFINE Rest == Where(s, X) \ {1}
           f == [i \in Rest |-> i - 1]
           g == [i \in Where(Tail(s), X) |-> i + 1]
<1>2. IsFiniteSet(Rest) /\ Cardinality(Rest) = Cardinality(Where(s, X)) - (IF s[1] \in X THEN 1 ELSE 0)
  <2>1. 1 \in Where(s, X) <=> s[1] \in X
    BY <1>1 DEF Where
  <2> QED BY <2>1, WhereFinite, FS_RemoveElement
<1>3. f \in [Rest -> Where(Tail(s), X)] /\ \A i, j \in Rest : i # j => f[i] # f[j]
  <2>1. \A i \in Rest : i \in Nat /\ i - 1 \in Where(Tail(s), X)
    BY <1>1 DEF Where
  <2> QED BY <2>1
<1>4. g \in [Where(Tail(s), X) -> Rest] /\ \A i, j \in Where(Tail(s), X) : i # j => g[i] # g[j]
  <2>1. \A i \in Where(Tail(s), X) : i \in Nat /\ i + 1 \in Rest
    BY <1>1 DEF Where
  <2> QED BY <2>1
<1> HIDE DEF Rest, f, g
<1>5. IsFiniteSet(Where(Tail(s), X)) /\ Cardinality(Where(Tail(s), X)) \in Nat
  BY <1>1, WhereFinite
<1>6. Cardinality(Rest) \in Nat
  BY <1>2, FS_CardinalityType
<1>7. ~(Cardinality(Where(Tail(s), X)) < Cardinality(Rest))
  BY <1>2, <1>3, <1>5, FS_PigeonHole
<1>8. ~(Cardinality(Rest) < Cardinality(Where(Tail(s), X)))
  BY <1>2, <1>4, <1>5, FS_PigeonHole
<1> QED BY <1>2, <1>5, <1>6, <1>7, <1>8

LEMMA SlideCounts ==
    ASSUME NEW T, NEW w \in Seq(T), NEW e \in T, NEW X,
           WindowSize \in Nat \ {0}, Len(w) <= WindowSize
    PROVE  /\ Slid(w, e) \in Seq(T)
           /\ Len(Slid(w, e)) = IF Len(w) = WindowSize THEN WindowSize ELSE Len(w) + 1
           /\ Cardinality(Where(Slid(w, e), X)) =
                Cardinality(Where(w, X))
                  - (IF Len(w) = WindowSize /\ w[1] \in X THEN 1 ELSE 0)
                  + (IF e \in X THEN 1 ELSE 0)
<1>1. CASE Len(w) = WindowSize
  <2>1. w # << >> /\ Tail(w) \in Seq(T) /\ Len(Tail(w)) = Len(w) - 1 /\ Slid(w, e) = Append(Tail(w), e)
    BY <1>1 DEF Slid
  <2>2. Cardinality(Where(w, X)) \in Nat /\ Cardinality(Where(Tail(w), X)) \in Nat
    BY <2>1, WhereFinite
  <2>3. Slid(w, e) \in Seq(T) /\ Len(Slid(w, e)) = WindowSize
    BY <1>1, <2>1
  <2>4. Cardinality(Where(Append(Tail(w), e), X)) =
           Cardinality(Where(Tail(w), X)) + (IF e \in X THEN 1 ELSE 0)
    BY <2>1, WhereAppend
  <2>5. Cardinality(Where(Tail(w), X)) = Cardinality(Where(w, X)) - (IF w[1] \in X THEN 1 ELSE 0)
    BY <2>1, WhereTail
  <2> QED BY <1>1, <2>1, <2>2, <2>3, <2>4, <2>5
<1>2. CASE Len(w) # WindowSize
  <2>1. Slid(w, e) = Append(w, e)
    BY <1>2 DEF Slid
  <2>2. Cardinality(Where(w, X)) \in Nat
    BY WhereFinite
  <2> QED BY <1>2, <2>1, <2>2, WhereAppend
<1> QED BY <1>1, <1>2

-----------------------------------------------------------------------------
(* Statistics and tallies.                                                 *)

LEMMA FailuresAre ==
    ASSUME NEW w \in Seq({0, 1})
    PROVE  {i \in DOMAIN w : w[i] = 1} = Where(w, {1})
BY DEF Where

LEMMA NoStatsAgree == WindowSize \in Nat \ {0} => NoStats \in Stats /\ StatsAgree(NoStats)
<1>1. {i \in DOMAIN NoStats.window : NoStats.window[i] = 1} = {}
  BY DEF NoStats
<1> QED BY <1>1, FS_EmptySet DEF NoStats, Stats, StatsAgree

LEMMA CountedAgrees ==
    ASSUME WindowSize \in Nat \ {0}, NEW stats \in Stats, StatsAgree(stats), NEW isError
    PROVE  /\ Counted(stats, isError) \in Stats /\ StatsAgree(Counted(stats, isError))
           /\ Counted(stats, isError).count = stats.count + 1
           /\ Counted(stats, isError).errors = stats.errors + (IF isError THEN 1 ELSE 0)
<1> DEFINE w == stats.window
           new == Counted(stats, isError)
           one == IF isError THEN 1 ELSE 0
<1>1. /\ stats.count \in Nat /\ stats.errors \in Nat /\ stats.streak \in Nat
      /\ w \in Seq({0, 1}) /\ stats.failed \in Nat
  BY DEF Stats
<1>2. /\ new.count = stats.count + 1 /\ new.errors = stats.errors + one
      /\ new.streak = IF isError THEN stats.streak + 1 ELSE 0
      /\ new.window = Slid(w, one)
      /\ new.failed = stats.failed - Dropped(w) + one
      /\ new = [count |-> new.count, errors |-> new.errors, streak |-> new.streak,
                window |-> new.window, failed |-> new.failed]
  BY DEF Counted
<1>3. /\ stats.failed = Cardinality(Where(w, {1}))
      /\ Len(w) = IF stats.count < WindowSize THEN stats.count ELSE WindowSize
      /\ stats.streak <= stats.errors /\ stats.errors <= stats.count
      /\ \A i \in DOMAIN w : i + stats.streak > Len(w) => w[i] = 1
  BY <1>1, FailuresAre DEF StatsAgree
<1>4. new.streak = (IF one = 1 THEN stats.streak + 1 ELSE 0) /\ one \in {0, 1}
  BY <1>2
<1> HIDE DEF new, w, one
<1>5. Len(w) <= WindowSize
  BY <1>1, <1>3
<1>6. /\ Slid(w, one) \in Seq({0, 1})
      /\ Len(Slid(w, one)) = IF Len(w) = WindowSize THEN WindowSize ELSE Len(w) + 1
      /\ Cardinality(Where(Slid(w, one), {1})) =
           Cardinality(Where(w, {1}))
              - (IF Len(w) = WindowSize /\ w[1] \in {1} THEN 1 ELSE 0)
              + (IF one \in {1} THEN 1 ELSE 0)
  BY <1>1, <1>4, <1>5, SlideCounts
<1>7. new.failed = Cardinality(Where(Slid(w, one), {1}))
  <2>1. Dropped(w) = IF Len(w) = WindowSize /\ w[1] \in {1} THEN 1 ELSE 0
    <3>1. Len(w) = WindowSize => w[1] \in {0, 1}
      BY <1>1
    <3> QED BY <3>1 DEF Dropped
  <2>2. one = IF one \in {1} THEN 1 ELSE 0
    BY <1>4
  <2> QED BY <1>2, <1>3, <1>6, <2>1, <2>2
<1>8. new.failed \in Nat
  BY <1>6, <1>7, WhereFinite
<1>9. \A i \in DOMAIN new.window : i + new.streak > Len(new.window) => new.window[i] = 1
  <2>1. CASE Len(w) = WindowSize
    <3>1. /\ w # << >> /\ Slid(w, one) = Append(Tail(w), one) /\ Tail(w) \in Seq({0, 1})
          /\ Len(Tail(w)) = Len(w) - 1 /\ \A i \in 1 .. (Len(w) - 1) : Tail(w)[i] = w[i + 1]
      BY <1>1, <2>1 DEF Slid
    <3>2. /\ Len(new.window) = Len(w) /\ DOMAIN new.window = 1 .. Len(w)
          /\ \A i \in 1 .. (Len(w) - 1) : new.window[i] = w[i + 1]
          /\ new.window[Len(w)] = one
      BY <1>1, <1>2, <1>4, <3>1
    <3>3. ASSUME NEW i \in 1 .. Len(w), i + new.streak > Len(w) PROVE new.window[i] = 1
      <4>1. Len(w) \in Nat /\ stats.streak \in Nat /\ one = 1
        BY <1>1, <1>4, <3>3
      <4>2. CASE i = Len(w)
        BY <3>2, <4>1, <4>2
      <4>3. CASE i # Len(w)
        <5>1. i + 1 \in 1 .. Len(w) /\ (i + 1) + stats.streak > Len(w) /\ i \in 1 .. (Len(w) - 1)
          BY <1>4, <3>3, <4>1, <4>3
        <5>2. i + 1 \in DOMAIN w
          BY <1>1, <5>1
        <5>3. w[i + 1] = 1
          BY <1>3, <5>1, <5>2
        <5> QED BY <3>2, <5>1, <5>3
      <4> QED BY <4>2, <4>3
    <3> QED BY <3>2, <3>3
  <2>2. CASE Len(w) # WindowSize
    <3>1. Slid(w, one) = Append(w, one)
      BY <2>2 DEF Slid
    <3>2. /\ Len(new.window) = Len(w) + 1 /\ DOMAIN new.window = 1 .. (Len(w) + 1)
          /\ \A i \in 1 .. Len(w) : new.window[i] = w[i]
          /\ new.window[Len(w) + 1] = one
      BY <1>1, <1>2, <1>4, <3>1
    <3>3. ASSUME NEW i \in 1 .. (Len(w) + 1), i + new.streak > Len(w) + 1 PROVE new.window[i] = 1
      <4>1. Len(w) \in Nat /\ stats.streak \in Nat /\ one = 1
        BY <1>1, <1>4, <3>3
      <4>2. CASE i = Len(w) + 1
        BY <3>2, <4>1, <4>2
      <4>3. CASE i # Len(w) + 1
        <5>1. i \in 1 .. Len(w) /\ i + stats.streak > Len(w)
          BY <1>4, <3>3, <4>1, <4>3
        <5>2. w[i] = 1
          BY <1>1, <1>3, <5>1
        <5> QED BY <3>2, <5>1, <5>2
      <4> QED BY <4>2, <4>3
    <3> QED BY <3>2, <3>3
  <2> QED BY <2>1, <2>2
<1>10. new \in Stats
  <2>1. /\ new.count \in Nat /\ new.errors \in Nat /\ new.streak \in Nat
        /\ new.window \in Seq({0, 1}) /\ new.failed \in Nat
    BY <1>1, <1>2, <1>4, <1>6, <1>8
  <2> QED BY <1>2, <2>1 DEF Stats
<1>11. StatsAgree(new)
  <2>1. {i \in DOMAIN new.window : new.window[i] = 1} = Where(new.window, {1})
    BY <1>2, <1>6, FailuresAre
  <2>2. Len(new.window) = IF new.count < WindowSize THEN new.count ELSE WindowSize
    BY <1>1, <1>2, <1>3, <1>6
  <2>3. new.streak <= new.errors /\ new.errors <= new.count
    <3>1. new.errors = stats.errors + one /\ new.count = stats.count + 1
      BY <1>2
    <3>2. stats.streak <= stats.errors /\ stats.errors <= stats.count
      BY <1>3
    <3> QED BY <1>1, <1>4, <3>1, <3>2
  <2> QED BY <1>2, <1>7, <1>9, <2>1, <2>2, <2>3 DEF StatsAgree
<1> QED BY <1>2, <1>10, <1>11 DEF new, one
\* How often an item is in a window, and in what an append drops of it and adds.
Times(s, x) == Cardinality(Where(s, {x}))
Leaves(s, x) == IF Len(s) = WindowSize /\ s[1] = x THEN 1 ELSE 0
Enters(item, x) == IF item = x THEN 1 ELSE 0

LEMMA TimesIs ==
    ASSUME NEW T, NEW s \in Seq(T), NEW x
    PROVE  /\ Times(s, x) \in Nat
           /\ Times(s, x) # 0 <=> \E i \in DOMAIN s : s[i] = x
<1>1. IsFiniteSet(Where(s, {x})) /\ Cardinality(Where(s, {x})) \in Nat
  BY WhereFinite
<1>2. Where(s, {x}) = {} <=> ~ \E i \in DOMAIN s : s[i] = x
  BY DEF Where
<1>3. Cardinality(Where(s, {x})) = 0 <=> Where(s, {x}) = {}
  BY <1>1, FS_EmptySet
<1> QED BY <1>1, <1>2, <1>3 DEF Times

LEMMA SlideTimes ==
    ASSUME WindowSize \in Nat \ {0}, NEW T, NEW s \in Seq(T), NEW item \in T, NEW x,
           Len(s) <= WindowSize
    PROVE  /\ Times(Slid(s, item), x) = Times(s, x) - Leaves(s, x) + Enters(item, x)
           /\ Times(s, x) - Leaves(s, x) \in Nat
           /\ Enters(item, x) \in {0, 1} /\ (Enters(item, x) = 1 <=> item = x)
<1>1. Times(Slid(s, item), x) = Times(s, x)
         - (IF Len(s) = WindowSize /\ s[1] \in {x} THEN 1 ELSE 0)
         + (IF item \in {x} THEN 1 ELSE 0)
  BY SlideCounts DEF Times
<1>2. Leaves(s, x) = 1 => \E i \in DOMAIN s : s[i] = x
  BY DEF Leaves
<1>3. Times(s, x) \in Nat /\ Leaves(s, x) \in {0, 1} /\ (Leaves(s, x) = 1 => Times(s, x) # 0)
  BY <1>2, TimesIs DEF Leaves
<1>4. Times(s, x) - Leaves(s, x) \in Nat
  BY <1>3
<1>5. /\ (IF Len(s) = WindowSize /\ s[1] \in {x} THEN 1 ELSE 0) = Leaves(s, x)
      /\ (IF item \in {x} THEN 1 ELSE 0) = Enters(item, x)
      /\ Enters(item, x) \in {0, 1} /\ (Enters(item, x) = 1 <=> item = x)
  BY DEF Leaves, Enters
<1> QED BY <1>1, <1>4, <1>5

\* A bag that counts the items of a sequence.
Tallies(B, s) ==
    /\ \A x : x \in DOMAIN B <=> \E i \in DOMAIN s : s[i] = x
    /\ \A x \in DOMAIN B : B[x] = Times(s, x)

LEMMA TallyAgreesIs ==
    ASSUME NEW T, NEW tally, tally.items \in Seq(T)
    PROVE  TallyAgrees(tally) <=> Tallies(tally.counts, tally.items)
<1>1. \A x : Cardinality({i \in DOMAIN tally.items : tally.items[i] = x}) = Times(tally.items, x)
  BY DEF Where, Times
<1>2. DOMAIN tally.counts = {tally.items[i] : i \in DOMAIN tally.items}
         <=> \A x : x \in DOMAIN tally.counts <=> \E i \in DOMAIN tally.items : tally.items[i] = x
  OBVIOUS
<1> QED BY <1>1, <1>2 DEF TallyAgrees, Tallies, BagToSet

LEMMA TalliedAgrees ==
    ASSUME WindowSize \in Nat \ {0}, NEW T, NEW tally, NEW item \in T,
           tally.items \in Seq(T), Len(tally.items) <= WindowSize, TallyAgrees(tally)
    PROVE  /\ Tallied(tally, item).items \in Seq(T)
           /\ Len(Tallied(tally, item).items) <= WindowSize
           /\ TallyAgrees(Tallied(tally, item))
<1> DEFINE s == tally.items
           B == tally.counts
           new == Tallied(tally, item)
           kept == IF Len(s) = WindowSize THEN B (-) SetToBag({Head(s)}) ELSE B
<1>1. new.items = Slid(s, item) /\ new.counts = kept (+) SetToBag({item})
  BY DEF Tallied
<1>2. Tallies(B, s)
  BY TallyAgreesIs
<1>3. /\ Slid(s, item) \in Seq(T)
      /\ Len(Slid(s, item)) = IF Len(s) = WindowSize THEN WindowSize ELSE Len(s) + 1
  BY SlideCounts
<1>4. \A x : /\ x \in DOMAIN kept <=> Times(s, x) - Leaves(s, x) # 0
             /\ x \in DOMAIN kept => kept[x] = Times(s, x) - Leaves(s, x)
  <2> TAKE x
  <2>1. /\ x \in DOMAIN B <=> Times(s, x) # 0
        /\ x \in DOMAIN B => B[x] = Times(s, x)
        /\ Times(s, x) \in Nat /\ Times(s, x) - Leaves(s, x) \in Nat
    BY <1>2, TimesIs, SlideTimes DEF Tallies
  <2>2. CASE Len(s) = WindowSize
    <3>1. s # << >> /\ Head(s) = s[1] /\ Leaves(s, x) = IF x = s[1] THEN 1 ELSE 0
      BY <2>2 DEF Leaves
    <3>2. kept = B (-) SetToBag({s[1]})
      BY <2>2, <3>1
    <3> HIDE DEF kept, s, B
    <3>3. /\ x \in DOMAIN kept <=> x \in DOMAIN B /\ (IF x = s[1] THEN B[x] - 1 ELSE B[x]) > 0
          /\ x \in DOMAIN kept => kept[x] = IF x = s[1] THEN B[x] - 1 ELSE B[x]
      BY <3>2 DEF (-), SetToBag
    <3> QED BY <2>1, <3>1, <3>3
  <2>3. CASE Len(s) # WindowSize
    <3>1. kept = B /\ Leaves(s, x) = 0
      BY <2>3 DEF Leaves
    <3> HIDE DEF kept, s, B
    <3> QED BY <2>1, <3>1
  <2> QED BY <2>2, <2>3
<1>h. WindowSize \in Nat \ {0} /\ s \in Seq(T) /\ Len(s) <= WindowSize
  OBVIOUS
<1> HIDE DEF kept, new, s, B
<1>5. \A x : /\ x \in DOMAIN new.counts <=> Times(Slid(s, item), x) # 0
             /\ x \in DOMAIN new.counts => new.counts[x] = Times(Slid(s, item), x)
  <2> TAKE x
  <2>1. /\ x \in DOMAIN new.counts <=> x \in DOMAIN kept \/ x = item
        /\ x \in DOMAIN new.counts =>
              new.counts[x] = (IF x \in DOMAIN kept THEN kept[x] ELSE 0) + Enters(item, x)
    BY <1>1 DEF (+), SetToBag, Enters
  <2>2. /\ Times(Slid(s, item), x) = Times(s, x) - Leaves(s, x) + Enters(item, x)
        /\ Times(s, x) - Leaves(s, x) \in Nat
        /\ Enters(item, x) \in {0, 1} /\ (Enters(item, x) = 1 <=> item = x)
    BY <1>h, SlideTimes
  <2>3. /\ x \in DOMAIN kept <=> Times(s, x) - Leaves(s, x) # 0
        /\ x \in DOMAIN kept => kept[x] = Times(s, x) - Leaves(s, x)
    BY <1>4
  <2> QED BY <2>1, <2>2, <2>3
<1>6. Tallies(new.counts, new.items)
  <2>1. \A x : x \in DOMAIN new.counts <=> \E i \in DOMAIN new.items : new.items[i] = x
    <3> TAKE x
    <3>1. Times(new.items, x) # 0 <=> \E i \in DOMAIN new.items : new.items[i] = x
      BY <1>1, <1>3, TimesIs
    <3> QED BY <1>1, <1>5, <3>1
  <2>2. \A x \in DOMAIN new.counts : new.counts[x] = Times(new.items, x)
    BY <1>1, <1>5
  <2> QED BY <2>1, <2>2 DEF Tallies
<1> QED BY <1>1, <1>3, <1>6, <1>h, TallyAgreesIs DEF new
-----------------------------------------------------------------------------
(* Sums.                                                                   *)

\* A set of finite sets has one with the fewest elements.
LEMMA FewestElements ==
    ASSUME NEW T, T # {}, \A s \in T : IsFiniteSet(s)
    PROVE  \E s \in T : \A t \in T : Cardinality(s) <= Cardinality(t)
<1> DEFINE N == {Cardinality(s) : s \in T}
<1>1. N \in SUBSET Nat /\ N # {}
  BY FS_CardinalityType
<1>2. PICK n \in N : \A m \in N : n <= m
  BY <1>1, NatLeast
<1> QED BY <1>2

\* What the definition of a sum chooses: a function on the subsets of S that adds
\* one element at a time.
Chosen(s) == CHOOSE y \in s : TRUE
Adds(f, g, s) == IF s = {} THEN 0 ELSE f[Chosen(s)] + g[s \ {Chosen(s)}]
Sums(f, S, g) == g = [s \in SUBSET S |-> Adds(f, g, s)]

LEMMA ChosenIn == \A s : s # {} => Chosen(s) \in s
BY DEF Chosen

LEMMA SumIs ==
    ASSUME NEW f, NEW S
    PROVE  SumFunctionOnSet(f, S) = (CHOOSE g : Sums(f, S, g))[S]
BY DEF SumFunctionOnSet, FoldFunctionOnSet, MapThenFoldSet, Sums, Adds, Chosen

\* There is one: the sums over sets of up to n elements give those over n + 1.
LEMMA SumsExist ==
    ASSUME NEW f, NEW S, IsFiniteSet(S)
    PROVE  \E g : Sums(f, S, g)
<1> DEFINE Low(n) == {s \in SUBSET S : Cardinality(s) <= n}
           Below(n, g) == g = [s \in Low(n) |-> Adds(f, g, s)]
           Bad == {n \in Nat : ~ \E g : Below(n, g)}
<1>1. \A s \in SUBSET S : IsFiniteSet(s) /\ Cardinality(s) \in Nat /\ Cardinality(s) <= Cardinality(S)
  BY FS_Subset, FS_CardinalityType
<1>2. ASSUME NEW s \in SUBSET S, s # {}
      PROVE  s \ {Chosen(s)} \in SUBSET S /\ Cardinality(s \ {Chosen(s)}) = Cardinality(s) - 1
  BY <1>1, <1>2, ChosenIn, FS_RemoveElement
<1>3. Below(0, [s \in Low(0) |-> 0])
  <2>1. \A s \in Low(0) : s = {}
    BY <1>1, FS_EmptySet
  <2> QED BY <2>1 DEF Adds
<1>4. ASSUME NEW n \in Nat, NEW g, Below(n, g)
      PROVE  \E h : Below(n + 1, h)
  <2> DEFINE h == [s \in Low(n + 1) |-> Adds(f, g, s)]
  <2>1. \A s \in Low(n) : s \in Low(n + 1) /\ h[s] = g[s]
    BY <1>1, <1>4
  <2>2. ASSUME NEW s \in Low(n + 1) PROVE Adds(f, g, s) = Adds(f, h, s)
    <3>1. s # {} => s \ {Chosen(s)} \in Low(n)
      BY <1>1, <1>2
    <3> HIDE DEF h, Low
    <3> QED BY <2>1, <3>1 DEF Adds
  <2>3. h = [s \in Low(n + 1) |-> Adds(f, h, s)]
    BY <2>2
  <2> HIDE DEF h
  <2> QED BY <2>3
<1>5. Bad = {}
  <2> HIDE DEF Low
  <2> SUFFICES ASSUME Bad # {} PROVE FALSE
    OBVIOUS
  <2>1. PICK n \in Bad : \A m \in Bad : n <= m
    BY NatLeast
  <2>2. n # 0
    BY <1>3
  <2>3. n - 1 \in Nat /\ n - 1 \notin Bad
    BY <2>1, <2>2
  <2>4. PICK g : Below(n - 1, g)
    BY <2>3
  <2>5. \E h : Below((n - 1) + 1, h)
    BY <1>4, <2>3, <2>4
  <2> QED BY <2>1, <2>5
<1>6. Cardinality(S) \in Nat
  BY FS_CardinalityType
<1>7. PICK g : Below(Cardinality(S), g)
  BY <1>5, <1>6
<1>8. Low(Cardinality(S)) = SUBSET S
  BY <1>1
<1> QED BY <1>7, <1>8 DEF Sums

\* Any element may be added last.
LEMMA SumsAdd ==
    ASSUME NEW f, NEW S, IsFiniteSet(S), \A x \in S : f[x] \in Nat, NEW g, Sums(f, S, g)
    PROVE  \A s \in SUBSET S :
              /\ g[s] \in Nat
              /\ s = {} => g[s] = 0
              /\ \A x \in s : g[s] = f[x] + g[s \ {x}]
<1> DEFINE Good(s) == /\ g[s] \in Nat
                      /\ s = {} => g[s] = 0
                      /\ \A x \in s : g[s] = f[x] + g[s \ {x}]
           Bad == {s \in SUBSET S : ~Good(s)}
<1>1. \A s \in SUBSET S : IsFiniteSet(s) /\ Cardinality(s) \in Nat
  BY FS_Subset, FS_CardinalityType
<1>2. \A s \in SUBSET S : g[s] = Adds(f, g, s)
  BY DEF Sums
<1> SUFFICES ASSUME Bad # {} PROVE FALSE
  OBVIOUS
<1>3. PICK s \in Bad : \A t \in Bad : Cardinality(s) <= Cardinality(t)
  BY <1>1, FewestElements
<1>4. s # {}
  BY <1>2 DEF Adds
<1> DEFINE c == Chosen(s)
<1>5. c \in s /\ g[s] = f[c] + g[s \ {c}]
  BY <1>2, <1>4, ChosenIn DEF Adds
<1>6. ASSUME NEW x \in s PROVE s \ {x} \in SUBSET S /\ Good(s \ {x})
  <2>1. Cardinality(s \ {x}) < Cardinality(s) /\ s \ {x} \in SUBSET S
    BY <1>1, <1>6, FS_RemoveElement
  <2>2. s \ {x} \notin Bad
    <3>1. ~(Cardinality(s) <= Cardinality(s \ {x}))
      BY <1>1, <2>1
    <3> QED BY <1>3, <3>1
  <2> QED BY <2>1, <2>2
<1> HIDE DEF c
<1>7. ASSUME NEW x \in s PROVE g[s] = f[x] + g[s \ {x}]
  <2>1. CASE x = c
    BY <1>5, <2>1
  <2>2. CASE x # c
    <3>1. /\ g[s \ {c}] = f[x] + g[(s \ {c}) \ {x}]
          /\ g[s \ {x}] = f[c] + g[(s \ {x}) \ {c}]
      BY <1>5, <1>6, <2>2
    <3>2. (s \ {c}) \ {x} = (s \ {x}) \ {c}
      OBVIOUS
    <3>3. g[(s \ {x}) \ {c}] \in Nat /\ f[x] \in Nat /\ f[c] \in Nat
      <4>1. (s \ {x}) \in SUBSET S /\ c \in s \ {x} /\ Good(s \ {x}) /\ Good(s \ {c})
        BY <1>5, <1>6, <2>2
      <4>2. (s \ {x}) \ {c} \notin Bad
        <5>1. IsFiniteSet(s) /\ x \in s /\ IsFiniteSet(s \ {x}) /\ Cardinality(s) \in Nat
          BY <1>1, <4>1
        <5>2. /\ Cardinality(s \ {x}) = Cardinality(s) - 1
              /\ Cardinality((s \ {x}) \ {c}) = Cardinality(s \ {x}) - 1
          BY <4>1, <5>1, FS_RemoveElement
        <5>3. ~(Cardinality(s) <= Cardinality((s \ {x}) \ {c}))
          BY <5>1, <5>2
        <5> QED BY <1>3, <5>3
      <4>3. (s \ {x}) \ {c} \in SUBSET S /\ x \in S /\ c \in S
        BY <1>5
      <4> QED BY <4>2, <4>3
    <3>4. g[s] = f[c] + (f[x] + g[(s \ {x}) \ {c}]) /\ g[s \ {x}] = f[c] + g[(s \ {x}) \ {c}]
      BY <1>5, <3>1, <3>2
    <3> HIDE DEF Good, Bad
    <3> QED BY <3>3, <3>4
  <2> QED BY <2>1, <2>2
<1>8. g[s] \in Nat
  <2>1. f[c] \in Nat /\ g[s \ {c}] \in Nat
    BY <1>5, <1>6
  <2> QED BY <1>5, <2>1
<1> QED BY <1>4, <1>7, <1>8

\* Sums depend on the terms only.
LEMMA SumsAgree ==
    ASSUME NEW f, NEW S, NEW g, Sums(f, S, g),
           NEW e, NEW T, NEW h, Sums(e, T, h),
           NEW R, IsFiniteSet(R), R \subseteq S, R \subseteq T, \A x \in R : f[x] = e[x]
    PROVE  g[R] = h[R]
<1> DEFINE Bad == {s \in SUBSET R : g[s] # h[s]}
<1>1. \A s \in SUBSET R : /\ IsFiniteSet(s) /\ Cardinality(s) \in Nat
                         /\ g[s] = Adds(f, g, s) /\ h[s] = Adds(e, h, s)
  BY FS_Subset, FS_CardinalityType DEF Sums
<1>2. Bad = {}
  <2> SUFFICES ASSUME Bad # {} PROVE FALSE
    OBVIOUS
  <2>1. PICK s \in Bad : \A t \in Bad : Cardinality(s) <= Cardinality(t)
    BY <1>1, FewestElements
  <2>2. s # {}
    BY <1>1, <2>1 DEF Adds
  <2>3. Chosen(s) \in s /\ Cardinality(s \ {Chosen(s)}) < Cardinality(s)
    BY <1>1, <2>2, ChosenIn, FS_RemoveElement
  <2>4. s \ {Chosen(s)} \notin Bad
    BY <1>1, <2>1, <2>3
  <2>5. g[s \ {Chosen(s)}] = h[s \ {Chosen(s)}] /\ f[Chosen(s)] = e[Chosen(s)]
    BY <2>3, <2>4
  <2> QED BY <1>1, <2>1, <2>2, <2>5 DEF Adds
<1> QED BY <1>2

LEMMA SumEmpty ==
    ASSUME NEW f, DOMAIN f = {}
    PROVE  SumFunction(f) = 0
<1>1. SumFunction(f) = SumFunctionOnSet(f, {})
  BY DEF SumFunction
<1>2. PICK g : Sums(f, {}, g) /\ SumFunctionOnSet(f, {}) = g[{}]
  BY SumsExist, SumIs, FS_EmptySet
<1> QED BY <1>1, <1>2 DEF Sums, Adds

LEMMA SumsAddOne ==
    ASSUME NEW S, IsFiniteSet(S), NEW f \in [S -> Nat], NEW g, Sums(f, S, g), NEW x \in S
    PROVE  g[S] \in Nat /\ g[S \ {x}] \in Nat /\ g[S] = f[x] + g[S \ {x}]
<1>1. \A y \in S : f[y] \in Nat
  OBVIOUS
<1>2. \A s \in SUBSET S : g[s] \in Nat /\ \A y \in s : g[s] = f[y] + g[s \ {y}]
  BY <1>1, SumsAdd
<1> QED BY <1>2

LEMMA SumsAny ==
    ASSUME NEW S, IsFiniteSet(S), NEW f \in [S -> Nat], NEW g, Sums(f, S, g)
    PROVE  g[S] \in Nat
<1>1. \A y \in S : f[y] \in Nat
  OBVIOUS
<1>2. \A s \in SUBSET S : g[s] \in Nat
  BY <1>1, SumsAdd
<1> QED BY <1>2

\* A sum, with one of its terms apart.
LEMMA SumWith ==
    ASSUME NEW S, IsFiniteSet(S), NEW f \in [S -> Nat], NEW k \in S
    PROVE  \E g : /\ Sums(f, S, g) /\ SumFunction(f) = g[S]
                 /\ g[S] = f[k] + g[S \ {k}] /\ g[S \ {k}] \in Nat
<1>1. PICK g : Sums(f, S, g) /\ SumFunction(f) = g[S]
  BY SumsExist, SumIs DEF SumFunction
<1>2. g[S] = f[k] + g[S \ {k}] /\ g[S \ {k}] \in Nat
  <2>1. Sums(f, S, g)
    BY <1>1
  <2>2. g[S] = f[k] + g[S \ {k}]
    BY <2>1, SumsAddOne
  <2>3. g[S \ {k}] \in Nat
    BY <2>1, SumsAddOne
  <2> QED BY <2>2, <2>3
<1> QED BY <1>1, <1>2

LEMMA SumAny ==
    ASSUME NEW S, IsFiniteSet(S), NEW f \in [S -> Nat]
    PROVE  \E g : Sums(f, S, g) /\ SumFunction(f) = g[S] /\ g[S] \in Nat
<1>1. PICK g : Sums(f, S, g) /\ SumFunction(f) = g[S]
  BY SumsExist, SumIs DEF SumFunction
<1>2. g[S] \in Nat
  BY <1>1, SumsAny
<1> QED BY <1>1, <1>2

\* Another term.
LEMMA SumChanges ==
    ASSUME NEW D, IsFiniteSet(D), NEW f \in [D -> Nat], NEW h \in [D -> Nat], NEW k \in D,
           \A x \in D : x # k => h[x] = f[x]
    PROVE  SumFunction(f) \in Nat /\ SumFunction(h) = SumFunction(f) - f[k] + h[k]
<1> DEFINE R == D \ {k}
<1>1. PICK g : /\ Sums(f, D, g) /\ SumFunction(f) = g[D] /\ g[D] = f[k] + g[R] /\ g[R] \in Nat
  BY SumWith
<1>2. PICK i : /\ Sums(h, D, i) /\ SumFunction(h) = i[D] /\ i[D] = h[k] + i[R] /\ i[R] \in Nat
  BY SumWith
<1>3. IsFiniteSet(R)
  BY FS_RemoveElement
<1>4. g[R] = i[R]
  BY <1>1, <1>2, <1>3, SumsAgree
<1> HIDE DEF R
<1> QED BY <1>1, <1>2, <1>4

\* One term more.
LEMMA SumGrows ==
    ASSUME NEW D, IsFiniteSet(D), NEW f \in [D -> Nat],
           NEW E, NEW h \in [E -> Nat], NEW k \in E, k \notin D, E \ {k} = D,
           \A x \in D : h[x] = f[x]
    PROVE  SumFunction(f) \in Nat /\ SumFunction(h) = SumFunction(f) + h[k]
<1>1. PICK g : Sums(f, D, g) /\ SumFunction(f) = g[D] /\ g[D] \in Nat
  BY SumAny
<1>2. IsFiniteSet(E) /\ D \subseteq E
  <2>1. E = D \cup {k}
    OBVIOUS
  <2> QED BY <2>1, FS_AddElement
<1>3. PICK i : /\ Sums(h, E, i) /\ SumFunction(h) = i[E] /\ i[E] = h[k] + i[E \ {k}]
  BY <1>2, SumWith
<1>4. g[D] = i[D]
  BY <1>1, <1>2, <1>3, SumsAgree
<1>5. i[E \ {k}] = i[D] /\ h[k] \in Nat
  OBVIOUS
<1>6. SumFunction(h) = h[k] + i[D] /\ i[D] = SumFunction(f) /\ i[D] \in Nat
  BY <1>1, <1>3, <1>4, <1>5
<1> QED BY <1>5, <1>6

-----------------------------------------------------------------------------
(* Each request is recorded once.                                          *)

SlotType == [phase : Phase, route : Route, status : Code \cup {499, 500},
             started : BOOLEAN, done : BOOLEAN, gone : BOOLEAN]

RequestTypes ==
    /\ req \in [Request -> SlotType]
    /\ gen \in [Request -> {"none", "running", "thrown", "suspended", "closing", "over"}]
    /\ recorded \in [Request -> Nat]
    /\ observed \in [Request -> [handler : Nat, generator : Nat]]

\* How often the middleware records a request, unless it is cancelled.
Due(r) == IF req[r].route \in HealthRoute THEN 0 ELSE 1

\* The middleware records a request as its last chunk has been sent, or as the
\* application is through if it never was; that the chunk was sent, `done` says.
RecordInv(r) ==
    /\ req[r].phase \in {"idle", "routed", "handler", "counted", "last"} => recorded[r] = 0
    /\ req[r].phase = "app" => recorded[r] = IF req[r].done THEN Due(r) ELSE 0
    /\ req[r].phase = "over" => recorded[r] = Due(r)
    /\ req[r].phase = "cancelled" => recorded[r] <= Due(r)
    /\ req[r].phase \in {"routed", "handler", "counted"} => ~req[r].done
    /\ req[r].phase = "last" => req[r].done

ObserveInv(r) ==
    /\ observed[r].handler <= 1 /\ observed[r].generator <= 1
    /\ req[r].phase \in {"routed", "handler", "counted"} => observed[r].handler = 0
    /\ gen[r] # "over" => observed[r].generator = 0

RequestInv == RequestTypes /\ \A r \in Request : RecordInv(r) /\ ObserveInv(r)

LEMMA RequestInvInit == RequestsInit => RequestInv
<1> SUFFICES ASSUME RequestsInit PROVE RequestInv
  OBVIOUS
<1>1. (CHOOSE route \in Route : TRUE) \in Route
  BY RouteAssumption
<1> QED BY <1>1 DEF RequestsInit, RequestInv, RequestTypes, SlotType, Slot, Phase, RecordInv, ObserveInv, Due

LEMMA RequestInvImplies == RequestInv => RecordedOnce
BY DEF RequestInv, RequestTypes, SlotType, Phase, RecordInv, ObserveInv, Due, RecordedOnce

\* Recording counts for a request what is due.
LEMMA RecordCounts ==
    ASSUME RequestTypes, NEW r \in Request, NEW status, Record(r, status)
    PROVE  recorded' = [recorded EXCEPT ![r] = @ + Due(r)]
BY DEF RequestTypes, Record, Due, routeVars

LEMMA SlotMoves ==
    ASSUME req \in [Request -> SlotType], NEW r \in Request
    PROVE  /\ \A to \in Phase : [req EXCEPT ![r].phase = to] \in [Request -> SlotType]
           /\ [req EXCEPT ![r].gone = TRUE] \in [Request -> SlotType]
<1>1. PICK p \in Phase, t \in Route, c \in Code \cup {499, 500},
           s \in BOOLEAN, d \in BOOLEAN, g \in BOOLEAN :
         req[r] = [phase |-> p, route |-> t, status |-> c, started |-> s, done |-> d, gone |-> g]
  BY DEF SlotType
<1>2. ASSUME NEW to \in Phase PROVE [req EXCEPT ![r].phase = to] \in [Request -> SlotType]
  <2>1. [req[r] EXCEPT !.phase = to] =
           [phase |-> to, route |-> t, status |-> c, started |-> s, done |-> d, gone |-> g]
    BY <1>1
  <2>2. [req[r] EXCEPT !.phase = to] \in SlotType
    BY <2>1 DEF SlotType
  <2> QED BY <2>2
<1>3. [req EXCEPT ![r].gone = TRUE] \in [Request -> SlotType]
  <2>1. PICK true \in BOOLEAN : true = TRUE
    OBVIOUS
  <2>2. [req[r] EXCEPT !.gone = true] =
           [phase |-> p, route |-> t, status |-> c, started |-> s, done |-> d, gone |-> true]
    BY <1>1
  <2>3. [req[r] EXCEPT !.gone = true] \in SlotType
    BY <2>2 DEF SlotType
  <2>4. [req EXCEPT ![r].gone = true] \in [Request -> SlotType]
    BY <2>3
  <2> QED BY <2>1, <2>4
<1> QED BY <1>2, <1>3

LEMMA RequestInvArrive ==
    ASSUME RequestInv, NEW r \in Request, NEW route \in Route, Arrive(r, route)
    PROVE  RequestInv'
<1>1. RequestTypes'
  BY DEF RequestInv, RequestTypes, SlotType, Phase, Due, Arrive, routeVars, genVars, Slot
<1>2. ASSUME NEW q \in Request PROVE RecordInv(q)' /\ ObserveInv(q)'
  <2>1. RequestTypes /\ RecordInv(q) /\ ObserveInv(q)
    BY DEF RequestInv
  <2>2. CASE q = r
    BY <2>1, <2>2 DEF RequestTypes, SlotType, Phase, RecordInv, ObserveInv, Due, Arrive, routeVars, genVars, Slot
  <2>3. CASE q # r
    BY <2>1, <2>3 DEF RequestTypes, SlotType, Phase, RecordInv, ObserveInv, Due, Arrive, routeVars, genVars, Slot
  <2> QED BY <2>2, <2>3
<1> QED BY <1>1, <1>2 DEF RequestInv

LEMMA RequestInvAppStarts ==
    ASSUME RequestInv, NEW r \in Request, NEW code \in Code, NEW fails \in BOOLEAN, AppStarts(r, code, fails)
    PROVE  RequestInv'
<1>1. RequestTypes'
  BY DEF RequestInv, RequestTypes, SlotType, Phase, Due, AppStarts, routeVars, genVars, InApp, Unrecorded
<1>2. ASSUME NEW q \in Request PROVE RecordInv(q)' /\ ObserveInv(q)'
  <2>1. RequestTypes /\ RecordInv(q) /\ ObserveInv(q)
    BY DEF RequestInv
  <2>2. CASE q = r
    BY <2>1, <2>2 DEF RequestTypes, SlotType, Phase, RecordInv, ObserveInv, Due, AppStarts, routeVars, genVars, InApp, Unrecorded
  <2>3. CASE q # r
    BY <2>1, <2>3 DEF RequestTypes, SlotType, Phase, RecordInv, ObserveInv, Due, AppStarts, routeVars, genVars, InApp, Unrecorded
  <2> QED BY <2>2, <2>3
<1> QED BY <1>1, <1>2 DEF RequestInv

LEMMA RequestInvAppSendFails ==
    ASSUME RequestInv, NEW r \in Request, AppSendFails(r)
    PROVE  RequestInv'
<1>1. RequestTypes'
  <2>1. req' \in [Request -> SlotType]
    BY SlotMoves DEF RequestInv, RequestTypes, Phase, AppSendFails
  <2> QED BY <2>1 DEF RequestInv, RequestTypes, Due, AppSendFails, routeVars, genVars, InApp, Unrecorded
<1>2. ASSUME NEW q \in Request PROVE RecordInv(q)' /\ ObserveInv(q)'
  <2>1. RequestTypes /\ RecordInv(q) /\ ObserveInv(q)
    BY DEF RequestInv
  <2>2. CASE q = r
    BY <2>1, <2>2 DEF RequestTypes, SlotType, Phase, RecordInv, ObserveInv, Due, AppSendFails, routeVars, genVars, InApp, Unrecorded
  <2>3. CASE q # r
    BY <2>1, <2>3 DEF RequestTypes, SlotType, Phase, RecordInv, ObserveInv, Due, AppSendFails, routeVars, genVars, InApp, Unrecorded
  <2> QED BY <2>2, <2>3
<1> QED BY <1>1, <1>2 DEF RequestInv

LEMMA RequestInvAppSendsLast ==
    ASSUME RequestInv, NEW r \in Request, AppSendsLast(r)
    PROVE  RequestInv'
<1>1. RequestTypes'
  BY DEF RequestInv, RequestTypes, SlotType, Phase, Due, AppSendsLast, routeVars, genVars, InApp, Unrecorded
<1>2. ASSUME NEW q \in Request PROVE RecordInv(q)' /\ ObserveInv(q)'
  <2>1. RequestTypes /\ RecordInv(q) /\ ObserveInv(q)
    BY DEF RequestInv
  <2>2. CASE q = r
    BY <2>1, <2>2 DEF RequestTypes, SlotType, Phase, RecordInv, ObserveInv, Due, AppSendsLast, routeVars, genVars, InApp, Unrecorded
  <2>3. CASE q # r
    BY <2>1, <2>3 DEF RequestTypes, SlotType, Phase, RecordInv, ObserveInv, Due, AppSendsLast, routeVars, genVars, InApp, Unrecorded
  <2> QED BY <2>2, <2>3
<1> QED BY <1>1, <1>2 DEF RequestInv

LEMMA RequestInvLastSent ==
    ASSUME RequestInv, NEW r \in Request, LastSent(r)
    PROVE  RequestInv'
<1>1. RequestTypes'
  <2>1. req' \in [Request -> SlotType]
    BY SlotMoves DEF RequestInv, RequestTypes, Phase, LastSent
  <2> QED BY RecordCounts, <2>1 DEF RequestInv, RequestTypes, Due, LastSent, routeVars, genVars
<1>2. ASSUME NEW q \in Request PROVE RecordInv(q)' /\ ObserveInv(q)'
  <2>1. RequestTypes /\ RecordInv(q) /\ ObserveInv(q)
    BY DEF RequestInv
  <2>2. CASE q = r
    BY RecordCounts, <2>1, <2>2 DEF RequestTypes, SlotType, Phase, RecordInv, ObserveInv, Due, LastSent, routeVars, genVars
  <2>3. CASE q # r
    BY RecordCounts, <2>1, <2>3 DEF RequestTypes, SlotType, Phase, RecordInv, ObserveInv, Due, LastSent, routeVars, genVars
  <2> QED BY <2>2, <2>3
<1> QED BY <1>1, <1>2 DEF RequestInv

LEMMA RequestInvAppReturns ==
    ASSUME RequestInv, NEW r \in Request, AppReturns(r)
    PROVE  RequestInv'
<1>1. RequestTypes'
  BY RecordCounts DEF RequestInv, RequestTypes, SlotType, Phase, Due, AppReturns, routeVars, genVars, InApp, Slot
<1>2. ASSUME NEW q \in Request PROVE RecordInv(q)' /\ ObserveInv(q)'
  <2>1. RequestTypes /\ RecordInv(q) /\ ObserveInv(q)
    BY DEF RequestInv
  <2>2. CASE q = r
    BY RecordCounts, <2>1, <2>2 DEF RequestTypes, SlotType, Phase, RecordInv, ObserveInv, Due, AppReturns, routeVars, genVars, InApp, Slot
  <2>3. CASE q # r
    BY RecordCounts, <2>1, <2>3 DEF RequestTypes, SlotType, Phase, RecordInv, ObserveInv, Due, AppReturns, routeVars, genVars, InApp, Slot
  <2> QED BY <2>2, <2>3
<1> QED BY <1>1, <1>2 DEF RequestInv

LEMMA RequestInvAppRaises ==
    ASSUME RequestInv, NEW r \in Request, NEW disconnect \in BOOLEAN, AppRaises(r, disconnect)
    PROVE  RequestInv'
<1>1. RequestTypes'
  <2>1. req' \in [Request -> SlotType]
    BY DEF RequestInv, RequestTypes, SlotType, Phase, AppRaises, Slot
  <2>2. UNCHANGED recorded \/ recorded' = [recorded EXCEPT ![r] = @ + Due(r)]
    BY RecordCounts DEF RequestInv, AppRaises, routeVars
  <2> QED BY <2>1, <2>2 DEF RequestInv, RequestTypes, Due, AppRaises, genVars
<1>2. ASSUME NEW q \in Request PROVE RecordInv(q)' /\ ObserveInv(q)'
  <2>1. RequestTypes /\ RecordInv(q) /\ ObserveInv(q)
    BY DEF RequestInv
  <2>2. CASE q = r
    BY RecordCounts, <2>1, <2>2 DEF RequestTypes, SlotType, Phase, RecordInv, ObserveInv, Due, AppRaises, routeVars, genVars, InApp, Slot, Failure
  <2>3. CASE q # r
    BY RecordCounts, <2>1, <2>3 DEF RequestTypes, SlotType, Phase, RecordInv, ObserveInv, Due, AppRaises, routeVars, genVars, InApp, Slot, Failure
  <2> QED BY <2>2, <2>3
<1> QED BY <1>1, <1>2 DEF RequestInv

LEMMA RequestInvCancelled ==
    ASSUME RequestInv, NEW r \in Request, Cancelled(r)
    PROVE  RequestInv'
<1>1. RequestTypes'
  BY RecordCounts DEF RequestInv, RequestTypes, SlotType, Phase, Due, Cancelled, routeVars, genVars, Slot
<1>2. ASSUME NEW q \in Request PROVE RecordInv(q)' /\ ObserveInv(q)'
  <2>1. RequestTypes /\ RecordInv(q) /\ ObserveInv(q)
    BY DEF RequestInv
  <2>2. CASE q = r
    BY RecordCounts, <2>1, <2>2 DEF RequestTypes, SlotType, Phase, RecordInv, ObserveInv, Due, Cancelled, routeVars, genVars, Slot
  <2>3. CASE q # r
    BY RecordCounts, <2>1, <2>3 DEF RequestTypes, SlotType, Phase, RecordInv, ObserveInv, Due, Cancelled, routeVars, genVars, Slot
  <2> QED BY <2>2, <2>3
<1> QED BY <1>1, <1>2 DEF RequestInv

LEMMA RequestInvSkipHandler ==
    ASSUME RequestInv, NEW r \in Request, SkipHandler(r)
    PROVE  RequestInv'
<1>1. RequestTypes'
  BY DEF RequestInv, RequestTypes, SlotType, Phase, Due, SkipHandler, routeVars, genVars, Unrecorded
<1>2. ASSUME NEW q \in Request PROVE RecordInv(q)' /\ ObserveInv(q)'
  <2>1. RequestTypes /\ RecordInv(q) /\ ObserveInv(q)
    BY DEF RequestInv
  <2>2. CASE q = r
    BY <2>1, <2>2 DEF RequestTypes, SlotType, Phase, RecordInv, ObserveInv, Due, SkipHandler, routeVars, genVars, Unrecorded
  <2>3. CASE q # r
    BY <2>1, <2>3 DEF RequestTypes, SlotType, Phase, RecordInv, ObserveInv, Due, SkipHandler, routeVars, genVars, Unrecorded
  <2> QED BY <2>2, <2>3
<1> QED BY <1>1, <1>2 DEF RequestInv

LEMMA RequestInvHandlerStarts ==
    ASSUME RequestInv, NEW r \in Request, HandlerStarts(r)
    PROVE  RequestInv'
<1>1. RequestTypes'
  <2>1. req' \in [Request -> SlotType]
    BY SlotMoves DEF RequestInv, RequestTypes, Phase, HandlerStarts
  <2> QED BY <2>1 DEF RequestInv, RequestTypes, Due, HandlerStarts, routeVars, genVars
<1>2. ASSUME NEW q \in Request PROVE RecordInv(q)' /\ ObserveInv(q)'
  <2>1. RequestTypes /\ RecordInv(q) /\ ObserveInv(q)
    BY DEF RequestInv
  <2>2. CASE q = r
    BY <2>1, <2>2 DEF RequestTypes, SlotType, Phase, RecordInv, ObserveInv, Due, HandlerStarts, routeVars, genVars
  <2>3. CASE q # r
    BY <2>1, <2>3 DEF RequestTypes, SlotType, Phase, RecordInv, ObserveInv, Due, HandlerStarts, routeVars, genVars
  <2> QED BY <2>2, <2>3
<1> QED BY <1>1, <1>2 DEF RequestInv

LEMMA RequestInvCacheCounts ==
    ASSUME RequestInv, NEW r \in Request, NEW what, CacheCounts(r, what)
    PROVE  RequestInv'
<1>1. RequestTypes'
  <2>1. req' \in [Request -> SlotType]
    BY SlotMoves DEF RequestInv, RequestTypes, Phase, CacheCounts
  <2> QED BY <2>1 DEF RequestInv, RequestTypes, Due, CacheCounts, routeVars, genVars
<1>2. ASSUME NEW q \in Request PROVE RecordInv(q)' /\ ObserveInv(q)'
  <2>1. RequestTypes /\ RecordInv(q) /\ ObserveInv(q)
    BY DEF RequestInv
  <2>2. CASE q = r
    BY <2>1, <2>2 DEF RequestTypes, SlotType, Phase, RecordInv, ObserveInv, Due, CacheCounts, routeVars, genVars
  <2>3. CASE q # r
    BY <2>1, <2>3 DEF RequestTypes, SlotType, Phase, RecordInv, ObserveInv, Due, CacheCounts, routeVars, genVars
  <2> QED BY <2>2, <2>3
<1> QED BY <1>1, <1>2 DEF RequestInv

LEMMA RequestInvHandlerReturns ==
    ASSUME RequestInv, NEW r \in Request, NEW code, HandlerReturns(r, code)
    PROVE  RequestInv'
<1>1. RequestTypes'
  <2>1. req' \in [Request -> SlotType]
    BY SlotMoves DEF RequestInv, RequestTypes, Phase, HandlerReturns
  <2> QED BY <2>1 DEF RequestInv, RequestTypes, Due, HandlerReturns, routeVars, genVars
<1>2. ASSUME NEW q \in Request PROVE RecordInv(q)' /\ ObserveInv(q)'
  <2>1. RequestTypes /\ RecordInv(q) /\ ObserveInv(q)
    BY DEF RequestInv
  <2>2. CASE q = r
    BY <2>1, <2>2 DEF RequestTypes, SlotType, Phase, RecordInv, ObserveInv, Due, HandlerReturns, routeVars, genVars
  <2>3. CASE q # r
    BY <2>1, <2>3 DEF RequestTypes, SlotType, Phase, RecordInv, ObserveInv, Due, HandlerReturns, routeVars, genVars
  <2> QED BY <2>2, <2>3
<1> QED BY <1>1, <1>2 DEF RequestInv

LEMMA RequestInvHandlerRaises ==
    ASSUME RequestInv, NEW r \in Request, NEW code, HandlerRaises(r, code)
    PROVE  RequestInv'
<1>1. RequestTypes'
  <2>1. req' \in [Request -> SlotType]
    BY SlotMoves DEF RequestInv, RequestTypes, Phase, HandlerRaises
  <2> QED BY <2>1 DEF RequestInv, RequestTypes, Due, HandlerRaises, routeVars, genVars
<1>2. ASSUME NEW q \in Request PROVE RecordInv(q)' /\ ObserveInv(q)'
  <2>1. RequestTypes /\ RecordInv(q) /\ ObserveInv(q)
    BY DEF RequestInv
  <2>2. CASE q = r
    BY <2>1, <2>2 DEF RequestTypes, SlotType, Phase, RecordInv, ObserveInv, Due, HandlerRaises, routeVars, genVars
  <2>3. CASE q # r
    BY <2>1, <2>3 DEF RequestTypes, SlotType, Phase, RecordInv, ObserveInv, Due, HandlerRaises, routeVars, genVars
  <2> QED BY <2>2, <2>3
<1> QED BY <1>1, <1>2 DEF RequestInv

\* The generator, and the sockets, which are no request's.
LEMMA RequestInvGenerator ==
    ASSUME RequestInv, NEW r \in Request,
           \/ GenStarts(r) \/ GenYields(r) \/ GenResumes(r) \/ GenThrown(r)
           \/ GenCloses(r) \/ GenDropped(r)
    PROVE  RequestInv'
BY DEF RequestInv, RequestTypes, RecordInv, ObserveInv, Due, routeVars,
       GenStarts, GenYields, GenResumes, GenThrown, GenCloses, GenDropped, GenStep

LEMMA RequestInvGenOver ==
    ASSUME RequestInv, NEW r \in Request, NEW isError, gen[r] # "over", GenOver(r, isError)
    PROVE  RequestInv'
BY DEF RequestInv, RequestTypes, RecordInv, ObserveInv, Due, routeVars, GenOver

LEMMA RequestInvUnchanged ==
    RequestInv /\ UNCHANGED <<req, gen, recorded, observed>> => RequestInv'
BY DEF RequestInv, RequestTypes, RecordInv, ObserveInv, Due

\* The actions of a request, by what they are about.
RequestStep(r) ==
    \/ \E route \in Route : Arrive(r, route)
    \/ \E code \in Code, fails \in BOOLEAN : AppStarts(r, code, fails)
    \/ AppSendFails(r) \/ AppSendsLast(r) \/ LastSent(r) \/ AppReturns(r)
    \/ \E disconnect \in BOOLEAN : AppRaises(r, disconnect)
    \/ Cancelled(r)
HandlerStep(r) ==
    \/ SkipHandler(r) \/ HandlerStarts(r)
    \/ \E what \in {"hit", "miss"} : CacheCounts(r, what)
    \/ \E code \in Code : HandlerReturns(r, code)
    \/ \E code \in {CLIENT_CLOSED_REQUEST, 500} : HandlerRaises(r, code)
GeneratorStep(r) ==
    \/ GenStarts(r) \/ GenYields(r) \/ GenResumes(r) \/ GenThrown(r)
    \/ GenCloses(r) \/ GenDropped(r)
GeneratorEnds(r) ==
    \E isError \in BOOLEAN : gen[r] # "over" /\ GenOver(r, isError)
SocketStep(s) == SocketOpens(s) \/ \E isError \in BOOLEAN : SocketCloses(s, isError)

LEMMA NextSteps ==
    ASSUME RequestsNext
    PROVE  \/ \E r \in Request : RequestStep(r)
           \/ \E r \in Request : HandlerStep(r)
           \/ \E r \in Request : GeneratorStep(r)
           \/ \E r \in Request : GeneratorEnds(r)
           \/ \E s \in Socket : SocketStep(s)
<1>1. ASSUME NEW r \in Request, GenReturns(r) \/ GenRaises(r) \/ GenRethrows(r)
      PROVE  GeneratorEnds(r)
  BY <1>1 DEF GenReturns, GenRaises, GenRethrows, GeneratorEnds
<1>2. ASSUME NEW r \in Request, GenYields(r) PROVE GeneratorStep(r)
  BY <1>2 DEF GeneratorStep
<1> QED BY <1>1, <1>2 DEF RequestsNext, RequestStep, HandlerStep, GeneratorStep, SocketStep

LEMMA RequestInvNext == RequestInv /\ [RequestsNext]_metricVars => RequestInv'
<1> SUFFICES ASSUME RequestInv, [RequestsNext]_metricVars PROVE RequestInv'
  OBVIOUS
<1>1. ASSUME NEW r \in Request, RequestStep(r) PROVE RequestInv'
  BY <1>1, RequestInvArrive, RequestInvAppStarts, RequestInvAppSendFails,
     RequestInvAppSendsLast, RequestInvLastSent, RequestInvAppReturns,
     RequestInvAppRaises, RequestInvCancelled DEF RequestStep
<1>2. ASSUME NEW r \in Request, HandlerStep(r) PROVE RequestInv'
  BY <1>2, RequestInvSkipHandler, RequestInvHandlerStarts, RequestInvCacheCounts,
     RequestInvHandlerReturns, RequestInvHandlerRaises DEF HandlerStep
<1>3. ASSUME NEW r \in Request, GeneratorStep(r) \/ GeneratorEnds(r) PROVE RequestInv'
  BY <1>3, RequestInvGenerator, RequestInvGenOver DEF GeneratorStep, GeneratorEnds
<1>4. ASSUME NEW s \in Socket, SocketStep(s) PROVE RequestInv'
  <2>1. CASE SocketOpens(s)
    BY <2>1, RequestInvUnchanged DEF SocketOpens, routeVars, genVars
  <2>2. ASSUME NEW isError \in BOOLEAN, SocketCloses(s, isError) PROVE RequestInv'
    BY <2>2, RequestInvUnchanged DEF SocketCloses, routeVars, genVars
  <2> QED BY <1>4, <2>1, <2>2 DEF SocketStep
<1>5. CASE UNCHANGED metricVars
  BY <1>5, RequestInvUnchanged DEF metricVars
<1> QED BY <1>1, <1>2, <1>3, <1>4, <1>5, NextSteps

LEMMA RequestInvAlways == RequestsSpec => []RequestInv
BY RequestInvInit, RequestInvNext, PTL DEF RequestsSpec

\* Each request is recorded once, however the application, the client, the sends
\* and the handler's and generator's wrappers interleave with other requests
\* (RequestMetricsMiddleware.__call__ and the route probe's wrappers).
THEOREM RequestsAreRecordedOnce == RequestsSpec => []RecordedOnce
BY RequestInvAlways, RequestInvImplies, PTL

-----------------------------------------------------------------------------
(* The counters agree.                                                     *)

Sound(stats) == stats \in Stats /\ StatsAgree(stats)
SoundTally(tally, T) == tally.items \in Seq(T) /\ Len(tally.items) <= WindowSize /\ TallyAgrees(tally)

RoutesInv ==
    /\ Sound(aggregate)
    /\ IsFiniteSet(DOMAIN routes)
    /\ routes = [key \in DOMAIN routes |-> routes[key]]
    /\ \A key \in DOMAIN routes : Sound(routes[key])
    /\ Cardinality(DOMAIN routes \ {OtherRoute}) <= MaxRoutes
    /\ Total("count") = aggregate.count /\ Total("errors") = aggregate.errors
    /\ aggregate.count = 0 <=> DOMAIN routes = {}

HandlersInv ==
    /\ handlers = [stats |-> handlers.stats, statuses |-> handlers.statuses,
                   types |-> handlers.types, cache |-> handlers.cache]
    /\ Sound(handlers.stats)
    /\ SoundTally(handlers.statuses, Int) /\ SoundTally(handlers.types, {"exception"})

\* Once its cache has counted a call, what it counted is among what was counted since.
CacheInv ==
    /\ seen \in [Request -> Info]
    /\ \A r \in Request :
          req[r].phase = "counted" => \/ own[r] = "hit" /\ seen[r].hits > 0
                                      \/ own[r] = "miss" /\ seen[r].misses > 0
    /\ own \in [Request -> {"none", "hit", "miss"}]
    /\ \A event \in handlers.cache : event.said = event.was

SocketsInv ==
    /\ sockets = [stats |-> sockets.stats, active |-> sockets.active, total |-> sockets.total]
    /\ Sound(sockets.stats)
    /\ IsFiniteSet(open)
    /\ sockets.active = Cardinality(open)
    /\ sockets.total = sockets.active + sockets.stats.count

CountInv == RoutesInv /\ HandlersInv /\ CacheInv /\ SocketsInv /\ Sound(streams)

LEMMA NothingAgrees ==
    /\ Sound(NoStats) /\ NoStats.count = 0 /\ NoStats.errors = 0
    /\ SoundTally(NoTally, Int) /\ SoundTally(NoTally, {"exception"})
<1>1. Sound(NoStats) /\ NoStats.count = 0 /\ NoStats.errors = 0
  BY CodeAssumption, NoStatsAgree DEF Sound, NoStats
<1>2. NoTally.items = << >> /\ NoTally.counts = EmptyBag
  BY DEF NoTally
<1>3. DOMAIN EmptyBag = {}
  BY DEF EmptyBag, SetToBag
<1>4. TallyAgrees(NoTally)
  BY <1>2, <1>3 DEF TallyAgrees, BagToSet
<1>5. << >> \in Seq(Int) /\ << >> \in Seq({"exception"}) /\ Len(<< >>) <= WindowSize
  BY CodeAssumption
<1> QED BY <1>1, <1>2, <1>4, <1>5 DEF SoundTally

LEMMA CountInvInit == RequestsInit => CountInv
<1> SUFFICES ASSUME RequestsInit PROVE CountInv
  OBVIOUS
<1>1. RoutesInv
  <2>1. routes = << >> /\ aggregate = NoStats /\ DOMAIN routes = {}
    BY DEF RequestsInit
  <2>2. routes = [key \in DOMAIN routes |-> routes[key]]
    BY <2>1
  <2>3. IsFiniteSet(DOMAIN routes) /\ Cardinality(DOMAIN routes \ {OtherRoute}) = 0
    <3>1. DOMAIN routes \ {OtherRoute} = {}
      BY <2>1
    <3> QED BY <2>1, <3>1, FS_EmptySet
  <2>4. \A field : Total(field) = 0
    BY <2>1, SumEmpty DEF Total
  <2> QED BY <2>1, <2>2, <2>3, <2>4, NothingAgrees, RouteAssumption DEF RoutesInv
<1>2. HandlersInv /\ Sound(streams)
  BY NothingAgrees DEF RequestsInit, HandlersInv
<1>3. CacheInv
  BY DEF RequestsInit, CacheInv, Slot, Info, NoInfo
<1>4. SocketsInv
  BY NothingAgrees, FS_EmptySet DEF RequestsInit, SocketsInv
<1> QED BY <1>1, <1>2, <1>3, <1>4 DEF CountInv

LEMMA SoundCounted ==
    ASSUME NEW stats, Sound(stats), NEW isError
    PROVE  /\ Sound(Counted(stats, isError))
           /\ Counted(stats, isError).count = stats.count + 1
           /\ Counted(stats, isError).errors = stats.errors + (IF isError THEN 1 ELSE 0)
           /\ stats.count \in Nat /\ stats.errors \in Nat
<1>1. stats.count \in Nat /\ stats.errors \in Nat
  BY DEF Sound, Stats
<1> QED BY <1>1, CodeAssumption, CountedAgrees DEF Sound

\* An entry's counters grow by as much as the aggregate's.
LEMMA TotalGrows ==
    ASSUME NEW field, NEW key, NEW n \in Nat, IsFiniteSet(DOMAIN routes),
           \A k \in DOMAIN routes : routes[k][field] \in Nat,
           DOMAIN routes' = DOMAIN routes \cup {key},
           \A k \in DOMAIN routes \ {key} : routes'[k] = routes[k],
           routes'[key][field] = (IF key \in DOMAIN routes THEN routes[key][field] ELSE 0) + n
    PROVE  Total(field) \in Nat /\ Total(field)' = Total(field) + n
<1> DEFINE D == DOMAIN routes
           f == [k \in D |-> routes[k][field]]
           h == [k \in D \cup {key} |-> routes'[k][field]]
<1>1. f \in [D -> Nat] /\ h \in [D \cup {key} -> Nat]
  OBVIOUS
<1>2. \A x \in D : x # key => h[x] = f[x]
  OBVIOUS
<1>3. Total(field) = SumFunction(f) /\ Total(field)' = SumFunction(h)
  BY DEF Total
<1>4. h[key] = (IF key \in D THEN f[key] ELSE 0) + n
  OBVIOUS
<1>5. IsFiniteSet(D) /\ (key \in D => f[key] \in Nat)
  OBVIOUS
<1> DEFINE E == D \cup {key}
<1>6. h \in [E -> Nat] /\ key \in E
  BY <1>1
<1>7. CASE key \in D
  <2>1. h \in [D -> Nat]
    <3>1. E = D
      BY <1>7
    <3> HIDE DEF D, E, f, h
    <3> QED BY <1>6, <3>1
  <2> HIDE DEF D, E, f, h
  <2>2. SumFunction(f) \in Nat /\ SumFunction(h) = SumFunction(f) - f[key] + h[key]
    BY <1>1, <1>2, <1>5, <1>7, <2>1, SumChanges
  <2> QED BY <1>3, <1>4, <1>5, <1>7, <2>2
<1>8. CASE key \notin D
  <2>1. E \ {key} = D /\ \A x \in D : h[x] = f[x]
    BY <1>8
  <2> HIDE DEF D, E, f, h
  <2>2. SumFunction(f) \in Nat /\ SumFunction(h) = SumFunction(f) + h[key]
    BY <1>1, <1>5, <1>6, <1>8, <2>1, SumGrows
  <2> QED BY <1>3, <1>4, <1>8, <2>2
<1> QED BY <1>7, <1>8

LEMMA RecordKeeps ==
    ASSUME RoutesInv, NEW r \in Request, req[r].route \in Route, NEW status, Record(r, status)
    PROVE  RoutesInv'
<1>1. CASE UNCHANGED routeVars
  BY <1>1 DEF RoutesInv, routeVars, Total
<1>2. CASE ~UNCHANGED routeVars
  <2> DEFINE key == Key(req[r].route)
             error == Error(status)
             D == DOMAIN routes
             old == IF key \in D THEN routes[key] ELSE NoStats
             one == IF error THEN 1 ELSE 0
  <2>1. /\ aggregate' = Counted(aggregate, error)
        /\ routes' = [k \in D \cup {key} |-> IF k = key THEN Counted(old, error) ELSE routes[k]]
    BY <1>2 DEF Record
  <2>2. key \in D \/ Cardinality(D) < MaxRoutes \/ key = OtherRoute
    BY DEF Key
  <2> HIDE DEF key, error, D
  <2>3. DOMAIN routes' = D \cup {key} /\ routes' = [k \in DOMAIN routes' |-> routes'[k]]
    BY <2>1
  <2>4. routes'[key] = Counted(old, error) /\ \A k \in D \ {key} : routes'[k] = routes[k]
    BY <2>1
  <2>5. /\ IsFiniteSet(D) /\ \A k \in D : Sound(routes[k])
        /\ Cardinality(D \ {OtherRoute}) <= MaxRoutes /\ Sound(aggregate)
        /\ Total("count") = aggregate.count /\ Total("errors") = aggregate.errors
    BY DEF RoutesInv, D
  <2>6. /\ Sound(old)
        /\ old.count = IF key \in D THEN routes[key].count ELSE 0
        /\ old.errors = IF key \in D THEN routes[key].errors ELSE 0
    BY <2>5, NothingAgrees
  <2>7. /\ Sound(routes'[key])
        /\ routes'[key].count = old.count + 1 /\ routes'[key].errors = old.errors + one
    BY <2>4, <2>6, SoundCounted
  <2>8. /\ Sound(aggregate') /\ aggregate.count \in Nat
        /\ aggregate'.count = aggregate.count + 1 /\ aggregate'.errors = aggregate.errors + one
    BY <2>1, <2>5, SoundCounted
  <2>9. \A k \in DOMAIN routes' : Sound(routes'[k])
    BY <2>3, <2>4, <2>5, <2>7
  <2>10. IsFiniteSet(DOMAIN routes') /\ DOMAIN routes' # {}
    BY <2>3, <2>5, FS_AddElement
  <2>11. Cardinality(DOMAIN routes' \ {OtherRoute}) <= MaxRoutes
    <3>1. CASE key \in D \/ key = OtherRoute
      <4>1. DOMAIN routes' \ {OtherRoute} = D \ {OtherRoute}
        BY <2>3, <3>1
      <4> QED BY <2>5, <4>1
    <3>2. CASE key \notin D /\ key # OtherRoute
      <4>1. Cardinality(D) < MaxRoutes /\ Cardinality(D) \in Nat /\ MaxRoutes \in Nat
        BY <2>2, <2>5, <3>2, FS_CardinalityType, RouteAssumption
      <4>2. Cardinality(D \cup {key}) = Cardinality(D) + 1
        BY <2>5, <3>2, FS_AddElement
      <4>3. /\ DOMAIN routes' \ {OtherRoute} \subseteq D \cup {key}
            /\ IsFiniteSet(D \cup {key})
        BY <2>3, <2>10
      <4>4. /\ Cardinality(DOMAIN routes' \ {OtherRoute}) <= Cardinality(D \cup {key})
            /\ Cardinality(DOMAIN routes' \ {OtherRoute}) \in Nat
        BY <4>3, FS_Subset, FS_CardinalityType
      <4> QED BY <4>1, <4>2, <4>4
    <3> QED BY <3>1, <3>2
  <2>12. one \in Nat
    OBVIOUS
  <2> HIDE DEF old, one
  <2>13. Total("count")' = Total("count") + 1
    <3>1. \A k \in D : routes[k]["count"] \in Nat
      BY <2>5 DEF Sound, Stats
    <3>2. routes'[key]["count"] = (IF key \in D THEN routes[key]["count"] ELSE 0) + 1
      BY <2>6, <2>7
    <3> QED BY <2>3, <2>4, <2>5, <3>1, <3>2, TotalGrows DEF D
  <2>14. Total("errors")' = Total("errors") + one
    <3>1. \A k \in D : routes[k]["errors"] \in Nat
      BY <2>5 DEF Sound, Stats
    <3>2. routes'[key]["errors"] = (IF key \in D THEN routes[key]["errors"] ELSE 0) + one
      BY <2>6, <2>7
    <3> QED BY <2>3, <2>4, <2>5, <2>12, <3>1, <3>2, TotalGrows DEF D
  <2>15. aggregate'.count # 0
    BY <2>8
  <2> QED BY <2>3, <2>5, <2>8, <2>9, <2>10, <2>11, <2>13, <2>14, <2>15 DEF RoutesInv
<1> QED BY <1>1, <1>2

\* What observing a call makes of the route probe.
Observed(probe, code, types, cache) ==
    [stats    |-> Counted(probe.stats, Error(code)),
     statuses |-> Tallied(probe.statuses, code \div 100),
     types    |-> types,
     cache    |-> cache]

LEMMA ReturnObserved ==
    ASSUME NEW r, NEW code, HandlerReturns(r, code)
    PROVE  handlers' = Observed(handlers, code, handlers.types, handlers.cache \cup Attributed(r))
<1> DEFINE more == Attributed(r)
           after == [stats |-> Counted(handlers.stats, Error(code)),
                     statuses |-> Tallied(handlers.statuses, code \div 100),
                     types |-> handlers.types, cache |-> handlers.cache]
<1>1. Observe(handlers, code, FALSE) = after
  BY DEF Observe
<1>2. handlers' = [Observe(handlers, code, FALSE) EXCEPT !.cache = @ \cup more]
  BY DEF HandlerReturns
<1> HIDE DEF more
<1>3. handlers' = [after EXCEPT !.cache = @ \cup more]
  BY <1>1, <1>2
<1> QED BY <1>3 DEF Observed, more

LEMMA RaiseObserved ==
    ASSUME NEW r, NEW code, HandlerRaises(r, code)
    PROVE  \E types \in {handlers.types, Tallied(handlers.types, "exception")} :
              handlers' = Observed(handlers, code, types, handlers.cache)
<1>1. CASE Error(code)
  BY <1>1 DEF HandlerRaises, Observe, Observed
<1>2. CASE ~Error(code)
  BY <1>2 DEF HandlerRaises, Observe, Observed
<1> QED BY <1>1, <1>2

LEMMA ObservedKeeps ==
    ASSUME HandlersInv, NEW code \in Code \cup {499, 500}, NEW cache,
           NEW types \in {handlers.types, Tallied(handlers.types, "exception")},
           handlers' = Observed(handlers, code, types, cache)
    PROVE  HandlersInv' /\ handlers'.cache = cache
<1> DEFINE kind == code \div 100
<1>1. /\ handlers'.stats = Counted(handlers.stats, Error(code))
      /\ handlers'.statuses = Tallied(handlers.statuses, kind)
      /\ handlers'.types = types
      /\ handlers'.cache = cache
      /\ handlers' = [stats |-> handlers'.stats, statuses |-> handlers'.statuses,
                      types |-> handlers'.types, cache |-> handlers'.cache]
  BY DEF Observed
<1>2. kind \in Int
  <2>1. code \in Nat
    BY CodeAssumption
  <2> QED BY <2>1
<1> HIDE DEF kind
<1>3. Sound(handlers'.stats)
  BY <1>1, SoundCounted DEF HandlersInv
<1>4. SoundTally(handlers'.statuses, Int)
  BY <1>1, <1>2, CodeAssumption, TalliedAgrees DEF HandlersInv, SoundTally
<1>5. SoundTally(handlers'.types, {"exception"})
  <2>1. SoundTally(Tallied(handlers.types, "exception"), {"exception"})
    BY CodeAssumption, TalliedAgrees DEF HandlersInv, SoundTally
  <2> QED BY <1>1, <2>1 DEF HandlersInv
<1> QED BY <1>1, <1>3, <1>4, <1>5 DEF HandlersInv

\* A request comes to be counted by its cache counting it only.
LEMMA CacheKept ==
    ASSUME CacheInv, UNCHANGED handlerVars,
           \A r \in Request : req'[r].phase = "counted" => req[r].phase = "counted"
    PROVE  CacheInv'
BY DEF CacheInv, handlerVars

\* What the middleware's steps leave alone, and what they do to the requests' phases.
Effects(r) ==
    /\ UNCHANGED <<aggregate, routes>> \/ \E status : Record(r, status)
    /\ UNCHANGED handlers /\ UNCHANGED streams /\ UNCHANGED socketVars
    /\ \/ UNCHANGED <<seen, own>>
       \/ seen' = [seen EXCEPT ![r] = NoInfo] /\ own' = [own EXCEPT ![r] = "none"]
    /\ arrivals' = arrivals \/ (arrivals < MaxArrivals /\ arrivals' = arrivals + 1)
    /\ req'[r].phase # "counted"
    /\ \A q \in Request : q # r => req'[q] = req[q]

LEMMA EffectsOf ==
    ASSUME RequestTypes, NEW r \in Request, RequestStep(r)
    PROVE  Effects(r)
<1>1. req \in [Request -> SlotType] /\ req[r] \in SlotType
  BY DEF RequestTypes
<1>2. ASSUME NEW route \in Route, Arrive(r, route) PROVE Effects(r)
  BY <1>1, <1>2 DEF Effects, Arrive, handlerVars, Slot
<1>3. ASSUME NEW code \in Code, NEW fails \in BOOLEAN, AppStarts(r, code, fails) PROVE Effects(r)
  <2>1. req[r].phase = "app" /\ req'[r].phase = req[r].phase
    BY <1>1, <1>3 DEF AppStarts, InApp, SlotType
  <2> QED BY <1>1, <1>3, <2>1 DEF Effects, AppStarts, Unrecorded, routeVars, handlerVars, genVars
<1>4. CASE AppSendFails(r)
  <2>1. req[r].phase = "app" /\ req'[r].phase = req[r].phase
    BY <1>1, <1>4 DEF AppSendFails, InApp, SlotType
  <2> QED BY <1>1, <1>4, <2>1 DEF Effects, AppSendFails, Unrecorded, routeVars, handlerVars, genVars
<1>5. CASE AppSendsLast(r)
  <2>1. req'[r].phase = "last"
    BY <1>1, <1>5 DEF AppSendsLast, SlotType
  <2> QED BY <1>1, <1>5, <2>1 DEF Effects, AppSendsLast, Unrecorded, routeVars, handlerVars, genVars
<1>6. CASE LastSent(r)
  <2>1. req'[r].phase = "app"
    BY <1>1, <1>6 DEF LastSent, SlotType
  <2> QED BY <1>1, <1>6, <2>1 DEF Effects, LastSent, handlerVars, genVars
<1>7. CASE AppReturns(r)
  BY <1>1, <1>7 DEF Effects, AppReturns, routeVars, handlerVars, genVars, Slot
<1>8. ASSUME NEW disconnect \in BOOLEAN, AppRaises(r, disconnect) PROVE Effects(r)
  BY <1>1, <1>8 DEF Effects, AppRaises, routeVars, handlerVars, genVars, Slot
<1>9. CASE Cancelled(r)
  BY <1>1, <1>9 DEF Effects, Cancelled, routeVars, handlerVars, genVars, Slot
<1> QED BY <1>2, <1>3, <1>4, <1>5, <1>6, <1>7, <1>8, <1>9 DEF RequestStep

LEMMA CountInvRequest ==
    ASSUME RequestInv, CountInv, NEW r \in Request, RequestStep(r)
    PROVE  CountInv'
<1>1. RequestTypes /\ req[r].route \in Route
  BY DEF RequestInv, RequestTypes, SlotType
<1>2. Effects(r)
  BY <1>1, EffectsOf
<1>3. RoutesInv'
  <2>1. CASE UNCHANGED <<aggregate, routes>>
    BY <2>1 DEF CountInv, RoutesInv, Total
  <2>2. ASSUME NEW status, Record(r, status) PROVE RoutesInv'
    BY <1>1, <2>2, RecordKeeps DEF CountInv
  <2> QED BY <1>2, <2>1, <2>2 DEF Effects
<1>4. HandlersInv'
  BY <1>2 DEF Effects, CountInv, HandlersInv
<1>5. CacheInv'
  <2>1. \A q \in Request : req'[q].phase = "counted" => q # r /\ req'[q] = req[q]
    BY <1>2 DEF Effects
  <2>2. UNCHANGED handlers
    BY <1>2 DEF Effects
  <2>3. CASE UNCHANGED <<seen, own>>
    BY <2>1, <2>2, <2>3 DEF CountInv, CacheInv
  <2>4. CASE seen' = [seen EXCEPT ![r] = NoInfo] /\ own' = [own EXCEPT ![r] = "none"]
    BY <2>1, <2>2, <2>4 DEF CountInv, CacheInv, Info, NoInfo
  <2> QED BY <1>2, <2>3, <2>4 DEF Effects
<1>6. SocketsInv' /\ Sound(streams')
  BY <1>2 DEF Effects, CountInv, SocketsInv, socketVars
<1> QED BY <1>3, <1>4, <1>5, <1>6 DEF CountInv

\* An event is attributed to a call if what it counted is all that was counted.
LEMMA AttributedRight ==
    ASSUME CacheInv, NEW r \in Request, req[r].phase = "counted"
    PROVE  \A event \in Attributed(r) : event.said = event.was
<1>1. seen[r].hits \in Nat /\ seen[r].misses \in Nat
  BY DEF CacheInv, Info
<1> QED BY <1>1 DEF Attributed, CacheInv

LEMMA CountInvHandler ==
    ASSUME RequestInv, CountInv, NEW r \in Request, HandlerStep(r)
    PROVE  CountInv'
<1>1. RequestTypes
  BY DEF RequestInv
<1>2. UNCHANGED routeVars /\ UNCHANGED streams /\ UNCHANGED socketVars
  BY DEF HandlerStep, SkipHandler, HandlerStarts, CacheCounts, HandlerReturns, HandlerRaises,
     Unrecorded, genVars
<1>3. RoutesInv' /\ SocketsInv' /\ Sound(streams')
  BY <1>2 DEF CountInv, RoutesInv, Total, routeVars, SocketsInv, socketVars
<1>4. CASE SkipHandler(r) \/ HandlerStarts(r)
  <2>1. UNCHANGED handlerVars
    BY <1>4 DEF SkipHandler, HandlerStarts, Unrecorded
  <2>2. HandlersInv'
    BY <2>1 DEF CountInv, HandlersInv, handlerVars
  <2>3. CacheInv'
    <3>1. req' = [req EXCEPT ![r].phase = "app"] \/ req' = [req EXCEPT ![r].phase = "handler"]
      BY <1>4 DEF SkipHandler, HandlerStarts
    <3>2. \A q \in Request : req'[q].phase = "counted" => req[q].phase = "counted"
      BY <1>1, <3>1 DEF RequestTypes, SlotType
    <3> QED BY <2>1, <3>2, CacheKept DEF CountInv
  <2> QED BY <1>3, <2>2, <2>3 DEF CountInv
<1>5. ASSUME NEW what \in {"hit", "miss"}, CacheCounts(r, what) PROVE CountInv'
  <2>1. HandlersInv' /\ handlers'.cache = handlers.cache
    BY <1>5 DEF CacheCounts, CountInv, HandlersInv
  <2>2. seen \in [Request -> Info] /\ own \in [Request -> {"none", "hit", "miss"}]
    BY DEF CountInv, CacheInv
  <2>3. \A q \in Request :
           /\ seen'[q] \in Info
           /\ seen'[q].hits >= seen[q].hits /\ seen'[q].misses >= seen[q].misses
           /\ q = r => IF what = "hit" THEN seen'[q].hits > 0 ELSE seen'[q].misses > 0
    <3> TAKE q \in Request
    <3>1. PICK n \in Nat, m \in Nat : seen[q] = [hits |-> n, misses |-> m]
      BY <2>2 DEF Info
    <3>2. \/ seen'[q] = seen[q] /\ q # r
          \/ seen'[q] = [hits |-> n + 1, misses |-> m] /\ what = "hit"
          \/ seen'[q] = [hits |-> n, misses |-> m + 1] /\ what = "miss"
      <4>1. seen'[q] =
                IF req[q].phase \notin {"handler", "counted"} THEN seen[q]
                ELSE IF what = "hit" THEN [seen[q] EXCEPT !.hits = @ + 1]
                ELSE [seen[q] EXCEPT !.misses = @ + 1]
        BY <1>5 DEF CacheCounts
      <4>2. q = r => req[q].phase = "handler"
        BY <1>5 DEF CacheCounts
      <4> QED BY <1>5, <3>1, <4>1, <4>2
    <3> QED BY <3>1, <3>2 DEF Info
  <2>4. seen' \in [Request -> Info]
    <3>1. seen' = [q \in Request |-> seen'[q]]
      BY <1>5 DEF CacheCounts
    <3> QED BY <2>3, <3>1
  <2>5. own' = [own EXCEPT ![r] = what] /\ own' \in [Request -> {"none", "hit", "miss"}]
    BY <1>5, <2>2 DEF CacheCounts
  <2>6. ASSUME NEW q \in Request, req'[q].phase = "counted"
        PROVE  \/ own'[q] = "hit" /\ seen'[q].hits > 0
               \/ own'[q] = "miss" /\ seen'[q].misses > 0
    <3>1. CASE q = r
      BY <1>5, <2>2, <2>3, <2>5, <3>1
    <3>2. CASE q # r
      <4>1. req'[q] = req[q] /\ own'[q] = own[q]
        BY <1>1, <1>5, <2>2, <2>5, <3>2 DEF RequestTypes, CacheCounts
      <4>2. \/ own[q] = "hit" /\ seen[q].hits > 0
            \/ own[q] = "miss" /\ seen[q].misses > 0
        BY <2>6, <4>1 DEF CountInv, CacheInv
      <4>3. /\ seen[q].hits \in Nat /\ seen[q].misses \in Nat
            /\ seen'[q].hits \in Nat /\ seen'[q].misses \in Nat
        BY <2>2, <2>3 DEF Info
      <4> QED BY <2>3, <4>1, <4>2, <4>3
    <3> QED BY <3>1, <3>2
  <2>7. CacheInv'
    BY <2>1, <2>4, <2>5, <2>6 DEF CountInv, CacheInv
  <2> QED BY <1>3, <2>1, <2>7 DEF CountInv
<1>6. ASSUME NEW code \in Code \cup {499, 500}, HandlerReturns(r, code) \/ HandlerRaises(r, code)
      PROVE  CountInv'
  <2>1. /\ HandlersInv'
        /\ \A event \in handlers'.cache : event.said = event.was
    <3>1. HandlersInv /\ \A event \in handlers.cache : event.said = event.was
      BY DEF CountInv, CacheInv
    <3>2. CASE HandlerReturns(r, code)
      <4>1. \A event \in Attributed(r) : event.said = event.was
        BY <3>2, AttributedRight DEF HandlerReturns, CountInv
      <4> DEFINE cache == handlers.cache \cup Attributed(r)
      <4>2. PICK types \in {handlers.types, Tallied(handlers.types, "exception")} :
               handlers' = Observed(handlers, code, types, cache)
        BY <3>2, ReturnObserved
      <4> HIDE DEF cache
      <4>3. HandlersInv' /\ handlers'.cache = cache
        BY <3>1, <4>2, ObservedKeeps
      <4> QED BY <3>1, <4>1, <4>3 DEF cache
    <3>3. CASE HandlerRaises(r, code)
      <4>1. PICK types \in {handlers.types, Tallied(handlers.types, "exception")} :
               handlers' = Observed(handlers, code, types, handlers.cache)
        BY <3>3, RaiseObserved
      <4>2. HandlersInv' /\ handlers'.cache = handlers.cache
        BY <3>1, <4>1, ObservedKeeps
      <4> QED BY <3>1, <4>2
    <3> QED BY <1>6, <3>2, <3>3
  <2>2. /\ req' = [req EXCEPT ![r].phase = "app"]
        /\ seen' = [seen EXCEPT ![r] = NoInfo] /\ own' = [own EXCEPT ![r] = "none"]
    BY <1>6 DEF HandlerReturns, HandlerRaises
  <2>3. \A q \in Request : req'[q].phase = "counted" => q # r /\ req'[q] = req[q]
    BY <1>1, <2>2 DEF RequestTypes, SlotType
  <2>4. CacheInv'
    BY <2>1, <2>2, <2>3 DEF CountInv, CacheInv, Info, NoInfo
  <2> QED BY <1>3, <2>1, <2>4 DEF CountInv
<1> QED BY <1>4, <1>5, <1>6 DEF HandlerStep, CLIENT_CLOSED_REQUEST

LEMMA CountInvGenerator ==
    ASSUME CountInv, NEW r \in Request, GeneratorStep(r) \/ GeneratorEnds(r)
    PROVE  CountInv'
<1>1. UNCHANGED req /\ UNCHANGED routeVars /\ UNCHANGED handlerVars /\ UNCHANGED socketVars
  BY DEF GeneratorStep, GeneratorEnds, GenStarts, GenYields, GenResumes, GenThrown, GenCloses,
     GenDropped, GenStep, GenOver
<1>2. UNCHANGED streams \/ \E isError \in BOOLEAN : streams' = Counted(streams, isError)
  BY DEF GeneratorStep, GeneratorEnds, GenStarts, GenYields, GenResumes, GenThrown, GenCloses,
     GenDropped, GenStep, GenOver
<1>3. Sound(streams')
  BY <1>2, SoundCounted DEF CountInv
<1>4. RoutesInv' /\ SocketsInv'
  BY <1>1 DEF CountInv, RoutesInv, Total, routeVars, SocketsInv, socketVars
<1>5. HandlersInv' /\ CacheInv'
  BY <1>1, CacheKept DEF CountInv, HandlersInv, handlerVars
<1> QED BY <1>3, <1>4, <1>5 DEF CountInv

LEMMA CountInvSocket ==
    ASSUME CountInv, NEW s \in Socket, SocketStep(s)
    PROVE  CountInv'
<1>1. UNCHANGED req /\ UNCHANGED routeVars /\ UNCHANGED handlerVars /\ UNCHANGED streams
  <2>1. CASE SocketOpens(s)
    BY <2>1 DEF SocketOpens, genVars
  <2>2. ASSUME NEW isError \in BOOLEAN, SocketCloses(s, isError)
        PROVE  UNCHANGED req /\ UNCHANGED routeVars /\ UNCHANGED handlerVars /\ UNCHANGED streams
    BY <2>2 DEF SocketCloses, genVars
  <2> QED BY <2>1, <2>2 DEF SocketStep
<1>2. RoutesInv' /\ Sound(streams')
  BY <1>1 DEF CountInv, RoutesInv, Total, routeVars
<1>3. HandlersInv' /\ CacheInv'
  BY <1>1, CacheKept DEF CountInv, HandlersInv, handlerVars
<1>4. SocketsInv /\ Cardinality(open) \in Nat
  BY FS_CardinalityType DEF CountInv, SocketsInv
<1>5. CASE SocketOpens(s)
  <2>1. /\ sockets'.stats = sockets.stats
        /\ sockets'.active = sockets.active + 1 /\ sockets'.total = sockets.total + 1
        /\ sockets' = [stats |-> sockets'.stats, active |-> sockets'.active, total |-> sockets'.total]
    BY <1>4, <1>5 DEF SocketOpens, SocketsInv
  <2>2. IsFiniteSet(open') /\ Cardinality(open') = Cardinality(open) + 1
    BY <1>4, <1>5, FS_AddElement DEF SocketOpens, SocketsInv
  <2>3. sockets.stats.count \in Nat
    BY <1>4 DEF SocketsInv, Sound, Stats
  <2>4. SocketsInv'
    BY <1>4, <2>1, <2>2, <2>3 DEF SocketsInv
  <2> QED BY <1>2, <1>3, <2>4 DEF CountInv
<1>6. ASSUME NEW isError \in BOOLEAN, SocketCloses(s, isError) PROVE CountInv'
  <2>1. /\ sockets'.stats = Counted(sockets.stats, isError)
        /\ sockets'.active = sockets.active - 1 /\ sockets'.total = sockets.total
        /\ sockets' = [stats |-> sockets'.stats, active |-> sockets'.active, total |-> sockets'.total]
    BY <1>4, <1>6 DEF SocketCloses, SocketsInv
  <2>2. IsFiniteSet(open') /\ Cardinality(open') = Cardinality(open) - 1
    BY <1>4, <1>6, FS_RemoveElement DEF SocketCloses, SocketsInv
  <2>3. /\ Sound(sockets'.stats) /\ sockets'.stats.count = sockets.stats.count + 1
        /\ sockets.stats.count \in Nat
    BY <1>4, <2>1, SoundCounted DEF SocketsInv
  <2>4. SocketsInv'
    BY <1>4, <2>1, <2>2, <2>3 DEF SocketsInv
  <2> QED BY <1>2, <1>3, <2>4 DEF CountInv
<1> QED BY <1>5, <1>6 DEF SocketStep

LEMMA CountInvNext == RequestInv /\ CountInv /\ [RequestsNext]_metricVars => CountInv'
<1> SUFFICES ASSUME RequestInv, CountInv, [RequestsNext]_metricVars PROVE CountInv'
  OBVIOUS
<1>1. CASE RequestsNext
  BY <1>1, NextSteps, CountInvRequest, CountInvHandler, CountInvGenerator, CountInvSocket
<1>2. CASE UNCHANGED metricVars
  <2>1. /\ UNCHANGED req /\ UNCHANGED routeVars /\ UNCHANGED handlerVars
        /\ UNCHANGED streams /\ UNCHANGED socketVars
    BY <1>2 DEF metricVars, routeVars, handlerVars, socketVars
  <2> QED BY <2>1, CacheKept DEF CountInv, RoutesInv, Total, routeVars, HandlersInv, handlerVars,
     SocketsInv, socketVars
<1> QED BY <1>1, <1>2

Inv == RequestInv /\ CountInv

LEMMA InvAlways == RequestsSpec => []Inv
<1>1. RequestsInit => Inv
  BY RequestInvInit, CountInvInit DEF Inv
<1>2. Inv /\ [RequestsNext]_metricVars => Inv'
  BY RequestInvNext, CountInvNext DEF Inv
<1> QED BY <1>1, <1>2, PTL DEF RequestsSpec

\* The statuses are what a walk of the windows would make of them.
LEMMA FailingIs ==
    ASSUME NEW stats, Sound(stats)
    PROVE  /\ ExceedsRate(stats, MaxErrors) =
                (100 * Cardinality({i \in DOMAIN stats.window : stats.window[i] = 1})
                    > MaxErrors * Len(stats.window))
           /\ stats.count = 0 => stats.failed = 0 /\ ~ExceedsRate(stats, MaxErrors)
<1>1. stats.failed = Cardinality({i \in DOMAIN stats.window : stats.window[i] = 1})
  BY DEF Sound, StatsAgree
<1>2. ASSUME stats.count = 0 PROVE stats.failed = 0 /\ ~ExceedsRate(stats, MaxErrors)
  <2>1. Len(stats.window) = 0 /\ stats.window \in Seq({0, 1})
    BY <1>2, CodeAssumption DEF Sound, StatsAgree, Stats
  <2>2. {i \in DOMAIN stats.window : stats.window[i] = 1} = {}
    BY <2>1
  <2>3. stats.failed = 0
    BY <1>1, <2>2, FS_EmptySet
  <2>4. MaxErrors * 0 = 0
    BY JudgementAssumption
  <2> QED BY <2>1, <2>3, <2>4 DEF ExceedsRate
<1> QED BY <1>1, <1>2 DEF ExceedsRate

\* The middleware's rate is rounded: its probe fails only if too many calls failed, and
\* does if there are half a unit of the fourth decimal more.
LEMMA RoundedFollows ==
    ASSUME Sound(aggregate)
    PROVE  /\ AggregateStatus = "unhealthy" =>
                100 * aggregate.failed > MaxErrors * Len(aggregate.window)
           /\ 20000 * aggregate.failed > (200 * MaxErrors + 1) * Len(aggregate.window) =>
                AggregateStatus = "unhealthy"
<1> DEFINE f == aggregate.failed
           l == Len(aggregate.window)
           p == MaxErrors
<1>1. /\ aggregate.count \in Nat /\ f \in Nat /\ l \in Nat /\ p \in Nat
      /\ WindowSize \in Nat \ {0}
  BY CodeAssumption, JudgementAssumption, LenProperties DEF Sound, Stats
<1>2. l = IF aggregate.count < WindowSize THEN aggregate.count ELSE WindowSize
  BY DEF Sound, StatsAgree
<1>3. aggregate.count = 0 => f = 0
  BY FailingIs
<1>4. AggregateStatus = "unhealthy" <=>
         /\ aggregate.count # 0
         /\ \/ 20000 * f > (200 * p + 1) * l
            \/ HalfRoundsUp /\ 20000 * f = (200 * p + 1) * l
  <2> DEFINE exceeds == ExceedsRounded(aggregate, MaxErrors, HalfRoundsUp)
  <2>1. exceeds <=> \/ 20000 * f > (200 * p + 1) * l
                    \/ HalfRoundsUp /\ 20000 * f = (200 * p + 1) * l
    BY DEF ExceedsRounded
  <2>2. AggregateStatus = IF aggregate.count = 0 THEN "no_data"
                          ELSE IF exceeds THEN "unhealthy" ELSE "healthy"
    BY Zenon DEF AggregateStatus, Judged
  <2> HIDE DEF exceeds
  <2>3. AggregateStatus = "unhealthy" <=> aggregate.count # 0 /\ exceeds
    BY <2>2
  <2> QED BY <2>1, <2>3
<1> HIDE DEF f, l, p
<1>5. ASSUME NEW a \in Nat, NEW b \in Nat
      PROVE  a * b \in Nat /\ (200 * a + 1) * b = 200 * (a * b) + b
  OBVIOUS
<1>6. ASSUME 20000 * f > (200 * p + 1) * l PROVE aggregate.count # 0
  <2>1. 20000 * f > 0
    <3>1. (200 * p + 1) * l \in Nat
      BY <1>1, <1>5
    <3> QED BY <1>1, <1>6, <3>1
  <2> QED BY <1>3, <2>1
<1>7. ASSUME AggregateStatus = "unhealthy" PROVE 100 * f > p * l
  <2>1. p * l \in Nat /\ (200 * p + 1) * l = 200 * (p * l) + l
    BY <1>1, <1>5
  <2>2. 20000 * f \in Nat /\ 20000 * f >= 200 * (p * l) + l /\ l > 0
    BY <1>1, <1>2, <1>4, <1>7, <2>1
  <2> QED BY <1>1, <2>1, <2>2
<1> QED BY <1>4, <1>6, <1>7 DEF f, l, p

LEMMA StatusesFollow == CountInv => StatusesAgree
<1> SUFFICES ASSUME CountInv PROVE StatusesAgree
  OBVIOUS
<1> DEFINE Failures(stats) == Cardinality({i \in DOMAIN stats.window : stats.window[i] = 1})
           Failing(stats)  == 100 * Failures(stats) > MaxErrors * Len(stats.window)
<1>1. Sound(aggregate) /\ Sound(handlers.stats) /\ Sound(sockets.stats)
  BY DEF CountInv, RoutesInv, HandlersInv, SocketsInv
<1>2. \A stats : Sound(stats) => /\ ExceedsRate(stats, MaxErrors) = Failing(stats)
                                 /\ stats.count = 0 => ~ExceedsRate(stats, MaxErrors)
  BY FailingIs
<1>b. \A stats : Failing(stats) \in BOOLEAN
  OBVIOUS
<1> HIDE DEF Failing
<1>3. /\ AggregateStatus = "unhealthy" => Failing(aggregate)
      /\ 20000 * Failures(aggregate) > (200 * MaxErrors + 1) * Len(aggregate.window)
            => AggregateStatus = "unhealthy"
  <2>1. aggregate.failed = Failures(aggregate)
    BY <1>1 DEF Sound, StatsAgree
  <2> QED BY <1>1, <2>1, RoundedFollows DEF Failing
<1>4. (HandlerStatus = "unhealthy") = Failing(handlers.stats)
  BY <1>1, <1>2, <1>b DEF HandlerStatus, Judged
<1>5. (AggregateStatus = "no_data") = (DOMAIN routes = {})
  BY DEF AggregateStatus, Judged, CountInv, RoutesInv
<1>6. (SocketStatus = "unhealthy") =
         (sockets.total > 0 /\ (Failing(sockets.stats) \/ Cardinality(open) < MinActive))
  <2>1. sockets.active = Cardinality(open) /\ sockets.active \in Nat /\ sockets.total \in Nat
    BY FS_CardinalityType DEF CountInv, SocketsInv, Sound, Stats
  <2>2. ExceedsRate(sockets.stats, MaxErrors) = Failing(sockets.stats)
    BY <1>1, <1>2
  <2> QED BY <2>1, <2>2 DEF SocketStatus
<1> QED BY <1>3, <1>4, <1>5, <1>6 DEF StatusesAgree, Failing

LEMMA InvImplies == Inv => CountsAgree
<1> SUFFICES ASSUME Inv PROVE CountsAgree
  OBVIOUS
<1>1. CountInv /\ StatusesAgree
  BY StatusesFollow DEF Inv
<1> QED BY <1>1 DEF CountInv, RoutesInv, HandlersInv, CacheInv, SocketsInv, Sound, SoundTally, CountsAgree

\* The incremental counts are those a walk of the windows would give, the routes' counts
\* add up to the aggregate's whatever entry an overflow lands in, and the statuses follow
\* (_RouteStats, PassiveProbe._record, _record_cache_delta and the WebSocket probe).
THEOREM CountersAgree == RequestsSpec => []CountsAgree
BY InvAlways, InvImplies, PTL

\* The rest of the types.
RestInv == DOMAIN routes \subseteq Route \cup {OtherRoute} /\ open \subseteq Socket /\ arrivals \in 0 .. MaxArrivals

LEMMA RestNext == Inv /\ RestInv /\ [RequestsNext]_metricVars => RestInv'
<1> SUFFICES ASSUME Inv, RestInv, [RequestsNext]_metricVars PROVE RestInv'
  OBVIOUS
<1>1. ASSUME NEW r \in Request, RequestStep(r) PROVE RestInv'
  <2>1. RequestTypes /\ req[r].route \in Route
    BY DEF Inv, RequestInv, RequestTypes, SlotType
  <2>2. Effects(r)
    BY <1>1, <2>1, EffectsOf
  <2>3. DOMAIN routes' \subseteq Route \cup {OtherRoute}
    <3>1. ASSUME NEW status, Record(r, status), ~UNCHANGED routes
          PROVE  DOMAIN routes' = DOMAIN routes \cup {Key(req[r].route)}
      BY <3>1 DEF Record, routeVars
    <3>2. Key(req[r].route) \in Route \cup {OtherRoute}
      BY <2>1 DEF Key
    <3> QED BY <2>2, <3>1, <3>2 DEF Effects, RestInv
  <2>4. arrivals' \in 0 .. MaxArrivals
    <3>1. arrivals' = arrivals \/ (arrivals < MaxArrivals /\ arrivals' = arrivals + 1)
      BY <2>2 DEF Effects
    <3> QED BY <3>1, ArrivalsAssumption DEF RestInv
  <2> QED BY <2>2, <2>3, <2>4 DEF Effects, RestInv, socketVars
<1>2. ASSUME NEW r \in Request, HandlerStep(r) PROVE RestInv'
  BY <1>2 DEF RestInv, HandlerStep, SkipHandler, HandlerStarts, CacheCounts, HandlerReturns,
     HandlerRaises, Unrecorded, routeVars, socketVars
<1>3. ASSUME NEW r \in Request, GeneratorStep(r) \/ GeneratorEnds(r) PROVE RestInv'
  BY <1>3 DEF RestInv, GeneratorStep, GeneratorEnds, GenStarts, GenYields, GenResumes, GenThrown,
     GenCloses, GenDropped, GenStep, GenOver, routeVars, socketVars
<1>4. ASSUME NEW s \in Socket, SocketStep(s) PROVE RestInv'
  <2>1. CASE SocketOpens(s)
    BY <2>1, ArrivalsAssumption DEF RestInv, SocketOpens, routeVars
  <2>2. ASSUME NEW isError \in BOOLEAN, SocketCloses(s, isError) PROVE RestInv'
    BY <2>2 DEF RestInv, SocketCloses, routeVars
  <2> QED BY <1>4, <2>1, <2>2 DEF SocketStep
<1>5. CASE UNCHANGED metricVars
  BY <1>5 DEF metricVars, RestInv
<1> QED BY <1>1, <1>2, <1>3, <1>4, <1>5, NextSteps

\* Every variable keeps its type: no counter becomes negative, and the table of routes
\* keeps to max_routes and the overflow entry.
THEOREM RequestsTypeCorrect == RequestsSpec => []RequestsTypeOK
<1>1. RequestsInit => RestInv
  BY ArrivalsAssumption DEF RequestsInit, RestInv
<1>2. Inv /\ RestInv => RequestsTypeOK
  BY DEF Inv, RestInv, RequestInv, RequestTypes, SlotType, CountInv, RoutesInv, HandlersInv,
     CacheInv, SocketsInv, Sound, RequestsTypeOK
<1> QED BY <1>1, <1>2, RestNext, InvAlways, PTL DEF RequestsSpec
=============================================================================
