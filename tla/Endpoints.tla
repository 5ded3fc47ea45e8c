------------------------------ MODULE Endpoints ------------------------------
(***************************************************************************)
(* The health routes: what a request for /ready, /status or one of their   *)
(* streams is answered, from its filters, the probes registered, the       *)
(* results held, maintenance and the startup grace period.                 *)
(*                                                                         *)
(* A request waits at most twice: for the probes that have not reported    *)
(* yet, when it filters by a tag nobody declares, and for the results it   *)
(* reports.  In between the loop runs everything else: probes report, are  *)
(* registered and dropped, maintenance comes and goes.  How a check runs   *)
(* and is shared is CheckRunner's subject; here a probe simply reports.    *)
(***************************************************************************)
EXTENDS Naturals, FiniteSets, SequencesExt, SequenceOps

CONSTANTS
    Probe,         \* probe names that may be registered
    Tag,
    Critical,      \* the probes registered as critical
    Declared,      \* [Probe -> SUBSET Tag]: the tags of each probe object
    OwnTags,       \* [Probe -> SUBSET SUBSET Tag]: the tags its results may carry
    Replaceable,   \* the probes a discover_routes(refresh=True) may drop
    Query,         \* the requests made: [endpoint, probes, tags]
    MaxUnknown,    \* _MAX_UNKNOWN_REQUESTS
    IntervalCalls, \* what set_poll_interval is called with: FALSE is 0 or None
    NoResult

ASSUME ProbeAssumption ==
    /\ Critical \subseteq Probe /\ Replaceable \subseteq Probe
    /\ Declared \in [Probe -> SUBSET Tag]
    /\ OwnTags \in [Probe -> SUBSET SUBSET Tag]
ASSUME RequestAssumption ==
    \A q \in Query : /\ q.endpoint \in {"ready", "status", "stream"}
                     /\ IsFiniteSet(q.probes) /\ IsFiniteSet(q.tags)
ASSUME BoundAssumption == MaxUnknown \in Nat \ {0} /\ IntervalCalls \subseteq BOOLEAN

Status == {"healthy", "degraded", "unhealthy", "no_data"}
Result == [status : Status, tags : SUBSET Tag]
ASSUME NoResultAssumption == NoResult \notin Result

VARIABLES
    registered,  \* _probes
    held,        \* _last_results
    polled,      \* _poll_interval_ms is not None
    maint,       \* _maintenance_active and where _maintenance_until stands
    grace,       \* _in_grace_period()
    unknown,     \* the keys of _unknown_requests, in dict order
    requested,   \* the keys by last_requested_at, the last MaxUnknown of them
    aged,        \* how many of those are older than _UNKNOWN_REQUEST_TTL_S
    phase,       \* of the request
    request,
    pending,     \* the probes whose runs it awaits
    answer,
    throughout,  \* ghost: registered during the whole request
    known,       \* ghost: registered at some time while it awaits its results
    cleared      \* ghost: the results were cleared during the request

vars == <<registered, held, polled, maint, grace, unknown, requested, aged,
          phase, request, pending, answer, throughout, known, cleared>>
requestVars == <<phase, request, pending, answer, throughout, known, cleared>>
unknownVars == <<unknown, requested, aged>>

NoRequest == [endpoint |-> "none", probes |-> {}, tags |-> {}]
Off == [active |-> FALSE, until |-> "none"]
NoAnswer == [code |-> 0, body |-> "none", used |-> {}]
NameKey == {"probe", "tag"} \X (Tag \cup UNION {q.probes \cup q.tags : q \in Query})

TypeOK ==
    /\ registered \subseteq Probe
    /\ held \in [Probe -> Result \cup {NoResult}]
    /\ polled \in BOOLEAN /\ grace \in BOOLEAN /\ cleared \in BOOLEAN
    /\ maint \in [active : BOOLEAN, until : {"none", "ahead", "past"}]
    /\ unknown \in Seq(NameKey) /\ requested \in Seq(NameKey)
    /\ aged \in 0 .. Len(requested)
    /\ phase \in {"idle", "asked", "probing", "waiting"}
    /\ request \in Query \cup {NoRequest}
    /\ pending \subseteq Probe /\ throughout \subseteq Probe /\ known \subseteq Probe
    /\ answer.code \in {0, 200, 207, 404, 503} /\ answer.used \subseteq Probe

Init ==
    /\ registered = Probe
    /\ held = [n \in Probe |-> NoResult]
    /\ polled \in BOOLEAN
    /\ maint = Off
    /\ grace \in BOOLEAN
    /\ unknown = << >> /\ requested = << >> /\ aged = 0
    /\ phase = "idle"
    /\ request = NoRequest
    /\ pending = {} /\ throughout = {} /\ known = {}
    /\ answer = NoAnswer
    /\ cleared = FALSE

-----------------------------------------------------------------------------
(* Filters.                                                                *)

Unreported == {n \in registered : held[n] = NoResult}

\* The tags a registered probe goes by: those it declares and those its last
\* result carries.
KnownTags(n) ==
    Declared[n] \cup IF held[n] = NoResult THEN {} ELSE held[n].tags

\* A tag no probe declares may be one that a probe reports of its own.
AsksUndeclared(q) ==
    ~(q.tags \subseteq UNION {Declared[n] : n \in registered})

UnknownProbes(q) == q.probes \ registered
UnknownTags(q)   == q.tags \ UNION {KnownTags(n) : n \in registered}
Selected(q) ==
    {n \in registered : /\ q.probes = {} \/ n \in q.probes
                        /\ q.tags = {} \/ KnownTags(n) \cap q.tags # {}}

\* _unmatched_filters: an unknown name is refused even among known ones.
SelectsNothing(q) ==  \* fault: known names make up for the unknown ones
    q.probes \cup q.tags # {} /\ Selected(q) = {}
Unmatched(q) ==
    /\ q.probes \cup q.tags # {}
    /\ Selected(q) = {} \/ UnknownProbes(q) # {} \/ UnknownTags(q) # {}

\* _remember_unknown: the latest name goes last, the oldest ones go.
Latest(table) ==
    IF Len(table) <= MaxUnknown THEN table
    ELSE SubSeq(table, Len(table) - MaxUnknown + 1, Len(table))
InPlace(table, key) ==  \* fault: a name asked for again keeps its place
    Latest(IF key \in Range(table) THEN table ELSE Append(table, key))
Remember(table, key) == Latest(Append(Without(table, {key}), key))
RememberAll(table, keys) ==
    LET after[i \in 0 .. Len(keys)] == IF i = 0 THEN table ELSE Remember(after[i - 1], keys[i])
    IN after[Len(keys)]

Asked(q) == SetToSeq({"probe"} \X UnknownProbes(q)) \o SetToSeq({"tag"} \X UnknownTags(q))

\* The clock: names asked for again are young again.
Recall(q) ==
    /\ requested' = Latest(Without(requested, Range(Asked(q))) \o Asked(q))
    /\ aged' = Cardinality({i \in 1 .. aged :
                              requested[i] \in Range(requested') \ Range(Asked(q))})

-----------------------------------------------------------------------------
(* Reports: HealthReport.from_results and the codes of the two endpoints.  *)

Overall(names) ==
    LET status == {held[n].status : n \in names \cap Critical} IN
    CASE "unhealthy" \in status                 -> "unhealthy"
      [] "unhealthy" \notin status /\ "degraded" \in status -> "degraded"
      [] status = {"no_data"}                   -> "no_data"
      [] OTHER                                  -> "healthy"

ReadyCode(s)  == IF s = "unhealthy" THEN 503 ELSE 200
StatusCode(s) == IF s \in {"healthy", "no_data"} THEN 200 ELSE 207

\* The results a request reports: those held now, filtered by name and tag.
Reported(q) ==
    {n \in registered : /\ held[n] # NoResult
                        /\ q.tags = {} \/ held[n].tags \cap q.tags # {}
                        /\ q.probes = {} \/ n \in q.probes}

Idle ==
    /\ phase' = "idle"
    /\ request' = NoRequest
    /\ pending' = {} /\ throughout' = {} /\ known' = {}
    /\ cleared' = FALSE

Respond(code, body, used) ==
    /\ Idle
    /\ answer' = [code |-> code, body |-> body, used |-> used]

\* Known filters may still leave no result: an empty report would be healthy.
NothingLeft(q) ==  \* fault: the empty report is sent
    FALSE
FilteredOut(q) == Reported(q) = {} /\ q.probes \cup q.tags # {}

Report(q) ==
    \/ /\ FilteredOut(q)
       /\ Respond(404, "filtered", {})
    \/ /\ ~FilteredOut(q)
       /\ LET s == Overall(Reported(q)) IN
          Respond(IF q.endpoint = "ready" THEN ReadyCode(s) ELSE StatusCode(s),
                  "report", Reported(q))

-----------------------------------------------------------------------------
(* A request.                                                              *)

InMaintenance == maint.active /\ maint.until # "past"
Lapse == IF maint.until = "past" THEN Off ELSE maint

\* _get_results: await the runs of what single-fetch mode, an elapsed interval
\* or a missing result calls for, and report if there is nothing to await.
ToRun(due) ==
    {n \in registered : ~polled \/ n \in due \/ held[n] = NoResult}

GetResults(q) ==
    \E due \in SUBSET registered :
        \/ /\ ToRun(due) = {}
           /\ Report(q)
        \/ /\ ToRun(due) # {}
           /\ phase' = "waiting"
           /\ pending' = ToRun(due)
           /\ known' = registered
           /\ UNCHANGED <<answer, request, throughout, cleared>>

\* From the filters to the results, with no await in between.
Decide(q) ==
    \/ /\ Unmatched(q)
       /\ Respond(404, "unmatched", {})
       /\ unknown' = RememberAll(unknown, Asked(q))
       /\ Recall(q)
       /\ UNCHANGED maint
    \/ /\ ~Unmatched(q)
       /\ q.endpoint = "stream"
       /\ Respond(200, "stream", {})
       /\ UNCHANGED <<maint, unknownVars>>
    \/ /\ ~Unmatched(q)
       /\ q.endpoint = "ready"
       /\ InMaintenance \/ grace
       /\ IF InMaintenance THEN Respond(200, "maintenance", {})
                           ELSE Respond(503, "starting", {})
       /\ maint' = Lapse
       /\ UNCHANGED unknownVars
    \/ /\ ~Unmatched(q)
       /\ \/ q.endpoint = "ready" /\ ~InMaintenance /\ ~grace /\ maint' = Lapse
          \/ q.endpoint = "status" /\ UNCHANGED maint
       /\ GetResults(q)
       /\ UNCHANGED unknownVars

envVars == <<registered, held, polled, grace>>

\* A request arrives; its handler starts when the loop gets to it.
Ask(q) ==
    /\ phase = "idle"
    /\ phase' = "asked"
    /\ request' = q
    /\ throughout' = registered
    /\ answer' = NoAnswer
    /\ UNCHANGED <<envVars, maint, unknownVars, pending, known, cleared>>

Begin ==
    /\ phase = "asked"
    /\ \/ /\ AsksUndeclared(request) /\ Unreported # {}
          /\ phase' = "probing"
          /\ pending' = Unreported
          /\ UNCHANGED <<answer, maint, unknownVars, request, throughout, known,
                         cleared>>
       \/ /\ ~AsksUndeclared(request) \/ Unreported = {}
          /\ Decide(request)
    /\ UNCHANGED envVars

\* Every probe has reported: judge the filters by what is registered now.
Probed ==
    /\ phase = "probing"
    /\ pending = {}
    /\ Decide(request)
    /\ UNCHANGED envVars

Answer ==
    /\ phase = "waiting"
    /\ pending = {}
    /\ Report(request)
    /\ UNCHANGED <<envVars, maint, unknownVars>>

\* The client goes away while its request waits; the runs carry on.
Disconnect ==
    /\ phase # "idle"
    /\ Idle
    /\ UNCHANGED <<envVars, maint, unknownVars, answer>>

-----------------------------------------------------------------------------
(* What else happens in the loop.                                          *)

\* A run ends: the result keeps the tags the check gave it, if it gave any,
\* and takes the declared ones otherwise.  A check that times out or raises
\* is unhealthy and carries no tags.
Reports(n) ==
    /\ \E s \in Status, own \in OwnTags[n] \cup {{}} :
          /\ own = {} => {} \in OwnTags[n] \/ s = "unhealthy"
          /\ held' = [held EXCEPT ![n] = [status |-> s,
                        tags |-> IF own = {} THEN Declared[n] ELSE own]]
    /\ pending' = pending \ {n}
    /\ UNCHANGED <<registered, polled, maint, grace, unknownVars, phase, request,
                   answer, throughout, known, cleared>>

RegistryStep == UNCHANGED <<maint, grace, unknownVars, phase, request, pending,
                            answer>>

\* discover_routes(refresh=True) and the like.
Register(n) ==
    /\ n \notin registered
    /\ registered' = registered \cup {n}
    /\ known' = IF phase # "waiting" THEN {} ELSE known \cup {n}
    /\ UNCHANGED <<held, polled, throughout, cleared>>
    /\ RegistryStep

Unregister(n) ==
    /\ n \in registered \cap Replaceable
    /\ registered' = registered \ {n}
    /\ throughout' = throughout \ {n}
    /\ UNCHANGED <<held, polled, known, cleared>>
    /\ RegistryStep

ForgetUnregistered ==
    /\ held' = [n \in Probe |-> IF n \in registered THEN held[n] ELSE NoResult]
    /\ held' # held
    /\ UNCHANGED <<registered, polled, throughout, known, cleared>>
    /\ RegistryStep

SetPollInterval(on) ==
    /\ polled' = on
    /\ held' = IF on THEN held ELSE [n \in Probe |-> NoResult]
    /\ cleared' = (cleared \/ (phase # "idle" /\ ~on))
    /\ UNCHANGED <<registered, throughout, known>>
    /\ RegistryStep

MaintenanceStep == UNCHANGED <<registered, held, polled, grace, unknownVars, requestVars>>

\* set_maintenance, from the application or POST /maintenance, which refuses
\* an until in the past (422).
SetMaintenance(until) ==
    /\ maint' = [active |-> TRUE, until |-> until]
    /\ MaintenanceStep

ClearMaintenance ==
    /\ maint' = Off
    /\ MaintenanceStep

WindowElapses ==
    /\ maint.until = "ahead"
    /\ maint' = [maint EXCEPT !.until = "past"]
    /\ MaintenanceStep

\* GET /maintenance, the dashboard and every alert look: an elapsed window is
\* cleared by whoever looks first.
SeeMaintenance ==
    /\ maint.until = "past"
    /\ maint' = Lapse
    /\ MaintenanceStep

GraceEnds ==
    /\ grace
    /\ grace' = FALSE
    /\ UNCHANGED <<registered, held, polled, maint, unknownVars, requestVars>>

\* An hour passes since the oldest of the names asked for.
NameAges ==
    /\ aged < Len(requested)
    /\ aged' = aged + 1
    /\ UNCHANGED <<registered, held, polled, maint, grace, unknown, requested,
                   requestVars>>

\* The dashboard lists the names: the old ones are dropped.
ListUnknown ==
    /\ aged > 0
    /\ LET old == {requested[i] : i \in 1 .. aged} IN
       /\ unknown' = Without(unknown, old)
       /\ requested' = SubSeq(requested, aged + 1, Len(requested))
    /\ aged' = 0
    /\ UNCHANGED <<registered, held, polled, maint, grace, requestVars>>

Next ==
    \/ \E q \in Query : Ask(q)
    \/ Begin \/ Probed \/ Answer \/ Disconnect
    \/ \E n \in Probe : Reports(n) \/ Register(n) \/ Unregister(n)
    \/ ForgetUnregistered
    \/ \E on \in IntervalCalls : SetPollInterval(on)
    \/ \E until \in {"none", "ahead"} : SetMaintenance(until)
    \/ ClearMaintenance \/ WindowElapses \/ SeeMaintenance
    \/ GraceEnds \/ NameAges \/ ListUnknown

Spec == Init /\ [][Next]_vars

-----------------------------------------------------------------------------
(* Properties.                                                             *)

\* The step that answers, and what the request's filters and the probes
\* registered during all of it select.
Answers(body) == phase # "idle" /\ phase' = "idle" /\ answer' # NoAnswer /\ answer'.body = body
Named(q) == IF q.probes = {} THEN Probe ELSE q.probes

\* Readiness is earned: when /ready answers 200 with a report, every critical
\* probe that was registered during the whole request and that it names (or
\* any, if it names none) has reported, and none of them unhealthy last; and a
\* request with filters is told about some probe -- unless set_poll_interval
\* emptied the results while the request waited for them.
ReadyIsEarned ==
    [][Answers("report") /\ request.endpoint = "ready" /\ answer'.code = 200 =>
         /\ request.probes \cup request.tags # {} => answer'.used # {}
         /\ request.tags = {} /\ ~cleared =>
              \A n \in throughout \cap Critical \cap Named(request) :
                 held[n] # NoResult /\ held[n].status # "unhealthy"]_vars

\* Filters are judged exactly.  A mistyped name never passes, not even among
\* known ones or during maintenance: whatever is not a 404 names only probes
\* that are registered when the filters are judged.  And what is there is not
\* refused: a tag is called unknown only once every probe registered during the
\* whole request has reported the tags it has, and tags a probe declares are
\* never refused, not even before it has reported.
FiltersAreExact ==
    [][/\ (\E b \in {"report", "maintenance", "starting", "stream"} : Answers(b)) =>
             request.probes \subseteq (IF phase = "waiting" THEN known ELSE registered)
       /\ Answers("unmatched") /\ ~cleared =>
             /\ UnknownTags(request) # {} => \A n \in throughout : held[n] # NoResult
             /\ request.probes \subseteq throughout =>
                  ~ \E n \in throughout \cap Named(request) : request.tags \subseteq Declared[n]]_vars

\* The names the dashboard lists are the last MaxUnknown different ones asked
\* for in vain, in the order in which they were last asked for: the dict's
\* order, by which the oldest is evicted, stays that of last_requested_at.
UnknownAreMostRecent == unknown = requested
=============================================================================
