------------------------- MODULE Background_proofs --------------------------
(***************************************************************************)
(* Theorems about what runs behind the requests: the poll loop with the    *)
(* streams it serves (Streams), and the writes to the storage backend      *)
(* (StorageWriter).                                                        *)
(***************************************************************************)
EXTENDS Streams, StorageWriter, FiniteSetTheorems, SequenceTheorems, TLAPS

-----------------------------------------------------------------------------
(***************************************************************************)
(* Streams.                                                                *)
(* For any number of streams: no poll loop is lost, none outlives          *)
(* _shutdown, the limit of streams holds, and polling follows the streams. *)
(***************************************************************************)

\* From the moment the lifespan ends, no generator is still to start, so
\* nothing starts a poll loop again; and once it has ended there is none.
EndInv ==
    /\ DOMAIN phase = Stream
    /\ life \in {"up", "ending", "down"}
    /\ life # "up" => /\ stopping
                      /\ poll # "running"
                      /\ \A s \in Stream : phase[s] # "open"
    /\ life = "down" => poll = "none"
    /\ ~lost

LEMMA EndInvInit == Init => EndInv
BY DEF Init, EndInv

\* Every action of one stream.
StreamStep(s) ==
    \/ Open(s) \/ Start(s) \/ Results(s) \/ Sent(s) \/ Wake(s)
    \/ Interrupted(s) \/ Close(s) \/ Finalize(s)

\* The phase of one stream changes, and to "open" only while the application
\* is up.
LEMMA PhasesKept ==
    ASSUME NEW s \in Stream, NEW p, Goes(s, p), DOMAIN phase = Stream
    PROVE  /\ DOMAIN phase' = Stream
           /\ p # "open" /\ (\A t \in Stream : phase[t] # "open")
                => \A t \in Stream : phase'[t] # "open"
BY DEF Goes

LEMMA EndInvStream ==
    ASSUME EndInv, NEW s \in Stream, StreamStep(s)
    PROVE  EndInv'
<1> USE DEF EndInv, lifeVars, setVars, pollVars
<1>1. CASE Open(s)
  BY <1>1, PhasesKept DEF Open
<1>2. CASE Start(s)
  <2>1. life = "up"
    BY <1>2 DEF Start
  <2>2. lost' = lost /\ life' = life
    BY <1>2 DEF Start
  <2>3. \E p : Goes(s, p)
    BY <1>2 DEF Start, NextEvent
  <2> QED BY <2>1, <2>2, <2>3, PhasesKept
<1>3. CASE Results(s)
  BY <1>3, PhasesKept DEF Results
<1>4. CASE Sent(s)
  <2>1. \E p : p # "open" /\ Goes(s, p)
    BY <1>4 DEF Sent
  <2>2. poll' \in {poll, "none"}
    BY <1>4 DEF Sent, Finally, Disconnected
  <2>3. UNCHANGED <<lost, stopping, life>>
    BY <1>4 DEF Sent
  <2> QED BY <2>1, <2>2, <2>3, PhasesKept
<1>5. CASE Wake(s)
  <2>1. \E p : p # "open" /\ Goes(s, p)
    BY <1>5 DEF Wake, NextEvent
  <2>2. life # "up" => poll' \in {poll, "none"}
    BY <1>5 DEF Wake, NextEvent, Finally, Disconnected
  <2>3. UNCHANGED <<lost, stopping, life>>
    BY <1>5 DEF Wake
  <2> QED BY <2>1, <2>2, <2>3, PhasesKept
<1>6. CASE Interrupted(s)
  <2>1. \E p : p # "open" /\ Goes(s, p)
    BY <1>6 DEF Interrupted
  <2>2. poll' \in {poll, "none"}
    BY <1>6 DEF Interrupted, Finally, Disconnected
  <2>3. UNCHANGED <<lost, stopping, life>>
    BY <1>6 DEF Interrupted
  <2> QED BY <2>1, <2>2, <2>3, PhasesKept
<1>7. CASE Close(s)
  BY <1>7, PhasesKept DEF Close
<1>8. CASE Finalize(s)
  <2>1. poll' \in {poll, "none"}
    BY <1>8 DEF Finalize, Finally, Disconnected
  <2>2. UNCHANGED <<lost, stopping, life>> /\ Goes(s, "off")
    BY <1>8 DEF Finalize
  <2> QED BY <2>1, <2>2, PhasesKept
<1> QED BY <1>1, <1>2, <1>3, <1>4, <1>5, <1>6, <1>7, <1>8 DEF StreamStep

LEMMA EndInvNext == EndInv /\ [Next]_vars => EndInv'
<1> SUFFICES ASSUME EndInv, [Next]_vars PROVE EndInv'
  OBVIOUS
<1> USE DEF EndInv, lifeVars, setVars, pollVars
<1>1. CASE \E s \in Stream : StreamStep(s)
  BY <1>1, EndInvStream DEF StreamStep
<1>2. CASE HealthRequest \/ SetStarted
  BY <1>2 DEF HealthRequest, SetStarted
<1>3. CASE AddCustom
  BY <1>3 DEF AddCustom
<1>4. CASE PollOff
  BY <1>4 DEF PollOff
<1>5. CASE PollOn
  BY <1>5 DEF PollOn
<1>6. CASE Signal
  BY <1>6 DEF Signal
<1>7. CASE CancelBackgroundTasks
  BY <1>7 DEF CancelBackgroundTasks
<1>8. CASE ShutdownBegins
  BY <1>8 DEF ShutdownBegins, CancelPolling
<1>9. CASE PollEnds
  BY <1>9 DEF PollEnds
<1>10. CASE PollAwaited
  BY <1>10 DEF PollAwaited
<1>11. CASE Restart
  BY <1>11 DEF Restart
<1>12. CASE UNCHANGED vars
  BY <1>12 DEF vars
<1> QED
  BY <1>1, <1>2, <1>3, <1>4, <1>5, <1>6, <1>7, <1>8, <1>9, <1>10, <1>11, <1>12
  DEF Next, StreamStep

\* _shutdown leaves no poll loop behind, and none ever runs that _poll_task
\* does not refer to: with any number of streams, whatever connects,
\* disconnects or sets an interval, and whenever a signal comes.
THEOREM PollingHasAnOwner == Spec => []PollingIsOwned
<1>1. EndInv => PollingIsOwned
  BY DEF EndInv, PollingIsOwned
<1> QED BY <1>1, EndInvInit, EndInvNext, PTL DEF Spec

-----------------------------------------------------------------------------
(* Slots and connections are counted where they are taken and given back,  *)
(* so each counter is the size of the set of streams it counts.            *)

In(P)       == {s \in Stream : phase[s] \in P}
One(p, P)   == IF p \in P THEN 1 ELSE 0
SlotKept    == Phase \ {"off", "dropped"}
Connections == {"checking", "sending", "sleeping", "dropped"}

CountInv ==
    /\ phase \in [Stream -> Phase]
    /\ slots = Cardinality(In(SlotKept))
    /\ slots <= MaxStreams
    /\ active = Cardinality(In(Connections))

\* One stream that changes its phase joins or leaves the set of those in P.
LEMMA PhaseCounted ==
    ASSUME NEW P, NEW s \in Stream, NEW p, Goes(s, p), phase \in [Stream -> Phase]
    PROVE  /\ Cardinality(In(P)) \in Nat
           /\ Cardinality(In(P)') = Cardinality(In(P)) + One(p, P) - One(phase[s], P)
<1> USE DEF One
<1>1. IsFiniteSet(In(P))
  BY StreamAssumption, FS_Subset DEF In
<1>2. CASE p \in P /\ phase[s] \notin P
  <2>1. In(P)' = In(P) \cup {s} /\ s \notin In(P)
    BY <1>2 DEF In, Goes
  <2> QED BY <1>1, <1>2, <2>1, FS_AddElement, FS_CardinalityType
<1>3. CASE p \notin P /\ phase[s] \in P
  <2>1. In(P)' = In(P) \ {s} /\ s \in In(P)
    BY <1>3 DEF In, Goes
  <2> QED BY <1>1, <1>3, <2>1, FS_RemoveElement, FS_CardinalityType
<1>4. CASE (p \in P) = (phase[s] \in P)
  <2>1. In(P)' = In(P)
    BY <1>4 DEF In, Goes
  <2> QED BY <1>1, <1>4, <2>1, FS_CardinalityType
<1> QED BY <1>2, <1>3, <1>4

LEMMA CountInvInit == Init => CountInv
<1> SUFFICES ASSUME Init PROVE CountInv
  OBVIOUS
<1>1. In(SlotKept) = {} /\ In(Connections) = {}
  BY DEF Init, In, SlotKept, Connections
<1> QED BY <1>1, FS_EmptySet, MaxStreamsAssumption DEF Init, CountInv, Phase

LEMMA CountInvStream ==
    ASSUME CountInv, NEW s \in Stream, StreamStep(s)
    PROVE  CountInv'
<1> DEFINE Moves(p) ==
             /\ Goes(s, p)
             /\ p \in Phase
             /\ p \in SlotKept /\ phase[s] \notin SlotKept => slots < MaxStreams
             /\ slots' = slots + One(p, SlotKept) - One(phase[s], SlotKept)
             /\ active' = active + One(p, Connections) - One(phase[s], Connections)
<1> slots \in Nat /\ active \in Nat
  <2>1. IsFiniteSet(In(SlotKept)) /\ IsFiniteSet(In(Connections))
    BY StreamAssumption, FS_Subset DEF In
  <2> QED BY <2>1, FS_CardinalityType DEF CountInv
<1>1. \E p : Moves(p)
  <2> USE DEF One, SlotKept, Connections, Phase, CountInv, pollVars
  <2>1. CASE Open(s)
    BY <2>1 DEF Open, HasSlot
  <2>2. CASE Start(s)
    BY <2>2 DEF Start, NextEvent, Finally
  <2>3. CASE Results(s)
    BY <2>3 DEF Results
  <2>4. CASE Sent(s)
    BY <2>4 DEF Sent, Finally
  <2>5. CASE Wake(s)
    BY <2>5 DEF Wake, NextEvent, Finally
  <2>6. CASE Interrupted(s)
    BY <2>6 DEF Interrupted, Finally, Streaming
  <2>7. CASE Close(s)
    BY <2>7 DEF Close
  <2>8. CASE Finalize(s)
    BY <2>8 DEF Finalize, Finally
  <2> QED BY <2>1, <2>2, <2>3, <2>4, <2>5, <2>6, <2>7, <2>8 DEF StreamStep
<1>2. PICK p : Moves(p)
  BY <1>1
<1>3. Cardinality(In(SlotKept)') = slots'
  BY <1>2, PhaseCounted DEF CountInv
<1>4. Cardinality(In(Connections)') = active'
  BY <1>2, PhaseCounted DEF CountInv
<1>5. phase' \in [Stream -> Phase]
  BY <1>2 DEF Goes, CountInv
<1>6. slots' <= MaxStreams
  BY <1>2, MaxStreamsAssumption DEF CountInv, One
<1> QED BY <1>3, <1>4, <1>5, <1>6 DEF CountInv, In, SlotKept, Connections

LEMMA CountInvNext == CountInv /\ [Next]_vars => CountInv'
<1> SUFFICES ASSUME CountInv, [Next]_vars PROVE CountInv'
  OBVIOUS
<1>1. CASE \E s \in Stream : StreamStep(s)
  BY <1>1, CountInvStream
<1>2. CASE UNCHANGED <<phase, slots, active>>
  BY <1>2 DEF CountInv, In, SlotKept, Connections
<1> QED
  BY <1>1, <1>2
  DEF Next, StreamStep, vars, pollVars, HealthRequest, AddCustom, PollOff, PollOn, Signal, SetStarted,
      CancelBackgroundTasks, ShutdownBegins, PollEnds, PollAwaited, Restart

\* "At most max_stream_connections streams are open at once", for any limit and
\* any number of requests: a slot is taken before a response starts and given
\* back once, by whatever ends the response.
THEOREM SlotsAreLimited == Spec => []StreamsLimited
<1>1. CountInv => StreamsLimited
  <2>1. In(SlotKept) = Holding \/ phase \notin [Stream -> Phase]
    BY DEF In, SlotKept, Holding
  <2> QED BY <2>1 DEF CountInv, StreamsLimited
<1> QED BY <1>1, CountInvInit, CountInvNext, PTL DEF Spec

-----------------------------------------------------------------------------
(* A registry-wide interval is polled while a connection is counted, a     *)
(* dropped generator's included: that is what PollOn and the handlers of   *)
(* connections look at.  A cancelled loop is only there during a shutdown. *)

PollInv ==
    /\ polled /\ ~stopping /\ active > 0 => poll = "running"
    /\ poll = "running" /\ ~custom => active > 0
    /\ poll \in {"none", "running", "cancelled", "ended"}
    /\ poll \in {"cancelled", "ended"} => stopping
    /\ hook => stopping

FullInv == EndInv /\ CountInv /\ PollInv

LEMMA ActiveCounts ==
    ASSUME CountInv
    PROVE  active \in Nat /\ (active = 0 <=> In(Connections) = {})
<1>1. IsFiniteSet(In(Connections))
  BY StreamAssumption, FS_Subset DEF In
<1> QED BY <1>1, FS_EmptySet, FS_CardinalityType DEF CountInv

\* A stream that is connected is counted.
LEMMA ConnectedIsCounted ==
    ASSUME CountInv, NEW s \in Stream, phase[s] \in Connections
    PROVE  active \in Nat \ {0}
BY ActiveCounts DEF In

LEMMA PollInvInit == Init => PollInv
BY DEF Init, PollInv

LEMMA PollInvStream ==
    ASSUME FullInv, NEW s \in Stream, StreamStep(s)
    PROVE  PollInv'
<1> USE DEF FullInv, PollInv, lifeVars, setVars, pollVars
<1> active \in Nat
  BY ActiveCounts
<1>1. CASE Open(s)
  BY <1>1 DEF Open
<1>2. CASE Start(s)
  <2>1. UNCHANGED <<polled, custom, stopping, hook>>
    BY <1>2 DEF Start
  <2>2. CASE NextEvent(s, Connected(poll, active + 1)) /\ active' = active + 1
    BY <2>1, <2>2 DEF NextEvent, Connected, Ensured, Done
  <2>3. CASE Finally(s, Connected(poll, active + 1), active)
    BY <2>1, <2>3 DEF Finally, Connected, Disconnected, Done
  <2> QED BY <1>2, <2>2, <2>3 DEF Start
<1>3. CASE Results(s)
  BY <1>3 DEF Results
<1>4. CASE Sent(s)
  BY <1>4, ConnectedIsCounted DEF Sent, Finally, Disconnected, Connections
<1>5. CASE Wake(s)
  BY <1>5, ConnectedIsCounted DEF Wake, NextEvent, Ensured, Done, Finally, Disconnected, Connections
<1>6. CASE Interrupted(s)
  BY <1>6, ConnectedIsCounted DEF Interrupted, Streaming, Finally, Disconnected, Connections
<1>7. CASE Close(s)
  BY <1>7 DEF Close
<1>8. CASE Finalize(s)
  BY <1>8, ConnectedIsCounted DEF Finalize, Finally, Disconnected, Connections
<1> QED BY <1>1, <1>2, <1>3, <1>4, <1>5, <1>6, <1>7, <1>8 DEF StreamStep

LEMMA PollInvNext == FullInv /\ [Next]_vars => PollInv'
<1> SUFFICES ASSUME FullInv, [Next]_vars PROVE PollInv'
  OBVIOUS
<1> USE DEF FullInv, EndInv, PollInv, lifeVars, setVars, pollVars
<1> active \in Nat
  BY ActiveCounts
<1>1. CASE \E s \in Stream : StreamStep(s)
  BY <1>1, PollInvStream
<1>2. CASE HealthRequest \/ SetStarted
  BY <1>2 DEF HealthRequest, SetStarted, Ensured, Done
<1>3. CASE AddCustom
  BY <1>3 DEF AddCustom
<1>4. CASE PollOff
  BY <1>4 DEF PollOff
<1>5. CASE PollOn
  BY <1>5 DEF PollOn, Restarted
<1>6. CASE Signal
  BY <1>6 DEF Signal
<1>7. CASE CancelBackgroundTasks
  BY <1>7 DEF CancelBackgroundTasks
<1>8. CASE ShutdownBegins
  BY <1>8 DEF ShutdownBegins, CancelPolling
<1>9. CASE PollEnds
  BY <1>9 DEF PollEnds
<1>10. CASE PollAwaited
  BY <1>10 DEF PollAwaited
<1>11. CASE Restart
  <2>1. In(Connections) = {}
    BY <1>11 DEF Restart, In, Connections
  <2> QED BY <1>11, <2>1, ActiveCounts DEF Restart
<1>12. CASE UNCHANGED vars
  BY <1>12 DEF vars
<1> QED
  BY <1>1, <1>2, <1>3, <1>4, <1>5, <1>6, <1>7, <1>8, <1>9, <1>10, <1>11, <1>12
  DEF Next, StreamStep

LEMMA FullInvAlways == Spec => []FullInv
<1>1. Init => FullInv
  BY EndInvInit, CountInvInit, PollInvInit DEF FullInv
<1>2. FullInv /\ [Next]_vars => FullInv'
  BY EndInvNext, CountInvNext, PollInvNext DEF FullInv
<1> QED BY <1>1, <1>2, PTL DEF Spec

\* Probes on the registry-wide interval are polled while a stream is connected
\* and, without intervals of their own, only then: for any number of streams,
\* however their responses and generators end, and whatever interval is set.
THEOREM PollingServesStreams == Spec => []PollingFollowsStreams
<1>1. FullInv => PollingFollowsStreams
  <2> SUFFICES ASSUME FullInv PROVE PollingFollowsStreams
    OBVIOUS
  <2>1. Streaming # {} => active > 0
    BY ConnectedIsCounted DEF FullInv, Streaming, Connections
  <2> QED BY <2>1 DEF FullInv, PollInv, PollingFollowsStreams
<1> QED BY <1>1, FullInvAlways, PTL

-----------------------------------------------------------------------------
(* Types.  The streams whose cancellation is on its way are under way: one *)
(* that ends or is dropped in any way is no longer among them.             *)

StreamTypes ==
    /\ phase \in [Stream -> Phase]
    /\ once \subseteq Stream
    /\ doomed \subseteq Streaming
    /\ lost \in BOOLEAN /\ polled \in BOOLEAN /\ custom \in BOOLEAN
    /\ stopping \in BOOLEAN /\ hook \in BOOLEAN /\ signals \in {"none", "loop", "flag"}

LEMMA StreamTypesInit == Init => StreamTypes
BY DEF Init, StreamTypes, Phase

\* A stream goes on, or ends and is no longer doomed.
LEMMA DoomedGoOn ==
    ASSUME StreamTypes, NEW s \in Stream, NEW p \in Phase, Goes(s, p),
           doomed' \subseteq doomed,
           s \in doomed' => p \in {"checking", "sending", "sleeping"}
    PROVE  phase' \in [Stream -> Phase] /\ doomed' \subseteq Streaming'
<1>1. phase' \in [Stream -> Phase]
  BY DEF Goes, StreamTypes
<1>2. ASSUME NEW t \in doomed' PROVE t \in Streaming'
  <2>1. t \in Stream /\ phase[t] \in {"checking", "sending", "sleeping"}
    BY <1>2 DEF StreamTypes, Streaming
  <2> QED BY <1>2, <2>1 DEF Goes, StreamTypes, Streaming
<1> QED BY <1>1, <1>2

LEMMA StreamTypesStream ==
    ASSUME StreamTypes, NEW s \in Stream, StreamStep(s)
    PROVE  StreamTypes'
<1> DEFINE Moves(p) ==
             /\ p \in Phase /\ Goes(s, p)
             /\ doomed' \subseteq doomed
             /\ s \in doomed' => p \in {"checking", "sending", "sleeping"}
<1>1. (\E p : Moves(p)) /\ once' \subseteq Stream /\ UNCHANGED <<lost, setVars, stopping, hook>>
      /\ signals' \in {"none", "loop", "flag"}
  <2> USE DEF StreamTypes, Phase, Streaming, Installed, setVars, lifeVars, pollVars
  <2>1. CASE Open(s)
    BY <2>1 DEF Open
  <2>2. CASE Start(s)
    BY <2>2 DEF Start, NextEvent, Finally
  <2>3. CASE Results(s)
    BY <2>3 DEF Results
  <2>4. CASE Sent(s)
    BY <2>4 DEF Sent, Finally
  <2>5. CASE Wake(s)
    BY <2>5 DEF Wake, NextEvent, Finally
  <2>6. CASE Interrupted(s)
    BY <2>6 DEF Interrupted, Finally
  <2>7. CASE Close(s)
    BY <2>7 DEF Close
  <2>8. CASE Finalize(s)
    BY <2>8 DEF Finalize, Finally
  <2> QED BY <2>1, <2>2, <2>3, <2>4, <2>5, <2>6, <2>7, <2>8 DEF StreamStep
<1>2. phase' \in [Stream -> Phase] /\ doomed' \subseteq Streaming'
  BY <1>1, DoomedGoOn
<1> QED BY <1>1, <1>2 DEF StreamTypes, setVars, lifeVars

LEMMA StreamTypesNext == StreamTypes /\ [Next]_vars => StreamTypes'
<1> SUFFICES ASSUME StreamTypes, [Next]_vars PROVE StreamTypes'
  OBVIOUS
<1>1. CASE \E s \in Stream : StreamStep(s)
  BY <1>1, StreamTypesStream
<1>2. CASE CancelBackgroundTasks \/ ShutdownBegins
  BY <1>2 DEF CancelBackgroundTasks, CancelStreams, ShutdownBegins, StreamTypes, Streaming,
              setVars, lifeVars
<1>3. CASE \/ SetStarted \/ HealthRequest \/ AddCustom \/ PollOff \/ PollOn \/ Signal
           \/ PollEnds \/ PollAwaited \/ Restart
  BY <1>3 DEF SetStarted, Installed, HealthRequest, AddCustom, PollOff, PollOn, Signal,
              PollEnds, PollAwaited, Restart, StreamTypes, Streaming, setVars, lifeVars, pollVars
<1>4. CASE UNCHANGED vars
  BY <1>4 DEF vars, StreamTypes, Streaming
<1> QED BY <1>1, <1>2, <1>3, <1>4 DEF Next, StreamStep

\* The state always has the shape TypeOK gives: _stream_slots and
\* _active_connections are the sizes of what they count, and whoever is still
\* to be told of its cancellation is under way.
THEOREM TypeCorrect == Spec => []TypeOK
<1>1. FullInv /\ StreamTypes => TypeOK
  <2> SUFFICES ASSUME FullInv, StreamTypes PROVE TypeOK
    OBVIOUS
  <2>1. In(SlotKept) = Holding /\ In(Connections) = {s \in Stream : phase[s] \in Connections}
    BY DEF StreamTypes, In, SlotKept, Holding
  <2> QED BY <2>1 DEF FullInv, EndInv, CountInv, PollInv, StreamTypes, Connections, TypeOK
<1> QED BY <1>1, FullInvAlways, StreamTypesInit, StreamTypesNext, PTL DEF Spec

-----------------------------------------------------------------------------
(***************************************************************************)
(* StorageWriter.                                                          *)
(* For any names, results, alert records and bound of the backlog: no      *)
(* result is left behind, the backend goes back in time only by forget()   *)
(* and late calls, records are stored in order, and what is kept is        *)
(* tracked unless it was raced.                                            *)
(***************************************************************************)

\* Every action of one name.
NameStep(n) ==
    \/ RunStarts(n) \/ RunEnds(n) \/ LatestLands(n) \/ HistoryLands(n)
    \/ WriterReturns(n) \/ Unregister(n) \/ Register(n)

\* A call that was given up on takes effect.
LateStep(call) == LateResultLands(call) \/ LateForgetLands(call) \/ LateAlertLands(call)

OtherStep ==
    \/ AlertRecorded \/ AlertWriterReturns
    \/ ForgetCalled \/ ForgetLands \/ ForgetReturns \/ ForgetFails
    \/ FlushBegins \/ Flushed \/ FlushTimeout
    \/ \E call \in late : LateStep(call)

LEMMA NextSteps == WriterNext <=> (\E n \in Name : NameStep(n)) \/ OtherStep
BY DEF WriterNext, NameStep, OtherStep, LateStep

\* Only what a writer, the forget() call or the alert records' writer has under way
\* becomes late.
LEMMA LateComes ==
    ASSUME [WriterNext]_writerVars, NEW call \in late', call \notin late
    PROVE  \/ \E n \in Name : /\ call \in Unlanded(n)
                              /\ writing'[n] # None => WriterReturns(n)
           \/ call \in UnlandedForget
           \/ call = CallOf("alert", {}, alertWrite) /\ alertWrite # None
<1> USE DEF GivenUp, callVars
<1>1. ASSUME NEW n \in Name, NameStep(n) PROVE WriterReturns(n) /\ call \in Unlanded(n)
  BY <1>1 DEF NameStep, RunStarts, RunEnds, LatestLands, HistoryLands, WriterReturns,
              Unregister, Register
<1>2. CASE AlertRecorded \/ ForgetCalled \/ ForgetLands \/ ForgetReturns \/ Flushed
  BY <1>2 DEF AlertRecorded, ForgetCalled, ForgetLands, ForgetReturns, Flushed
<1>3. CASE AlertWriterReturns
  BY <1>3 DEF AlertWriterReturns, UnlandedAlert
<1>4. CASE ForgetFails \/ FlushBegins
  BY <1>4 DEF ForgetFails, FlushBegins
<1>5. CASE FlushTimeout
  <2>1. \/ call \in UNION {Unlanded(n) : n \in Name}
        \/ call = CallOf("alert", {}, alertWrite) /\ alertWrite # None
    BY <1>5 DEF FlushTimeout, UnlandedAlert
  <2>2. ASSUME NEW n \in Name PROVE writing'[n] = None
    BY <1>5 DEF FlushTimeout
  <2> QED BY <2>1, <2>2
<1>6. CASE \E c \in late : LateStep(c)
  BY <1>6 DEF LateStep, LateResultLands, LateForgetLands, LateAlertLands
<1>7. CASE UNCHANGED writerVars
  BY <1>7 DEF writerVars
<1> QED BY <1>1, <1>2, <1>3, <1>4, <1>5, <1>6, <1>7, NextSteps DEF OtherStep

-----------------------------------------------------------------------------
(* Results.                                                                *)

\* The types of what the writers handle, and the order of a name's results:
\* the backend has none newer than the one being written, and the writer none
\* newer than the last.
ResultInv ==
    /\ newest \in [Name -> Nat]
    /\ unwritten \in [Name -> Nat]
    /\ writing \in [Name -> Nat]
    /\ latest \in [Name -> Nat]
    /\ pending \in [Name -> SUBSET ResultCalls]
    /\ \A n \in Name : /\ latest[n] <= newest[n]
                       /\ writing[n] # None => latest[n] <= writing[n] /\ writing[n] <= newest[n]
                       /\ writing[n] # None /\ unwritten[n] # None => writing[n] < unwritten[n]
                       /\ pending[n] # {} => writing[n] # None
    /\ NoResultLeftBehind

\* A late result is older than the one being written, and not newer than the last.
LateInv ==
    \A call \in late : call.op \in ResultCalls =>
       /\ call.names \subseteq Name /\ call.result \in Nat
       /\ \A n \in call.names :
             call.result <= newest[n] /\ (writing[n] # None => call.result < writing[n])

LEMMA ResultInvInit == WriterInit => ResultInv /\ LateInv
BY DEF WriterInit, ResultInv, LateInv, NoResultLeftBehind, None

LEMMA ResultInvName ==
    ASSUME ResultInv, NEW n \in Name, NameStep(n)
    PROVE  ResultInv'
<1> USE DEF ResultInv, NoResultLeftBehind, None, resultVars, callVars, storeVars, closeVars
<1>1. CASE RunStarts(n)
  BY <1>1 DEF RunStarts
<1>2. CASE RunEnds(n)
  BY <1>2 DEF RunEnds, NewestWaits
<1>3. CASE LatestLands(n)
  BY <1>3 DEF LatestLands
<1>4. CASE HistoryLands(n)
  BY <1>4 DEF HistoryLands
<1>5. CASE WriterReturns(n)
  BY <1>5 DEF WriterReturns, NextResult
<1>6. CASE Unregister(n)
  BY <1>6 DEF Unregister
<1>7. CASE Register(n)
  BY <1>7 DEF Register
<1> QED BY <1>1, <1>2, <1>3, <1>4, <1>5, <1>6, <1>7 DEF NameStep

LEMMA ResultInvOther == ResultInv /\ LateInv /\ OtherStep => ResultInv'
<1> SUFFICES ASSUME ResultInv, LateInv, OtherStep PROVE ResultInv'
  OBVIOUS
<1> USE DEF ResultInv, NoResultLeftBehind, None, resultVars, callVars, storeVars, closeVars
<1>1. CASE AlertRecorded
  BY <1>1 DEF AlertRecorded
<1>2. CASE AlertWriterReturns
  BY <1>2 DEF AlertWriterReturns
<1>3. CASE ForgetCalled
  BY <1>3 DEF ForgetCalled
<1>4. CASE ForgetLands
  BY <1>4 DEF ForgetLands, Delete
<1>5. CASE ForgetReturns
  BY <1>5 DEF ForgetReturns
<1>6. CASE ForgetFails
  BY <1>6 DEF ForgetFails
<1>7. CASE FlushBegins
  BY <1>7 DEF FlushBegins
<1>8. CASE Flushed
  BY <1>8 DEF Flushed
<1>9. CASE FlushTimeout
  BY <1>9 DEF FlushTimeout
<1>10. ASSUME NEW call \in late, LateResultLands(call) PROVE ResultInv'
  BY <1>10 DEF LateResultLands, LateInv
<1>11. ASSUME NEW call \in late, LateForgetLands(call) PROVE ResultInv'
  BY <1>11 DEF LateForgetLands, Delete
<1>12. ASSUME NEW call \in late, LateAlertLands(call) PROVE ResultInv'
  BY <1>12 DEF LateAlertLands
<1> QED BY <1>1, <1>2, <1>3, <1>4, <1>5, <1>6, <1>7, <1>8, <1>9, <1>10, <1>11, <1>12
        DEF OtherStep, LateStep

\* What a writer begins to write is newer than what it wrote, or than everything.
LEMMA WritesNewer ==
    ASSUME ResultInv, [WriterNext]_writerVars, NEW n \in Name
    PROVE  /\ newest'[n] >= newest[n]
           /\ \/ writing'[n] \in {None, writing[n]}
              \/ writing[n] # None /\ writing'[n] > writing[n]
              \/ writing'[n] > newest[n]
<1> USE DEF ResultInv, None, resultVars
<1>1. CASE \E m \in Name : NameStep(m)
  BY <1>1 DEF NameStep, RunStarts, RunEnds, LatestLands, HistoryLands, WriterReturns,
              NextResult, Unregister, Register
<1>2. CASE \/ AlertRecorded \/ AlertWriterReturns \/ ForgetCalled \/ ForgetLands
           \/ ForgetReturns \/ ForgetFails \/ FlushBegins \/ Flushed \/ FlushTimeout
  BY <1>2 DEF AlertRecorded, AlertWriterReturns, ForgetCalled, ForgetLands, ForgetReturns,
              ForgetFails, FlushBegins, Flushed, FlushTimeout
<1>3. CASE \E call \in late : LateStep(call)
  BY <1>3 DEF LateStep, LateResultLands, LateForgetLands, LateAlertLands
<1>4. CASE UNCHANGED writerVars
  BY <1>4 DEF writerVars
<1> QED BY <1>1, <1>2, <1>3, <1>4, NextSteps DEF OtherStep

LEMMA LateInvNext == ResultInv /\ LateInv /\ [WriterNext]_writerVars => LateInv'
<1> SUFFICES ASSUME ResultInv, LateInv, [WriterNext]_writerVars,
                    NEW call \in late', call.op \in ResultCalls
             PROVE  /\ call.names \subseteq Name /\ call.result \in Nat
                    /\ \A n \in call.names :
                          /\ call.result <= newest'[n]
                          /\ writing'[n] # None => call.result < writing'[n]
  BY DEF LateInv
<1>0. ResultInv'
  BY ResultInvName, ResultInvOther, NextSteps DEF writerVars, ResultInv, NoResultLeftBehind
<1>1. CASE call \in late
  <2>1. /\ call.names \subseteq Name /\ call.result \in Nat
        /\ \A n \in call.names :
              call.result <= newest[n] /\ (writing[n] # None => call.result < writing[n])
    BY <1>1 DEF LateInv
  <2>2. ASSUME NEW n \in call.names
        PROVE  /\ call.result <= newest'[n]
               /\ writing'[n] # None => call.result < writing'[n]
    <3>1. /\ newest'[n] >= newest[n]
          /\ \/ writing'[n] \in {None, writing[n]}
             \/ writing[n] # None /\ writing'[n] > writing[n]
             \/ writing'[n] > newest[n]
      BY <2>1, WritesNewer
    <3>2. /\ newest[n] \in Nat /\ newest'[n] \in Nat
          /\ writing[n] \in Nat /\ writing'[n] \in Nat
      BY <1>0, <2>1 DEF ResultInv
    <3> QED BY <2>1, <3>1, <3>2 DEF None
  <2> QED BY <2>1, <2>2
<1>2. CASE call \notin late
  <2>1. PICK n \in Name : /\ call \in Unlanded(n)
                          /\ writing'[n] # None => WriterReturns(n)
    BY <1>2, LateComes DEF UnlandedForget, CallOf, ResultCalls
  <2>2. call.names = {n} /\ call.result = writing[n] /\ writing[n] # None
    BY <2>1 DEF Unlanded, CallOf, ResultInv
  <2>3. newest'[n] >= newest[n] /\ writing[n] <= newest[n]
    BY <2>2, WritesNewer DEF ResultInv
  <2>4. writing'[n] # None => writing[n] < writing'[n]
    BY <2>1, <2>2 DEF WriterReturns, NextResult, ResultInv
  <2> QED BY <1>0, <2>2, <2>3, <2>4 DEF ResultInv
<1> QED BY <1>1, <1>2

LEMMA ResultInvNext ==
    ResultInv /\ LateInv /\ [WriterNext]_writerVars => ResultInv' /\ LateInv'
<1>1. ResultInv /\ UNCHANGED writerVars => ResultInv'
  BY DEF writerVars, ResultInv, NoResultLeftBehind
<1> QED BY <1>1, ResultInvName, ResultInvOther, LateInvNext, NextSteps

LEMMA ResultInvAlways == WriterSpec => [](ResultInv /\ LateInv)
BY ResultInvInit, ResultInvNext, PTL DEF WriterSpec

\* A result that waits is the newest and has a writer, unless the shutdown cut
\* it short, and without one waiting the writer has the newest: for any number
\* of names and results, whatever fails, times out or ends at the same time.
THEOREM NewestIsOnItsWay == WriterSpec => []NoResultLeftBehind
<1>1. ResultInv => NoResultLeftBehind
  BY DEF ResultInv
<1> QED BY <1>1, ResultInvAlways, PTL

\* What one step does to the backend's latest result of a name: what the writer has
\* lands, it is forgotten, or a call that was given up on takes effect.
LEMMA LatestChanges ==
    ASSUME ResultInv, [WriterNext]_writerVars, NEW n \in Name
    PROVE  \/ latest'[n] = latest[n]
           \/ writing[n] # None /\ latest'[n] = writing[n]
           \/ latest'[n] = None /\ n \in forgetting
           \/ ByLateCall(n, latest'[n])
<1> USE DEF ResultInv, storeVars
<1>1. CASE \E m \in Name : NameStep(m)
  BY <1>1 DEF NameStep, RunStarts, RunEnds, LatestLands, HistoryLands, WriterReturns,
              Unregister, Register
<1>2. CASE \/ AlertRecorded \/ AlertWriterReturns \/ ForgetCalled \/ ForgetLands
           \/ ForgetReturns \/ ForgetFails \/ FlushBegins \/ Flushed \/ FlushTimeout
  BY <1>2 DEF AlertRecorded, AlertWriterReturns, ForgetCalled, ForgetLands, ForgetReturns,
              ForgetFails, FlushBegins, Flushed, FlushTimeout, Delete, Deleted
<1>3. CASE \E call \in late : LateStep(call)
  BY <1>3 DEF LateStep, LateResultLands, LateForgetLands, LateAlertLands, Delete, Deleted,
              ByLateCall
<1>4. CASE UNCHANGED writerVars
  BY <1>4 DEF writerVars
<1> QED BY <1>1, <1>2, <1>3, <1>4, NextSteps DEF OtherStep

\* The backend's latest result of a name goes back only by forget() or by a call
\* that had timed out: for any number of names, results and late calls.
THEOREM LatestOnlyNewer == WriterSpec => StoreNeverGoesBack
<1>1. ASSUME ResultInv, [WriterNext]_writerVars
      PROVE  [\A n \in Name : \/ latest'[n] >= latest[n]
                              \/ latest'[n] = None /\ n \in forgetting
                              \/ ByLateCall(n, latest'[n])]_writerVars
  BY <1>1, LatestChanges DEF ResultInv
<1> QED BY <1>1, ResultInvAlways, PTL DEF WriterSpec, StoreNeverGoesBack

-----------------------------------------------------------------------------
(* Names to forget.  Races and late writes aside, what is being written is *)
(* tracked, and a name the backend is asked to forget has no writer and,   *)
(* once it has been forgotten there, nothing left.                         *)

TrackedInv ==
    /\ DOMAIN writing = Name /\ DOMAIN latest = Name /\ DOMAIN unwritten = Name
    /\ \A n \in Name \ raced : Kept(n) \/ writing[n] # None => n \in tracked
    /\ \A n \in forgetting \ raced : writing[n] = None /\ (forgot => ~Kept(n))
    /\ tracked \subseteq Name /\ forgetting \subseteq Name
    /\ \A n \in Name : unwritten[n] # None => writing[n] # None \/ cut

LEMMA TrackedInvInit == WriterInit => TrackedInv
BY DEF WriterInit, TrackedInv, Kept, None

LEMMA TrackedInvName ==
    ASSUME ResultInv, TrackedInv, NEW n \in Name, NameStep(n)
    PROVE  TrackedInv'
<1> USE DEF TrackedInv, Kept, None, resultVars, callVars, storeVars, forgetVars, closeVars
<1>1. CASE RunStarts(n)
  BY <1>1 DEF RunStarts
<1>2. CASE RunEnds(n)
  BY <1>2 DEF RunEnds
<1>3. CASE LatestLands(n)
  BY <1>3 DEF LatestLands, ResultInv
<1>4. CASE HistoryLands(n)
  BY <1>4 DEF HistoryLands, ResultInv
<1>5. CASE WriterReturns(n)
  BY <1>5 DEF WriterReturns, NextResult
<1>6. CASE Unregister(n)
  BY <1>6 DEF Unregister
<1>7. CASE Register(n)
  BY <1>7 DEF Register
<1> QED BY <1>1, <1>2, <1>3, <1>4, <1>5, <1>6, <1>7 DEF NameStep

LEMMA TrackedInvOther == TrackedInv /\ OtherStep => TrackedInv'
<1> SUFFICES ASSUME TrackedInv, OtherStep PROVE TrackedInv'
  OBVIOUS
<1> USE DEF TrackedInv, Kept, None, resultVars, callVars, storeVars, forgetVars, closeVars
<1>1. CASE AlertRecorded
  BY <1>1 DEF AlertRecorded
<1>2. CASE AlertWriterReturns
  BY <1>2 DEF AlertWriterReturns
<1>3. CASE ForgetCalled
  BY <1>3 DEF ForgetCalled, Stale
<1>4. CASE ForgetLands
  BY <1>4 DEF ForgetLands, Delete, Deleted
<1>5. CASE ForgetReturns
  BY <1>5 DEF ForgetReturns
<1>6. CASE ForgetFails
  BY <1>6 DEF ForgetFails
<1>7. CASE FlushBegins
  BY <1>7 DEF FlushBegins
<1>8. CASE Flushed
  BY <1>8 DEF Flushed
<1>9. CASE FlushTimeout
  BY <1>9 DEF FlushTimeout
<1>10. ASSUME NEW call \in late, LateResultLands(call) PROVE TrackedInv'
  BY <1>10 DEF LateResultLands
<1>11. ASSUME NEW call \in late, LateForgetLands(call) PROVE TrackedInv'
  BY <1>11 DEF LateForgetLands, Delete, Deleted
<1>12. ASSUME NEW call \in late, LateAlertLands(call) PROVE TrackedInv'
  BY <1>12 DEF LateAlertLands
<1> QED BY <1>1, <1>2, <1>3, <1>4, <1>5, <1>6, <1>7, <1>8, <1>9, <1>10, <1>11, <1>12
        DEF OtherStep, LateStep

LEMMA TrackedInvNext == ResultInv /\ TrackedInv /\ [WriterNext]_writerVars => TrackedInv'
<1>1. TrackedInv /\ UNCHANGED writerVars => TrackedInv'
  BY DEF writerVars, TrackedInv, Kept
<1> QED BY <1>1, TrackedInvName, TrackedInvOther, NextSteps

LEMMA TrackedInvAlways == WriterSpec => []TrackedInv
BY TrackedInvInit, TrackedInvNext, ResultInvAlways, PTL DEF WriterSpec

\* What this process wrote and the backend keeps, it will still ask to forget,
\* except for a name written again by a run that ended while forget() was under
\* way or by a call that had timed out: for any number of names, through failed
\* calls and the shutdown's flush.
THEOREM KeptIsTracked == WriterSpec => []TrackedUnlessRaced
<1>1. TrackedInv => TrackedUnlessRaced
  BY DEF TrackedInv, TrackedUnlessRaced
<1> QED BY <1>1, TrackedInvAlways, PTL

-----------------------------------------------------------------------------
(* Alert records.  The backlog is in order, newer than what is stored, may *)
(* be stored late or is being written, and no newer than the last record.  *)

AlertInv ==
    /\ alerts \in Nat /\ stored \in Nat /\ alertWrite \in Nat
    /\ backlog \in Seq(Nat)
    /\ stored <= alerts /\ alertWrite <= alerts
    /\ \A i \in 1 .. Len(backlog) : stored < backlog[i] /\ backlog[i] <= alerts
    /\ \A i, j \in 1 .. Len(backlog) : i < j => backlog[i] < backlog[j]
    /\ alertWrite # None =>
          stored < alertWrite /\ \A i \in 1 .. Len(backlog) : alertWrite < backlog[i]
    /\ \A call \in late : call.op = "alert" =>
          /\ call.result \in Nat /\ call.result <= alerts
          /\ alertWrite # None => call.result < alertWrite
          /\ \A i \in 1 .. Len(backlog) : call.result < backlog[i]

\* A record pushed onto the backlog comes last, whether or not the oldest made
\* room for it.
LEMMA PushedIsLast ==
    ASSUME NEW q \in Seq(Nat), NEW x \in Nat
    PROVE  /\ Pushed(q, x) \in Seq(Nat) /\ Pushed(q, x) # << >>
           /\ \E d \in {0, 1} :
                 /\ Len(Pushed(q, x)) = Len(q) + 1 - d
                 /\ Pushed(q, x)[Len(q) + 1 - d] = x
                 /\ \A i \in 1 .. Len(q) - d : Pushed(q, x)[i] = q[i + d]
<1>1. CASE Len(q) < MaxUnwritten
  BY <1>1, AppendProperties DEF Pushed
<1>2. CASE ~(Len(q) < MaxUnwritten)
  <2>1. q # << >>
    BY <1>2, BoundAssumption, EmptySeq
  <2>2. Tail(q) \in Seq(Nat) /\ Len(Tail(q)) = Len(q) - 1
        /\ \A i \in 1 .. Len(q) - 1 : Tail(q)[i] = q[i + 1]
    BY <2>1, HeadTailProperties
  <2>3. Pushed(q, x) = Append(Tail(q), x)
    BY <1>2 DEF Pushed
  <2>4. /\ Pushed(q, x) \in Seq(Nat) /\ Pushed(q, x) # << >>
        /\ Len(Pushed(q, x)) = Len(q) + 1 - 1
        /\ Pushed(q, x)[Len(q) + 1 - 1] = x
        /\ \A i \in 1 .. Len(q) - 1 : Pushed(q, x)[i] = q[i + 1]
    BY <2>2, <2>3, AppendProperties
  <2> QED BY <2>4
<1> QED BY <1>1, <1>2

LEMMA AlertInvInit == WriterInit => AlertInv
BY DEF WriterInit, AlertInv, None

LEMMA AlertInvRecorded == AlertInv /\ AlertRecorded => AlertInv'
<1> SUFFICES ASSUME AlertInv, AlertRecorded PROVE AlertInv'
  OBVIOUS
<1> DEFINE q == Pushed(backlog, alerts + 1)
<1> USE DEF AlertInv, None
<1>1. alerts' = alerts + 1 /\ stored' = stored /\ late' = late
  BY DEF AlertRecorded, callVars
<1>2. /\ q \in Seq(Nat) /\ q # << >>
      /\ \A i \in 1 .. Len(q) : stored < q[i] /\ q[i] <= alerts + 1
      /\ \A i, j \in 1 .. Len(q) : i < j => q[i] < q[j]
      /\ alertWrite # None => \A i \in 1 .. Len(q) : alertWrite < q[i]
      /\ \A call \in late : call.op = "alert" => \A i \in 1 .. Len(q) : call.result < q[i]
  <2>0. /\ backlog \in Seq(Nat) /\ alerts + 1 \in Nat /\ Len(backlog) \in Nat
        /\ \A i \in 1 .. Len(backlog) : backlog[i] \in Nat
    BY LenProperties, ElementOfSeq
  <2>1. /\ q \in Seq(Nat) /\ q # << >>
        /\ \E d \in {0, 1} :
              /\ Len(q) = Len(backlog) + 1 - d
              /\ q[Len(backlog) + 1 - d] = alerts + 1
              /\ \A i \in 1 .. Len(backlog) - d : q[i] = backlog[i + d]
    BY <2>0, PushedIsLast, Zenon
  <2> HIDE DEF q
  <2>2. PICK d \in {0, 1} : /\ Len(q) = Len(backlog) + 1 - d
                            /\ q[Len(backlog) + 1 - d] = alerts + 1
                            /\ \A i \in 1 .. Len(backlog) - d : q[i] = backlog[i + d]
    BY <2>1
  <2>3. \A i \in 1 .. Len(q) : \/ i = Len(q) /\ q[i] = alerts + 1
                               \/ /\ i < Len(q) /\ i + d \in 1 .. Len(backlog)
                                  /\ q[i] = backlog[i + d]
    BY <2>0, <2>2
  <2>4. ASSUME NEW i \in 1 .. Len(q) PROVE stored < q[i] /\ q[i] <= alerts + 1
    <3>1. CASE q[i] = alerts + 1
      BY <3>1
    <3>2. CASE i + d \in 1 .. Len(backlog) /\ q[i] = backlog[i + d]
      <4>1. /\ stored < backlog[i + d] /\ backlog[i + d] <= alerts
            /\ backlog[i + d] \in Nat
        BY <2>0, <3>2
      <4> QED BY <3>2, <4>1
    <3> QED BY <2>3, <3>1, <3>2
  <2>5. ASSUME NEW i \in 1 .. Len(q), NEW j \in 1 .. Len(q), i < j
        PROVE  q[i] < q[j]
    <3>1. i < Len(q) /\ i + d \in 1 .. Len(backlog) /\ q[i] = backlog[i + d]
      BY <2>0, <2>2, <2>3, <2>5
    <3>2. CASE j = Len(q) /\ q[j] = alerts + 1
      BY <2>0, <3>1, <3>2
    <3>3. CASE j + d \in 1 .. Len(backlog) /\ q[j] = backlog[j + d]
      BY <2>0, <2>2, <2>5, <3>1, <3>3
    <3> QED BY <2>3, <3>2, <3>3
  <2>6. ASSUME alertWrite # None, NEW i \in 1 .. Len(q)
        PROVE  alertWrite < q[i]
    <3>1. CASE q[i] = alerts + 1
      BY <3>1
    <3>2. CASE i + d \in 1 .. Len(backlog) /\ q[i] = backlog[i + d]
      BY <2>6, <3>2
    <3> QED BY <2>3, <3>1, <3>2
  <2>7. ASSUME NEW call \in late, call.op = "alert", NEW i \in 1 .. Len(q)
        PROVE  call.result < q[i]
    <3>1. CASE q[i] = alerts + 1
      BY <2>7, <3>1
    <3>2. CASE i + d \in 1 .. Len(backlog) /\ q[i] = backlog[i + d]
      BY <2>7, <3>2
    <3> QED BY <2>3, <3>1, <3>2
  <2> QED BY <2>1, <2>4, <2>5, <2>6, <2>7
<1> HIDE DEF q
<1>3. CASE alertWrite = None
  <2>1. alertWrite' = Head(q) /\ backlog' = Tail(q)
    BY <1>1, <1>3 DEF AlertRecorded, q
  <2>2. Head(q) = q[1] /\ Tail(q) \in Seq(Nat) /\ Len(Tail(q)) = Len(q) - 1
        /\ (\A i \in 1 .. Len(Tail(q)) : Tail(q)[i] = q[i + 1]) /\ 1 \in 1 .. Len(q)
    BY <1>2, HeadTailProperties, EmptySeq, LenProperties
  <2> QED BY <1>1, <1>2, <2>1, <2>2
<1>4. CASE alertWrite # None
  BY <1>1, <1>2, <1>4 DEF AlertRecorded, q
<1> QED BY <1>3, <1>4

LEMMA AlertInvReturns == AlertInv /\ AlertWriterReturns => AlertInv'
<1> SUFFICES ASSUME AlertInv, AlertWriterReturns PROVE AlertInv'
  OBVIOUS
<1> USE DEF AlertInv, None
<1>1. /\ alertWrite # None /\ alerts' = alerts
      /\ stored' \in {stored, alertWrite}
      /\ late' \subseteq late \cup {CallOf("alert", {}, alertWrite)}
  BY DEF AlertWriterReturns, GivenUp, UnlandedAlert
<1>2. ASSUME NEW call \in late', call.op = "alert"
      PROVE  /\ call.result \in Nat /\ call.result <= alertWrite
  BY <1>1, <1>2 DEF CallOf
<1>3. CASE backlog = << >>
  <2>1. alertWrite' = None /\ backlog' = backlog
    BY <1>3 DEF AlertWriterReturns
  <2> QED BY <1>1, <1>2, <2>1
<1>4. CASE backlog # << >>
  <2>1. /\ Head(backlog) = backlog[1] /\ 1 \in 1 .. Len(backlog)
        /\ Tail(backlog) \in Seq(Nat) /\ Len(Tail(backlog)) = Len(backlog) - 1
        /\ \A i \in 1 .. Len(Tail(backlog)) : Tail(backlog)[i] = backlog[i + 1]
    BY <1>4, HeadTailProperties, EmptySeq, LenProperties
  <2>2. alertWrite' = Head(backlog) /\ backlog' = Tail(backlog)
    BY <1>4 DEF AlertWriterReturns
  <2> QED BY <1>1, <1>2, <2>1, <2>2
<1> QED BY <1>3, <1>4

LEMMA AlertInvTimeout == ResultInv /\ AlertInv /\ FlushTimeout => AlertInv'
<1> SUFFICES ASSUME ResultInv, AlertInv, FlushTimeout PROVE AlertInv'
  OBVIOUS
<1> USE DEF AlertInv, None
<1>1. UNCHANGED <<alerts, backlog, stored>> /\ alertWrite' = None
  BY DEF FlushTimeout
<1>2. ASSUME NEW call \in late', call \notin late, call.op = "alert"
      PROVE  call.result = alertWrite /\ alertWrite # None
  <2>1. ASSUME NEW n \in Name, call \in Unlanded(n) PROVE FALSE
    <3>1. PICK op \in pending[n] : call = CallOf(op, {n}, writing[n])
      BY <2>1 DEF Unlanded
    <3>2. op # "alert"
      BY DEF ResultInv, ResultCalls
    <3> QED BY <1>2, <3>1, <3>2 DEF CallOf
  <2>2. call \in (UNION {Unlanded(n) : n \in Name}) \cup UnlandedAlert
    BY <1>2 DEF FlushTimeout, GivenUp
  <2>3. call \in UnlandedAlert
    BY <2>1, <2>2
  <2> QED BY <2>3 DEF UnlandedAlert, CallOf
<1> QED BY <1>1, <1>2

LEMMA AlertInvNext == ResultInv /\ AlertInv /\ [WriterNext]_writerVars => AlertInv'
<1> SUFFICES ASSUME ResultInv, AlertInv, [WriterNext]_writerVars PROVE AlertInv'
  OBVIOUS
<1>1. ASSUME UNCHANGED alertVars, \A call \in late' \ late : call.op # "alert"
      PROVE  AlertInv'
  BY <1>1 DEF alertVars, AlertInv
<1>2. CASE \E n \in Name : NameStep(n)
  <2>1. UNCHANGED alertVars
    BY <1>2 DEF NameStep, RunStarts, RunEnds, LatestLands, HistoryLands, WriterReturns,
                Unregister, Register
  <2>2. ASSUME NEW call \in late' \ late PROVE call.op # "alert"
    BY <1>2 DEF NameStep, RunStarts, RunEnds, LatestLands, HistoryLands, WriterReturns,
                Unregister, Register, callVars, GivenUp, Unlanded, CallOf, ResultInv,
                ResultCalls
  <2> QED BY <1>1, <2>1, <2>2
<1>3. CASE \/ ForgetCalled \/ ForgetLands \/ ForgetReturns \/ ForgetFails
           \/ FlushBegins \/ Flushed
  <2>1. UNCHANGED alertVars
    BY <1>3 DEF ForgetCalled, ForgetLands, ForgetReturns, ForgetFails, FlushBegins, Flushed
  <2>2. ASSUME NEW call \in late' \ late PROVE call.op # "alert"
    BY <1>3 DEF ForgetCalled, ForgetLands, ForgetReturns, ForgetFails, FlushBegins, Flushed,
                callVars, GivenUp, UnlandedForget, CallOf
  <2> QED BY <1>1, <2>1, <2>2
<1>4. ASSUME NEW call \in late, LateResultLands(call) \/ LateForgetLands(call)
      PROVE  AlertInv'
  BY <1>1, <1>4 DEF LateResultLands, LateForgetLands
<1>5. ASSUME NEW call \in late, LateAlertLands(call) PROVE AlertInv'
  BY <1>5 DEF LateAlertLands, AlertInv
<1>6. CASE UNCHANGED writerVars
  BY <1>1, <1>6 DEF writerVars, alertVars
<1> QED BY <1>2, <1>3, <1>4, <1>5, <1>6, AlertInvRecorded, AlertInvReturns, AlertInvTimeout,
           NextSteps
        DEF OtherStep, LateStep

LEMMA AlertInvAlways == WriterSpec => []AlertInv
BY AlertInvInit, AlertInvNext, ResultInvAlways, PTL DEF WriterSpec

\* Alert records are stored in the order of the changes and never twice, calls
\* that timed out aside: for any number of them and any bound of the backlog,
\* whichever are dropped.
THEOREM AlertsInOrder == WriterSpec => []AlertsStoredInOrder
<1>1. AlertInv => AlertsStoredInOrder
  BY LenProperties DEF AlertInv, AlertsStoredInOrder
<1> QED BY <1>1, AlertInvAlways, PTL

-----------------------------------------------------------------------------
(* Types.                                                                  *)

WriterTypes ==
    /\ registered \subseteq Name /\ running \subseteq Name
    /\ history \subseteq Name /\ raced \subseteq Name
    /\ made \in 0 .. MaxMade /\ late \subseteq Call
    /\ forgot \in BOOLEAN /\ cut \in BOOLEAN
    /\ closing \in {"open", "flushing", "closed"}
    /\ Len(backlog) <= MaxUnwritten

LEMMA WriterTypesInit == WriterInit => WriterTypes
<1> SUFFICES ASSUME WriterInit PROVE WriterTypes
  OBVIOUS
<1>1. Len(backlog) = 0 /\ backlog = << >>
  BY EmptySeq DEF WriterInit
<1>2. made \in 0 .. MaxMade /\ Len(backlog) <= MaxUnwritten
  BY <1>1, BoundAssumption DEF WriterInit
<1>3. /\ registered = Name /\ running = {} /\ history = {} /\ raced = {} /\ late = {}
      /\ forgot = FALSE /\ cut = FALSE /\ closing = "open"
  BY DEF WriterInit
<1> QED BY <1>2, <1>3 DEF WriterTypes

\* The backlog keeps to its bound.
LEMMA BacklogBounded ==
    ASSUME AlertInv, WriterTypes, AlertRecorded \/ AlertWriterReturns
    PROVE  Len(backlog') <= MaxUnwritten
<1> USE DEF AlertInv, WriterTypes
<1>0. /\ backlog \in Seq(Nat) /\ Len(backlog) \in Nat /\ Len(backlog) <= MaxUnwritten
      /\ MaxUnwritten \in Nat \ {0} /\ alerts + 1 \in Nat
  BY BoundAssumption, LenProperties
<1>1. ASSUME NEW q \in Seq(Nat), q # << >>, Len(q) <= MaxUnwritten
      PROVE  Len(Tail(q)) <= MaxUnwritten
  <2>1. Len(Tail(q)) = Len(q) - 1 /\ Len(q) \in Nat
    BY <1>1, HeadTailProperties, LenProperties
  <2> QED BY <1>0, <1>1, <2>1
<1>2. CASE AlertRecorded
  <2> DEFINE q == Pushed(backlog, alerts + 1)
  <2>1. q \in Seq(Nat) /\ q # << >>
    BY <1>0, PushedIsLast, Zenon
  <2>2. Len(q) <= MaxUnwritten
    <3>1. CASE Len(backlog) < MaxUnwritten
      <4>1. Len(Append(backlog, alerts + 1)) = Len(backlog) + 1
        BY <1>0, AppendProperties
      <4> QED BY <1>0, <3>1, <4>1 DEF Pushed
    <3>2. CASE ~(Len(backlog) < MaxUnwritten)
      <4>1. backlog # << >>
        BY <1>0, <3>2, EmptySeq
      <4>2. Tail(backlog) \in Seq(Nat) /\ Len(Tail(backlog)) = Len(backlog) - 1
        BY <1>0, <4>1, HeadTailProperties
      <4>3. Len(Append(Tail(backlog), alerts + 1)) = Len(backlog) - 1 + 1
        BY <1>0, <4>2, AppendProperties
      <4> QED BY <1>0, <3>2, <4>3 DEF Pushed
    <3> QED BY <3>1, <3>2
  <2>3. backlog' = q \/ backlog' = Tail(q)
    BY <1>2 DEF AlertRecorded
  <2> HIDE DEF q
  <2> QED BY <1>1, <2>1, <2>2, <2>3
<1>3. CASE AlertWriterReturns
  BY <1>0, <1>1, <1>3 DEF AlertWriterReturns
<1> QED BY <1>2, <1>3

\* What becomes late is a call.
LEMMA LateCalls ==
    ASSUME ResultInv, TrackedInv, AlertInv, late \subseteq Call, [WriterNext]_writerVars
    PROVE  late' \subseteq Call
<1> SUFFICES ASSUME NEW call \in late', call \notin late PROVE call \in Call
  OBVIOUS
<1>1. ASSUME NEW n \in Name, call \in Unlanded(n) PROVE call \in Call
  <2>1. PICK op \in pending[n] : call = CallOf(op, {n}, writing[n])
    BY <1>1 DEF Unlanded
  <2>2. op \in ResultCalls \cup {"forget", "alert"} /\ writing[n] \in Nat
    BY DEF ResultInv
  <2> QED BY <2>1, <2>2 DEF CallOf, Call
<1>2. CASE call \in UnlandedForget
  BY <1>2 DEF UnlandedForget, CallOf, Call, TrackedInv, None
<1>3. CASE call = CallOf("alert", {}, alertWrite)
  BY <1>3 DEF CallOf, Call, AlertInv
<1> QED BY <1>1, <1>2, <1>3, LateComes

LEMMA WriterTypesNext ==
    ResultInv /\ LateInv /\ TrackedInv /\ AlertInv /\ WriterTypes /\ [WriterNext]_writerVars
       => WriterTypes'
<1> SUFFICES ASSUME ResultInv, LateInv, TrackedInv, AlertInv, WriterTypes,
                    [WriterNext]_writerVars
             PROVE  WriterTypes'
  OBVIOUS
<1>0. late' \subseteq Call /\ MaxMade \in Nat
  BY LateCalls, BoundAssumption DEF WriterTypes
<1> USE DEF WriterTypes, resultVars, storeVars, forgetVars, alertVars, closeVars
<1>1. ASSUME NEW n \in Name, NameStep(n) PROVE WriterTypes'
  BY <1>0, <1>1
  DEF NameStep, RunStarts, RunEnds, LatestLands, HistoryLands, WriterReturns, Unregister,
      Register
<1>2. CASE AlertRecorded \/ AlertWriterReturns
  <2>1. Len(backlog') <= MaxUnwritten
    BY <1>2, BacklogBounded
  <2> QED BY <1>0, <1>2, <2>1 DEF AlertRecorded, AlertWriterReturns
<1>3. CASE \/ ForgetCalled \/ ForgetLands \/ ForgetReturns \/ ForgetFails
           \/ FlushBegins \/ Flushed \/ FlushTimeout
  BY <1>0, <1>3 DEF ForgetCalled, ForgetLands, ForgetReturns, ForgetFails, FlushBegins,
                    Flushed, FlushTimeout, Delete
<1>4. ASSUME NEW call \in late, LateResultLands(call) PROVE WriterTypes'
  <2>1. call.names \subseteq Name
    BY <1>4 DEF LateInv, LateResultLands
  <2> QED BY <1>0, <1>4, <2>1 DEF LateResultLands
<1>5. ASSUME NEW call \in late, LateForgetLands(call) \/ LateAlertLands(call)
      PROVE  WriterTypes'
  BY <1>0, <1>5 DEF LateForgetLands, LateAlertLands, Delete
<1>6. CASE UNCHANGED writerVars
  BY <1>6 DEF writerVars
<1> QED BY <1>1, <1>2, <1>3, <1>4, <1>5, <1>6, NextSteps DEF OtherStep, LateStep

\* The state always has the shape WriterTypeOK gives: the backlog never outgrows
\* _MAX_UNWRITTEN_ALERTS and holds nothing but records of this process.
THEOREM WriterTypeCorrect == WriterSpec => []WriterTypeOK
<1>1. ResultInv /\ TrackedInv /\ AlertInv /\ WriterTypes => WriterTypeOK
  <2> SUFFICES ASSUME ResultInv, TrackedInv, AlertInv, WriterTypes PROVE WriterTypeOK
    OBVIOUS
  <2>1. alerts \in Nat /\ alertWrite \in 0 .. alerts /\ stored \in 0 .. alerts
    BY DEF AlertInv
  <2>2. backlog \in Seq(1 .. alerts)
    <3>1. ASSUME NEW i \in 1 .. Len(backlog) PROVE backlog[i] \in 1 .. alerts
      <4>1. backlog[i] \in Nat
        BY ElementOfSeq DEF AlertInv
      <4>2. /\ stored < backlog[i] /\ backlog[i] <= alerts
            /\ stored \in Nat /\ alerts \in Nat
        BY DEF AlertInv
      <4> QED BY <4>1, <4>2
    <3>2. backlog \in [1 .. Len(backlog) -> Nat] /\ Len(backlog) \in Nat
      BY LenProperties DEF AlertInv
    <3>3. backlog \in [1 .. Len(backlog) -> 1 .. alerts]
      BY <3>1, <3>2
    <3> QED BY <3>2, <3>3, SeqDef
  <2> QED BY <2>1, <2>2 DEF ResultInv, TrackedInv, WriterTypes, WriterTypeOK
<1>2. WriterSpec => []WriterTypes
  BY WriterTypesInit, WriterTypesNext, ResultInvAlways, TrackedInvAlways, AlertInvAlways, PTL
  DEF WriterSpec
<1> QED BY <1>1, <1>2, ResultInvAlways, TrackedInvAlways, AlertInvAlways, PTL
=============================================================================
