---------------------------- MODULE MemoryStorage ----------------------------
(***************************************************************************)
(* InMemoryProbeStorage.  Ages are counted from the write (_cache_times,   *)
(* _history_times and the times in _alerts are taken there).  Counts are   *)
(* bounded by each write (deque maxlen), ages by reads, which filter and   *)
(* partly remove.  clear_latest, which nothing calls, configure, which is  *)
(* called before the first write, and the claims are left out.             *)
(***************************************************************************)
EXTENDS Retention

CONSTANTS Name, MaxResults, MaxAlerts, ResultTtl, AlertTtl

VARIABLES
    cache,   \* _cache and _cache_times: at most one entry per name
    past,    \* _history and _history_times
    log      \* _alerts

vars == <<cache, past, log>>

TypeOK ==
    /\ cache \in [Name -> Collections(1, ResultTtl + 1)]
    /\ past \in [Name -> Collections(MaxResults, ResultTtl + 1)]
    /\ log \in Collections(MaxAlerts, AlertTtl + 1)

Init ==
    /\ cache = [n \in Name |-> << >>]
    /\ past = [n \in Name |-> << >>]
    /\ log = << >>

SetLatest(n) ==
    /\ cache' = [cache EXCEPT ![n] = <<0>>]
    /\ UNCHANGED <<past, log>>

\* Mutant: a full deque takes nothing.
FullPushed(c, count) == IF Len(c) < count THEN Append(c, 0) ELSE c

\* append to a deque with maxlen: the oldest entry makes room.
Pushed(c, count) == Newest(Append(c, 0), count)

AppendHistory(n) ==
    /\ past' = [past EXCEPT ![n] = Pushed(@, MaxResults)]
    /\ UNCHANGED <<cache, log>>

AppendAlert ==
    /\ log' = Pushed(log, MaxAlerts)
    /\ UNCHANGED <<cache, past>>

Forget(names) ==
    /\ cache' = [n \in Name |-> IF n \in names THEN << >> ELSE cache[n]]
    /\ past' = [n \in Name |-> IF n \in names THEN << >> ELSE past[n]]
    /\ UNCHANGED log

\* get_latest of one name or get_all_latest: expired results are removed.
ReadLatest(names) ==
    /\ cache' = [n \in Name |-> IF n \in names THEN Within(cache[n], ResultTtl) ELSE cache[n]]
    /\ UNCHANGED <<past, log>>

\* get_alerts: expired alerts leave from the front.
ReadAlerts ==
    /\ log' = Within(log, AlertTtl)
    /\ UNCHANGED <<cache, past>>

Tick ==
    /\ cache' = [n \in Name |-> Aged(cache[n], ResultTtl + 1)]
    /\ past' = [n \in Name |-> Aged(past[n], ResultTtl + 1)]
    /\ log' = Aged(log, AlertTtl + 1)

\* What the reads return: get_history filters and removes nothing.
ShownLatest  == [n \in Name |-> Within(cache[n], ResultTtl)]
ShownHistory == [n \in Name |-> Within(past[n], ResultTtl)]
ShownAlerts  == Within(log, AlertTtl)
==============================================================================
