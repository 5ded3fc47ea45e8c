----------------------------- MODULE StatsWindow -----------------------------
(***************************************************************************)
(* Statistics over the last calls, kept by counting: each record adds the  *)
(* newest item and subtracts the one the full window drops, so that        *)
(* reading them does not walk the window.  Durations and what is computed  *)
(* from them (averages, percentiles, throughput) are left out.             *)
(***************************************************************************)
EXTENDS Naturals, Sequences, FiniteSets, Bags

CONSTANT WindowSize

\* A deque with maxlen.
Slid(window, item) ==
    Append(IF Len(window) = WindowSize THEN Tail(window) ELSE window, item)

------------------------------------------------------------------------------
\* Outcomes, 1 for an error, as in _RouteStats, PassiveProbe and the WebSocket
\* probe: totals, the run of errors, the window and the errors in it.
NoStats == [count |-> 0, errors |-> 0, streak |-> 0, window |-> << >>, failed |-> 0]

\* The errors of a full window's oldest call, about to be dropped.
Dropped(window) == IF Len(window) = WindowSize THEN window[1] ELSE 0

Counted(stats, isError) ==
    LET one == IF isError THEN 1 ELSE 0
    IN  [count  |-> stats.count + 1,
         errors |-> stats.errors + one,
         streak |-> IF isError THEN stats.streak + 1 ELSE 0,
         window |-> Slid(stats.window, one),
         failed |-> stats.failed - Dropped(stats.window) + one]

\* _error_rate is above this percentage of the window's calls.
ExceedsRate(stats, percent) == 100 * stats.failed > percent * Len(stats.window)

\* round(error_rate, 4) is: it is above by half a unit of the fourth decimal, or by
\* exactly that much (in windows of 20000 calls) if the floating point rounds it up.
ExceedsRounded(stats, percent, halfUp) ==
    \/ 20000 * stats.failed > (200 * percent + 1) * Len(stats.window)
    \/ halfUp /\ 20000 * stats.failed = (200 * percent + 1) * Len(stats.window)

\* The counters say what a walk of the window would.
StatsAgree(stats) ==
    LET failures == {i \in DOMAIN stats.window : stats.window[i] = 1}
    IN  /\ stats.failed = Cardinality(failures)
        /\ Len(stats.window) = IF stats.count < WindowSize THEN stats.count ELSE WindowSize
        /\ stats.streak <= stats.errors /\ stats.errors <= stats.count
        /\ \A i \in DOMAIN stats.window :
              i + stats.streak > Len(stats.window) => stats.window[i] = 1

------------------------------------------------------------------------------
\* The last items of a kind and how often each is among them (_status_window and
\* _status_counts, _error_type_window and _error_type_counts).
NoTally == [items |-> << >>, counts |-> EmptyBag]

Tallied(tally, item) ==
    LET kept == IF Len(tally.items) = WindowSize
                THEN tally.counts (-) SetToBag({Head(tally.items)})
                ELSE tally.counts
    IN  [items |-> Slid(tally.items, item), counts |-> kept (+) SetToBag({item})]

TallyAgrees(tally) ==
    /\ BagToSet(tally.counts) = {tally.items[i] : i \in DOMAIN tally.items}
    /\ \A item \in BagToSet(tally.counts) :
          tally.counts[item] = Cardinality({i \in DOMAIN tally.items : tally.items[i] = item})
==============================================================================
