---------------------------- MODULE StorageBackends ----------------------------
(***************************************************************************)
(* The two storage backends under the same calls, each shown to implement  *)
(* ProbeStorage: the in-memory one counting ages from the write (MaxLag    *)
(* 0), the Redis one from the check.                                       *)
(***************************************************************************)
EXTENDS Retention

CONSTANTS
    Name, MaxResults, MaxAlerts, ResultTtl, AlertTtl, MaxLag, Margin, Forever,
    MaxKept   \* bound: the entries in Redis before a write

\* _check_ttls and the counts' lower bound; a result is written well within its
\* time-to-live of its check.
ASSUME CountAssumption == MaxResults \in Nat \ {0} /\ MaxAlerts \in Nat \ {0}
ASSUME TtlAssumption == ResultTtl \in Nat /\ AlertTtl \in Nat
ASSUME LagAssumption ==
    /\ MaxLag \in Nat
    /\ ResultTtl = 0 \/ MaxLag <= ResultTtl
    /\ AlertTtl = 0 \/ MaxLag <= AlertTtl
ASSUME MarginAssumption == Margin \in Nat /\ Forever \notin Nat
ASSUME BoundAssumption == MaxKept \in Nat

VARIABLES
    cache, past, log,
    latestKey, historyKey, alertsKey, index, indexLeft

Memory == INSTANCE MemoryStorage
Redis  == INSTANCE RedisStorage

redisVars == <<latestKey, historyKey, alertsKey, index, indexLeft>>

vars == <<cache, past, log, latestKey, historyKey, alertsKey, index, indexLeft>>

MemoryPromise == INSTANCE ProbeStorage WITH
    MaxLag <- 0,
    latest <- Memory!ShownLatest, history <- Memory!ShownHistory, alerts <- Memory!ShownAlerts

RedisPromise == INSTANCE ProbeStorage WITH
    latest <- Redis!ShownLatest, history <- Redis!ShownHistory, alerts <- Redis!ShownAlerts

TypeOK == Memory!TypeOK /\ Redis!TypeOK

Init == Memory!Init /\ Redis!Init

------------------------------------------------------------------------------
EntriesKept ==
    LET lengths == [n \in Name |-> Len(latestKey[n].ages) + Len(historyKey[n].ages)]
        Sum[S \in SUBSET Name] ==
            IF S = {} THEN 0
            ELSE LET n == CHOOSE n \in S : TRUE IN lengths[n] + Sum[S \ {n}]
    IN  Sum[Name] + Len(alertsKey.ages)

MayWrite == EntriesKept <= MaxKept

SetLatest(n, age, wait) ==
    /\ MayWrite
    /\ Memory!SetLatest(n)
    /\ Redis!SetLatest(n, age, wait)

AppendHistory(n, age, wait) ==
    /\ MayWrite
    /\ Memory!AppendHistory(n)
    /\ Redis!AppendHistory(n, age, wait)

AppendAlert(age) ==
    /\ MayWrite
    /\ Memory!AppendAlert
    /\ Redis!AppendAlert(age)

Forget(names) == Memory!Forget(names) /\ Redis!Forget(names)

\* A read changes nothing in Redis.
ReadLatest(names) == Memory!ReadLatest(names) /\ UNCHANGED redisVars
ReadAlerts        == Memory!ReadAlerts /\ UNCHANGED redisVars

Tick == Memory!Tick /\ Redis!Tick

Next ==
    \/ \E n \in Name, age \in 0 .. MaxLag : \E wait \in 0 .. age :
          SetLatest(n, age, wait) \/ AppendHistory(n, age, wait)
    \/ \E age \in 0 .. MaxLag : AppendAlert(age)
    \/ \E names \in (SUBSET Name) \ {{}} : Forget(names) \/ ReadLatest(names)
    \/ ReadAlerts
    \/ Tick

Spec == Init /\ [][Next]_vars

------------------------------------------------------------------------------
\* Each call has exactly the effect promised of it: ProbeStorage alone would let a
\* backend take a write for a step that changes nothing.
MemoryCalls ==
    /\ \A n \in Name :
          /\ Memory!SetLatest(n) => MemoryPromise!SetLatest(n, 0)
          /\ Memory!AppendHistory(n) => MemoryPromise!AppendHistory(n, 0)
    /\ Memory!AppendAlert => MemoryPromise!AppendAlert(0)
    /\ \A names \in SUBSET Name : Memory!Forget(names) => MemoryPromise!Forget(names)

RedisCalls ==
    /\ \A n \in Name, age \in 0 .. MaxLag : \A wait \in 0 .. age :
          /\ Redis!SetLatest(n, age, wait) => RedisPromise!SetLatest(n, age)
          /\ Redis!AppendHistory(n, age, wait) => RedisPromise!AppendHistory(n, age)
    /\ \A age \in 0 .. MaxLag : Redis!AppendAlert(age) => RedisPromise!AppendAlert(age)
    /\ \A names \in SUBSET Name : Redis!Forget(names) => RedisPromise!Forget(names)

\* InMemoryProbeStorage implements ProbeStorage, call by call: dropping by count on
\* writes and by age on reads shows what dropping by both at once would.
MemoryKeepsPromise == MemoryPromise!Spec /\ [][MemoryCalls]_vars

\* RedisProbeStorage implements ProbeStorage, call by call: neither a key's expiry
\* nor pruning by a `now` that waited for a slot takes an entry that is still to be
\* shown.
RedisKeepsPromise == RedisPromise!Spec /\ [][RedisCalls]_vars

\* get_all_latest and get_history of all names show a probe by way of the index: it
\* lists every probe that has something to show, except in the last moments
\* of its time-to-live, when a call that waited may have moved its score back.
IndexCovers ==
    \A n \in Name : n \notin Redis!Listed =>
        \A c \in {Redis!ShownLatest[n], Redis!ShownHistory[n]} :
            \A i \in DOMAIN c : ResultTtl # 0 /\ c[i] + MaxLag > ResultTtl
==============================================================================
